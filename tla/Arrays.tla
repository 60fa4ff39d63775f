-------------------------------- MODULE Arrays -------------------------------
(***************************************************************************)
(* The algorithms on arrays of ints: the sorts of c++/src/sorting.cpp and  *)
(* sorts/mergeSort.c, the searches of c++/src/searching.cpp and            *)
(* binaryTree/SearchMatrix.cpp, and binaryTree/Duplication.cpp.  An array  *)
(* of n elements is a function on 0 .. n-1.                                *)
(***************************************************************************)
EXTENDS Integers, Sequences, FiniteSetsExt, SequencesExt

\* The values of a loop counter, in order.
Loop(from, to) == [i \in 1 .. to - from + 1 |-> from + i - 1]

\* The elements from index l to index r.
Slice(a, l, r) == [i \in 1 .. r - l + 1 |-> a[l + i - 1]]

swap(a, i, j) == [a EXCEPT ![i] = a[j], ![j] = a[i]]
\* The array that sorting.cpp starts from
unsorted == [i \in 0 .. 8 |-> <<14, 33, 27, 10, 35, 30, 19, 42, 44>>[i + 1]]
-----------------------------------------------------------------------------
bubble_sort(a, n) ==
  LET round(b, i) ==
        FoldLeft(LAMBDA c, j : IF c[j] < c[i] THEN swap(c, i, j) ELSE c,
                 b, Loop(i + 1, n - 1))
  IN FoldLeft(round, a, Loop(0, n - 2))

\* The while loop looks at one element less, and never at the first.
HoleFromOne(a, i) ==
  Min({h \in 1 .. i : \A k \in h .. i - 1 : a[k] > a[i]})

\* Where the while loop leaves the hole for a[i].
Hole(a, i) ==
  Min({h \in 0 .. i : \A k \in h .. i - 1 : a[k] > a[i]})

insertion_sort(a, n) ==
  LET insert(b, i) ==
        [k \in DOMAIN b |-> IF k = Hole(b, i) THEN b[i]
                            ELSE IF k \in Hole(b, i) + 1 .. i THEN b[k - 1]
                            ELSE b[k]]
  IN FoldLeft(insert, a, Loop(1, n - 1))

selection_sort(a, n) ==
  LET min_index(b, i) ==
        FoldLeft(LAMBDA m, j : IF b[j] < b[m] THEN j ELSE m, i, Loop(i + 1, n - 1))
  IN FoldLeft(LAMBDA b, i : swap(b, min_index(b, i), i), a, Loop(0, n - 1))

\* The elements of left and right as the first loop of merge writes them,
\* and then what one of the other two loops adds.
RECURSIVE Merged(_, _)
Merged(left, right) ==
  IF left = <<>> \/ right = <<>> THEN left \o right
  ELSE IF Head(left) < Head(right)
    THEN <<Head(left)>> \o Merged(Tail(left), right)
    ELSE <<Head(right)>> \o Merged(left, Tail(right))

merge(arr, l, m, r) ==
  LET s == Merged(Slice(arr, l, m), Slice(arr, m + 1, r))
  IN [i \in DOMAIN arr |-> IF i \in l .. r THEN s[i - l + 1] ELSE arr[i]]

RECURSIVE mergeSort(_, _, _)
mergeSort(arr, l, r) ==
  LET m == l + (r - l) \div 2 IN
  IF l >= r THEN arr
  ELSE merge(mergeSort(mergeSort(arr, l, m), m + 1, r), l, m, r)

\* The program of mergeSort.c: its arguments, sorted.
sortArguments(arr, size) == mergeSort(arr, 0, size - 1)
-----------------------------------------------------------------------------
\* The list that searching.cpp searches, and what for
searched == [a |-> [i \in 0 .. 7 |-> <<10, 14, 19, 27, 33, 35, 42, 44>>[i + 1]],
             x |-> 42]

linear_search(a, n, x) ==
  LET stops == {i \in 0 .. n - 1 : a[i] >= x}
  IN IF stops = {} \/ a[Min(stops)] > x THEN -1 ELSE Min(stops)

\* The loop that binary_search and searchMatrix share
RECURSIVE Halve(_, _, _, _)
Halve(at, low, high, x) ==
  LET mid == low + (high - low) \div 2 IN
  IF low > high THEN -1
  ELSE IF at[mid] = x THEN mid
  ELSE IF at[mid] < x THEN Halve(at, mid + 1, high, x)
                      ELSE Halve(at, low, mid - 1, x)

binary_search(a, n, x) == Halve(a, 0, n - 1, x)

\* Row and column changed over.
CellTransposed(mat, cols, mid) == mat[mid % cols][mid \div cols]

Cell(mat, cols, mid) == mat[mid \div cols][mid % cols]

searchMatrix(mat, rows, cols, value) ==
  Halve([mid \in 0 .. rows * cols - 1 |-> Cell(mat, cols, mid)],
        0, rows * cols - 1, value)

\* The matrix of SearchMatrix.cpp, for any number of rows and columns
matrix(rows, cols) ==
  [i \in 0 .. rows - 1 |-> [j \in 0 .. cols - 1 |-> i * 6 + j * 2 + 1]]

\* A division by zero, a read outside the array, or a loop that never ends
Fault == -2

\* low and high in the rounds so far are in `seen'.  C's quotient, rounded
\* towards zero, is that of \div: neither operand is negative.
RECURSIVE Interpolate(_, _, _, _, _)
Interpolate(a, low, high, x, seen) ==
  LET mid == low + ((high - low) \div (a[high] - a[low])) * (x - a[low])
      next(l, h) == Interpolate(a, l, h, x, seen \cup {<<low, high>>})
  IN IF low > high THEN -1
     ELSE IF \/ <<low, high>> \in seen
             \/ a[high] = a[low] \/ mid \notin DOMAIN a THEN Fault
     ELSE IF a[mid] = x THEN mid
     ELSE IF a[mid] < x THEN next(mid + 1, high) ELSE next(low, mid - 1)

interpolation_search(a, n, x) == Interpolate(a, 0, n - 1, x, {})

\* arr holds numbers below length
RECURSIVE Duplicated(_, _)
Duplicated(arr, i) ==
  IF i \notin DOMAIN arr THEN 0
  ELSE IF arr[i] = i THEN Duplicated(arr, i + 1)
  ELSE IF arr[arr[i]] = arr[i] THEN 1
  ELSE Duplicated(swap(arr, i, arr[i]), i + 1)

findDuplication(arr) == Duplicated(arr, 0)

\* The array of Duplication.cpp
permuted == [i \in 0 .. 5 |-> <<3, 1, 2, 0, 4, 5>>[i + 1]]
=============================================================================
