---------------------------- MODULE MCAlgorithms -----------------------------
(***************************************************************************)
(* The sample programs that compute something and end.  The first state    *)
(* says which one runs: a graph search, the packet sniffer, the tower of   *)
(* Hanoi, the checksum, or a function called with an input from the sets   *)
(* below, whose result goes to `out'.                                      *)
(***************************************************************************)
EXTENDS GraphSearch, Sniffer, HanoiTower, ChecksumCall, FiniteSetsExt, SequencesExt

CONSTANT None

VARIABLES program,
          in, out    \* the input and the result of a function

fnVars == <<in, out>>

A == INSTANCE Arrays
T == INSTANCE BinaryTrees

\* Packets around each test of got_packet, and payloads around the ends of
\* one, two and three rows.
Packets ==
  [ip_hl : {4, 5, 6}, ip_p : {"tcp", "udp"}, th_off : {4, 5},
   ip_len : {39, 40} \cup {40 + n : n \in {1, 7, 8, 15, 16, 17, 32, 33}}]
-----------------------------------------------------------------------------
(* Inputs *)

Array(n, V) == [0 .. n - 1 -> V]
Ascending(a) == \A i \in DOMAIN a : i + 1 \in DOMAIN a => a[i] <= a[i + 1]

SortInput == UNION {Array(n, 0 .. 3) : n \in 0 .. 4} 
               \cup {[i \in 0 .. 5 |-> A!unsorted[i]]}
SearchInput ==
  [a : {a \in UNION {Array(n, 0 .. 5) : n \in 0 .. 4} : Ascending(a)}, x : -1 .. 6]
    \cup [a : {A!searched.a}, x : {9, 10, 15, 44, A!searched.x}]
MatrixInput == [rows : 1 .. 3, cols : 1 .. 3, x : 0 .. 19]
DuplicateInput == UNION {Array(n, 0 .. n - 1) : n \in 0 .. 4} \cup {A!permuted}

\* Every tree of at most three levels with the values 1 and 2
SmallTree ==
  UNION {[N -> {1, 2}] : N \in {M \in SUBSET (1 .. 7) :
                                  \A p \in M \ {1} : p \div 2 \in M}}
WalkInput == SmallTree \cup {T!walked}
PathInput == [t : SmallTree, sum : 1 .. 6, paths : {None}] \cup T!PathTests
InsertInput == UNION {[1 .. n -> 1 .. 4] : n \in 0 .. 4} \cup {T!inserted}

\* Enough 255s that folding the sum carries twice
BytesInput == UNION {[1 .. n -> {0, 1, 255}] : n \in 0 .. 6}

Call(f, args) == [f : {f}, arg : args]
Inputs ==
  Call("sort", SortInput) \cup Call("search", SearchInput)
    \cup Call("matrix", MatrixInput) \cup Call("duplicate", DuplicateInput)
    \cup Call("walk", WalkInput) \cup Call("paths", PathInput)
    \cup Call("insert", InsertInput)
-----------------------------------------------------------------------------
Size(a) == Cardinality(DOMAIN a)

Result(f, x) ==
  CASE f = "sort" -> [bubble |-> A!bubble_sort(x, Size(x)),
                      insertion |-> A!insertion_sort(x, Size(x)),
                      selection |-> A!selection_sort(x, Size(x)),
                      merge |-> A!sortArguments(x, Size(x))]
    [] f = "search" -> [linear |-> A!linear_search(x.a, Size(x.a), x.x),
                        binary |-> A!binary_search(x.a, Size(x.a), x.x),
                        interpolation |-> A!interpolation_search(x.a, Size(x.a), x.x)]
    [] f = "matrix" -> A!searchMatrix(A!matrix(x.rows, x.cols), x.rows, x.cols, x.x)
    [] f = "duplicate" -> A!findDuplication(x)
    [] f = "walk" -> [pre |-> T!preOrderTraversal(x, 1),
                      in |-> T!inOrderTraversal(x, 1),
                      post |-> T!postOrderTraversal(x, 1),
                      freed |-> T!freeTree(x, 1),
                      levels |-> T!printTopToBottom(x),
                      zigzag |-> T!printZigZag(x)]
    [] f = "paths" -> T!findPathWithSum(x.t, x.sum)
    [] f = "insert" -> FoldLeft(T!insert, <<>>, x)

FunctionInit == in \in Inputs /\ out = None
CallReturns == out = None /\ out' = Result(in.f, in.arg) /\ UNCHANGED in

AlgorithmsInit ==
  /\ program \in {"graph", "sniffer", "hanoi", "checksum", "function"}
  /\ IF program = "function" THEN FunctionInit ELSE in = None /\ out = None
  /\ SnifferInit /\ (program # "sniffer" => argc = 1)
  /\ HanoiInit
  /\ ChecksumInit /\ (program # "checksum" => buf = <<>>)
  /\ Init
  /\ program # "graph" => \A i, j \in Index : ~adjMatrix[i][j]

AlgorithmsNext ==
  /\ UNCHANGED program
  /\ \/ program = "graph" /\ Next /\ UNCHANGED <<fnVars, snVars, hanoiVars, csVars>>
     \/ program = "sniffer" /\ SnifferNext /\ UNCHANGED <<vars, fnVars, hanoiVars, csVars>>
     \/ program = "hanoi" /\ HanoiNext /\ UNCHANGED <<vars, fnVars, snVars, csVars>>
     \/ program = "checksum" /\ Csum /\ UNCHANGED <<vars, fnVars, snVars, hanoiVars>>
     \/ program = "function" /\ CallReturns
          /\ UNCHANGED <<vars, snVars, hanoiVars, csVars>>

AlgorithmsSpec ==
  /\ AlgorithmsInit
  /\ [][AlgorithmsNext]_<<program, vars, fnVars, snVars, hanoiVars, csVars>>
-----------------------------------------------------------------------------
Returned(f) == program = "function" /\ in.f = f /\ out # None

\* The indices of x in a
Occurrences(a, x) == {i \in DOMAIN a : a[i] = x}

(***************************************************************************)
(* The four sorts return the elements they were given, in ascending order. *)
(* On a sorted array linear_search returns the first place of x,           *)
(* binary_search and searchMatrix some place, and all three -1 only if     *)
(* there is none; interpolation_search does so where it does not fault or  *)
(* loop for ever; it does neither when the elements are distinct and x is  *)
(* one of them but not the last.  findDuplication claims a duplicate only  *)
(* if there is one.                                                        *)
(***************************************************************************)
ArraysRight ==
  LET a == in.arg IN
  /\ Returned("sort") => \A s \in {out[alg] : alg \in DOMAIN out} :
       /\ Ascending(s) /\ DOMAIN s = DOMAIN a
       /\ \A i \in DOMAIN a :
            Cardinality(Occurrences(s, a[i])) = Cardinality(Occurrences(a, a[i]))
  /\ Returned("search") =>
       LET places == Occurrences(a.a, a.x)
           right == IF places = {} THEN {-1} ELSE places
           distinct == \A i, j \in DOMAIN a.a : a.a[i] = a.a[j] => i = j
       IN /\ out.linear = Min(right) /\ out.binary \in right
          /\ out.interpolation \in right \cup {A!Fault}
          /\ distinct /\ places # {} /\ Size(a.a) - 1 \notin places =>
               out.interpolation \in places
  /\ Returned("matrix") =>
       LET m == A!matrix(a.rows, a.cols)
           places == {k \in 0 .. a.rows * a.cols - 1 :
                        \E i \in DOMAIN m : \E j \in DOMAIN m[i] :
                          k = i * a.cols + j /\ m[i][j] = a.x}
       IN IF places = {} THEN out = -1 ELSE out \in places
  /\ Returned("duplicate") =>
       (out = 1 => \E i, j \in DOMAIN a : i # j /\ a[i] = a[j])

\* Depth of a node of a tree with at most three levels, and where a drawing
\* of the tree has it from left to right
Depth(p) == IF p = 1 THEN 0 ELSE IF p < 4 THEN 1 ELSE 2
Across(p) == (2 * (p - 2 ^ Depth(p)) + 1) * 2 ^ (2 - Depth(p))
Below(p, q) == \E k \in 1 .. 3 : p \div 2 ^ k = q

\* The values of the nodes of t in N, ordered by op
InOrderOf(t, N, op(_, _)) ==
  LET s == SetToSortSeq(N, op) IN [i \in DOMAIN s |-> t[s[i]]]

\* The values from the root to p
RECURSIVE PathTo(_, _)
PathTo(t, p) == IF p = 0 THEN <<>> ELSE Append(PathTo(t, p \div 2), t[p])

(***************************************************************************)
(* Each walk visits every node once, in the order its name says, judged by *)
(* where the nodes are in a drawing of the tree: inOrder from left to      *)
(* right, preOrder a node before and postOrder after what is below it;     *)
(* printTopToBottom and printZigZag give one line to a level.  freeTree    *)
(* frees every node once and none before the nodes reached through it.     *)
(***************************************************************************)
WalksRight ==
  Returned("walk") =>
    LET t == in.arg
        N == DOMAIN t
        left(p, q) == Across(p) < Across(q)
        level(d) == {p \in N : Depth(p) = d}
        height == Cardinality({Depth(p) : p \in N})
    IN /\ out.in = InOrderOf(t, N, left)
       /\ out.pre = InOrderOf(t, N, LAMBDA p, q :
                      Below(q, p) \/ (~Below(p, q) /\ left(p, q)))
       /\ out.post = InOrderOf(t, N, LAMBDA p, q :
                       Below(p, q) \/ (~Below(q, p) /\ left(p, q)))
       /\ out.levels = [d \in 1 .. height |-> InOrderOf(t, level(d - 1), left)]
       /\ out.zigzag = [d \in 1 .. height |->
                          IF d % 2 = 1 THEN out.levels[d] ELSE Reverse(out.levels[d])]
       /\ ToSet(out.freed) = N /\ Len(out.freed) = Cardinality(N)
       /\ \A i, j \in DOMAIN out.freed : Below(out.freed[i], out.freed[j]) => i < j

(***************************************************************************)
(* The walks are right.                                                    *)
(* findPathWithSum prints the paths from the root to a leaf with the sum   *)
(* asked for, all of them and no other, as many as the tests' names say.   *)
(* Trees built by Tree::insert hold each value once: inorder is ascending, *)
(* search finds the values inserted and only those, and inserting them     *)
(* again in preorder gives the same tree.                                  *)
(***************************************************************************)
TreesRight ==
  LET x == in.arg IN
  /\ WalksRight
  /\ Returned("paths") =>
       LET leaves == {p \in DOMAIN x.t : T!Children(x.t, p) = <<>>}
           meets(p) == FoldLeft(+, 0, PathTo(x.t, p)) = x.sum
       IN /\ ToSet(out) = {PathTo(x.t, p) : p \in {q \in leaves : meets(q)}}
          /\ Len(out) = Cardinality({q \in leaves : meets(q)})
          /\ x.paths \in {None, Len(out)}
  /\ Returned("insert") =>
       LET walk == T!inorderTraversal(out) IN
       /\ \A i \in DOMAIN walk : i > 1 => walk[i - 1] < walk[i]
       /\ ToSet(walk) = ToSet(x) /\ Len(T!postorderTraversal(out)) = Len(walk)
       /\ \A v \in 0 .. 10 : LET p == T!search(out, v) IN
            IF v \in ToSet(x) THEN p \in DOMAIN out /\ out[p] = v ELSE p = 0
       /\ FoldLeft(T!insert, <<>>, T!preorderTraversal(out)) = out
=============================================================================
