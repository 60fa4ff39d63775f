----------------------------- MODULE BinaryTrees -----------------------------
(***************************************************************************)
(* The binary trees of binaryTree/ (walks, printing by levels, paths with  *)
(* a given sum, freeing) and the search tree of c++/src/tree.cpp.          *)
(*                                                                         *)
(* A node is known by where it is: the root is 1, and the children of p    *)
(* are 2p and 2p+1.  A tree is a function from its nodes to their values;  *)
(* a pointer that is NULL is a place outside its domain.                   *)
(***************************************************************************)
EXTENDS Integers, Sequences, SequencesExt

Left(p) == 2 * p
Right(p) == 2 * p + 1

\* The children a node has, left before right.
Children(t, p) == SelectSeq(<<Left(p), Right(p)>>, LAMBDA c : c \in DOMAIN t)

newNode(value) == 1 :> value

RECURSIVE inOrderTraversal(_, _)
inOrderTraversal(t, p) ==
  IF p \notin DOMAIN t THEN <<>>
  ELSE inOrderTraversal(t, Left(p)) \o <<t[p]>> \o inOrderTraversal(t, Right(p))

RECURSIVE preOrderTraversal(_, _)
preOrderTraversal(t, p) ==
  IF p \notin DOMAIN t THEN <<>>
  ELSE <<t[p]>> \o preOrderTraversal(t, Left(p)) \o preOrderTraversal(t, Right(p))

RECURSIVE postOrderTraversal(_, _)
postOrderTraversal(t, p) ==
  IF p \notin DOMAIN t THEN <<>>
  ELSE postOrderTraversal(t, Left(p)) \o postOrderTraversal(t, Right(p)) \o <<t[p]>>

\* The nodes in the order they are freed.
RECURSIVE freeTree(_, _)
freeTree(t, p) ==
  IF p \notin DOMAIN t THEN <<>>
  ELSE freeTree(t, Left(p)) \o freeTree(t, Right(p)) \o <<p>>
-----------------------------------------------------------------------------
\* The lines the loop prints from here on: `line' is the one begun, queue
\* the nodes still to be printed, toBePrinted those of them on this level.
RECURSIVE ByLevels(_, _, _, _, _)
ByLevels(t, queue, toBePrinted, nextLevel, line) ==
  IF queue = <<>> THEN <<>>
  ELSE LET p == Head(queue)
           rest == Tail(queue) \o Children(t, p)
           next == nextLevel + Len(Children(t, p))
           printed == Append(line, t[p])
       IN IF toBePrinted = 1
            THEN <<printed>> \o ByLevels(t, rest, next, 0, <<>>)
            ELSE ByLevels(t, rest, toBePrinted - 1, next, printed)

printTopToBottom(t) ==
  IF 1 \notin DOMAIN t THEN <<>> ELSE ByLevels(t, <<1>>, 1, 0, <<>>)

\* The children are pushed left first on every level.
PushedLeftFirst(t, p, current) == Children(t, p)

\* The order in which the children are pushed.
PushOrder(t, p, current) ==
  IF current = 0 THEN Children(t, p) ELSE Reverse(Children(t, p))

\* levels is the pair of stacks, levels[current] the one being emptied.
RECURSIVE ZigZag(_, _, _, _)
ZigZag(t, levels, current, line) ==
  IF levels[0] = <<>> /\ levels[1] = <<>> THEN <<>>
  ELSE LET p == Last(levels[current])
           pushed == [levels EXCEPT ![current] = Front(@),
                                    ![1 - current] = @ \o PushOrder(t, p, current)]
           printed == Append(line, t[p])
       IN IF pushed[current] = <<>>
            THEN <<printed>> \o ZigZag(t, pushed, 1 - current, <<>>)
            ELSE ZigZag(t, pushed, current, printed)

printZigZag(t) ==
  IF 1 \notin DOMAIN t THEN <<>>
  ELSE ZigZag(t, (0 :> <<1>>) @@ (1 :> <<>>), 0, <<>>)

\* The paths printed, in order.
RECURSIVE findPath(_, _, _, _, _)
findPath(t, p, expectedSum, path, currentSum) ==
  LET here == Append(path, t[p])
      sum == currentSum + t[p]
  IN IF p \notin DOMAIN t THEN <<>>
     ELSE IF Children(t, p) = <<>>
       THEN IF sum = expectedSum THEN <<here>> ELSE <<>>
     ELSE findPath(t, Left(p), expectedSum, here, sum)
            \o findPath(t, Right(p), expectedSum, here, sum)

findPathWithSum(t, expectedSum) == findPath(t, 1, expectedSum, <<>>, 0)

\* The tree that traversal.cpp walks
walked == <<8, 6, 10, 5, 7, 9, 11>>

\* The trees and sums of pathSum.cpp, with the number of paths expected
PathTest(t, sum, paths) == [t |-> t, sum |-> sum, paths |-> paths]
PathTests ==
  {PathTest(<<10, 5, 12, 4, 7>>, 22, 2),      \* testOneOrMorePaths
   PathTest(<<10, 5, 12, 4, 7>>, 23, 0),      \* testNoPath
   PathTest(newNode(10), 5, 0),               \* testOneNode
   PathTest(newNode(10) @@ (2 :> 5) @@ (4 :> 4) @@ (8 :> 7), 26, 1),
   PathTest(<<>>, 23, 0)}                     \* testNullRoot
-----------------------------------------------------------------------------
(* tree.cpp *)

\* Where the walk for data ends: at its node, or at the place for it.
RECURSIVE Place(_, _, _)
Place(t, p, data) ==
  IF p \notin DOMAIN t \/ t[p] = data THEN p
  ELSE Place(t, IF t[p] < data THEN Right(p) ELSE Left(p), data)

insert(t, data) ==
  LET p == Place(t, 1, data) IN IF p \in DOMAIN t THEN t ELSE t @@ (p :> data)

\* The node, or 0 for NULL
search(t, data) ==
  LET p == Place(t, 1, data) IN IF p \in DOMAIN t THEN p ELSE 0

preorderTraversal(t) == preOrderTraversal(t, 1)
inorderTraversal(t) == inOrderTraversal(t, 1)
postorderTraversal(t) == postOrderTraversal(t, 1)

\* What main inserts
inserted == <<5, 3, 2, 4, 8, 7, 10>>
=============================================================================
