----------------------------- MODULE CppProofs ------------------------------
(***************************************************************************)
(* The programs of c++/src: the searches of graph.cpp for every graph, and *)
(* the towers of hanoi_tower.cpp for every number of disks.                *)
(***************************************************************************)
EXTENDS GraphSearch, HanoiTower, CommonLemmas, SequenceTheorems

-----------------------------------------------------------------------------
(***************************************************************************)
(* graph.cpp on every graph.  Two facts carry the proof: a marked vertex   *)
(* whose neighbours are not all marked is still on the Stack or Queue, and *)
(* each of their elements has a mark of its own, so that a push always     *)
(* finds room.                                                             *)
(***************************************************************************)
\* Vertex i is on the Stack or the Queue.
OnWork(i) == \E p \in 1 .. Len(work) : work[p] = i

\* The vertices an edge leads to
Neighbours(i) == {j \in Vertex : adjMatrix[i][j]}

\* What the first search keeps.
FirstSearch ==
  /\ \A i \in visited : OnWork(i) \/ Neighbours(i) \subseteq visited
  /\ \A T \in SUBSET Vertex : Closed(T) => visited \subseteq T
  /\ {shown[p] : p \in 1 .. Len(shown)} = visited
  /\ \A p, q \in 1 .. Len(shown) : shown[p] = shown[q] => p = q

\* The inductive invariant of the searches
IInv ==
  /\ TypeOK
  /\ mode = "build" => work = <<>>
  /\ searches = 0 => mode = "build" /\ visited = {}
  /\ mode # "build" => 0 \in visited
  /\ \A p \in 1 .. Len(work) : work[p] \in visited
  /\ Len(work) <= Cardinality(visited)
  /\ mode # "build" /\ searches = 1 => FirstSearch

\* getAdjUnvisitedVertex answers a neighbour without a mark, or -1 if there
\* is none.
LEMMA AdjUnvisitedVertex ==
  ASSUME TypeOK, NEW i \in Vertex
  PROVE  LET j == getAdjUnvisitedVertex(i) IN
           /\ j # -1 => j \in AdjUnvisited(i)
           /\ j = -1 => AdjUnvisited(i) = {}
<1>1. AdjUnvisited(i) \in SUBSET Nat
  BY DEF AdjUnvisited, Vertex, TypeOK
<1>2. CASE AdjUnvisited(i) = {}
  BY <1>2 DEF getAdjUnvisitedVertex
<1>3. CASE AdjUnvisited(i) # {}
  <2>1. getAdjUnvisitedVertex(i) \in AdjUnvisited(i)
    BY <1>1, <1>3, LeastMember DEF getAdjUnvisitedVertex
  <2>. QED
    BY <1>1, <2>1
<1>. QED
  BY <1>2, <1>3

\* The marks are a finite set; one more makes it one larger, and there are
\* at most vertex_count of them.
LEMMA MarksAreFinite ==
  ASSUME TypeOK
  PROVE  /\ IsFiniteSet(visited) /\ Cardinality(visited) \in Nat
         /\ Cardinality(visited) <= vertex_count
         /\ \A j \in Vertex \ visited :
              /\ Cardinality(visited \cup {j}) = Cardinality(visited) + 1
              /\ Cardinality(visited) + 1 <= vertex_count
<1>1. IsFiniteSet(Vertex) /\ Cardinality(Vertex) = vertex_count
  <2>1. vertex_count \in Nat
    BY CapacityAssumption DEF TypeOK
  <2>2. /\ IsFiniteSet(0 .. vertex_count - 1)
        /\ Cardinality(0 .. vertex_count - 1) =
             IF 0 > vertex_count - 1 THEN 0 ELSE vertex_count - 1 - 0 + 1
    BY <2>1, FS_Interval
  <2>. QED
    BY <2>1, <2>2 DEF Vertex
<1>2. ASSUME NEW S \in SUBSET Vertex
      PROVE  IsFiniteSet(S) /\ Cardinality(S) \in Nat /\ Cardinality(S) <= vertex_count
  BY <1>1, FS_Subset, FS_CardinalityType
<1>3. visited \in SUBSET Vertex
  BY DEF TypeOK
<1>4. ASSUME NEW j \in Vertex \ visited
      PROVE  /\ Cardinality(visited \cup {j}) = Cardinality(visited) + 1
             /\ Cardinality(visited) + 1 <= vertex_count
  <2>1. Cardinality(visited \cup {j}) = Cardinality(visited) + 1
    BY <1>2, <1>3, FS_AddElement
  <2>2. visited \cup {j} \in SUBSET Vertex
    BY <1>3
  <2>. QED
    BY <1>2, <2>1, <2>2
<1>. QED
  BY <1>2, <1>3, <1>4

\* Each step of graph.cpp keeps the invariant: main before the graph is built
LEMMA InitIInv == Init => IInv
<1>. SUFFICES ASSUME Init PROVE IInv
  OBVIOUS
<1>1. TypeOK
  BY CapacityAssumption DEF Init, TypeOK, Vertex
<1>2. Len(work) <= Cardinality(visited)
  BY FS_EmptySet DEF Init
<1>. QED
  BY <1>1, <1>2 DEF Init, IInv

\* Adding vertices and edges happens between searches.
LEMMA BuildIInv == ASSUME IInv, Build PROVE IInv'
<1>1. CASE addVertex
  <2>1. vertex_count' \in 0 .. capacity /\ Vertex \subseteq Vertex'
    BY <1>1, CapacityAssumption DEF addVertex, IInv, TypeOK, Vertex
  <2>2. TypeOK'
    BY <1>1, <2>1 DEF addVertex, IInv, TypeOK
  <2>. QED
    BY <1>1, <2>2 DEF addVertex, IInv
<1>2. ASSUME NEW start \in Vertex, NEW end \in Vertex, addEdge(start, end)
      PROVE  IInv'
  <2>1. start \in Index /\ end \in Index
    BY CapacityAssumption DEF IInv, TypeOK, Vertex, Index
  <2>2. adjMatrix' \in [Index -> [Index -> BOOLEAN]]
    BY <1>2, <2>1, Zenon DEF addEdge, IInv, TypeOK
  <2>3. TypeOK'
    BY <1>2, <2>2, Zenon DEF addEdge, IInv, TypeOK, Vertex
  <2>. QED
    BY <1>2, <2>3 DEF addEdge, IInv
<1>. QED
  BY <1>1, <1>2 DEF Build

\* dfs and bfs mark, print and push vertex 0.
LEMMA BeginIInv ==
  ASSUME IInv, NEW m \in {"depth", "breadth"}, Begin(m)
  PROVE  IInv'
<1>1. 0 \in Vertex /\ Vertex' = Vertex
  BY DEF Begin, graph, IInv, TypeOK, Vertex
<1>2. work' = <<0>>
  BY CapacityAssumption DEF Begin, Pushed
<1>3. TypeOK'
  <2>1. <<0>> \in Seq(Vertex')
    BY <1>1
  <2>2. visited' \in SUBSET Vertex' /\ mode' \in {"build", "depth", "breadth"}
    BY <1>1 DEF Begin, IInv, TypeOK
  <2>3. adjMatrix' = adjMatrix /\ vertex_count' = vertex_count
    BY DEF Begin, graph
  <2>4. shown' = <<0>> /\ searches' \in Nat
    BY DEF Begin, IInv, TypeOK
  <2>. QED
    BY <1>2, <2>1, <2>2, <2>3, <2>4 DEF IInv, TypeOK
<1>4. Len(work') <= Cardinality(visited')
  <2>1. IsFiniteSet(visited') /\ {0} \subseteq visited'
    BY <1>3, MarksAreFinite, FS_AddElement DEF Begin, IInv
  <2>2. Cardinality({0}) <= Cardinality(visited') /\ Cardinality({0}) = 1
    BY <2>1, FS_Subset, FS_Singleton, Zenon
  <2>. QED
    BY <1>2, <2>2
<1>5. ASSUME searches' = 1 PROVE FirstSearch'
  <2>1. visited' = {0} /\ shown' = <<0>>
    BY <1>5 DEF Begin, IInv, TypeOK
  <2>2. OnWork(0)'
    BY <1>2 DEF OnWork
  <2>3. \A T \in SUBSET Vertex' : Closed(T)' => visited' \subseteq T
    BY <2>1 DEF Closed
  <2>. QED
    BY <2>1, <2>2, <2>3 DEF FirstSearch
<1>6. mode' # "build" /\ 0 \in visited' /\ searches' # 0
  BY DEF Begin, IInv, TypeOK
<1>7. \A p \in 1 .. Len(work') : work'[p] \in visited'
  BY <1>2, <1>6
<1>. QED
  BY <1>7, <1>3, <1>4, <1>5, <1>6 DEF IInv

\* A vertex not yet marked is marked, printed and pushed.
LEMMA VisitIInv == ASSUME IInv, Visit PROVE IInv'
<1>1. PICK i : i = Peek(work) /\ i \in Vertex /\ i \in visited
  BY DEF Visit, Peek, IInv, TypeOK
<1>2. PICK j : j = getAdjUnvisitedVertex(i) /\ j \in AdjUnvisited(i)
  BY <1>1, AdjUnvisitedVertex DEF Visit, IInv
<1>3. j \in Vertex /\ adjMatrix[i][j] /\ j \notin visited
  BY <1>2 DEF AdjUnvisited
<1>4. /\ Cardinality(visited \cup {j}) = Cardinality(visited) + 1
      /\ Cardinality(visited) + 1 <= vertex_count /\ Cardinality(visited) \in Nat
  BY <1>3, MarksAreFinite DEF IInv
<1>5. work' = Append(work, j) /\ Len(work') = Len(work) + 1
  BY <1>1, <1>2, <1>4 DEF Visit, Pushed, IInv, TypeOK
<1>6. Vertex' = Vertex /\ visited' = visited \cup {j} /\ shown' = Append(shown, j)
  BY <1>1, <1>2 DEF Visit, graph, Vertex
<1>7. TypeOK'
  BY <1>3, <1>5, <1>6 DEF Visit, graph, IInv, TypeOK
<1>8. Len(work') <= Cardinality(visited')
  BY <1>4, <1>5, <1>6 DEF IInv, TypeOK
<1>9. ASSUME searches' = 1 PROVE FirstSearch'
  <2>1. FirstSearch
    BY <1>9 DEF Visit, IInv
  <2>2. \A k \in visited' : OnWork(k)' \/ Neighbours(k)' \subseteq visited'
    <3>1. OnWork(j)'
      BY <1>3, <1>5 DEF OnWork, IInv, TypeOK
    <3>2. \A k : OnWork(k) => OnWork(k)'
      BY <1>3, <1>5 DEF OnWork, IInv, TypeOK
    <3>3. \A k : Neighbours(k)' = Neighbours(k)
      BY <1>6 DEF Neighbours, Visit, graph
    <3>. QED
      BY <1>6, <2>1, <3>1, <3>2, <3>3 DEF FirstSearch
  <2>3. ASSUME NEW T \in SUBSET Vertex', Closed(T)' PROVE visited' \subseteq T
    <3>1. Closed(T)
      BY <1>6, <2>3 DEF Closed, Visit, graph
    <3>2. visited \subseteq T
      BY <1>6, <2>1, <3>1 DEF FirstSearch
    <3>3. i \in T
      BY <1>1, <3>2
    <3>. QED
      BY <1>3, <1>6, <3>1, <3>2, <3>3 DEF Closed
  <2>4. {shown'[p] : p \in 1 .. Len(shown')} = visited'
    <3>1. /\ Len(shown') = Len(shown) + 1 /\ Len(shown) \in Nat
          /\ shown'[Len(shown) + 1] = j
          /\ \A p \in 1 .. Len(shown) : shown'[p] = shown[p]
      BY <1>3, <1>6 DEF IInv, TypeOK
    <3>2. {shown[p] : p \in 1 .. Len(shown)} = visited
      BY <2>1 DEF FirstSearch
    <3>3. \A p \in 1 .. Len(shown') : p \in 1 .. Len(shown) \/ p = Len(shown) + 1
      BY <3>1
    <3>4. 1 .. Len(shown) \subseteq 1 .. Len(shown') /\ Len(shown) + 1 \in 1 .. Len(shown')
      BY <3>1
    <3>. QED
      BY <1>6, <3>1, <3>2, <3>3, <3>4
  <2>5. \A p, q \in 1 .. Len(shown') : shown'[p] = shown'[q] => p = q
    BY <1>3, <1>6, <2>1 DEF FirstSearch, IInv, TypeOK
  <2>. QED
    BY <2>2, <2>3, <2>4, <2>5 DEF FirstSearch
<1>10. \A p \in 1 .. Len(work') : work'[p] \in visited'
  BY <1>5, <1>6, <1>7 DEF IInv, TypeOK
<1>11. mode' # "build" /\ 0 \in visited' /\ searches' # 0
  BY <1>6 DEF Visit, IInv
<1>. QED
  BY <1>7, <1>8, <1>9, <1>10, <1>11 DEF IInv

\* A vertex without unmarked neighbours leaves the Stack or the Queue.
LEMMA RetreatIInv == ASSUME IInv, Retreat PROVE IInv'
<1>1. PICK r : r = Peek(work) /\ r \in Vertex
  BY DEF Retreat, Peek, IInv, TypeOK
<1>2. Neighbours(r) \subseteq visited
  <2>1. AdjUnvisited(r) = {}
    BY <1>1, AdjUnvisitedVertex DEF Retreat, IInv
  <2>. QED
    BY <2>1 DEF AdjUnvisited, Neighbours
<1>3. /\ work' \in Seq(Vertex) /\ Len(work') = Len(work) - 1 /\ Len(work) \in Nat
      /\ \A p \in 1 .. Len(work') :
           work'[p] = IF mode = "depth" THEN work[p] ELSE work[p + 1]
  <2>1. work \in Seq(Vertex) /\ work # <<>> /\ Len(work) \in Nat /\ Len(work) > 0
    BY DEF Retreat, IInv, TypeOK
  <2>2. CASE mode = "depth"
    <3>1. work' = SubSeq(work, 1, Len(work) - 1)
      BY <2>2 DEF Retreat, PoppedLast
    <3>2. \A p \in 1 .. Len(work) - 1 : work[p] \in Vertex
      BY <2>1
    <3>3. /\ work' \in Seq(Vertex)
          /\ Len(work') = IF 1 <= Len(work) - 1 THEN Len(work) - 1 - 1 + 1 ELSE 0
          /\ \A p \in 1 .. Len(work) - 1 - 1 + 1 : work'[p] = work[1 + p - 1]
      BY <2>1, <3>1, <3>2, SubSeqProperties
    <3>4. Len(work') = Len(work) - 1
      <4>1. \A n \in Nat \ {0} : (IF 1 <= n - 1 THEN n - 1 - 1 + 1 ELSE 0) = n - 1
        OBVIOUS
      <4>2. Len(work) \in Nat \ {0}
        BY <2>1
      <4>. QED
        BY <3>3, <4>1, <4>2, Zenon
    <3>5. \A p \in 1 .. Len(work') : work'[p] = work[p]
      BY <2>1, <3>3, <3>4
    <3>. QED
      BY <2>1, <2>2, <3>3, <3>4, <3>5
  <2>3. CASE mode # "depth"
    <3>1. work' = Tail(work)
      BY <2>3 DEF Retreat, Dequeued
    <3>. QED
      BY <2>1, <2>3, <3>1
  <2>. QED
    BY <2>2, <2>3
<1>4. \A k : OnWork(k) => OnWork(k)' \/ k = r
  <2>1. ASSUME NEW k, NEW p \in 1 .. Len(work), work[p] = k, k # r
        PROVE  OnWork(k)'
    <3>1. CASE mode = "depth"
      <4>1. p \in 1 .. Len(work') /\ work'[p] = k
        BY <1>1, <1>3, <2>1, <3>1 DEF Peek
      <4>. QED
        BY <4>1 DEF OnWork
    <3>2. CASE mode # "depth"
      <4>1. p - 1 \in 1 .. Len(work') /\ work'[p - 1] = k
        BY <1>1, <1>3, <2>1, <3>2 DEF Peek
      <4>. QED
        BY <4>1 DEF OnWork
    <3>. QED
      BY <3>1, <3>2
  <2>. QED
    BY <2>1 DEF OnWork
<1>5. Vertex' = Vertex /\ visited' = visited /\ shown' = shown
  BY DEF Retreat, graph, Vertex
<1>6. TypeOK'
  BY <1>3, <1>5 DEF Retreat, graph, IInv, TypeOK
<1>7. \A p \in 1 .. Len(work') : work'[p] \in visited'
  BY <1>3, <1>5 DEF IInv
<1>8. Len(work') <= Cardinality(visited')
  BY <1>3, <1>5, MarksAreFinite DEF IInv
<1>9. ASSUME searches' = 1 PROVE FirstSearch'
  <2>1. FirstSearch
    BY <1>9 DEF Retreat, IInv
  <2>2. \A k : Neighbours(k)' = Neighbours(k)
    BY <1>5 DEF Neighbours, Retreat, graph
  <2>3. \A k \in visited' : OnWork(k)' \/ Neighbours(k)' \subseteq visited'
    BY <1>2, <1>4, <1>5, <2>1, <2>2 DEF FirstSearch
  <2>4. ASSUME NEW T PROVE Closed(T)' => Closed(T)
    BY <1>5 DEF Closed, Retreat, graph
  <2>. QED
    BY <1>5, <2>1, <2>3, <2>4 DEF FirstSearch
<1>10. mode' # "build" /\ 0 \in visited' /\ searches' # 0
  BY <1>5 DEF Retreat, IInv
<1>. QED
  BY <1>6, <1>7, <1>8, <1>9, <1>10 DEF IInv

\* Every step
LEMMA NextIInv == ASSUME IInv, [Next]_vars PROVE IInv'
<1>1. CASE Return
  <2>1. TypeOK' /\ mode' = "build" /\ searches' # 0
    BY <1>1 DEF Return, graph, IInv, TypeOK, Vertex
  <2>. QED
    BY <1>1, <2>1 DEF Return, IInv
<1>2. CASE UNCHANGED vars
  <2>1. TypeOK' /\ Vertex' = Vertex
    BY <1>2 DEF vars, IInv, TypeOK, Vertex
  <2>2. \A k : OnWork(k)' = OnWork(k) /\ Neighbours(k)' = Neighbours(k)
    BY <1>2 DEF vars, OnWork, Neighbours, Vertex
  <2>3. \A T : Closed(T)' = Closed(T)
    BY <1>2 DEF vars, Closed, Vertex
  <2>4. FirstSearch => FirstSearch'
    BY <1>2, <2>1, <2>2, <2>3 DEF vars, FirstSearch
  <2>. QED
    BY <1>2, <2>1, <2>4 DEF vars, IInv
<1>. QED
  BY <1>1, <1>2, BuildIInv, BeginIInv, VisitIInv, RetreatIInv
     DEF Next, depthFirstSearch, breadthFirstSearch

\* An empty Stack or Queue leaves no marked vertex with an unmarked neighbour.
LEMMA SearchReachesFromIInv == IInv => SearchReaches
<1>. SUFFICES ASSUME IInv, mode # "build", work = <<>>, searches = 1
              PROVE  /\ Reached(visited)
                     /\ {shown[p] : p \in 1 .. Len(shown)} = visited
                     /\ \A p, q \in 1 .. Len(shown) : shown[p] = shown[q] => p = q
  BY DEF SearchReaches
<1>1. FirstSearch /\ 0 \in visited
  BY DEF IInv
<1>2. \A i : ~OnWork(i)
  BY DEF OnWork
<1>3. Closed(visited)
  BY <1>1, <1>2 DEF FirstSearch, Closed, Neighbours
<1>. QED
  BY <1>1, <1>3 DEF FirstSearch, Reached

(***************************************************************************)
(* On every graph, for every content of the uncleared matrix, the first    *)
(* search marks and prints the reachable vertices, each once: neither the  *)
(* Stack nor the Queue of `capacity' elements ever drops one.              *)
(***************************************************************************)
THEOREM SearchReachesAlways == Spec => []SearchReaches
<1>1. Spec => []IInv
  BY InitIInv, NextIInv, PTL DEF Spec
<1>. QED
  BY <1>1, SearchReachesFromIInv, PTL

\* The mark of each element of the Stack or Queue is its own, so that the
\* push of a vertex just marked is never refused.
RoomToPush ==
  mode # "build" /\ work # <<>> /\ getAdjUnvisitedVertex(Peek(work)) # -1
    => Len(work) < capacity

(***************************************************************************)
(* "stack is full" and "queue is full" are never printed by a search.      *)
(***************************************************************************)
THEOREM RoomToPushAlways == Spec => []RoomToPush
<1>1. IInv => RoomToPush
  <2>. SUFFICES ASSUME IInv, mode # "build", work # <<>>,
                       getAdjUnvisitedVertex(Peek(work)) # -1
                PROVE  Len(work) < capacity
    BY DEF RoomToPush
  <2>1. Peek(work) \in Vertex
    BY DEF Peek, IInv, TypeOK
  <2>2. PICK j : j \in AdjUnvisited(Peek(work))
    BY <2>1, AdjUnvisitedVertex DEF IInv
  <2>3. Cardinality(visited) + 1 <= vertex_count /\ Cardinality(visited) \in Nat
    BY <2>2, MarksAreFinite, Zenon DEF IInv, AdjUnvisited
  <2>. QED
    BY <2>3, CapacityAssumption DEF IInv, TypeOK
<1>2. Spec => []IInv
  BY InitIInv, NextIInv, PTL DEF Spec
<1>. QED
  BY <1>1, <1>2, PTL
-----------------------------------------------------------------------------
(***************************************************************************)
(* hanoi_tower.cpp for every number of disks.  The calls of move_disk that *)
(* are under way tell where every disk is: each waits for the disks above  *)
(* its own, and has its own disk still to move or already on its peg.  The *)
(* moves are counted from the first call up to the one on top.             *)
(***************************************************************************)
\* A sequence without its last element
LEMMA AllButLast ==
  ASSUME NEW S, NEW s \in Seq(S), s # <<>>
  PROVE  /\ SubSeq(s, 1, Len(s) - 1) \in Seq(S)
         /\ Len(SubSeq(s, 1, Len(s) - 1)) = Len(s) - 1
         /\ \A i \in 1 .. Len(s) - 1 : SubSeq(s, 1, Len(s) - 1)[i] = s[i]
<1>1. ASSUME NEW n \in Nat, n <= Len(s)
      PROVE  /\ SubSeq(s, 1, n) \in Seq(S) /\ Len(SubSeq(s, 1, n)) = n
             /\ \A i \in 1 .. n : SubSeq(s, 1, n)[i] = s[i]
  <2>1. \A i \in 1 .. n : s[i] \in S
    BY <1>1
  <2>2. /\ SubSeq(s, 1, n) \in Seq(S)
        /\ Len(SubSeq(s, 1, n)) = IF 1 <= n THEN n - 1 + 1 ELSE 0
        /\ \A i \in 1 .. n - 1 + 1 : SubSeq(s, 1, n)[i] = s[1 + i - 1]
    BY <2>1, SubSeqProperties
  <2>. QED
    BY <2>2
<1>2. Len(s) \in Nat /\ Len(s) # 0
  BY EmptySeq, LenProperties
<1>3. Len(s) - 1 \in Nat /\ Len(s) - 1 <= Len(s)
  BY <1>2
<1>. QED
  BY <1>1, <1>3, Zenon

\* Two more elements at the end of a sequence
WithPair(S, r, a, b, t) ==
  /\ t \in Seq(S) /\ Len(t) = Len(r) + 2
  /\ \A k \in 1 .. Len(r) : t[k] = r[k]
  /\ t[Len(r) + 1] = a /\ t[Len(r) + 2] = b

\* Concatenation with a pair gives that.
LEMMA PairAppended ==
  ASSUME NEW S, NEW r \in Seq(S), NEW a \in S, NEW b \in S
  PROVE  WithPair(S, r, a, b, r \o <<a, b>>)
<1>. DEFINE t == r \o <<a, b>>
<1>. HIDE DEF t
<1>. DEFINE ab == <<a, b>>
<1>1. ab \in Seq(S) /\ Len(ab) = 2 /\ ab[1] = a /\ ab[2] = b
  OBVIOUS
<1>. HIDE DEF ab
<1>2. Len(r) \in Nat
  BY LenProperties, Zenon
<1>3. /\ r \o ab \in Seq(S) /\ Len(r \o ab) = Len(r) + Len(ab)
      /\ \A k \in 1 .. Len(r) + Len(ab) :
           (r \o ab)[k] = IF k <= Len(r) THEN r[k] ELSE ab[k - Len(r)]
  BY <1>1, ConcatProperties, Zenon
<1>4. t = r \o ab
  BY DEF t, ab
<1>5. \A k \in 1 .. Len(r) : k \in 1 .. Len(r) + 2 /\ k <= Len(r)
  BY <1>2
<1>6. /\ Len(r) + 1 \in 1 .. Len(r) + 2 /\ ~(Len(r) + 1 <= Len(r)) /\ Len(r) + 1 - Len(r) = 1
      /\ Len(r) + 2 \in 1 .. Len(r) + 2 /\ ~(Len(r) + 2 <= Len(r)) /\ Len(r) + 2 - Len(r) = 2
  BY <1>2
<1>7. t \in Seq(S) /\ Len(t) = Len(r) + 2
  BY <1>1, <1>3, <1>4, Zenon
<1>8. \A k \in 1 .. Len(r) + 2 : t[k] = IF k <= Len(r) THEN r[k] ELSE ab[k - Len(r)]
  BY <1>1, <1>3, <1>4, Zenon
<1>9. \A k \in 1 .. Len(r) : t[k] = r[k]
  BY <1>5, <1>8, Zenon
<1>10. \A k \in 1 .. Len(r) + 2 : ~(k <= Len(r)) => t[k] = ab[k - Len(r)]
  BY <1>8, Zenon
<1>11. t[Len(r) + 1] = a /\ t[Len(r) + 2] = b
  <2>1. \A k \in 1 .. Len(r) + 2 : ~(k <= Len(r)) /\ k - Len(r) = 1 => t[k] = ab[1]
    BY <1>10, Zenon
  <2>2. \A k \in 1 .. Len(r) + 2 : ~(k <= Len(r)) /\ k - Len(r) = 2 => t[k] = ab[2]
    BY <1>10, Zenon
  <2>3. t[Len(r) + 1] = ab[1]
    BY <1>6, <2>1
  <2>4. t[Len(r) + 2] = ab[2]
    BY <1>6, <2>2
  <2>. QED
    BY <1>1, <2>3, <2>4, Zenon
<1>. QED
  BY <1>7, <1>9, <1>11, Zenon DEF t, WithPair

-----------------------------------------------------------------------------
\* The disks of one Stack, and of one peg
Disks(s) == {s[i] : i \in 1 .. Len(s)}

\* The disks on peg p
On(P, p) == Disks(P[p])

\* A Stack whose disks get smaller, the i-th with room for all that may follow it
Tidy(s) ==
  /\ s \in Seq(Nat)
  /\ \A i \in 1 .. Len(s) : s[i] <= number_disks - i
  /\ \A i, j \in 1 .. Len(s) : i < j => s[j] < s[i]

\* The disks of a tidy Stack have numbers.
LEMMA TidyDisks == ASSUME NEW s, Tidy(s) PROVE Disks(s) \subseteq Nat
<1>1. s \in Seq(Nat)
  BY DEF Tidy
<1>2. \A i \in 1 .. Len(s) : s[i] \in Nat
  BY <1>1
<1>. QED
  BY <1>2, Zenon DEF Disks

\* The smallest disk of a tidy Stack is the one pop returns.
LEMMA PopSmallest ==
  ASSUME NEW s, Tidy(s), NEW d \in Nat, d \in Disks(s),
         \A e \in Disks(s) : d <= e
  PROVE  /\ pop(s).val = d
         /\ Tidy(pop(s).left)
         /\ Disks(pop(s).left) = Disks(s) \ {d}
<1>1. PICK k \in 1 .. Len(s) : s[k] = d
  BY DEF Disks
<1>2. s \in Seq(Nat) /\ Len(s) \in Nat /\ Len(s) \in 1 .. Len(s) /\ s # <<>>
  BY <1>1 DEF Tidy
<1>3. s[Len(s)] = d
  <2>1. s[Len(s)] \in Disks(s) /\ s[Len(s)] \in Nat
    BY <1>2 DEF Disks
  <2>2. CASE k < Len(s)
    <3>1. s[Len(s)] < s[k]
      BY <1>2, <2>2, Zenon DEF Tidy
    <3>2. d <= s[Len(s)]
      BY <2>1, Zenon
    <3>. QED
      BY <1>1, <2>1, <3>1, <3>2
  <2>3. CASE k = Len(s)
    BY <1>1, <2>3
  <2>. QED
    BY <1>2, <2>2, <2>3
<1>. DEFINE t == SubSeq(s, 1, Len(s) - 1)
<1>4. pop(s).val = d /\ pop(s).left = t
  BY <1>2, <1>3 DEF pop
<1>5. /\ t \in Seq(Nat) /\ Len(t) = Len(s) - 1
      /\ \A i \in 1 .. Len(s) - 1 : t[i] = s[i]
  BY <1>2, AllButLast, Zenon
<1>. HIDE DEF t
<1>6. Tidy(t)
  <2>1. \A i \in 1 .. Len(t) : i \in 1 .. Len(s) /\ t[i] = s[i]
    BY <1>2, <1>5
  <2>. QED
    BY <1>5, <2>1, Zenon DEF Tidy
<1>7. Disks(t) = Disks(s) \ {d}
  <2>1. \A i \in 1 .. Len(s) - 1 : i \in 1 .. Len(s) /\ s[i] # d
    <3>1. ASSUME NEW i \in 1 .. Len(s) - 1
          PROVE  i \in 1 .. Len(s) /\ s[i] # d
      <4>1. i \in 1 .. Len(s) /\ i < Len(s) /\ s[i] \in Nat
        BY <1>2
      <4>2. s[Len(s)] < s[i]
        BY <1>2, <4>1, Zenon DEF Tidy
      <4>. QED
        BY <1>3, <4>1, <4>2
    <3>. QED
      BY <3>1
  <2>2. \A i \in 1 .. Len(s) : i # Len(s) => i \in 1 .. Len(s) - 1
    BY <1>2
  <2>3. ASSUME NEW e \in Disks(t) PROVE e \in Disks(s) \ {d}
    <3>1. PICK i \in 1 .. Len(s) - 1 : e = t[i]
      BY <1>5, <2>3, Zenon DEF Disks
    <3>. QED
      BY <1>5, <2>1, <3>1, Zenon DEF Disks
  <2>4. ASSUME NEW e \in Disks(s) \ {d} PROVE e \in Disks(t)
    <3>1. PICK i \in 1 .. Len(s) : e = s[i]
      BY <2>4, Zenon DEF Disks
    <3>2. i \in 1 .. Len(s) - 1
      BY <1>3, <2>2, <2>4, <3>1, Zenon
    <3>. QED
      BY <1>5, <3>1, <3>2, Zenon DEF Disks
  <2>. QED
    BY <2>3, <2>4, Zenon
<1>. QED
  BY <1>4, <1>6, <1>7, Zenon

\* A disk smaller than all of a tidy Stack fits on it.
LEMMA PushSmaller ==
  ASSUME NEW s, Tidy(s), NEW d \in 0 .. number_disks - 1,
         \A e \in Disks(s) : d < e
  PROVE  Tidy(push(s, d)) /\ Disks(push(s, d)) = Disks(s) \cup {d}
<1>1. s \in Seq(Nat) /\ Len(s) \in Nat /\ d \in Nat /\ number_disks \in Nat
  BY DisksAssumption DEF Tidy
<1>2. \A i \in 1 .. Len(s) : d < s[i] /\ s[i] <= number_disks - i
  BY Zenon DEF Tidy, Disks
<1>3. d <= number_disks - (Len(s) + 1)
  <2>1. CASE Len(s) = 0
    BY <1>1, <2>1
  <2>2. CASE Len(s) # 0
    <3>1. Len(s) \in 1 .. Len(s) /\ s[Len(s)] \in Nat
      BY <1>1, <2>2
    <3>2. d < s[Len(s)] /\ s[Len(s)] <= number_disks - Len(s)
      BY <1>2, <3>1, Zenon
    <3>. QED
      BY <1>1, <3>1, <3>2
  <2>. QED
    BY <2>1, <2>2
<1>4. Len(s) # number_disks
  BY <1>1, <1>3
<1>. DEFINE t == Append(s, d)
<1>5. push(s, d) = t
  BY <1>4, Zenon DEF push
<1>6. /\ t \in Seq(Nat) /\ Len(t) = Len(s) + 1 /\ t[Len(s) + 1] = d
      /\ \A i \in 1 .. Len(s) : t[i] = s[i]
  BY <1>1
<1>. HIDE DEF t
<1>7. \A i \in 1 .. Len(t) : i \in 1 .. Len(s) \/ i = Len(s) + 1
  BY <1>1, <1>6
<1>8. Tidy(t)
  <2>1. \A i \in 1 .. Len(t) : t[i] <= number_disks - i
    BY <1>2, <1>3, <1>6, <1>7, Zenon
  <2>2. ASSUME NEW i \in 1 .. Len(t), NEW j \in 1 .. Len(t), i < j
        PROVE  t[j] < t[i]
    <3>1. i \in 1 .. Len(s)
      BY <1>1, <1>6, <2>2
    <3>2. CASE j \in 1 .. Len(s)
      BY <1>6, <2>2, <3>1, <3>2, Zenon DEF Tidy
    <3>3. CASE j = Len(s) + 1
      BY <1>2, <1>6, <3>1, <3>3, Zenon
    <3>. QED
      BY <1>7, <3>2, <3>3, Zenon
  <2>. QED
    BY <1>6, <2>1, <2>2, Zenon DEF Tidy
<1>9. Disks(t) = Disks(s) \cup {d}
  <2>1. Len(s) + 1 \in 1 .. Len(t) /\ \A i \in 1 .. Len(s) : i \in 1 .. Len(t)
    BY <1>1, <1>6
  <2>2. ASSUME NEW e \in Disks(t) PROVE e \in Disks(s) \cup {d}
    <3>1. PICK i \in 1 .. Len(t) : e = t[i]
      BY <2>2, Zenon DEF Disks
    <3>. QED
      BY <1>6, <1>7, <3>1, Zenon DEF Disks
  <2>3. ASSUME NEW e \in Disks(s) \cup {d} PROVE e \in Disks(t)
    <3>1. CASE e = d
      BY <1>6, <2>1, <3>1, Zenon DEF Disks
    <3>2. CASE e \in Disks(s)
      <4>1. PICK i \in 1 .. Len(s) : e = s[i]
        BY <3>2, Zenon DEF Disks
      <4>. QED
        BY <1>6, <2>1, <4>1, Zenon DEF Disks
    <3>. QED
      BY <2>3, <3>1, <3>2, Zenon
  <2>. QED
    BY <2>2, <2>3, Zenon
<1>. QED
  BY <1>5, <1>8, <1>9, Zenon

\* A tidy Stack that holds every disk is the whole tower.
LEMMA WholeTower ==
  ASSUME NEW s, Tidy(s), 0 .. number_disks - 1 \subseteq Disks(s)
  PROVE  s = [i \in 1 .. number_disks |-> number_disks - i]
<1>. DEFINE Odd == {i \in 1 .. number_disks : i \notin 1 .. Len(s) \/ s[i] # number_disks - i}
<1>1. s \in Seq(Nat) /\ Len(s) \in Nat /\ number_disks \in Nat
  BY DisksAssumption DEF Tidy
<1>2. Odd = {}
  <2>1. SUFFICES ASSUME Odd # {} PROVE FALSE
    OBVIOUS
  <2>2. Odd \in SUBSET Nat
    BY <1>1
  <2>3. PICK i \in Odd : \A j \in Odd : i <= j
    BY <2>1, <2>2, LeastMember, Zenon
  <2>4. i \in 1 .. number_disks /\ number_disks - i \in 0 .. number_disks - 1
    BY <1>1, <2>3
  <2>5. PICK k \in 1 .. Len(s) : number_disks - i = s[k]
    BY <2>4, Zenon DEF Disks
  <2>6. k # i
    BY <2>3, <2>5, Zenon
  <2>7. ~(k < i)
    <3>1. SUFFICES ASSUME k < i PROVE FALSE
      OBVIOUS
    <3>2. k \in 1 .. number_disks /\ ~(i <= k)
      BY <1>1, <2>4, <3>1
    <3>3. s[k] = number_disks - k
      BY <2>3, <2>5, <3>2, Zenon
    <3>. QED
      BY <1>1, <2>4, <2>5, <2>6, <3>3
  <2>8. ~(i < k)
    <3>1. SUFFICES ASSUME i < k PROVE FALSE
      OBVIOUS
    <3>2. i \in 1 .. Len(s)
      BY <1>1, <2>4, <3>1
    <3>3. s[k] < s[i] /\ s[i] <= number_disks - i /\ s[i] \in Nat /\ s[k] \in Nat
      BY <1>1, <3>1, <3>2 DEF Tidy
    <3>. QED
      BY <1>1, <2>4, <2>5, <3>3
  <2>. QED
    BY <1>1, <2>4, <2>6, <2>7, <2>8
<1>3. \A i \in 1 .. number_disks : i \in 1 .. Len(s) /\ s[i] = number_disks - i
  BY <1>2, Zenon
<1>4. Len(s) = number_disks
  <2>1. number_disks <= Len(s)
    <3>1. number_disks \in 1 .. number_disks
      BY DisksAssumption
    <3>. QED
      BY <1>1, <1>3, <3>1
  <2>2. ASSUME number_disks < Len(s) PROVE FALSE
    <3>1. Len(s) \in 1 .. Len(s) /\ s[Len(s)] \in Nat
      BY <1>1, <2>2
    <3>2. s[Len(s)] <= number_disks - Len(s)
      BY <3>1, Zenon DEF Tidy
    <3>. QED
      BY <1>1, <2>2, <3>1, <3>2
  <2>. QED
    BY <1>1, <2>1, <2>2
<1>5. s = [i \in 1 .. Len(s) |-> s[i]]
  BY <1>1
<1>. QED
  BY <1>3, <1>4, <1>5, Zenon
-----------------------------------------------------------------------------
\* The calls of move_disk
CallSet == [disk : Nat, src : Peg, dest : Peg, aux : Peg,
            at : {"entered", "first", "second"}]

\* e is the inner call that c, as far as it has come, is waiting for.
InnerOf(c, e) ==
  \/ /\ c.at = "first"
     /\ e.src = c.src /\ e.dest = c.aux /\ e.aux = c.dest
  \/ /\ c.at = "second"
     /\ e.src = c.aux /\ e.dest = c.dest /\ e.aux = c.src

\* The arguments of the k-th call
Proper(c, k) ==
  /\ c.disk = number_disks - k
  /\ c.src # c.dest /\ c.src # c.aux /\ c.dest # c.aux
  /\ k = 1 => c.dest = "dst"
  /\ c.at # "entered" => c.disk # 0

\* The calls under way, each made by the one before
Nested(cs) ==
  /\ cs \in Seq(CallSet)
  /\ \A k \in 1 .. Len(cs) : Proper(cs[k], k)
  /\ \A k \in 1 .. Len(cs) - 1 : InnerOf(cs[k], cs[k + 1])

\* The disk that a call has still, or no longer, to move itself
Placed(P, c) ==
  /\ c.at = "first" => c.disk \in On(P, c.src)
  /\ c.at = "second" => c.disk \in On(P, c.dest)

\* Where the disks of a call are that waits for no other
Ready(P, c) ==
  /\ c.at = "entered" => 0 .. c.disk \subseteq On(P, c.src)
  /\ c.at = "first" => 0 .. c.disk - 1 \subseteq On(P, c.aux)
  /\ c.at = "second" => 0 .. c.disk \subseteq On(P, c.dest)

\* Three Stacks that are tidy and share no disk
Apart(P) ==
  /\ P \in [Peg -> Seq(Nat)]
  /\ \A p \in Peg : Tidy(P[p])
  /\ \A p, q \in Peg : p # q => On(P, p) \cap On(P, q) = {}

\* The moves made when each call was entered
Since(cs, start) ==
  /\ start \in [1 .. Len(cs) -> Nat]
  /\ Len(cs) # 0 => start[1] = 0
  /\ \A k \in 1 .. Len(cs) - 1 :
       start[k + 1] = start[k] + (IF cs[k].at = "second" THEN 2 ^ cs[k].disk ELSE 0)

\* The moves a call has behind it that waits for no other
Done(c) == IF c.at = "entered" THEN 0
           ELSE IF c.at = "first" THEN 2 ^ c.disk - 1
           ELSE 2 ^ (c.disk + 1) - 1

\* All moves made so far, counted over the calls under way
Counted(cs, m) ==
  \E start : Since(cs, start) /\ m = start[Len(cs)] + Done(cs[Len(cs)])

(***************************************************************************)
(* The inductive invariant.  HanoiLegal alone says nothing of where a call *)
(* finds its disks: that every call under way is the inner call of the one *)
(* below it, that a caller's own disk is on src before its move and on     *)
(* dest after it, and that the smaller ones are all together where the     *)
(* call on top expects them, is what makes the next move legal.            *)
(***************************************************************************)
HanoiIInv ==
  /\ Apart(pegs) /\ Nested(calls)
  /\ line.label = line.disk
  /\ \A k \in 1 .. Len(calls) : Placed(pegs, calls[k])
  /\ calls # <<>> => Ready(pegs, Top) /\ Counted(calls, moves)
  /\ calls = <<>> => /\ 0 .. number_disks - 1 \subseteq On(pegs, "dst")
                     /\ moves = 2 ^ number_disks - 1

\* dest.push(src.pop()), and what it does to the disks
PoppedAndPushed(P, s, t, Q) ==
  Q = [P EXCEPT ![s] = pop(P[s]).left, ![t] = push(@, pop(P[s]).val)]

\* Disk d went from s to t, and x was left alone.
Moved(P, s, t, x, d, Q) ==
  /\ pop(P[s]).val = d
  /\ Apart(Q)
  /\ On(Q, s) = On(P, s) \ {d}
  /\ On(Q, t) = On(P, t) \cup {d}
  /\ On(Q, x) = On(P, x)

\* One move of a disk that has no smaller one above or below it
LEMMA MoveDisk ==
  ASSUME NEW P, Apart(P), NEW s \in Peg, NEW t \in Peg, NEW x \in Peg,
         s # t, s # x, t # x,
         NEW d \in 0 .. number_disks - 1, d \in On(P, s),
         0 .. d - 1 \subseteq On(P, x),
         NEW Q, PoppedAndPushed(P, s, t, Q)
  PROVE  Moved(P, s, t, x, d, Q)
<1>1. Tidy(P[s]) /\ Tidy(P[t]) /\ Tidy(P[x]) /\ d \in Nat
  BY DisksAssumption DEF Apart
<1>2. On(P, s) \subseteq Nat /\ On(P, t) \subseteq Nat
  BY <1>1, TidyDisks, Zenon DEF On
<1>3. On(P, s) \cap On(P, t) = {} /\ On(P, s) \cap On(P, x) = {} /\ On(P, t) \cap On(P, x) = {}
  BY Zenon DEF Apart
<1>4. \A e \in Nat : e < d => e \in On(P, x)
  <2>1. \A e \in Nat : e < d => e \in 0 .. d - 1
    BY <1>1
  <2>. QED
    BY <2>1
<1>5. \A e \in On(P, s) : d <= e
  <2>1. \A e \in On(P, s) : e \in Nat /\ ~(e < d)
    BY <1>2, <1>3, <1>4, Zenon
  <2>. QED
    BY <1>1, <2>1
<1>6. \A e \in On(P, t) : d < e
  <2>1. \A e \in On(P, t) : e \in Nat /\ ~(e < d) /\ e # d
    BY <1>2, <1>3, <1>4, Zenon
  <2>. QED
    BY <1>1, <2>1
<1>7. /\ pop(P[s]).val = d
      /\ Tidy(pop(P[s]).left)
      /\ Disks(pop(P[s]).left) = On(P, s) \ {d}
  BY <1>1, <1>5, PopSmallest, Zenon DEF On
<1>8. Tidy(push(P[t], d)) /\ Disks(push(P[t], d)) = On(P, t) \cup {d}
  BY <1>1, <1>6, PushSmaller, Zenon DEF On
<1>9. /\ Q \in [Peg -> {P[x], pop(P[s]).left, push(P[t], d)}]
      /\ Q[s] = pop(P[s]).left /\ Q[t] = push(P[t], d) /\ Q[x] = P[x]
  <2>1. Peg = {s, t, x} /\ DOMAIN P = Peg
    BY DEF Peg, Apart
  <2>2. Q[s] = pop(P[s]).left /\ Q[t] = push(P[t], pop(P[s]).val) /\ Q[x] = P[x] /\ DOMAIN Q = Peg /\ Q = [p \in Peg |-> Q[p]]
    BY <2>1 DEF PoppedAndPushed
  <2>. QED
    BY <1>7, <2>1, <2>2, Zenon
<1>10. Peg = {s, t, x}
  BY DEF Peg
<1>11. /\ On(Q, s) = On(P, s) \ {d} /\ On(Q, t) = On(P, t) \cup {d} /\ On(Q, x) = On(P, x)
  BY <1>7, <1>8, <1>9, Zenon DEF On
<1>12. \A p \in Peg : Tidy(Q[p])
  BY <1>1, <1>7, <1>8, <1>9, <1>10, Zenon
<1>13. Q \in [Peg -> Seq(Nat)]
  BY <1>1, <1>7, <1>8, <1>9, Zenon DEF Tidy
<1>14. On(Q, s) \cap On(Q, t) = {} /\ On(Q, s) \cap On(Q, x) = {} /\ On(Q, t) \cap On(Q, x) = {}
  BY <1>3, <1>11, Zenon
<1>15. \A p, q \in Peg : p # q => On(Q, p) \cap On(Q, q) = {}
  BY <1>10, <1>14, Zenon
<1>. QED
  BY <1>7, <1>11, <1>12, <1>13, <1>15, Zenon DEF Apart, Moved

\* What the call on top, and its caller, look like
LEMMA TopOfNested ==
  ASSUME NEW cs, Nested(cs), cs # <<>>
  PROVE  /\ Len(cs) \in Nat \ {0} /\ Len(cs) \in 1 .. Len(cs)
         /\ cs[Len(cs)] \in CallSet /\ Proper(cs[Len(cs)], Len(cs))
         /\ cs[Len(cs)].disk \in 0 .. number_disks - 1
<1>1. cs \in Seq(CallSet)
  BY Zenon DEF Nested
<1>2. Len(cs) \in Nat \ {0} /\ Len(cs) \in 1 .. Len(cs) /\ cs[Len(cs)] \in CallSet
  BY <1>1
<1>3. Proper(cs[Len(cs)], Len(cs))
  BY <1>2, Zenon DEF Nested
<1>4. cs[Len(cs)].disk \in Nat /\ cs[Len(cs)].disk = number_disks - Len(cs)
  BY <1>2, <1>3 DEF CallSet, Proper
<1>5. cs[Len(cs)].disk \in 0 .. number_disks - 1
  BY <1>2, <1>4, DisksAssumption
<1>. QED
  BY <1>2, <1>3, <1>5, Zenon

\* The other calls wait for larger disks.
LEMMA CallersWait ==
  ASSUME NEW cs, Nested(cs), cs # <<>>, NEW k \in 1 .. Len(cs) - 1
  PROVE  /\ k \in 1 .. Len(cs) /\ k + 1 \in 1 .. Len(cs)
         /\ cs[k] \in CallSet /\ Proper(cs[k], k) /\ cs[k].disk # cs[Len(cs)].disk
<1>1. cs \in Seq(CallSet) /\ Len(cs) \in Nat
  BY Zenon, LenProperties DEF Nested
<1>2. k \in 1 .. Len(cs) /\ k + 1 \in 1 .. Len(cs) /\ k # Len(cs) /\ Len(cs) \in 1 .. Len(cs)
  BY <1>1
<1>3. cs[k] \in CallSet
  BY <1>1, <1>2
<1>4. Proper(cs[k], k) /\ Proper(cs[Len(cs)], Len(cs))
  BY <1>2, Zenon DEF Nested
<1>5. cs[k].disk = number_disks - k /\ cs[Len(cs)].disk = number_disks - Len(cs)
  BY <1>4, Zenon DEF Proper
<1>6. number_disks - k # number_disks - Len(cs)
  BY <1>1, <1>2, DisksAssumption
<1>. QED
  BY <1>2, <1>3, <1>4, <1>5, <1>6, Zenon

\* A disk between other pegs than the ones a caller waits for stays there.
LEMMA StillPlaced ==
  ASSUME NEW P, NEW Q, NEW c \in CallSet, Placed(P, c), NEW d, c.disk # d,
         \A p \in Peg : On(P, p) \ {d} \subseteq On(Q, p)
  PROVE  Placed(Q, c)
<1>1. c.src \in Peg /\ c.dest \in Peg
  BY DEF CallSet
<1>. QED
  BY <1>1, Zenon DEF Placed

\* A call that has returned leaves its caller ready to go on.
LEMMA ReturnNested ==
  ASSUME NEW cs, Nested(cs), cs # <<>>, NEW bs, bs = SubSeq(cs, 1, Len(cs) - 1)
  PROVE  /\ Len(bs) = Len(cs) - 1 /\ Nested(bs)
         /\ \A k \in 1 .. Len(cs) - 1 : bs[k] = cs[k]
         /\ bs # <<>> => Len(bs) \in 1 .. Len(cs) - 1 /\ Len(cs) = Len(bs) + 1
         /\ bs = <<>> => Len(cs) = 1
<1>1. cs \in Seq(CallSet) /\ Len(cs) \in Nat \ {0}
  BY TopOfNested, Zenon DEF Nested
<1>2. /\ bs \in Seq(CallSet) /\ Len(bs) = Len(cs) - 1
      /\ \A k \in 1 .. Len(cs) - 1 : bs[k] = cs[k]
  BY <1>1, AllButLast, Zenon
<1>3. \A k \in 1 .. Len(bs) : k \in 1 .. Len(cs) /\ bs[k] = cs[k]
  BY <1>1, <1>2
<1>4. \A k \in 1 .. Len(bs) - 1 : k \in 1 .. Len(cs) - 1 /\ k \in 1 .. Len(bs) /\ k + 1 \in 1 .. Len(bs)
  BY <1>1, <1>2
<1>5. Nested(bs)
  <2>1. \A k \in 1 .. Len(bs) : Proper(bs[k], k)
    BY <1>3, Zenon DEF Nested
  <2>2. \A k \in 1 .. Len(bs) - 1 : InnerOf(bs[k], bs[k + 1])
    BY <1>3, <1>4, Zenon DEF Nested
  <2>. QED
    BY <1>2, <2>1, <2>2, Zenon DEF Nested
<1>6. Len(bs) \in Nat /\ (bs = <<>> <=> Len(bs) = 0)
  BY <1>2, EmptySeq, LenProperties
<1>7. Len(bs) # 0 => Len(bs) \in 1 .. Len(cs) - 1 /\ Len(cs) = Len(bs) + 1
  BY <1>1, <1>2, <1>6
<1>8. Len(bs) = 0 => Len(cs) = 1
  BY <1>1, <1>2
<1>. QED
  BY <1>2, <1>5, <1>6, <1>7, <1>8, Zenon

\* The disks of the call that returns are where its caller expects them.
LEMMA ReturnReady ==
  ASSUME NEW cs, Nested(cs), cs # <<>>, NEW bs, bs = SubSeq(cs, 1, Len(cs) - 1),
         NEW P, \A k \in 1 .. Len(cs) - 1 : Placed(P, cs[k]),
         0 .. cs[Len(cs)].disk \subseteq On(P, cs[Len(cs)].dest)
  PROVE  /\ \A k \in 1 .. Len(bs) : Placed(P, bs[k])
         /\ bs # <<>> => Ready(P, bs[Len(bs)])
         /\ bs = <<>> => 0 .. number_disks - 1 \subseteq On(P, "dst")
<1>1. /\ Len(bs) = Len(cs) - 1
      /\ \A k \in 1 .. Len(cs) - 1 : bs[k] = cs[k]
      /\ bs # <<>> => Len(bs) \in 1 .. Len(cs) - 1 /\ Len(cs) = Len(bs) + 1
      /\ bs = <<>> => Len(cs) = 1
  BY ReturnNested, Zenon
<1>. DEFINE e == cs[Len(cs)]
            c == cs[Len(bs)]
<1>2. \A k \in 1 .. Len(bs) : Placed(P, bs[k])
  BY <1>1, Zenon
<1>3. ASSUME bs # <<>> PROVE Ready(P, bs[Len(bs)])
  <2>1. /\ Len(bs) \in 1 .. Len(cs) - 1 /\ Len(cs) = Len(bs) + 1 /\ bs[Len(bs)] = c
        /\ Placed(P, c) /\ InnerOf(c, e)
    BY <1>1, <1>3, Zenon DEF Nested
  <2>2. c \in CallSet /\ Proper(c, Len(bs)) /\ Proper(e, Len(cs))
    BY <2>1, CallersWait, TopOfNested, Zenon
  <2>3. c.disk \in Nat /\ e.disk \in Nat
    BY <2>2, TopOfNested DEF CallSet
  <2>4. c.disk = number_disks - Len(bs) /\ e.disk = number_disks - Len(cs)
    BY <2>2, Zenon DEF Proper
  <2>5. Len(bs) \in Nat
    BY <2>1
  <2>6. e.disk = c.disk - 1
    BY <2>1, <2>4, <2>5, DisksAssumption
  <2>7. 0 .. c.disk - 1 \subseteq On(P, e.dest)
    BY <2>6, Zenon
  <2>8. 0 .. c.disk = (0 .. c.disk - 1) \cup {c.disk}
    BY <2>3
  <2>9. CASE c.at = "first"
    <3>1. e.dest = c.aux
      BY <2>1, <2>9 DEF InnerOf
    <3>. QED
      BY <2>1, <2>7, <2>9, <3>1 DEF Ready
  <2>10. CASE c.at = "second"
    <3>1. e.dest = c.dest /\ c.disk \in On(P, c.dest)
      BY <2>1, <2>10 DEF InnerOf, Placed
    <3>2. 0 .. c.disk \subseteq On(P, c.dest)
      BY <2>7, <2>8, <3>1, Zenon
    <3>. QED
      BY <2>1, <2>10, <3>2 DEF Ready
  <2>. QED
    BY <2>1, <2>9, <2>10 DEF InnerOf
<1>4. ASSUME bs = <<>> PROVE 0 .. number_disks - 1 \subseteq On(P, "dst")
  <2>1. Proper(e, 1)
    BY <1>1, <1>4, TopOfNested, Zenon
  <2>. QED
    BY <2>1, Zenon DEF Proper
<1>. QED
  BY <1>2, <1>3, <1>4, Zenon

\* Its moves are behind its caller.
LEMMA ReturnCounted ==
  ASSUME NEW cs, Nested(cs), cs # <<>>, NEW bs, bs = SubSeq(cs, 1, Len(cs) - 1),
         NEW start, Since(cs, start),
         NEW m, m = start[Len(cs)] + 2 ^ (cs[Len(cs)].disk + 1) - 1
  PROVE  /\ bs # <<>> => Counted(bs, m)
         /\ bs = <<>> => m = 2 ^ number_disks - 1
<1>1. /\ Len(bs) = Len(cs) - 1
      /\ \A k \in 1 .. Len(cs) - 1 : bs[k] = cs[k]
      /\ bs # <<>> => Len(bs) \in 1 .. Len(cs) - 1 /\ Len(cs) = Len(bs) + 1
      /\ bs = <<>> => Len(cs) = 1
  BY ReturnNested, Zenon
<1>2. Len(cs) \in Nat \ {0} /\ number_disks \in Nat
  BY TopOfNested, DisksAssumption, Zenon
<1>. DEFINE e == cs[Len(cs)]
            c == cs[Len(bs)]
<1>3. e.disk = number_disks - Len(cs)
  BY TopOfNested, Zenon DEF Proper
<1>4. ASSUME bs # <<>> PROVE Counted(bs, m)
  <2>1. /\ Len(bs) \in 1 .. Len(cs) - 1 /\ Len(cs) = Len(bs) + 1 /\ bs[Len(bs)] = c
        /\ InnerOf(c, e)
    BY <1>1, <1>4, Zenon DEF Nested
  <2>2. c \in CallSet /\ Proper(c, Len(bs))
    BY <2>1, CallersWait, Zenon
  <2>3. c.disk = number_disks - Len(bs) /\ c.disk \in Nat
    BY <2>2 DEF Proper, CallSet
  <2>4. e.disk + 1 = c.disk
    BY <1>1, <1>2, <1>3, <2>3
  <2>. DEFINE first == [k \in 1 .. Len(bs) |-> start[k]]
  <2>5. /\ \A k \in 1 .. Len(bs) : k \in 1 .. Len(cs)
        /\ \A k \in 1 .. Len(bs) - 1 :
             k \in 1 .. Len(bs) /\ k + 1 \in 1 .. Len(bs) /\ k \in 1 .. Len(cs) - 1
        /\ 1 \in 1 .. Len(bs) /\ Len(bs) \in 1 .. Len(bs) /\ Len(cs) # 0
    BY <1>1, <1>2, <2>1
  <2>6. Since(bs, first)
    <3>1. start \in [1 .. Len(cs) -> Nat] /\ start[1] = 0
      BY <2>5, Zenon DEF Since
    <3>2. first \in [1 .. Len(bs) -> Nat] /\ first[1] = 0
      BY <2>5, <3>1
    <3>3. \A k \in 1 .. Len(bs) - 1 :
             first[k + 1] = first[k] + (IF bs[k].at = "second" THEN 2 ^ bs[k].disk ELSE 0)
      <4>1. \A k \in 1 .. Len(bs) - 1 :
             /\ first[k + 1] = start[k + 1] /\ first[k] = start[k] /\ bs[k] = cs[k]
             /\ start[k + 1] = start[k] + (IF cs[k].at = "second" THEN 2 ^ cs[k].disk ELSE 0)
        BY <1>1, <2>5, Zenon DEF Since
      <4>. HIDE DEF first
      <4>2. ASSUME NEW k \in 1 .. Len(bs) - 1
            PROVE  first[k + 1] = first[k] + (IF bs[k].at = "second" THEN 2 ^ bs[k].disk ELSE 0)
        BY <4>1, <4>2
      <4>. QED
        BY <4>2, Zenon
    <3>. QED
      BY <3>2, <3>3, Zenon DEF Since
  <2>7. first[Len(bs)] = start[Len(bs)] /\ start[Len(bs)] \in Nat
    BY <2>5, Zenon DEF Since
  <2>8. start[Len(cs)] = start[Len(bs)] + (IF c.at = "second" THEN 2 ^ c.disk ELSE 0)
    BY <2>1, Zenon DEF Since
  <2>9. m = start[Len(cs)] + 2 ^ c.disk - 1
    BY <2>4, Zenon
  <2>. DEFINE w == 2 ^ c.disk
  <2>10. w \in Nat /\ 2 ^ (c.disk + 1) = w + w
    BY <2>3, PowersOfTwo, Zenon
  <2>11. m = start[Len(bs)] + Done(c)
    <3>1. CASE c.at = "first"
      <4>1. start[Len(cs)] = start[Len(bs)] + 0 /\ Done(c) = w - 1
        BY <2>8, <3>1 DEF Done
      <4>2. m = start[Len(bs)] + 0 + w - 1
        BY <2>9, <4>1, Zenon
      <4>. HIDE DEF w
      <4>. QED
        BY <2>7, <2>10, <4>1, <4>2
    <3>2. CASE c.at = "second"
      <4>1. start[Len(cs)] = start[Len(bs)] + w /\ Done(c) = w + w - 1
        <5>1. start[Len(cs)] = start[Len(bs)] + w /\ Done(c) = 2 ^ (c.disk + 1) - 1
          BY <2>8, <3>2 DEF Done
        <5>2. 2 ^ (c.disk + 1) = w + w /\ w \in Nat
          BY <2>10
        <5>. HIDE DEF w, c, e
        <5>. QED
          BY <5>1, <5>2
      <4>2. m = start[Len(bs)] + w + w - 1
        BY <2>9, <4>1, Zenon
      <4>3. \A a, b \in Nat : a + b + b - 1 = a + (b + b - 1)
        OBVIOUS
      <4>. HIDE DEF w
      <4>. QED
        BY <2>7, <2>10, <4>1, <4>2, <4>3, Zenon
    <3>. QED
      BY <2>1, <3>1, <3>2 DEF InnerOf
  <2>12. m = first[Len(bs)] + Done(bs[Len(bs)])
    BY <2>1, <2>7, <2>11, Zenon
  <2>. QED
    BY <2>6, <2>12, Zenon DEF Counted
<1>5. ASSUME bs = <<>> PROVE m = 2 ^ number_disks - 1
  <2>1. Len(cs) = 1
    BY <1>1, <1>5
  <2>2. start[1] = 0
    BY <1>2, Zenon DEF Since
  <2>3. e.disk + 1 = number_disks
    BY <1>2, <1>3, <2>1
  <2>4. m = 0 + 2 ^ number_disks - 1
    BY <2>1, <2>2, <2>3, Zenon
  <2>5. 2 ^ number_disks \in Nat
    BY <1>2, PowersOfTwo, Zenon
  <2>. DEFINE w == 2 ^ number_disks
  <2>6. w \in Nat /\ m = 0 + w - 1
    BY <2>4, <2>5
  <2>7. m = w - 1
    <3>. HIDE DEF w
    <3>. QED
      BY <2>6
  <2>. QED
    BY <2>7
<1>. QED
  BY <1>4, <1>5, Zenon

\* One more call on top
OnTop(S, s, a, b, t) ==
  /\ t \in Seq(S) /\ Len(t) = Len(s) + 1
  /\ \A k \in 1 .. Len(s) - 1 : t[k] = s[k]
  /\ t[Len(s)] = a /\ t[Len(s) + 1] = b

\* Inner puts a pair of calls on top of the callers.
LEMMA TwoOnTop ==
  ASSUME NEW S, NEW s \in Seq(S), s # <<>>, NEW a \in S, NEW b \in S
  PROVE  OnTop(S, s, a, b, SubSeq(s, 1, Len(s) - 1) \o <<a, b>>)
<1>. DEFINE r == SubSeq(s, 1, Len(s) - 1)
            t == r \o <<a, b>>
<1>1. r \in Seq(S) /\ Len(r) = Len(s) - 1 /\ \A k \in 1 .. Len(s) - 1 : r[k] = s[k]
  BY AllButLast, Zenon
<1>2. Len(s) \in Nat /\ Len(s) # 0
  BY EmptySeq, LenProperties
<1>3. WithPair(S, r, a, b, t)
  BY <1>1, PairAppended, Zenon
<1>. HIDE DEF r, t
<1>4. Len(r) + 1 = Len(s) /\ Len(r) + 2 = Len(s) + 1
  BY <1>1, <1>2
<1>5. OnTop(S, s, a, b, t)
  BY <1>1, <1>3, <1>4, Zenon DEF WithPair, OnTop
<1>. QED
  BY <1>5, Zenon DEF t, r

\* A call that has only come further
SameArguments(a, c) == a.src = c.src /\ a.dest = c.dest /\ a.aux = c.aux

\* The inner call is one its caller makes.
LEMMA CallNested ==
  ASSUME NEW cs, Nested(cs), cs # <<>>, NEW a \in CallSet, NEW e \in CallSet,
         Proper(a, Len(cs)), Proper(e, Len(cs) + 1), InnerOf(a, e),
         SameArguments(a, cs[Len(cs)]), NEW ds, OnTop(CallSet, cs, a, e, ds)
  PROVE  Nested(ds) /\ ds # <<>>
<1>1. cs \in Seq(CallSet) /\ Len(cs) \in Nat \ {0}
  BY TopOfNested, Zenon DEF Nested
<1>2. /\ ds \in Seq(CallSet) /\ Len(ds) = Len(cs) + 1
      /\ \A k \in 1 .. Len(cs) - 1 : ds[k] = cs[k]
      /\ ds[Len(cs)] = a /\ ds[Len(cs) + 1] = e
  BY Zenon DEF OnTop
<1>3. /\ \A k \in 1 .. Len(ds) :
           (k \in 1 .. Len(cs) - 1 /\ k \in 1 .. Len(cs)) \/ k = Len(cs) \/ k = Len(cs) + 1
      /\ \A k \in 1 .. Len(ds) - 1 :
           \/ k \in 1 .. Len(cs) - 1 /\ k + 1 \in 1 .. Len(cs) - 1
           \/ k \in 1 .. Len(cs) - 1 /\ k + 1 = Len(cs)
           \/ k = Len(cs) /\ k + 1 = Len(cs) + 1
  BY <1>1, <1>2
<1>4. \A k \in 1 .. Len(ds) : Proper(ds[k], k)
  <2>1. \A k \in 1 .. Len(cs) : Proper(cs[k], k)
    BY Zenon DEF Nested
  <2>. QED
    BY <1>2, <1>3, <2>1, Zenon
<1>5. \A k \in 1 .. Len(ds) - 1 : InnerOf(ds[k], ds[k + 1])
  <2>1. \A k \in 1 .. Len(cs) - 1 : InnerOf(cs[k], cs[k + 1])
    BY Zenon DEF Nested
  <2>2. \A c : InnerOf(c, cs[Len(cs)]) => InnerOf(c, a)
    BY Zenon DEF InnerOf, SameArguments
  <2>3. ASSUME NEW k \in 1 .. Len(ds) - 1 PROVE InnerOf(ds[k], ds[k + 1])
    <3>1. CASE k \in 1 .. Len(cs) - 1 /\ k + 1 \in 1 .. Len(cs) - 1
      BY <1>2, <2>1, <3>1, Zenon
    <3>2. CASE k \in 1 .. Len(cs) - 1 /\ k + 1 = Len(cs)
      BY <1>2, <2>1, <2>2, <3>2, Zenon
    <3>3. CASE k = Len(cs) /\ k + 1 = Len(cs) + 1
      BY <1>2, <3>3, Zenon
    <3>. QED
      BY <1>3, <3>1, <3>2, <3>3, Zenon
  <2>. QED
    BY <2>3, Zenon
<1>6. ds # <<>>
  BY <1>1, <1>2
<1>. QED
  BY <1>2, <1>4, <1>5, <1>6, Zenon DEF Nested

\* It begins with the moves its caller has behind it.
LEMMA CallCounted ==
  ASSUME NEW cs, Nested(cs), cs # <<>>, NEW ds, Len(ds) = Len(cs) + 1,
         \A k \in 1 .. Len(cs) - 1 : ds[k] = cs[k],
         ds[Len(cs) + 1].at = "entered",
         NEW start, Since(cs, start), NEW m \in Nat,
         m = start[Len(cs)] + (IF ds[Len(cs)].at = "second"
                               THEN 2 ^ ds[Len(cs)].disk ELSE 0)
  PROVE  Counted(ds, m)
<1>1. Len(cs) \in Nat \ {0}
  BY TopOfNested, Zenon
<1>. DEFINE next == [k \in 1 .. Len(ds) |-> IF k = Len(ds) THEN m ELSE start[k]]
<1>2. /\ \A k \in 1 .. Len(ds) : k # Len(ds) => k \in 1 .. Len(cs)
      /\ \A k \in 1 .. Len(ds) - 1 :
           /\ k \in 1 .. Len(ds) /\ k # Len(ds) /\ k + 1 \in 1 .. Len(ds)
           /\ \/ k \in 1 .. Len(cs) - 1 /\ k + 1 # Len(ds)
              \/ k = Len(cs) /\ k + 1 = Len(ds)
      /\ 1 \in 1 .. Len(ds) /\ 1 # Len(ds) /\ Len(ds) \in 1 .. Len(ds) /\ Len(cs) # 0
  BY <1>1
<1>3. start \in [1 .. Len(cs) -> Nat] /\ start[1] = 0
  BY <1>2, Zenon DEF Since
<1>4. next \in [1 .. Len(ds) -> Nat] /\ next[1] = 0 /\ next[Len(ds)] = m
  BY <1>2, <1>3, Zenon
<1>5. ASSUME NEW k \in 1 .. Len(ds) - 1
      PROVE  next[k + 1] = next[k] + (IF ds[k].at = "second" THEN 2 ^ ds[k].disk ELSE 0)
  <2>1. next[k] = start[k]
    BY <1>2, Zenon
  <2>2. CASE k \in 1 .. Len(cs) - 1 /\ k + 1 # Len(ds)
    <3>1. next[k + 1] = start[k + 1]
      BY <1>2, <2>2, Zenon
    <3>2. start[k + 1] = start[k] + (IF cs[k].at = "second" THEN 2 ^ cs[k].disk ELSE 0)
      BY <2>2, Zenon DEF Since
    <3>. QED
      BY <2>1, <2>2, <3>1, <3>2, Zenon
  <2>3. CASE k = Len(cs) /\ k + 1 = Len(ds)
    <3>1. next[k + 1] = m
      BY <1>4, <2>3, Zenon
    <3>. QED
      BY <2>1, <2>3, <3>1, Zenon
  <2>. QED
    BY <1>2, <2>2, <2>3, Zenon
<1>6. Since(ds, next)
  BY <1>4, <1>5, Zenon DEF Since
<1>7. Done(ds[Len(ds)]) = 0
  BY Zenon DEF Done
<1>8. m = next[Len(ds)] + Done(ds[Len(ds)])
  <2>1. m = m + 0
    OBVIOUS
  <2>. QED
    BY <1>4, <1>7, <2>1, Zenon
<1>. HIDE DEF next
<1>. QED
  BY <1>6, <1>8, Zenon DEF Counted

\* hanoi calls move_disk with the whole tower on src.
LEMMA HanoiInitIInv == HanoiInit => HanoiIInv
<1>. SUFFICES ASSUME HanoiInit PROVE HanoiIInv
  OBVIOUS
<1>. DEFINE c == Called(number_disks - 1, "src", "dst", "aux", "entered")
            tower == [i \in 1 .. number_disks |-> number_disks - i]
<1>1. number_disks \in Nat /\ number_disks - 1 \in Nat
  BY DisksAssumption
<1>2. /\ pegs \in [Peg -> {tower, <<>>}]
      /\ pegs["src"] = tower /\ pegs["dst"] = <<>> /\ pegs["aux"] = <<>>
  BY DEF HanoiInit, Peg
<1>3. tower \in Seq(Nat) /\ Len(tower) = number_disks /\ \A i \in 1 .. number_disks : tower[i] = number_disks - i
  BY <1>1
<1>4. Tidy(tower)
  <2>. HIDE DEF tower
  <2>1. \A i \in 1 .. Len(tower) : tower[i] <= number_disks - i
    BY <1>1, <1>3
  <2>2. \A i, j \in 1 .. Len(tower) : i < j => tower[j] < tower[i]
    BY <1>1, <1>3
  <2>. QED
    BY <1>3, <2>1, <2>2, Zenon DEF Tidy
<1>5. Tidy(<<>>) /\ Disks(<<>>) = {}
  BY DEF Tidy, Disks
<1>6. On(pegs, "dst") = {} /\ On(pegs, "aux") = {}
  BY <1>2, <1>5, Zenon DEF On
<1>7. Apart(pegs)
  <2>1. \A p \in Peg : Tidy(pegs[p])
    BY <1>2, <1>4, <1>5, Zenon DEF Peg
  <2>2. \A p, q \in Peg : p # q => On(pegs, p) \cap On(pegs, q) = {}
    BY <1>6 DEF Peg
  <2>3. pegs \in [Peg -> Seq(Nat)]
    BY <1>2, <1>4, <1>5, Zenon DEF Tidy
  <2>. QED
    BY <2>1, <2>2, <2>3, Zenon DEF Apart
<1>8. 0 .. number_disks - 1 \subseteq On(pegs, "src")
  <2>. HIDE DEF tower
  <2>1. ASSUME NEW d \in 0 .. number_disks - 1 PROVE \E i \in 1 .. Len(tower) : d = tower[i]
    <3>1. number_disks - d \in 1 .. number_disks /\ number_disks - (number_disks - d) = d
      BY <1>1
    <3>. QED
      BY <1>3, <3>1
  <2>2. 0 .. number_disks - 1 \subseteq Disks(tower)
    BY <2>1, Zenon DEF Disks
  <2>. QED
    BY <1>2, <2>2, Zenon DEF On
<1>9. /\ c \in CallSet /\ c.disk = number_disks - 1 /\ c.at = "entered"
      /\ c.src = "src" /\ c.dest = "dst" /\ c.aux = "aux"
  BY <1>1 DEF Called, CallSet, Peg
<1>10. calls = <<c>> /\ moves = 0 /\ line.label = line.disk
  BY DEF HanoiInit
<1>. HIDE DEF c, tower
<1>11. /\ calls \in Seq(CallSet) /\ Len(calls) = 1 /\ calls[1] = c /\ calls # <<>>
       /\ 1 .. Len(calls) = {1} /\ 1 .. Len(calls) - 1 = {}
  BY <1>9, <1>10
<1>12. Nested(calls)
  <2>1. Proper(c, 1)
    BY <1>9 DEF Proper
  <2>. QED
    BY <1>11, <2>1, Zenon DEF Nested
<1>13. Placed(pegs, c) /\ Ready(pegs, c)
  BY <1>8, <1>9 DEF Placed, Ready
<1>14. Counted(calls, moves)
  <2>. DEFINE start == [k \in {1} |-> 0]
  <2>1. start \in [{1} -> Nat] /\ start[1] = 0
    OBVIOUS
  <2>2. Since(calls, start)
    BY <1>11, <2>1, Zenon DEF Since
  <2>3. Done(c) = 0
    BY <1>9, Zenon DEF Done
  <2>4. moves = 0 + 0
    BY <1>10
  <2>. QED
    BY <1>11, <2>1, <2>2, <2>3, <2>4, Zenon DEF Counted
<1>. QED
  BY <1>7, <1>10, <1>11, <1>12, <1>13, <1>14, Zenon DEF HanoiIInv, Top

\* The move of the disk of the call on top
LEMMA MoveTop ==
  ASSUME HanoiIInv, calls # <<>>, NEW label, Move(label, Top.src, Top.dest),
         Top.disk \in On(pegs, Top.src), 0 .. Top.disk - 1 \subseteq On(pegs, Top.aux)
  PROVE  /\ Apart(pegs') /\ pop(pegs[Top.src]).val = Top.disk
         /\ line'.disk = Top.disk /\ line'.label = label /\ moves' = moves + 1
         /\ \A k \in 1 .. Len(calls) - 1 : Placed(pegs', calls[k])
         /\ Top.disk \in On(pegs', Top.dest)
         /\ On(pegs', Top.aux) = On(pegs, Top.aux)
<1>1. Apart(pegs) /\ Nested(calls) /\ \A k \in 1 .. Len(calls) : Placed(pegs, calls[k])
  BY Zenon DEF HanoiIInv
<1>2. Top \in CallSet /\ Proper(Top, Len(calls)) /\ Top.disk \in 0 .. number_disks - 1
  BY <1>1, TopOfNested, Zenon DEF Top
<1>3. /\ Top.src \in Peg /\ Top.dest \in Peg /\ Top.aux \in Peg
      /\ Top.src # Top.dest /\ Top.src # Top.aux /\ Top.dest # Top.aux
  BY <1>2 DEF CallSet, Proper
<1>4. /\ PoppedAndPushed(pegs, Top.src, Top.dest, pegs')
      /\ line' = [disk |-> pop(pegs[Top.src]).val, label |-> label]
      /\ moves' = moves + 1
  BY DEF Move, PoppedAndPushed
<1>5. /\ pop(pegs[Top.src]).val = Top.disk
      /\ Apart(pegs')
      /\ On(pegs', Top.src) = On(pegs, Top.src) \ {Top.disk}
      /\ On(pegs', Top.dest) = On(pegs, Top.dest) \cup {Top.disk}
      /\ On(pegs', Top.aux) = On(pegs, Top.aux)
  <2>1. Moved(pegs, Top.src, Top.dest, Top.aux, Top.disk, pegs')
    BY <1>1, <1>2, <1>3, <1>4, MoveDisk, Zenon
  <2>. QED
    BY <2>1, Zenon DEF Moved
<1>6. \A p \in Peg : On(pegs, p) \ {Top.disk} \subseteq On(pegs', p)
  <2>1. Peg = {Top.src, Top.dest, Top.aux}
    BY <1>3 DEF Peg
  <2>. QED
    BY <1>5, <2>1, Zenon
<1>7. \A k \in 1 .. Len(calls) - 1 : Placed(pegs', calls[k])
  <2>1. ASSUME NEW k \in 1 .. Len(calls) - 1 PROVE Placed(pegs', calls[k])
    <3>1. k \in 1 .. Len(calls) /\ calls[k] \in CallSet /\ calls[k].disk # Top.disk
      BY <1>1, CallersWait, Zenon DEF Top
    <3>. QED
      BY <1>1, <1>6, <3>1, StillPlaced, Zenon
  <2>. QED
    BY <2>1, Zenon
<1>8. line'.disk = Top.disk /\ line'.label = label
  BY <1>4, <1>5
<1>9. Top.disk \in On(pegs', Top.dest)
  BY <1>5, Zenon
<1>. QED
  BY <1>4, <1>5, <1>7, <1>8, <1>9, Zenon

\* The smallest disk is moved and the call returns.
LEMMA LastIInv == ASSUME HanoiIInv, move_last PROVE HanoiIInv'
<1>1. /\ calls # <<>> /\ Top.at = "entered" /\ Top.disk = 0 /\ calls' = Callers
      /\ Move(pop(pegs[Top.src]).val, Top.src, Top.dest)
  BY DEF move_last
<1>2. /\ Nested(calls) /\ Ready(pegs, Top) /\ Counted(calls, moves)
  BY <1>1, Zenon DEF HanoiIInv
<1>3. 0 .. Top.disk = {0} /\ 0 .. Top.disk - 1 = {} /\ Top.disk + 1 = 0 + 1
  BY <1>1
<1>4. Top.disk \in On(pegs, Top.src) /\ 0 .. Top.disk - 1 \subseteq On(pegs, Top.aux)
  BY <1>1, <1>2, <1>3, Zenon DEF Ready
<1>5. /\ Apart(pegs') /\ line'.label = line'.disk /\ moves' = moves + 1
      /\ \A k \in 1 .. Len(calls) - 1 : Placed(pegs', calls[k])
      /\ Top.disk \in On(pegs', Top.dest)
  BY <1>1, <1>4, MoveTop, Zenon
<1>6. 0 .. Top.disk \subseteq On(pegs', Top.dest)
  BY <1>1, <1>3, <1>5, Zenon
<1>7. calls' = SubSeq(calls, 1, Len(calls) - 1)
  BY <1>1 DEF Callers
<1>8. Nested(calls')
  BY <1>1, <1>2, <1>7, ReturnNested, Zenon
<1>9. /\ \A k \in 1 .. Len(calls') : Placed(pegs', calls'[k])
      /\ calls' # <<>> => Ready(pegs', Top')
      /\ calls' = <<>> => 0 .. number_disks - 1 \subseteq On(pegs', "dst")
  BY <1>1, <1>2, <1>5, <1>6, <1>7, ReturnReady, Zenon DEF Top
<1>10. PICK start : Since(calls, start) /\ moves = start[Len(calls)] + Done(Top)
  BY <1>2, Zenon DEF Counted, Top
<1>11. moves' = start[Len(calls)] + 2 ^ (Top.disk + 1) - 1
  <2>1. start[Len(calls)] \in Nat
    BY <1>1, <1>2, <1>10, TopOfNested, Zenon DEF Since
  <2>2. Done(Top) = 0
    BY <1>1, Zenon DEF Done
  <2>3. 2 ^ (Top.disk + 1) = 1 + 1
    <3>1. 2 ^ (0 + 1) = 2 ^ 0 + 2 ^ 0 /\ 2 ^ 0 = 1
      BY PowersOfTwo
    <3>. QED
      BY <1>3, <3>1, Zenon
  <2>4. moves' = start[Len(calls)] + 0 + 1
    BY <1>5, <1>10, <2>2, Zenon
  <2>5. \A a \in Nat : a + 0 + 1 = a + (1 + 1) - 1
    OBVIOUS
  <2>. QED
    BY <2>1, <2>3, <2>4, <2>5, Zenon
<1>12. /\ calls' # <<>> => Counted(calls', moves')
       /\ calls' = <<>> => moves' = 2 ^ number_disks - 1
  BY <1>1, <1>2, <1>7, <1>10, <1>11, ReturnCounted, Zenon DEF Top
<1>. QED
  BY <1>5, <1>8, <1>9, <1>12, Zenon DEF HanoiIInv

\* A call that has made both inner calls returns.
LEMMA ReturnIInv == ASSUME HanoiIInv, move_return PROVE HanoiIInv'
<1>1. /\ calls # <<>> /\ Top.at = "second" /\ calls' = Callers
      /\ pegs' = pegs /\ line' = line /\ moves' = moves
  BY DEF move_return
<1>2. /\ Apart(pegs) /\ Nested(calls) /\ Ready(pegs, Top) /\ Counted(calls, moves)
      /\ line.label = line.disk
      /\ \A k \in 1 .. Len(calls) : Placed(pegs, calls[k])
  BY <1>1, Zenon DEF HanoiIInv
<1>3. 0 .. Top.disk \subseteq On(pegs, Top.dest)
  BY <1>1, <1>2, Zenon DEF Ready
<1>4. calls' = SubSeq(calls, 1, Len(calls) - 1)
  BY <1>1 DEF Callers
<1>5. Nested(calls')
  BY <1>1, <1>2, <1>4, ReturnNested, Zenon
<1>6. \A k \in 1 .. Len(calls) - 1 : Placed(pegs, calls[k])
  BY <1>1, <1>2, CallersWait, Zenon
<1>7. /\ \A k \in 1 .. Len(calls') : Placed(pegs, calls'[k])
      /\ calls' # <<>> => Ready(pegs, Top')
      /\ calls' = <<>> => 0 .. number_disks - 1 \subseteq On(pegs, "dst")
  BY <1>1, <1>2, <1>3, <1>4, <1>6, ReturnReady, Zenon DEF Top
<1>8. PICK start : Since(calls, start) /\ moves = start[Len(calls)] + Done(Top)
  BY <1>2, Zenon DEF Counted, Top
<1>9. moves = start[Len(calls)] + 2 ^ (Top.disk + 1) - 1
  <2>1. start[Len(calls)] \in Nat /\ Top.disk \in 0 .. number_disks - 1
    BY <1>1, <1>2, <1>8, TopOfNested, Zenon DEF Since, Top
  <2>2. Done(Top) = 2 ^ (Top.disk + 1) - 1
    BY <1>1 DEF Done
  <2>3. Top.disk + 1 \in Nat
    BY <2>1
  <2>. DEFINE w == 2 ^ (Top.disk + 1)
  <2>4. w \in Nat
    BY <2>3, PowersOfTwo, Zenon
  <2>5. moves = start[Len(calls)] + (w - 1)
    BY <1>8, <2>2, Zenon
  <2>6. \A a, b \in Nat : a + (b - 1) = a + b - 1
    OBVIOUS
  <2>. HIDE DEF w
  <2>7. moves = start[Len(calls)] + w - 1
    BY <2>1, <2>4, <2>5, <2>6, Zenon
  <2>. QED
    BY <2>7 DEF w
<1>10. /\ calls' # <<>> => Counted(calls', moves)
       /\ calls' = <<>> => moves = 2 ^ number_disks - 1
  BY <1>1, <1>2, <1>4, <1>8, <1>9, ReturnCounted, Zenon DEF Top
<1>. QED
  BY <1>1, <1>2, <1>5, <1>7, <1>10, Zenon DEF HanoiIInv

\* The inner calls of move_disk
LEMMA InnerCall ==
  ASSUME HanoiIInv, calls # <<>>, Top.disk # 0,
         NEW a \in {"first", "second"},
         NEW s \in Peg, NEW t \in Peg, NEW x \in Peg, Inner(a, s, t, x),
         \/ a = "first" /\ s = Top.src /\ t = Top.aux /\ x = Top.dest
         \/ a = "second" /\ s = Top.aux /\ t = Top.dest /\ x = Top.src
  PROVE  /\ Nested(calls') /\ calls' # <<>> /\ Len(calls') = Len(calls) + 1
         /\ \A k \in 1 .. Len(calls) - 1 : calls'[k] = calls[k]
         /\ calls'[Len(calls)] = [Top EXCEPT !.at = a]
         /\ calls'[Len(calls) + 1] = Called(Top.disk - 1, s, t, x, "entered")
<1>. DEFINE c == [Top EXCEPT !.at = a]
            e == Called(Top.disk - 1, s, t, x, "entered")
<1>1. Nested(calls)
  BY Zenon DEF HanoiIInv
<1>2. /\ Top \in CallSet /\ Proper(Top, Len(calls)) /\ Len(calls) \in Nat \ {0}
      /\ Top.disk \in 0 .. number_disks - 1
  BY <1>1, TopOfNested, Zenon DEF Top
<1>3. Top.disk - 1 \in Nat
  BY <1>2
<1>4. c \in CallSet /\ c.src = Top.src /\ c.dest = Top.dest /\ c.aux = Top.aux /\ c.disk = Top.disk /\ c.at = a
  BY <1>2 DEF CallSet
<1>5. /\ e \in CallSet /\ e.disk = Top.disk - 1 /\ e.at = "entered"
      /\ e.src = s /\ e.dest = t /\ e.aux = x
  BY <1>3 DEF Called, CallSet
<1>6. calls' = SubSeq(calls, 1, Len(calls) - 1) \o <<c, e>>
  BY DEF Inner, Callers
<1>. HIDE DEF c, e
<1>7. Proper(c, Len(calls))
  BY <1>2, <1>4, Zenon DEF Proper
<1>8. Proper(e, Len(calls) + 1)
  <2>1. Top.disk = number_disks - Len(calls) /\ Top.src # Top.dest /\ Top.src # Top.aux /\ Top.dest # Top.aux
    BY <1>2, Zenon DEF Proper
  <2>2. e.disk = number_disks - (Len(calls) + 1) /\ Len(calls) + 1 # 1
    BY <1>2, <1>5, <2>1, DisksAssumption
  <2>3. e.src # e.dest /\ e.src # e.aux /\ e.dest # e.aux
    BY <1>5, <2>1
  <2>. QED
    BY <1>5, <2>2, <2>3, Zenon DEF Proper
<1>9. InnerOf(c, e)
  BY <1>4, <1>5, Zenon DEF InnerOf
<1>10. /\ Nested(calls') /\ calls' # <<>> /\ Len(calls') = Len(calls) + 1
       /\ \A k \in 1 .. Len(calls) - 1 : calls'[k] = calls[k]
       /\ calls'[Len(calls)] = c /\ calls'[Len(calls) + 1] = e
  <2>1. SameArguments(c, calls[Len(calls)])
    BY <1>4, Zenon DEF Top, SameArguments
  <2>2. calls \in Seq(CallSet)
    BY <1>1, Zenon DEF Nested
  <2>3. OnTop(CallSet, calls, c, e, SubSeq(calls, 1, Len(calls) - 1) \o <<c, e>>)
    BY <1>4, <1>5, <2>2, TwoOnTop, Zenon
  <2>4. OnTop(CallSet, calls, c, e, calls')
    BY <1>6, <2>3
  <2>5. Nested(calls') /\ calls' # <<>>
    BY <1>1, <1>4, <1>5, <1>7, <1>8, <1>9, <2>1, <2>4, CallNested, Zenon
  <2>. QED
    BY <2>4, <2>5, Zenon DEF OnTop
<1>. QED
  BY <1>10, Zenon DEF c, e

\* What the call that makes an inner one, and the inner one, are ready for
LEMMA InnerIInv ==
  ASSUME Apart(pegs'), Nested(calls'), line'.label = line'.disk,
         calls' # <<>>, Nested(calls), calls # <<>>,
         Len(calls') = Len(calls) + 1,
         \A k \in 1 .. Len(calls) - 1 : calls'[k] = calls[k],
         \A k \in 1 .. Len(calls) - 1 : Placed(pegs', calls[k]),
         Placed(pegs', calls'[Len(calls)]),
         calls'[Len(calls) + 1].at = "entered",
         0 .. calls'[Len(calls) + 1].disk \subseteq On(pegs', calls'[Len(calls) + 1].src),
         Counted(calls', moves')
  PROVE  HanoiIInv'
<1>. DEFINE e == calls'[Len(calls) + 1]
<1>1. Placed(pegs', e) /\ Ready(pegs', e)
  BY DEF Placed, Ready
<1>2. \A k \in 1 .. Len(calls') : k \in 1 .. Len(calls) - 1 \/ k = Len(calls) \/ k = Len(calls) + 1
  <2>1. Len(calls) \in Nat \ {0}
    BY TopOfNested, Zenon
  <2>. QED
    BY <2>1
<1>3. \A k \in 1 .. Len(calls') : Placed(pegs', calls'[k])
  BY <1>1, <1>2, Zenon
<1>4. Top' = e
  BY Zenon DEF Top
<1>. QED
  BY <1>1, <1>3, <1>4, Zenon DEF HanoiIInv

\* The first inner call moves the smaller disks out of the way.
LEMMA AboveIInv == ASSUME HanoiIInv, move_above PROVE HanoiIInv'
<1>1. /\ calls # <<>> /\ Top.at = "entered" /\ Top.disk # 0
      /\ Inner("first", Top.src, Top.aux, Top.dest)
      /\ pegs' = pegs /\ line' = line /\ moves' = moves
  BY DEF move_above
<1>2. /\ Apart(pegs) /\ Nested(calls) /\ Ready(pegs, Top) /\ Counted(calls, moves)
      /\ line.label = line.disk
      /\ \A k \in 1 .. Len(calls) : Placed(pegs, calls[k])
  BY <1>1, Zenon DEF HanoiIInv
<1>3. Top \in CallSet /\ Len(calls) \in 1 .. Len(calls) /\ Top.disk \in 0 .. number_disks - 1
  BY <1>1, <1>2, TopOfNested, Zenon DEF Top
<1>4. Top.src \in Peg /\ Top.dest \in Peg /\ Top.aux \in Peg
  BY <1>3 DEF CallSet
<1>. DEFINE c == [Top EXCEPT !.at = "first"]
            e == Called(Top.disk - 1, Top.src, Top.aux, Top.dest, "entered")
<1>5. /\ Nested(calls') /\ calls' # <<>> /\ Len(calls') = Len(calls) + 1
      /\ \A k \in 1 .. Len(calls) - 1 : calls'[k] = calls[k]
      /\ calls'[Len(calls)] = c /\ calls'[Len(calls) + 1] = e
  BY <1>1, <1>4, InnerCall
<1>6. /\ c.at = "first" /\ c.disk = Top.disk /\ c.src = Top.src
      /\ e.at = "entered" /\ e.disk = Top.disk - 1 /\ e.src = Top.src
  BY <1>3 DEF CallSet, Called
<1>. HIDE DEF c, e
<1>7. 0 .. Top.disk \subseteq On(pegs, Top.src)
  BY <1>1, <1>2, Zenon DEF Ready
<1>8. Top.disk \in 0 .. Top.disk /\ 0 .. Top.disk - 1 \subseteq 0 .. Top.disk
  BY <1>3
<1>9. Placed(pegs, c)
  <2>1. c.disk \in On(pegs, c.src)
    BY <1>6, <1>7, <1>8, Zenon
  <2>. QED
    BY <1>6, <2>1 DEF Placed
<1>10. 0 .. e.disk \subseteq On(pegs, e.src)
  BY <1>6, <1>7, <1>8, Zenon
<1>11. PICK start : Since(calls, start) /\ moves = start[Len(calls)] + Done(Top)
  BY <1>2, Zenon DEF Counted, Top
<1>12. /\ moves \in Nat
       /\ moves = start[Len(calls)] + (IF c.at = "second" THEN 2 ^ c.disk ELSE 0)
  <2>1. start[Len(calls)] \in Nat
    BY <1>3, <1>11, Zenon DEF Since
  <2>2. Done(Top) = 0
    BY <1>1, Zenon DEF Done
  <2>3. moves = start[Len(calls)] + 0
    BY <1>11, <2>2, Zenon
  <2>4. (IF c.at = "second" THEN 2 ^ c.disk ELSE 0) = 0
    BY <1>6
  <2>5. moves \in Nat
    BY <2>1, <2>3
  <2>. QED
    BY <2>3, <2>4, <2>5, Zenon
<1>13. Counted(calls', moves)
  BY <1>1, <1>2, <1>5, <1>6, <1>11, <1>12, CallCounted, Zenon
<1>14. \A k \in 1 .. Len(calls) - 1 : Placed(pegs, calls[k])
  BY <1>1, <1>2, CallersWait, Zenon
<1>. QED
  BY <1>1, <1>2, <1>5, <1>6, <1>9, <1>10, <1>13, <1>14, InnerIInv, Zenon

\* The call moves its own disk, and the second inner call the others onto it.
LEMMA OwnIInv == ASSUME HanoiIInv, move_own PROVE HanoiIInv'
<1>1. /\ calls # <<>> /\ Top.at = "first"
      /\ Move(Top.disk, Top.src, Top.dest)
      /\ Inner("second", Top.aux, Top.dest, Top.src)
  BY DEF move_own
<1>2. /\ Nested(calls) /\ Ready(pegs, Top) /\ Counted(calls, moves)
      /\ \A k \in 1 .. Len(calls) : Placed(pegs, calls[k])
  BY <1>1, Zenon DEF HanoiIInv
<1>3. Top \in CallSet /\ Len(calls) \in 1 .. Len(calls) /\ Top.disk \in 0 .. number_disks - 1
  BY <1>1, <1>2, TopOfNested, Zenon DEF Top
<1>4. Top.src \in Peg /\ Top.dest \in Peg /\ Top.aux \in Peg
  BY <1>3 DEF CallSet
<1>5. Top.disk \in On(pegs, Top.src) /\ 0 .. Top.disk - 1 \subseteq On(pegs, Top.aux)
  <2>1. Placed(pegs, Top)
    BY <1>2, <1>3, Zenon DEF Top
  <2>. QED
    BY <1>1, <1>2, <2>1, Zenon DEF Placed, Ready
<1>6. /\ Apart(pegs') /\ line'.label = line'.disk /\ moves' = moves + 1
      /\ \A k \in 1 .. Len(calls) - 1 : Placed(pegs', calls[k])
      /\ Top.disk \in On(pegs', Top.dest)
      /\ On(pegs', Top.aux) = On(pegs, Top.aux)
  BY <1>1, <1>5, MoveTop, Zenon
<1>. DEFINE c == [Top EXCEPT !.at = "second"]
            e == Called(Top.disk - 1, Top.aux, Top.dest, Top.src, "entered")
<1>7. /\ Nested(calls') /\ calls' # <<>> /\ Len(calls') = Len(calls) + 1
      /\ \A k \in 1 .. Len(calls) - 1 : calls'[k] = calls[k]
      /\ calls'[Len(calls)] = c /\ calls'[Len(calls) + 1] = e
  <2>1. Top.disk # 0
    <3>1. Proper(Top, Len(calls))
      BY <1>1, <1>2, TopOfNested, Zenon DEF Top
    <3>. QED
      BY <1>1, <3>1 DEF Proper
  <2>. QED
    BY <1>1, <1>4, <2>1, InnerCall
<1>8. /\ c.at = "second" /\ c.disk = Top.disk /\ c.dest = Top.dest
      /\ e.at = "entered" /\ e.disk = Top.disk - 1 /\ e.src = Top.aux
  BY <1>3 DEF CallSet, Called
<1>. HIDE DEF c, e
<1>9. Placed(pegs', c)
  <2>1. c.disk \in On(pegs', c.dest)
    BY <1>6, <1>8, Zenon
  <2>. QED
    BY <1>8, <2>1 DEF Placed
<1>10. 0 .. e.disk \subseteq On(pegs', e.src)
  BY <1>5, <1>6, <1>8, Zenon
<1>11. PICK start : Since(calls, start) /\ moves = start[Len(calls)] + Done(Top)
  BY <1>2, Zenon DEF Counted, Top
<1>12. /\ moves' \in Nat
       /\ moves' = start[Len(calls)] + (IF c.at = "second" THEN 2 ^ c.disk ELSE 0)
  <2>. DEFINE w == 2 ^ Top.disk
  <2>1. start[Len(calls)] \in Nat /\ Top.disk \in Nat
    BY <1>3, <1>11, Zenon DEF Since, CallSet
  <2>2. w \in Nat
    BY <2>1, PowersOfTwo, Zenon
  <2>3. Done(Top) = w - 1
    BY <1>1 DEF Done
  <2>4. (IF c.at = "second" THEN 2 ^ c.disk ELSE 0) = w
    BY <1>8
  <2>5. moves' = start[Len(calls)] + (w - 1) + 1
    BY <1>6, <1>11, <2>3, Zenon
  <2>. HIDE DEF w
  <2>6. \A i, j \in Nat : i + (j - 1) + 1 = i + j /\ i + j \in Nat
    OBVIOUS
  <2>. QED
    BY <2>1, <2>2, <2>4, <2>5, <2>6, Zenon
<1>13. Counted(calls', moves')
  BY <1>1, <1>2, <1>7, <1>8, <1>11, <1>12, CallCounted, Zenon
<1>. QED
  BY <1>1, <1>2, <1>6, <1>7, <1>8, <1>9, <1>10, <1>13, InnerIInv, Zenon

\* Every step
LEMMA HanoiNextIInv == ASSUME HanoiIInv, [HanoiNext]_hanoiVars PROVE HanoiIInv'
<1>1. ASSUME UNCHANGED hanoiVars PROVE HanoiIInv'
  <2>1. pegs' = pegs /\ calls' = calls /\ line' = line /\ moves' = moves
    BY <1>1 DEF hanoiVars
  <2>2. Top' = Top
    BY <2>1, Zenon DEF Top
  <2>. QED
    BY <2>1, <2>2, Zenon DEF HanoiIInv
<1>. QED
  BY <1>1, LastIInv, AboveIInv, OwnIInv, ReturnIInv, Zenon DEF HanoiNext

\* What the invariant says of the Stacks and the count is HanoiLegal.
LEMMA HanoiLegalFromIInv == HanoiIInv => HanoiLegal
<1>. SUFFICES ASSUME HanoiIInv PROVE HanoiLegal
  OBVIOUS
<1>1. Apart(pegs) /\ line.label = line.disk
  BY Zenon DEF HanoiIInv
<1>2. \A p \in Peg : Tidy(pegs[p])
  BY <1>1, Zenon DEF Apart
<1>3. \A p \in Peg : \A i, j \in DOMAIN pegs[p] : i < j => pegs[p][j] < pegs[p][i]
  <2>1. ASSUME NEW s, Tidy(s) PROVE DOMAIN s = 1 .. Len(s)
    BY <2>1 DEF Tidy
  <2>2. \A s : Tidy(s) => \A i, j \in DOMAIN s : i < j => s[j] < s[i]
    BY <2>1, Zenon DEF Tidy
  <2>. QED
    BY <1>2, <2>2, Zenon
<1>4. ASSUME calls = <<>>
      PROVE  /\ moves = 2 ^ number_disks - 1
             /\ pegs["dst"] = [i \in 1 .. number_disks |-> number_disks - i]
  <2>1. 0 .. number_disks - 1 \subseteq Disks(pegs["dst"]) /\ moves = 2 ^ number_disks - 1
    BY <1>4, Zenon DEF HanoiIInv, On
  <2>2. Tidy(pegs["dst"])
    BY <1>2, Zenon DEF Peg
  <2>. QED
    BY <2>1, <2>2, WholeTower, Zenon
<1>. QED
  BY <1>1, <1>3, <1>4, Zenon DEF HanoiLegal

\* For every number of disks: move_disk never puts a disk on a smaller one,
\* prints the number of the disk it moves, and moves the tower in 2^n - 1
\* moves.
THEOREM HanoiAlwaysLegal == HanoiSpec => []HanoiLegal
<1>1. HanoiInit => HanoiIInv
  BY HanoiInitIInv
<1>2. HanoiIInv /\ [HanoiNext]_hanoiVars => HanoiIInv'
  BY HanoiNextIInv
<1>3. HanoiIInv => HanoiLegal
  BY HanoiLegalFromIInv
<1>. QED
  BY <1>1, <1>2, <1>3, PTL DEF HanoiSpec
=============================================================================
