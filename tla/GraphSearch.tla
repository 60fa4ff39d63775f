----------------------------- MODULE GraphSearch -----------------------------
(***************************************************************************)
(* c++/src/graph.cpp: a graph as an adjacency matrix, searched from vertex *)
(* 0 with the Stack of stack.cpp (depth first) or the Queue of graph.cpp   *)
(* (breadth first), both arrays of `capacity' elements that drop what does *)
(* not fit.                                                                *)
(*                                                                         *)
(* `new int[n]' does not clear the matrix: an entry nobody has set may be  *)
(* any number, and counts as an edge if it happens to be 1, so Init        *)
(* leaves the matrix open.  Vertices keep their visited mark from one      *)
(* search to the next.                                                     *)
(***************************************************************************)
EXTENDS Integers, Sequences, FiniteSets

CONSTANTS capacity,   \* the argument of Graph(n)
          SearchLimit \* bound: searches of one graph

ASSUME CapacityAssumption == capacity \in Nat \ {0} /\ SearchLimit \in Nat

Index == 0 .. capacity - 1

VARIABLES adjMatrix,  \* which entries are 1
          vertex_count,
          visited,    \* the vertices whose mark is set
          work,       \* the elements of the Stack or Queue, oldest first
          shown,      \* what the search in progress, or the last one, printed
          mode,       \* "build", or the search that runs
          searches    \* searches begun

vars == <<adjMatrix, vertex_count, visited, work, shown, mode, searches>>
graph == <<adjMatrix, vertex_count>>

Vertex == 0 .. vertex_count - 1

TypeOK ==
  /\ adjMatrix \in [Index -> [Index -> BOOLEAN]]
  /\ vertex_count \in 0 .. capacity
  /\ visited \in SUBSET Vertex
  /\ work \in Seq(Vertex) /\ shown \in Seq(Vertex)
  /\ mode \in {"build", "depth", "breadth"}
  /\ searches \in Nat

Init ==
  /\ adjMatrix \in [Index -> [Index -> BOOLEAN]]
  /\ vertex_count = 0 /\ visited = {} /\ work = <<>> /\ shown = <<>>
  /\ mode = "build" /\ searches = 0

\* The caller adds no more vertices than the array holds.
addVertex ==
  /\ mode = "build" /\ vertex_count < capacity
  /\ vertex_count' = vertex_count + 1
  /\ UNCHANGED <<adjMatrix, visited, work, shown, mode, searches>>

addEdge(start, end) ==
  /\ mode = "build"
  /\ adjMatrix' = [adjMatrix EXCEPT ![start] = [@ EXCEPT ![end] = TRUE],
                                    ![end][start] = TRUE]
  /\ UNCHANGED <<vertex_count, visited, work, shown, mode, searches>>
-----------------------------------------------------------------------------
\* Stack::push, Queue::enqueue
Pushed(w, v) == IF Len(w) = capacity THEN w ELSE Append(w, v)

\* Stack::pop, Queue::dequeue; neither search takes from an empty one.
PoppedLast(w) == SubSeq(w, 1, Len(w) - 1)
Dequeued(w) == Tail(w)

\* Stack::peek, Queue::peek
Peek(w) == IF mode = "depth" THEN w[Len(w)] ELSE w[1]

\* An edge can be walked one way only.
AdjUnvisitedOneWay(i) == {j \in Vertex : i < j /\ adjMatrix[i][j] /\ j \notin visited}

AdjUnvisited(i) == {j \in Vertex : adjMatrix[i][j] /\ j \notin visited}

\* The first of them; the loops of the searches stop at -1.
getAdjUnvisitedVertex(i) ==
  IF AdjUnvisited(i) = {} THEN -1
  ELSE CHOOSE j \in AdjUnvisited(i) : \A k \in AdjUnvisited(i) : j <= k

\* The first lines of either search.
Begin(m) ==
  /\ mode = "build" /\ vertex_count > 0 /\ searches < SearchLimit
  /\ mode' = m /\ searches' = searches + 1
  /\ visited' = visited \cup {0}
  /\ shown' = <<0>>
  /\ work' = Pushed(<<>>, 0)
  /\ UNCHANGED graph

Visit ==
  /\ mode # "build" /\ work # <<>>
  /\ LET j == getAdjUnvisitedVertex(Peek(work)) IN
       /\ j # -1
       /\ visited' = visited \cup {j}
       /\ shown' = Append(shown, j)
       /\ work' = Pushed(work, j)
  /\ UNCHANGED <<graph, mode, searches>>

Retreat ==
  /\ mode # "build" /\ work # <<>>
  /\ getAdjUnvisitedVertex(Peek(work)) = -1
  /\ work' = IF mode = "depth" THEN PoppedLast(work) ELSE Dequeued(work)
  /\ UNCHANGED <<graph, visited, shown, mode, searches>>

\* The search returns to its caller.
Return ==
  /\ mode # "build" /\ work = <<>>
  /\ mode' = "build"
  /\ UNCHANGED <<graph, visited, work, shown, searches>>

depthFirstSearch == Begin("depth") \/ (mode = "depth" /\ (Visit \/ Retreat \/ Return))
breadthFirstSearch ==
  Begin("breadth") \/ (mode = "breadth" /\ (Visit \/ Retreat \/ Return))

Build == addVertex \/ \E start, end \in Vertex : addEdge(start, end)

Next == Build \/ depthFirstSearch \/ breadthFirstSearch

\* A search, once called, runs; nobody has to call it.
Spec ==
  Init /\ [][Next]_vars /\ WF_vars(Visit) /\ WF_vars(Retreat) /\ WF_vars(Return)
-----------------------------------------------------------------------------
\* Sets of vertices that hold vertex 0 and every neighbour of their members;
\* the least one is what can be reached from vertex 0.
Closed(S) ==
  0 \in S /\ \A i \in S : \A j \in Vertex : adjMatrix[i][j] => j \in S

Reached(S) ==
  Closed(S) /\ \A T \in SUBSET Vertex : Closed(T) => S \subseteq T

(***************************************************************************)
(* When the first search of a graph returns, it has marked and printed     *)
(* exactly the vertices that can be reached from vertex 0, each of them    *)
(* once, whatever the uncleared matrix held: neither a full Stack or Queue *)
(* nor the order of the marks makes it miss one.                           *)
(***************************************************************************)
SearchReaches ==
  mode # "build" /\ work = <<>> /\ searches = 1 =>
    /\ Reached(visited)
    /\ {shown[p] : p \in 1 .. Len(shown)} = visited
    /\ \A p, q \in 1 .. Len(shown) : shown[p] = shown[q] => p = q

(***************************************************************************)
(* Every search returns: each round of its loop marks a vertex or takes an *)
(* element from the Stack or Queue.                                        *)
(***************************************************************************)
SearchReturns == mode # "build" ~> mode = "build"
=============================================================================
