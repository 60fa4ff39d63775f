----------------------------- MODULE RingBuffer -----------------------------
(***************************************************************************)
(* ring_buffer/ring_buffer.c: an array of `size' slots used as a circle,   *)
(* with the index of the oldest element (start), of the next free slot     *)
(* (end) and the number of elements (active).                              *)
(*                                                                         *)
(* NewRingBuffer allocates the array with malloc(sizeof(void* )), whatever *)
(* `size' is: only the first Owned slots belong to the buffer.  A slot     *)
(* past them is memory the allocator may hand to, or already uses for,     *)
(* someone else, who may write it at any time (Clobber).                   *)
(***************************************************************************)
EXTENDS Integers, Sequences

CONSTANTS Size,    \* the argument of NewRingBuffer
          Owned,   \* slots that malloc(sizeof(void* )) really provides
          Value,   \* the pointers callers push
          NULL,
          Junk     \* the content of memory nobody has written for us

ASSUME SizeAssumption == Size \in Nat \ {0} /\ Owned \in Nat \ {0}
ASSUME ValueAssumption == NULL \notin Value /\ Junk \notin Value /\ Junk # NULL

VARIABLES buf,     \* "live" once allocated and until freed
          ring, start, end, active,
          res      \* what the last call returned (or printed)

ringVars == <<buf, ring, start, end, active, res>>

Slot == 0 .. Size - 1

Ok == [op |-> "push", val |-> 0]
ERROR_BUFFER_FULL == [op |-> "push", val |-> 1]
Popped(v) == [op |-> "retrieve", val |-> v]
Shown(s) == [op |-> "print", val |-> s]
NoCall == [op |-> "none", val |-> 0]

\* The slot an index stands for: one step past the last is the first.
Wrap(n) == n % Size

\* The elements from the oldest on, read as PrintBuffer reads them.
Contents == [i \in 1 .. active |-> ring[Wrap(start + i - 1)]]

RingTypeOK ==
  /\ buf \in {"none", "live"}
  /\ ring \in [Slot -> Value \cup {Junk}]
  /\ start \in Slot /\ end \in Slot
  /\ active \in 0 .. Size

RingInit ==
  /\ buf = "none"
  /\ ring = [i \in Slot |-> Junk]
  /\ start = 0 /\ end = 0 /\ active = 0
  /\ res = NoCall

NewRingBuffer ==
  /\ buf = "none"
  /\ buf' = "live"
  /\ ring' = [i \in Slot |-> Junk]
  /\ start' = 0 /\ end' = 0 /\ active' = 0
  /\ res' = NoCall

PushToQueue(p) ==
  /\ buf = "live"
  /\ IF active < Size
       THEN /\ ring' = [ring EXCEPT ![end] = p]
            /\ end' = Wrap(end + 1)
            /\ active' = active + 1
            /\ res' = Ok
       ELSE /\ res' = ERROR_BUFFER_FULL
            /\ UNCHANGED <<ring, end, active>>
  /\ UNCHANGED <<buf, start>>

RetrieveNoWrap ==
  /\ buf = "live"
  /\ IF active = 0
       THEN res' = Popped(NULL) /\ UNCHANGED <<start, active>>
       ELSE /\ res' = Popped(ring[start])
            /\ start' = IF start + 1 < Size THEN start + 1 ELSE start
            /\ active' = active - 1
  /\ UNCHANGED <<buf, ring, end>>

RetrieveFromQueue ==
  /\ buf = "live"
  /\ IF active = 0
       THEN res' = Popped(NULL) /\ UNCHANGED <<start, active>>
       ELSE /\ res' = Popped(ring[start])
            /\ start' = Wrap(start + 1)
            /\ active' = active - 1
  /\ UNCHANGED <<buf, ring, end>>

PrintBuffer ==
  /\ buf = "live"
  /\ res' = Shown(Contents)
  /\ UNCHANGED <<buf, ring, start, end, active>>

\* start, end and active are in the freed struct; a new buffer sets them.
FreeRingBuffer ==
  /\ buf = "live"
  /\ buf' = "none"
  /\ ring' = [i \in Slot |-> Junk]
  /\ start' = 0 /\ end' = 0 /\ active' = 0
  /\ res' = NoCall

\* Another user of the heap writes memory past the allocation.
Clobber ==
  /\ buf = "live"
  /\ \E i \in {j \in Slot : j >= Owned} : ring' = [ring EXCEPT ![i] = Junk]
  /\ UNCHANGED <<buf, start, end, active, res>>

RingNext ==
  \/ NewRingBuffer
  \/ \E p \in Value : PushToQueue(p)
  \/ RetrieveFromQueue
  \/ PrintBuffer
  \/ FreeRingBuffer
  \/ Clobber

RingSpec == RingInit /\ [][RingNext]_ringVars
-----------------------------------------------------------------------------
(***************************************************************************)
(* The end index is where the elements end: PushToQueue never writes a     *)
(* slot that holds an element RetrieveFromQueue has yet to return, so that *)
(* each element in memory the buffer owns is a pointer some caller pushed. *)
(***************************************************************************)
IndicesAgree ==
  /\ end = Wrap(start + active)
  /\ \A i \in 1 .. active :
       Wrap(start + i - 1) < Owned => Contents[i] \in Value

(***************************************************************************)
(* The queue a caller sees: the elements from start on.                    *)
(***************************************************************************)
Queue == INSTANCE BoundedQueue WITH Capacity <- Size, q <- Contents

(***************************************************************************)
(* The ring buffer implements the bounded queue: PushToQueue,              *)
(* RetrieveFromQueue and PrintBuffer give their callers what a first-in    *)
(* first-out queue gives, also when a full array wraps around; only a      *)
(* foreign write past the allocation changes what the queue holds.         *)
(***************************************************************************)
ImplementsQueue ==
  Queue!Init /\ [][Queue!Next \/ Clobber]_(Queue!vars)
=============================================================================
