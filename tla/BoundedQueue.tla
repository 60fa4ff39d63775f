---------------------------- MODULE BoundedQueue ----------------------------
(***************************************************************************)
(* What ring_buffer.h promises to a caller: a first-in first-out queue of  *)
(* at most Capacity pointers.  A full queue refuses the new element; an    *)
(* empty one answers NULL.  `res' is what the last call gave its caller.   *)
(***************************************************************************)
EXTENDS Integers, Sequences

CONSTANTS Capacity,  \* the size given to NewRingBuffer
          Value,     \* the pointers a caller may push
          NULL

VARIABLES buf, q, res

vars == <<buf, q, res>>

Ok == [op |-> "push", val |-> 0]
Full == [op |-> "push", val |-> 1]    \* ERROR_BUFFER_FULL
Popped(v) == [op |-> "retrieve", val |-> v]
Shown(s) == [op |-> "print", val |-> s]
NoCall == [op |-> "none", val |-> 0]

Init == buf = "none" /\ q = <<>> /\ res = NoCall

New == buf = "none" /\ buf' = "live" /\ q' = <<>> /\ res' = NoCall

Push(v) ==
  /\ buf = "live" /\ UNCHANGED buf
  /\ IF Len(q) < Capacity
       THEN q' = Append(q, v) /\ res' = Ok
       ELSE q' = q /\ res' = Full

Retrieve ==
  /\ buf = "live" /\ UNCHANGED buf
  /\ IF q = <<>>
       THEN q' = q /\ res' = Popped(NULL)
       ELSE q' = Tail(q) /\ res' = Popped(Head(q))

Show == buf = "live" /\ res' = Shown(q) /\ UNCHANGED <<buf, q>>

Free == buf = "live" /\ buf' = "none" /\ q' = <<>> /\ res' = NoCall

Next == New \/ (\E v \in Value : Push(v)) \/ Retrieve \/ Show \/ Free

Spec == Init /\ [][Next]_vars
=============================================================================
