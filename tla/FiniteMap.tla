------------------------------ MODULE FiniteMap ------------------------------
(***************************************************************************)
(* What both hash tables of the repository promise their callers: a map    *)
(* from the keys present to values.  `reply' is the call under way with    *)
(* what it answers: the value found, Missing, or OutOfMemory if it changed *)
(* nothing.  The next call comes when the caller has taken the answer.     *)
(***************************************************************************)
CONSTANTS Key, Value, Missing, OutOfMemory, Done

VARIABLES map, reply

vars == <<map, reply>>

Reply(op, k, r) == [op |-> op, key |-> k, res |-> r]

Answer(k) == IF k \in DOMAIN map THEN map[k] ELSE Missing

NoCall == Reply("none", Missing, Done)

Empty == [k \in {} |-> Missing]

Init == map = Empty /\ reply = NoCall

\* The step is call op on key k, and it answers r.
Answers(op, k, r) == reply' = Reply(op, k, reply'.res) /\ reply'.res = r

Put(k, v) ==
  \/ Answers("put", k, Done) /\ map' = [l \in DOMAIN map \cup {k} |-> IF l = k THEN v ELSE map[l]]
  \/ Answers("put", k, OutOfMemory) /\ UNCHANGED map

Get(k) == Answers("get", k, Answer(k)) /\ UNCHANGED map

Del(k) ==
  /\ Answers("del", k, Answer(k))
  /\ map' = [l \in DOMAIN map \ {k} |-> map[l]]

Clear == Answers("clear", Missing, Done) /\ map' = Empty

\* A call that only moves entries about, or that lists them.
Arrange ==
  /\ \/ \E r \in {Done, OutOfMemory} : Answers("arrange", Missing, r)
     \/ Answers("list", Missing, map)
  /\ UNCHANGED map

Call ==
  /\ reply = NoCall
  /\ \/ \E k \in Key : Get(k) \/ Del(k) \/ \E v \in Value : Put(k, v)
     \/ Clear \/ Arrange

TakeAnswer == reply # NoCall /\ reply' = NoCall /\ UNCHANGED map

Next == Call \/ TakeAnswer

Spec == Init /\ [][Next]_vars
=============================================================================
