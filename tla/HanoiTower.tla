----------------------------- MODULE HanoiTower ------------------------------
(***************************************************************************)
(* c++/src/hanoi_tower.cpp: three Stacks (bottom first) and the recursion  *)
(* that moves the disks 0 .. disk from src to dest.  Every move prints the *)
(* number of a disk.  The calls of move_disk that have not returned are a  *)
(* stack of their own, the last one on top.                                *)
(***************************************************************************)
EXTENDS Integers, Sequences

CONSTANT number_disks

ASSUME DisksAssumption == number_disks \in Nat \ {0}

VARIABLES pegs,    \* the three Stacks
          calls,   \* the calls under way
          line,    \* the disk of the last move and the number printed for it
          moves    \* moves so far

hanoiVars == <<pegs, calls, line, moves>>

Peg == {"src", "dst", "aux"}

\* Stack::push; a value that does not fit is dropped.
push(s, value) == IF Len(s) = number_disks THEN s ELSE Append(s, value)

\* The value that was pushed first.
popFirst(s) == IF s = <<>> THEN [val |-> -1, left |-> s]
                           ELSE [val |-> s[1], left |-> Tail(s)]

\* Stack::pop returns -1 on an empty stack, and leaves it.
pop(s) == IF s = <<>> THEN [val |-> -1, left |-> s]
                      ELSE [val |-> s[Len(s)], left |-> SubSeq(s, 1, Len(s) - 1)]

\* dest.push(src.pop()) and the line printed, which names `label'.
Move(label, src, dest) ==
  LET top == pop(pegs[src]) IN
  /\ pegs' = [pegs EXCEPT ![src] = top.left, ![dest] = push(@, top.val)]
  /\ line' = [disk |-> top.val, label |-> label]
  /\ moves' = moves + 1

\* A call of move_disk: its arguments, and how far it has come: "entered", or
\* gone as far as its first or its second inner call.
Called(disk, src, dest, aux, at) ==
  [disk |-> disk, src |-> src, dest |-> dest, aux |-> aux, at |-> at]

Top == calls[Len(calls)]
Callers == SubSeq(calls, 1, Len(calls) - 1)

HanoiInit ==
  /\ pegs = [p \in Peg |-> IF p = "src"
                           THEN [i \in 1 .. number_disks |-> number_disks - i]
                           ELSE <<>>]
  /\ calls = <<Called(number_disks - 1, "src", "dst", "aux", "entered")>>
  /\ line = [disk |-> 0, label |-> 0] /\ moves = 0

\* if (disk == 0)
move_last ==
  /\ calls # <<>> /\ Top.at = "entered" /\ Top.disk = 0
  /\ Move(pop(pegs[Top.src]).val, Top.src, Top.dest)
  /\ calls' = Callers

\* The calls move_disk makes, after it has noted how far it has come
Inner(at, src, dest, aux) ==
  calls' = Callers \o <<[Top EXCEPT !.at = at],
                        Called(Top.disk - 1, src, dest, aux, "entered")>>

move_above ==
  /\ calls # <<>> /\ Top.at = "entered" /\ Top.disk # 0
  /\ Inner("first", Top.src, Top.aux, Top.dest)
  /\ UNCHANGED <<pegs, line, moves>>

move_own ==
  /\ calls # <<>> /\ Top.at = "first"
  /\ Move(Top.disk, Top.src, Top.dest)
  /\ Inner("second", Top.aux, Top.dest, Top.src)

move_return ==
  /\ calls # <<>> /\ Top.at = "second"
  /\ calls' = Callers
  /\ UNCHANGED <<pegs, line, moves>>

HanoiNext == move_last \/ move_above \/ move_own \/ move_return

HanoiSpec == HanoiInit /\ [][HanoiNext]_hanoiVars
-----------------------------------------------------------------------------
(***************************************************************************)
(* move_disk never puts a disk on a smaller one, prints the number of the  *)
(* disk it really moves, needs 2^n - 1 moves, and ends with the whole      *)
(* tower on dst.                                                           *)
(***************************************************************************)
HanoiLegal ==
  /\ line.label = line.disk
  /\ \A p \in Peg : \A i, j \in DOMAIN pegs[p] : i < j => pegs[p][j] < pegs[p][i]
  /\ calls = <<>> =>
       /\ moves = 2 ^ number_disks - 1
       /\ pegs["dst"] = [i \in 1 .. number_disks |-> number_disks - i]
=============================================================================
