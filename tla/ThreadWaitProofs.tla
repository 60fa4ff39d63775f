-------------------------- MODULE ThreadWaitProofs --------------------------
(***************************************************************************)
(* pthread_wait for any number of threads, increments, limit and bonus.    *)
(* IInv is the inductive invariant: the mutex has the holder the program   *)
(* counters say it has, so a value loaded under it is still the counter's  *)
(* when it is stored, so the limit cannot be passed unseen by a watcher    *)
(* that waits; and main has joined the threads it counts as joined.        *)
(* Account adds what the counter is made of: the increments each thread    *)
(* has stored and what the watcher has added once woken.  It is a sum over *)
(* the threads, so the lemmas of CommonLemmas say what a store does to it. *)
(***************************************************************************)
EXTENDS ThreadWait, CommonLemmas

\* Where each kind of thread can be
Places ==
  /\ \A t \in Inc : /\ pc[t] \notin {"check", "wait", "relock"}
                    /\ pc[t] # "done" => i[t] < TCOUNT
  /\ pc[Watcher] \notin {"signal", "sleep"}

\* A value loaded is still that of the counter when it is to be stored.
LoadedIsCurrent == \A t \in Thread : pc[t] = "store" => reg[t] = count

\* What main has created and joined; what it has joined is done.
MainCounts ==
  /\ created \in Nat /\ joined \in Nat
  /\ main = "create" => created < NUM_THREADS /\ joined = 0
  /\ main = "join" => created = NUM_THREADS /\ joined < NUM_THREADS
  /\ main \in {"cleanup", "exit"} => joined = NUM_THREADS
  /\ \A t \in 1 .. joined : pc[t] = "done"

\* The inductive invariant
IInv ==
  /\ TypeOK /\ Places /\ HolderIsCritical /\ LoadedIsCurrent
  /\ NoLostWakeup /\ MainCounts

\* It holds before main creates a thread.
LEMMA InitIInv == Init => IInv
<1>. SUFFICES ASSUME Init PROVE IInv
  OBVIOUS
<1>. USE ConstantsAssumption
     DEF Init, Thread, Inc, Watcher, Nobody
<1>1. TypeOK
  BY DEF TypeOK
<1>2. Places
  BY DEF Places
<1>3. HolderIsCritical
  BY DEF HolderIsCritical, Critical
<1>4. LoadedIsCurrent /\ NoLostWakeup
  BY DEF LoadedIsCurrent, NoLostWakeup
<1>5. MainCounts
  BY DEF MainCounts
<1>. QED
  BY <1>1, <1>2, <1>3, <1>4, <1>5 DEF IInv

\* Every step of every thread keeps it.
LEMMA NextIInv == IInv /\ [Next]_vars => IInv'
<1>. SUFFICES ASSUME IInv, [Next]_vars PROVE IInv'
  OBVIOUS
<1>. USE ConstantsAssumption
     DEF IInv, Thread, Inc, Watcher, Nobody, Running, Goto, mainVars
<1>1. ASSUME NEW t \in Thread, Lock(t) PROVE IInv'
  <2>1. TypeOK'
    BY <1>1 DEF Lock, Acquire, TypeOK
  <2>2. Places'
    BY <1>1 DEF Lock, Acquire, TypeOK, Places
  <2>3. HolderIsCritical'
    BY <1>1 DEF Lock, Acquire, TypeOK, Places, HolderIsCritical, Critical
  <2>4. LoadedIsCurrent' /\ NoLostWakeup'
    BY <1>1 DEF Lock, Acquire, TypeOK, LoadedIsCurrent, NoLostWakeup
  <2>5. MainCounts'
    BY <1>1 DEF Lock, Acquire, TypeOK, MainCounts
  <2>. QED
    BY <2>1, <2>2, <2>3, <2>4, <2>5
<1>2. ASSUME NEW t \in Thread, Load(t) PROVE IInv'
  <2>1. TypeOK'
    BY <1>2 DEF Load, TypeOK
  <2>2. Places' /\ HolderIsCritical'
    BY <1>2 DEF Load, TypeOK, Places, HolderIsCritical, Critical
  <2>3. LoadedIsCurrent' /\ NoLostWakeup'
    BY <1>2 DEF Load, TypeOK, LoadedIsCurrent, NoLostWakeup
  <2>4. MainCounts'
    BY <1>2 DEF Load, TypeOK, MainCounts
  <2>. QED
    BY <2>1, <2>2, <2>3, <2>4
<1>3. ASSUME NEW t \in Thread, Store(t) PROVE IInv'
  <2>1. TypeOK'
    <3>1. count' \in Nat
      BY <1>3 DEF Store, TypeOK
    <3>. QED
      BY <1>3, <3>1 DEF Store, TypeOK
  <2>2. Places'
    BY <1>3 DEF Store, TypeOK, Places
  <2>3. HolderIsCritical'
    BY <1>3 DEF Store, TypeOK, Places, HolderIsCritical, Critical
  <2>4. LoadedIsCurrent'
    BY <1>3 DEF Store, TypeOK, LoadedIsCurrent, HolderIsCritical, Critical
  <2>5. NoLostWakeup'
    BY <1>3 DEF Store, TypeOK, Places, NoLostWakeup, HolderIsCritical,
       Critical, LoadedIsCurrent
  <2>6. MainCounts'
    BY <1>3 DEF Store, TypeOK, MainCounts
  <2>. QED
    BY <2>1, <2>2, <2>3, <2>4, <2>5, <2>6
<1>4. ASSUME NEW t \in Inc, Signal(t) PROVE IInv'
  <2>1. TypeOK'
    BY <1>4, Zenon DEF Signal, TypeOK
  <2>2. Places'
    BY <1>4 DEF Signal, TypeOK, Places
  <2>3. HolderIsCritical'
    BY <1>4 DEF Signal, TypeOK, Places, HolderIsCritical, Critical
  <2>4. LoadedIsCurrent'
    BY <1>4 DEF Signal, TypeOK, LoadedIsCurrent, HolderIsCritical, Critical
  <2>5. NoLostWakeup'
    BY <1>4 DEF Signal, TypeOK, Places, NoLostWakeup, HolderIsCritical,
       Critical, LoadedIsCurrent
  <2>6. MainCounts'
    BY <1>4 DEF Signal, TypeOK, MainCounts
  <2>. QED
    BY <2>1, <2>2, <2>3, <2>4, <2>5, <2>6
<1>5. ASSUME NEW t \in Thread, Unlock(t) PROVE IInv'
  <2>1. TypeOK'
    BY <1>5 DEF Unlock, TypeOK
  <2>2. Places'
    BY <1>5 DEF Unlock, TypeOK, Places
  <2>3. HolderIsCritical'
    BY <1>5 DEF Unlock, TypeOK, Places, HolderIsCritical, Critical
  <2>4. LoadedIsCurrent' /\ NoLostWakeup'
    BY <1>5 DEF Unlock, TypeOK, LoadedIsCurrent, NoLostWakeup
  <2>5. MainCounts'
    BY <1>5 DEF Unlock, TypeOK, MainCounts
  <2>. QED
    BY <2>1, <2>2, <2>3, <2>4, <2>5
<1>6. ASSUME NEW t \in Inc, EndSleep(t) PROVE IInv'
  <2>1. TypeOK'
    <3>1. pc[t] = "sleep" /\ i[t] \in 0 .. TCOUNT
      BY <1>6 DEF EndSleep, TypeOK
    <3>2. i[t] + 1 \in 0 .. TCOUNT
      BY <3>1 DEF Places
    <3>. QED
      BY <1>6, <3>2 DEF EndSleep, TypeOK
  <2>2. Places'
    BY <1>6 DEF EndSleep, TypeOK, Places
  <2>3. HolderIsCritical'
    BY <1>6 DEF EndSleep, TypeOK, Places, HolderIsCritical, Critical
  <2>4. LoadedIsCurrent'
    BY <1>6 DEF EndSleep, TypeOK, LoadedIsCurrent, HolderIsCritical, Critical
  <2>5. NoLostWakeup'
    BY <1>6 DEF EndSleep, TypeOK, Places, NoLostWakeup, HolderIsCritical,
       Critical, LoadedIsCurrent
  <2>6. MainCounts'
    BY <1>6 DEF EndSleep, TypeOK, MainCounts
  <2>. QED
    BY <2>1, <2>2, <2>3, <2>4, <2>5, <2>6
<1>7. CASE Check
  <2>1. TypeOK'
    BY <1>7, Zenon DEF Check, TypeOK
  <2>2. Places'
    BY <1>7 DEF Check, TypeOK, Places
  <2>3. HolderIsCritical'
    BY <1>7 DEF Check, TypeOK, Places, HolderIsCritical, Critical
  <2>4. LoadedIsCurrent' /\ NoLostWakeup'
    BY <1>7 DEF Check, TypeOK, LoadedIsCurrent, NoLostWakeup
  <2>5. MainCounts'
    BY <1>7 DEF Check, TypeOK, MainCounts
  <2>. QED
    BY <2>1, <2>2, <2>3, <2>4, <2>5
<1>8. CASE SpuriousWakeup
  BY <1>8 DEF SpuriousWakeup, TypeOK, Places, HolderIsCritical, Critical,
     LoadedIsCurrent, NoLostWakeup, MainCounts
<1>9. CASE Return
  BY <1>9 DEF Return, Acquire, TypeOK, Places, HolderIsCritical, Critical,
     LoadedIsCurrent, NoLostWakeup, MainCounts
<1>10. CASE Create
  BY <1>10 DEF Create, TypeOK, Places, HolderIsCritical, Critical,
     LoadedIsCurrent, NoLostWakeup, MainCounts
<1>11. CASE Join
  BY <1>11 DEF Join, TypeOK, Places, HolderIsCritical, Critical,
     LoadedIsCurrent, NoLostWakeup, MainCounts
<1>12. CASE Cleanup
  BY <1>12 DEF Cleanup, TypeOK, Places, HolderIsCritical, Critical,
     LoadedIsCurrent, NoLostWakeup, MainCounts
<1>13. CASE UNCHANGED vars
  BY <1>13 DEF vars, TypeOK, Places, HolderIsCritical, Critical,
     LoadedIsCurrent, NoLostWakeup, MainCounts
<1>. QED
  BY <1>1, <1>2, <1>3, <1>4, <1>5, <1>6, <1>7, <1>8, <1>9, <1>10, <1>11, <1>12, <1>13
     DEF Next, watch_count, inc_count, Main

\* It holds in every state.
LEMMA Inductive == Spec => []IInv
  BY InitIInv, NextIInv, PTL DEF Spec

\* The program's variables always have their types.
THEOREM TypeCorrect == Spec => []TypeOK
<1>1. IInv => TypeOK
  BY DEF IInv
<1>. QED
  BY <1>1, Inductive, PTL

\* Between the lock and the unlock of inc_count and of watch_count there is
\* never more than one thread, and it is the mutex's holder.
THEOREM MutualExclusion == Spec => []HolderIsCritical
<1>1. IInv => HolderIsCritical
  BY DEF IInv
<1>. QED
  BY <1>1, Inductive, PTL

\* A watcher that waits in pthread_cond_wait and has not been signalled waits
\* for a limit that has not been passed: inc_count's signal cannot be missed.
THEOREM WakeupNeverLost == Spec => []NoLostWakeup
<1>1. IInv => NoLostWakeup
  BY DEF IInv
<1>. QED
  BY <1>1, Inductive, PTL

\* main destroys the mutex and the condition variable after every thread has
\* left them.
THEOREM CleanupIsSafe == Spec => []CleanupAlone
<1>1. IInv => CleanupAlone
  BY ConstantsAssumption, Zenon DEF IInv, CleanupAlone, MainCounts, HolderIsCritical,
     Critical, TypeOK, Thread, Nobody
<1>. QED
  BY <1>1, Inductive, PTL
-----------------------------------------------------------------------------
(***************************************************************************)
(* Nothing lost.  At every moment, and not only while the mutex is free,   *)
(* the counter is what the threads have stored: an increment counts from   *)
(* the store on, the bonus of the watcher from its store on.  The bonus    *)
(* takes the counter past the limit, so that the watcher does not wait     *)
(* again.                                                                  *)
(***************************************************************************)
Stored(t) == i[t] + IF pc[t] \in {"signal", "unlock", "sleep"} THEN 1 ELSE 0
Made == [t \in Inc |-> Stored(t)]
Paid == IF wakes = 1 /\ pc[Watcher] \notin {"load", "store"} THEN Bonus ELSE 0

\* What the counter is made of
Account ==
  /\ wakes \in 0 .. 1
  /\ wakes = 1 => pc[Watcher] \in {"check", "load", "store", "unlock", "done"}
  /\ wakes = 0 => pc[Watcher] \notin {"load", "store"}
  /\ count = SumFunctionOnSet(Made, Inc) + Paid

\* The increments can be summed.
LEMMA MadeSums ==
  ASSUME TypeOK
  PROVE  /\ IsFiniteSet(Inc) /\ Summable(Made, Inc)
         /\ SumFunctionOnSet(Made, Inc) \in Nat
<1>1. IsFiniteSet(Inc)
  BY FS_Interval, ConstantsAssumption DEF Inc
<1>2. \A t \in Inc : Made[t] \in Nat
  BY ConstantsAssumption DEF TypeOK, Made, Stored, Inc, Thread
<1>. QED
  BY <1>1, <1>2, SumNat DEF Summable

\* Nothing was stored yet.
LEMMA InitAccount == Init => Account
<1>. SUFFICES ASSUME Init PROVE Account
  OBVIOUS
<1>1. Made = [t \in Inc |-> 0]
  BY ConstantsAssumption DEF Init, Made, Stored, Inc, Thread
<1>2. SumFunctionOnSet(Made, Inc) = 0
  BY <1>1, FS_Interval, SumOfZeros, ConstantsAssumption DEF Inc
<1>. QED
  BY <1>2, ConstantsAssumption
     DEF Init, Account, Paid, Watcher, Inc, Thread

\* What a step of the program does to the account: a store adds to it, and
\* everything else leaves what is stored alone.
LEMMA StoreInAccount ==
  ASSUME IInv, IInv', Account, NEW t \in Thread, Store(t) PROVE Account'
<1>. USE ConstantsAssumption DEF Thread, Inc, Watcher, Running, Goto
<1>1. count' = count + IF t = Watcher THEN Bonus ELSE 1
  BY DEF Store, IInv, LoadedIsCurrent
<1>2. count \in Nat /\ SumFunctionOnSet(Made, Inc) \in Nat
  BY MadeSums, Zenon DEF IInv, TypeOK
<1>3. CASE t = Watcher
  <2>1. Made' = Made
    <3>1. \A s \in Inc : i'[s] = i[s] /\ pc'[s] = pc[s]
      BY <1>3 DEF Store, IInv, TypeOK
    <3>. QED
      BY <3>1 DEF Made, Stored
  <2>2. wakes = 1 /\ wakes' = 1 /\ Paid = 0 /\ Paid' = Bonus
    BY <1>3 DEF Store, Account, Paid, IInv, TypeOK
  <2>. QED
    BY <1>1, <1>2, <1>3, <2>1, <2>2 DEF Store, Account, IInv, TypeOK
<1>4. CASE t \in Inc
  <2>1. Summable(Made, Inc) /\ Summable(Made', Inc)
    <3>1. TypeOK'
      BY DEF IInv
    <3>2. \A s \in Inc : i'[s] \in Int
      BY <3>1 DEF TypeOK
    <3>3. \A s \in Inc : Made'[s] \in Int
      BY <3>2 DEF Made, Stored
    <3>. QED
      BY <3>3, MadeSums DEF IInv, Summable
  <2>2. Made'[t] = Made[t] + 1 /\ DifferAt(Made, Made', Inc, t)
    BY <1>4 DEF Store, Made, Stored, DifferAt, IInv, TypeOK, Places
  <2>3. SumFunctionOnSet(Made', Inc)
          = SumFunctionOnSet(Made, Inc) - Made[t] + Made'[t]
    BY <1>4, <2>1, <2>2, SumUpdate
  <2>4. Made[t] \in Int
    BY <1>4, <2>1 DEF Summable
  <2>5. wakes' = wakes /\ pc'[Watcher] = pc[Watcher] /\ Paid' = Paid
    BY <1>4 DEF Store, Paid, IInv, TypeOK
  <2>6. Paid \in Nat
    BY DEF Paid
  <2>7. count' = SumFunctionOnSet(Made', Inc) + Paid'
    BY <1>1, <1>2, <1>4, <2>2, <2>3, <2>4, <2>5, <2>6 DEF Account
  <2>. QED
    BY <2>5, <2>7 DEF Account
<1>. QED
  BY <1>3, <1>4

\* The steps that do not store leave the account as it is.
LEMMA OthersInAccount ==
  ASSUME COUNT_LIMIT <= Bonus, IInv, Account,
         \/ \E t \in Thread : Lock(t) \/ Load(t) \/ Unlock(t)
         \/ \E t \in Inc : Signal(t) \/ EndSleep(t)
         \/ Check \/ SpuriousWakeup \/ Return \/ Main \/ UNCHANGED vars
  PROVE  Account'
<1>. USE ConstantsAssumption DEF Thread, Inc, Watcher, Running, Goto, mainVars
<1>1. count' = count
  BY DEF Lock, Load, Unlock, Signal, EndSleep, Check, SpuriousWakeup, Return,
         Main, Create, Join, Cleanup, vars
<1>2. \A s \in Inc : Stored(s)' = Stored(s)
  <2>1. ASSUME NEW t \in Thread, Lock(t) \/ Load(t) \/ Unlock(t)
        PROVE  \A s \in Inc : Stored(s)' = Stored(s)
    <3>1. i' = i /\ \A s \in Inc : s # t => pc'[s] = pc[s]
      <4>1. \E to : i' = i /\ pc' = [pc EXCEPT ![t] = to]
        BY <2>1, Zenon DEF Lock, Load, Unlock
      <4>. QED
        BY <4>1 DEF IInv, TypeOK
    <3>2. \/ pc[t] \in {"lock", "load"} /\ pc'[t] \in {"load", "check", "store"}
          \/ t \in Inc => pc[t] = "unlock" /\ pc'[t] = "sleep"
      <4>1. CASE Lock(t)
        BY <4>1 DEF Lock, IInv, TypeOK
      <4>2. CASE Load(t)
        BY <4>2 DEF Load, IInv, TypeOK
      <4>3. CASE Unlock(t)
        BY <4>3 DEF Unlock, IInv, TypeOK
      <4>. QED
        BY <2>1, <4>1, <4>2, <4>3
    <3>3. t \in Inc => Stored(t)' = Stored(t)
      BY <3>1, <3>2 DEF Stored
    <3>. QED
      BY <3>1, <3>3 DEF Stored
  <2>2. ASSUME NEW t \in Inc, Signal(t)
        PROVE  \A s \in Inc : Stored(s)' = Stored(s)
    <3>1. /\ i' = i /\ pc[t] = "signal" /\ pc'[t] = "unlock"
          /\ \A s \in Inc : s # t => pc'[s] = pc[s]
      BY <2>2 DEF Signal, IInv, TypeOK
    <3>. QED
      BY <3>1 DEF Stored
  <2>3. ASSUME NEW t \in Inc, EndSleep(t)
        PROVE  \A s \in Inc : Stored(s)' = Stored(s)
    <3>1. /\ pc[t] = "sleep" /\ i[t] \in Int
          /\ i'[t] = i[t] + 1 /\ pc'[t] \in {"lock", "done"}
      BY <2>3 DEF EndSleep, IInv, TypeOK
    <3>2. \A s \in Inc : s # t => i'[s] = i[s] /\ pc'[s] = pc[s]
      BY <2>3 DEF EndSleep, IInv, TypeOK
    <3>3. Stored(t)' = Stored(t)
      BY <3>1 DEF Stored
    <3>. QED
      BY <3>2, <3>3 DEF Stored
  <2>4. CASE Check \/ SpuriousWakeup \/ Return
    <3>1. \A s \in Inc : i'[s] = i[s] /\ pc'[s] = pc[s]
      <4>1. CASE Check
        BY <4>1 DEF Check, IInv, TypeOK
      <4>2. CASE SpuriousWakeup
        BY <4>2 DEF SpuriousWakeup, IInv, TypeOK
      <4>3. CASE Return
        BY <4>3 DEF Return, IInv, TypeOK
      <4>. QED
        BY <2>4, <4>1, <4>2, <4>3
    <3>. QED
      BY <3>1 DEF Stored
  <2>5. CASE Main \/ UNCHANGED vars
    BY <2>5 DEF Main, Create, Join, Cleanup, vars, Stored
  <2>. QED
    BY <2>1, <2>2, <2>3, <2>4, <2>5
<1>3. Made' = Made
  BY <1>2 DEF Made
<1>. DEFINE W == pc[Watcher]
            Watches == /\ wakes \in 0 .. 1
                       /\ wakes = 1 => W \in {"check", "load", "store", "unlock", "done"}
                       /\ wakes = 0 => W \notin {"load", "store"}
<1>4. Watches' /\ Paid' = Paid
  <2>1. ASSUME NEW t \in Thread, Lock(t) \/ Load(t) \/ Unlock(t)
        PROVE  Watches' /\ Paid' = Paid
    <3>1. CASE Lock(t)
      <4>1. wakes' = wakes /\ (W' = W \/ (W = "lock" /\ W' = "check"))
        BY <3>1 DEF Lock, IInv, TypeOK
      <4>. QED
        BY <4>1 DEF Account, Paid
    <3>2. CASE Load(t)
      <4>1. wakes' = wakes /\ (W' = W \/ (W = "load" /\ W' = "store"))
        BY <3>2 DEF Load, IInv, TypeOK
      <4>. QED
        BY <4>1 DEF Account, Paid
    <3>3. CASE Unlock(t)
      <4>1. wakes' = wakes /\ (W' = W \/ (W = "unlock" /\ W' = "done"))
        BY <3>3 DEF Unlock, IInv, TypeOK
      <4>. QED
        BY <4>1 DEF Account, Paid
    <3>. QED
      BY <2>1, <3>1, <3>2, <3>3
  <2>2. ASSUME NEW t \in Inc, Signal(t) PROVE Watches' /\ Paid' = Paid
    <3>1. /\ wakes' = wakes
          /\ W' = W \/ (W = "wait" /\ W' = "relock")
      BY <2>2 DEF Signal, IInv, TypeOK
    <3>. QED
      BY <3>1 DEF Account, Paid
  <2>3. ASSUME NEW t \in Inc, EndSleep(t) PROVE Watches' /\ Paid' = Paid
    <3>1. wakes' = wakes /\ W' = W
      BY <2>3 DEF EndSleep, IInv, TypeOK
    <3>. QED
      BY <3>1 DEF Account, Paid
  <2>4. CASE Check
    <3>1. wakes = 1 => COUNT_LIMIT <= count
      <4>1. SumFunctionOnSet(Made, Inc) \in Nat
        BY MadeSums DEF IInv
      <4>. QED
        BY <2>4, <4>1 DEF Check, Account, Paid
    <3>2. wakes' = wakes /\ count \in Nat
      BY <2>4 DEF Check, IInv, TypeOK
    <3>3. W' = (IF count < COUNT_LIMIT THEN "wait" ELSE "unlock") /\ W = "check"
      BY <2>4 DEF Check, IInv, TypeOK
    <3>. QED
      BY <3>1, <3>2, <3>3 DEF Account, Paid
  <2>5. CASE SpuriousWakeup
    BY <2>5 DEF SpuriousWakeup, Account, Paid, IInv, TypeOK
  <2>6. CASE Return
    BY <2>6 DEF Return, Account, Paid, IInv, TypeOK
  <2>7. CASE Main \/ UNCHANGED vars
    BY <2>7 DEF Main, Create, Join, Cleanup, vars, Account, Paid
  <2>. QED
    BY <2>1, <2>2, <2>3, <2>4, <2>5, <2>6, <2>7
<1>. QED
  BY <1>1, <1>3, <1>4 DEF Account

\* Every step
LEMMA NextAccount ==
  ASSUME COUNT_LIMIT <= Bonus
  PROVE  IInv /\ Account /\ [Next]_vars => Account'
<1>. SUFFICES ASSUME IInv, Account, [Next]_vars PROVE Account'
  OBVIOUS
<1>1. IInv'
  BY NextIInv
<1>2. ASSUME NEW t \in Thread, Store(t) PROVE Account'
  BY <1>1, <1>2, StoreInAccount
<1>3. /\ Watcher \in Thread
      /\ \A t \in Inc : t \in Thread
  BY ConstantsAssumption DEF Watcher, Thread, Inc
<1>4. \/ \E t \in Thread : Store(t)
      \/ \E t \in Thread : Lock(t) \/ Load(t) \/ Unlock(t)
      \/ \E t \in Inc : Signal(t) \/ EndSleep(t)
      \/ Check \/ SpuriousWakeup \/ Return \/ Main \/ UNCHANGED vars
  BY <1>3 DEF Next, watch_count, inc_count
<1>. QED
  BY <1>2, <1>4, OthersInAccount

\* No increment of inc_count and no bonus of watch_count is lost or made twice,
\* and pthread_cond_wait returns at most once, for any number of threads and
\* increments, as long as the bonus passes the limit (125 and 12 in the code).
THEOREM NothingEverLost ==
  ASSUME COUNT_LIMIT <= Bonus PROVE Spec => []NothingLost
<1>1. ASSUME IInv, Account PROVE NothingLost
  <2>. SUFFICES ASSUME count_mutex = Nobody PROVE NothingLost
    BY DEF NothingLost
  <2>. DEFINE made == [t \in Inc |-> Increments(t)]
  <2>1. \A t \in Thread : pc[t] \notin Critical
    BY <1>1, ConstantsAssumption DEF IInv, HolderIsCritical, Thread, Nobody
  <2>2. \A t \in Inc : Stored(t) = Increments(t)
    BY <2>1 DEF Stored, Increments, Critical, Inc, Thread
  <2>3. Made = made
    BY <2>2, Zenon DEF Made
  <2>4. SumFunction(made) = SumFunctionOnSet(Made, Inc)
    BY <2>3 DEF SumFunction
  <2>5. Paid = Bonus * wakes /\ wakes <= 1
    BY <1>1, <2>1, ConstantsAssumption
       DEF Account, Paid, Critical, Watcher, Thread
  <2>6. count = SumFunction(made) + Bonus * wakes
    BY <1>1, <2>4, <2>5 DEF Account
  <2>. QED
    BY <2>5, <2>6 DEF NothingLost
<1>. QED
  BY <1>1, InitAccount, InitIInv, NextIInv, NextAccount, PTL DEF Spec
=============================================================================
