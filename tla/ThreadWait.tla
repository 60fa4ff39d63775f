----------------------------- MODULE ThreadWait -----------------------------
(***************************************************************************)
(* pthread_wait/main.c: threads that increment a shared counter under a    *)
(* mutex and a watcher that waits on a condition variable until the        *)
(* counter has reached a limit.  main creates the threads in order, joins  *)
(* them in order and then destroys the mutex and the condition variable.   *)
(*                                                                         *)
(* Each access of the counter is a load and a store of its own, so that    *)
(* only the mutex keeps an increment from being lost.  POSIX lets          *)
(* pthread_cond_wait return without a signal (SpuriousWakeup).             *)
(***************************************************************************)
EXTENDS Integers, Functions

CONSTANTS NUM_THREADS,   \* the watcher and the incrementing threads
          TCOUNT,        \* increments per thread
          COUNT_LIMIT,
          Bonus          \* what the watcher adds when it has been woken

ASSUME ConstantsAssumption ==
  /\ NUM_THREADS \in Nat \ {0} /\ TCOUNT \in Nat
  /\ COUNT_LIMIT \in Nat /\ Bonus \in Nat

Thread == 1 .. NUM_THREADS
Watcher == 1             \* threads[0]
Inc == 2 .. NUM_THREADS
Nobody == 0

VARIABLES count,         \* the shared counter
          count_mutex,   \* its holder, or Nobody
          pc,            \* where each thread is
          i,             \* loop counter of each incrementing thread
          reg,           \* the value a thread has loaded
          wakes,         \* how often pthread_cond_wait has returned
          created, joined,
          main           \* where main is

vars == <<count, count_mutex, pc, i, reg, wakes, created, joined, main>>

TypeOK ==
  /\ count \in Nat
  /\ count_mutex \in Thread \cup {Nobody}
  /\ pc \in [Thread -> {"lock", "check", "load", "store", "signal", "unlock",
                        "sleep", "wait", "relock", "done"}]
  /\ i \in [Thread -> 0 .. TCOUNT]
  /\ reg \in [Thread -> Nat]
  /\ wakes \in Nat
  /\ created \in 0 .. NUM_THREADS /\ joined \in 0 .. NUM_THREADS
  /\ main \in {"create", "join", "cleanup", "exit"}

Init ==
  /\ count = 0 /\ count_mutex = Nobody
  /\ pc = [t \in Thread |-> IF t \in Inc /\ TCOUNT = 0 THEN "done" ELSE "lock"]
  /\ i = [t \in Thread |-> 0]
  /\ reg = [t \in Thread |-> 0]
  /\ wakes = 0 /\ created = 0 /\ joined = 0 /\ main = "create"

Running(t, at) == t <= created /\ pc[t] = at
Goto(t, to) == pc' = [pc EXCEPT ![t] = to]
mainVars == <<created, joined, main>>
-----------------------------------------------------------------------------
\* pthread_mutex_lock, and the lock pthread_cond_wait takes when it returns.
Acquire(t) == count_mutex = Nobody /\ count_mutex' = t

LockSkipped(t) ==
  /\ Running(t, "lock")
  /\ Goto(t, IF t = Watcher THEN "check" ELSE "load")
  /\ UNCHANGED <<count, count_mutex, i, reg, wakes, mainVars>>

Lock(t) ==
  /\ Running(t, "lock") /\ Acquire(t)
  /\ Goto(t, IF t = Watcher THEN "check" ELSE "load")
  /\ UNCHANGED <<count, i, reg, wakes, mainVars>>

\* count++ of inc_count and count += 125 of watch_count
Load(t) ==
  /\ Running(t, "load")
  /\ reg' = [reg EXCEPT ![t] = count]
  /\ Goto(t, "store")
  /\ UNCHANGED <<count, count_mutex, i, wakes, mainVars>>

Store(t) ==
  /\ Running(t, "store")
  /\ count' = reg[t] + IF t = Watcher THEN Bonus ELSE 1
  /\ Goto(t, IF t = Watcher THEN "check" ELSE "signal")
  /\ UNCHANGED <<count_mutex, i, reg, wakes, mainVars>>

\* if (count == COUNT_LIMIT) pthread_cond_signal(...)
SignalEarly(t) ==
  /\ Running(t, "signal")
  /\ pc' = [pc EXCEPT ![t] = "unlock",
                      ![Watcher] = IF count = COUNT_LIMIT - 1 /\ @ = "wait"
                                     THEN "relock" ELSE @]
  /\ UNCHANGED <<count, count_mutex, i, reg, wakes, mainVars>>

Signal(t) ==
  /\ Running(t, "signal")
  /\ pc' = [pc EXCEPT ![t] = "unlock",
                      ![Watcher] = IF count = COUNT_LIMIT /\ @ = "wait"
                                     THEN "relock" ELSE @]
  /\ UNCHANGED <<count, count_mutex, i, reg, wakes, mainVars>>

\* pthread_mutex_unlock; an incrementing thread then sleeps, the watcher exits.
UnlockSkipped(t) ==
  /\ Running(t, "unlock")
  /\ Goto(t, IF t = Watcher THEN "done" ELSE "sleep")
  /\ UNCHANGED <<count, count_mutex, i, reg, wakes, mainVars>>

Unlock(t) ==
  /\ Running(t, "unlock")
  /\ count_mutex' = Nobody
  /\ Goto(t, IF t = Watcher THEN "done" ELSE "sleep")
  /\ UNCHANGED <<count, i, reg, wakes, mainVars>>

\* The end of sleep(1), and of an iteration of inc_count's loop.
EndSleep(t) ==
  /\ Running(t, "sleep")
  /\ i' = [i EXCEPT ![t] = @ + 1]
  /\ Goto(t, IF i[t] + 1 < TCOUNT THEN "lock" ELSE "done")
  /\ UNCHANGED <<count, count_mutex, reg, wakes, mainVars>>

\* while (count < COUNT_LIMIT) pthread_cond_wait(...): the mutex is released
\* and the thread waits in one step.
Check ==
  /\ Running(Watcher, "check")
  /\ IF count < COUNT_LIMIT
       THEN count_mutex' = Nobody /\ Goto(Watcher, "wait")
       ELSE UNCHANGED count_mutex /\ Goto(Watcher, "unlock")
  /\ UNCHANGED <<count, i, reg, wakes, mainVars>>

SpuriousWakeup ==
  /\ Running(Watcher, "wait")
  /\ Goto(Watcher, "relock")
  /\ UNCHANGED <<count, count_mutex, i, reg, wakes, mainVars>>

\* pthread_cond_wait returns with the mutex held.
Return ==
  /\ Running(Watcher, "relock") /\ Acquire(Watcher)
  /\ wakes' = wakes + 1
  /\ Goto(Watcher, "load")
  /\ UNCHANGED <<count, i, reg, mainVars>>
-----------------------------------------------------------------------------
Create ==
  /\ main = "create"
  /\ created' = created + 1
  /\ main' = IF created + 1 = NUM_THREADS THEN "join" ELSE "create"
  /\ UNCHANGED <<count, count_mutex, pc, i, reg, wakes, joined>>

\* pthread_join(threads[joined])
JoinUnwaited ==
  /\ main = "join"
  /\ joined' = joined + 1
  /\ main' = IF joined + 1 = NUM_THREADS THEN "cleanup" ELSE "join"
  /\ UNCHANGED <<count, count_mutex, pc, i, reg, wakes, created>>

Join ==
  /\ main = "join" /\ pc[joined + 1] = "done"
  /\ joined' = joined + 1
  /\ main' = IF joined + 1 = NUM_THREADS THEN "cleanup" ELSE "join"
  /\ UNCHANGED <<count, count_mutex, pc, i, reg, wakes, created>>

\* The mutex and the condition variable are destroyed.
Cleanup ==
  /\ main = "cleanup" /\ main' = "exit"
  /\ UNCHANGED <<count, count_mutex, pc, i, reg, wakes, created, joined>>

inc_count(t) ==
  Lock(t) \/ Load(t) \/ Store(t) \/ Signal(t) \/ Unlock(t) \/ EndSleep(t)

watch_count ==
  \/ Lock(Watcher) \/ Check \/ Return
  \/ Load(Watcher) \/ Store(Watcher) \/ Unlock(Watcher)

Main == Create \/ Join \/ Cleanup

Next == watch_count \/ SpuriousWakeup \/ (\E t \in Inc : inc_count(t)) \/ Main

(***************************************************************************)
(* A thread that can run is scheduled and a free mutex is given to one of  *)
(* the threads that want it; nothing makes a spurious wakeup happen.       *)
(***************************************************************************)
Spec ==
  /\ Init /\ [][Next]_vars
  /\ WF_vars(watch_count) /\ WF_vars(Main)
  /\ \A t \in Inc : WF_vars(inc_count(t))
-----------------------------------------------------------------------------
(***************************************************************************)
(* Whoever is between a lock and an unlock in the source holds the mutex:  *)
(* no two threads are there, also after pthread_cond_wait has returned.    *)
(***************************************************************************)
Critical == {"check", "load", "store", "signal", "unlock"}
HolderIsCritical ==
  \A t \in Thread : pc[t] \in Critical <=> count_mutex = t

(***************************************************************************)
(* No wakeup is lost: while the watcher waits and nobody has signalled it, *)
(* the limit has not been passed, and if it has just been reached the      *)
(* thread that reached it is still about to signal.                        *)
(***************************************************************************)
NoLostWakeup ==
  pc[Watcher] = "wait" =>
     \/ count < COUNT_LIMIT
     \/ count = COUNT_LIMIT /\ \E t \in Inc : pc[t] = "signal"

(***************************************************************************)
(* No update is lost: whenever the mutex is free the counter is the number *)
(* of increments made plus 125 for each return of pthread_cond_wait, of    *)
(* which there is at most one.                                             *)
(***************************************************************************)
Increments(t) == i[t] + IF pc[t] = "sleep" THEN 1 ELSE 0
NothingLost ==
  count_mutex = Nobody =>
    /\ count = SumFunction([t \in Inc |-> Increments(t)]) + Bonus * wakes
    /\ wakes <= 1

(***************************************************************************)
(* main destroys the mutex and the condition variable only when no thread  *)
(* can touch them any more.                                                *)
(***************************************************************************)
CleanupAlone ==
  main \in {"cleanup", "exit"} =>
    count_mutex = Nobody /\ \A t \in Thread : pc[t] = "done"

(***************************************************************************)
(* The program ends, whichever thread is fast and whether the watcher is   *)
(* signalled, woken for no reason or comes after the limit was reached.    *)
(***************************************************************************)
Terminates == <>(main = "exit")
=============================================================================
