----------------------------- MODULE YesThreads -----------------------------
(***************************************************************************)
(* multithread/src/multithread.c: one thread per processor writes until a  *)
(* signal handler sets the flag `stopped'.  Handlers for SIGINT and        *)
(* SIGKILL are installed; the kernel refuses the second, so SIGINT is the  *)
(* only signal that matters.  It may arrive at any time; before its        *)
(* handler is installed it kills the process.                              *)
(***************************************************************************)
EXTENDS Integers

CONSTANT n_procs   \* at least one

Thread == 1 .. n_procs

VARIABLES stopped, main, created, joined, thread,
          handled      \* SIGINTs the handler has seen, up to two

vars == <<stopped, main, created, joined, thread, handled>>

\* A global int is 0 from the start.
Init ==
  /\ stopped = 0 /\ main = "start" /\ created = 0 /\ joined = 0
  /\ thread = [t \in Thread |-> "none"]
  /\ handled = 0

Alive == main \notin {"exit", "killed"}

\* stopped = 0, then signal(SIGINT, sig_handler)
Clear ==
  /\ main = "start" /\ main' = "install"
  /\ stopped' = 0
  /\ UNCHANGED <<created, joined, thread, handled>>

Install ==
  /\ main = "install" /\ main' = "create"
  /\ UNCHANGED <<stopped, created, joined, thread, handled>>

CreateClears ==
  /\ main = "create"
  /\ stopped' = 0
  /\ created' = created + 1
  /\ thread' = [thread EXCEPT ![created + 1] = "loop"]
  /\ main' = IF created + 1 = n_procs THEN "join" ELSE "create"
  /\ UNCHANGED <<joined, handled>>

Create ==
  /\ main = "create"
  /\ created' = created + 1
  /\ thread' = [thread EXCEPT ![created + 1] = "loop"]
  /\ main' = IF created + 1 = n_procs THEN "join" ELSE "create"
  /\ UNCHANGED <<stopped, joined, handled>>

Join ==
  /\ main = "join" /\ thread[joined + 1] = "done"
  /\ joined' = joined + 1
  /\ main' = IF joined + 1 = n_procs THEN "exit" ELSE "join"
  /\ UNCHANGED <<stopped, created, thread, handled>>

\* The loop reads the flag, then writes; the call of fprintf makes the
\* compiler read the global again.
yesThread(t) ==
  /\ Alive
  /\ \/ /\ thread[t] = "loop"
        /\ thread' = [thread EXCEPT ![t] =
                        IF stopped = 0 THEN "write" ELSE "done"]
     \/ /\ thread[t] = "write"
        /\ thread' = [thread EXCEPT ![t] = "loop"]
  /\ UNCHANGED <<stopped, main, created, joined, handled>>

sig_handler ==
  /\ main \in {"create", "join"} /\ handled < 2
  /\ stopped' = 1 /\ handled' = handled + 1
  /\ UNCHANGED <<main, created, joined, thread>>

\* SIGINT before the handler is there.
Killed ==
  /\ main \in {"start", "install"} /\ main' = "killed"
  /\ UNCHANGED <<stopped, created, joined, thread, handled>>

Main == Clear \/ Install \/ Create \/ Join

Next == Main \/ (\E t \in Thread : yesThread(t)) \/ sig_handler \/ Killed

\* Threads that can run are scheduled; no signal has to come.
Spec ==
  /\ Init /\ [][Next]_vars
  /\ WF_vars(Main) /\ \A t \in Thread : WF_vars(yesThread(t))
-----------------------------------------------------------------------------
(***************************************************************************)
(* One SIGINT is enough: once the handler has run, even while main is      *)
(* still creating threads, main returns, and only after every thread has   *)
(* ended by itself, none cut off by the end of the process.                *)
(***************************************************************************)
OneSignalStops ==
  handled > 0 ~> main = "exit" /\ \A t \in Thread : thread[t] = "done"
=============================================================================
