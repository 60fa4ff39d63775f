------------------------------ MODULE MCThreads ------------------------------
(***************************************************************************)
(* The two multithreaded programs, started one after the other: first the  *)
(* condition-variable example and, when its main has returned, the writers *)
(* that a signal stops.                                                    *)
(***************************************************************************)
EXTENDS ThreadWait

CONSTANT n_procs

VARIABLES stopped, yesMain, yesCreated, yesJoined, thread, handled

yesVars == <<stopped, yesMain, yesCreated, yesJoined, thread, handled>>

Yes == INSTANCE YesThreads WITH
         main <- yesMain, created <- yesCreated, joined <- yesJoined

Second(A) == main = "exit" /\ A /\ UNCHANGED vars

ThreadsInit == Init /\ Yes!Init

ThreadsSpec ==
  /\ ThreadsInit
  /\ [][(Next /\ UNCHANGED yesVars) \/ Second(Yes!Next)]_<<vars, yesVars>>
  /\ WF_vars(watch_count) /\ WF_vars(Main)
  /\ \A t \in Inc : WF_vars(inc_count(t))
  /\ WF_<<vars, yesVars>>(Second(Yes!Main))
  /\ \A t \in Yes!Thread : WF_<<vars, yesVars>>(Second(Yes!yesThread(t)))

(***************************************************************************)
(* One SIGINT stops the writers (see YesThreads).                          *)
(***************************************************************************)
OneSignalStops == Yes!OneSignalStops
=============================================================================
