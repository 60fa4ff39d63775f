----------------------------- MODULE GenPacket -----------------------------
(***************************************************************************)
(* dpdk/gen_packet/main.c: three cores.  One fills a burst of mbufs and    *)
(* sends it again and again while the transmit ring takes all of it; one   *)
(* runs the timer that prints and clears the counter of sent packets; the  *)
(* master core drains the receive ring until a signal ends the program.    *)
(*                                                                         *)
(* rte_atomic32_add, _read and _set are atomic, one by one.  The ring of   *)
(* the port (external) takes as many packets as it has room for.  Packets  *)
(* are identical and are counted, not named.                               *)
(***************************************************************************)
EXTENDS Integers

CONSTANTS BURST_SIZE, TxRing, RxRing,
          MaxSent        \* bound on the packets sent

VARIABLES counter, force_quit,
          generator, nb_tx,          \* generate_packets and send_batch
          inRing, sent,              \* in the transmit ring; ever put there
          timer, count, reported,    \* report_stat; the sum of what it printed
          timerOn,
          master, rx                 \* lcore_main; the receive ring

sender == <<generator, nb_tx>>
report == <<timer, count, reported, timerOn>>
receive == <<master, rx>>
vars == <<counter, force_quit, sender, inRing, sent, report, receive>>

TypeOK ==
  /\ counter \in 0 .. MaxSent /\ sent \in 0 .. MaxSent
  /\ reported \in 0 .. MaxSent /\ count \in 0 .. MaxSent
  /\ generator \in {"craft", "burst", "add"} /\ nb_tx \in 0 .. BURST_SIZE
  /\ timer \in {"idle", "read", "set", "check"}
  /\ inRing \in 0 .. TxRing /\ rx \in 0 .. RxRing
  /\ master \in {"loop", "drain", "exited"}
  /\ force_quit \in BOOLEAN /\ timerOn \in BOOLEAN

Init ==
  /\ counter = 0 /\ force_quit = FALSE
  /\ generator = "craft" /\ nb_tx = 0 /\ inRing = 0 /\ sent = 0
  /\ timer = "idle" /\ count = 0 /\ reported = 0 /\ timerOn = TRUE
  /\ master = "loop" /\ rx = 0

\* main returns when lcore_main does, and takes the other cores with it.
Running == master # "exited"
-----------------------------------------------------------------------------
\* generate_packets' for loop; the packets are identical.
add_paxos_messages ==
  /\ Running /\ generator = "craft" /\ generator' = "burst"
  /\ UNCHANGED <<counter, force_quit, nb_tx, inRing, sent, report, receive>>

tx_burst ==
  /\ Running /\ generator = "burst" /\ generator' = "add"
  /\ \E n \in 0 .. BURST_SIZE :
       /\ inRing + n <= TxRing /\ sent + n <= MaxSent
       /\ nb_tx' = n /\ inRing' = inRing + n /\ sent' = sent + n
  /\ UNCHANGED <<counter, force_quit, report, receive>>

\* The loop of send_batch goes on while the whole burst was taken.
atomic32_add_burst ==
  /\ Running /\ generator = "add"
  /\ counter' = counter + BURST_SIZE
  /\ generator' = IF nb_tx = BURST_SIZE THEN "burst" ELSE "craft"
  /\ UNCHANGED <<force_quit, nb_tx, inRing, sent, report, receive>>

atomic32_add ==
  /\ Running /\ generator = "add"
  /\ counter' = counter + nb_tx
  /\ generator' = IF nb_tx = BURST_SIZE THEN "burst" ELSE "craft"
  /\ UNCHANGED <<force_quit, nb_tx, inRing, sent, report, receive>>

send_batch == tx_burst \/ atomic32_add
-----------------------------------------------------------------------------
\* lcore_mainloop calls rte_timer_manage; the period of the timer is over.
timer_manage ==
  /\ Running /\ timer = "idle" /\ timerOn /\ timer' = "read"
  /\ UNCHANGED <<counter, force_quit, sender, inRing, sent, count, reported,
                 timerOn, receive>>

report_stat_read ==
  /\ Running /\ timer = "read" /\ timer' = "set"
  /\ count' = counter /\ reported' = reported + counter
  /\ UNCHANGED <<counter, force_quit, sender, inRing, sent, timerOn, receive>>

report_stat_set ==
  /\ Running /\ timer = "set" /\ timer' = "check"
  /\ counter' = 0
  /\ UNCHANGED <<force_quit, sender, inRing, sent, count, reported, timerOn,
                 receive>>

report_stat_check ==
  /\ Running /\ timer = "check" /\ timer' = "idle"
  /\ timerOn' = (timerOn /\ ~ force_quit)
  /\ UNCHANGED <<counter, force_quit, sender, inRing, sent, count, reported,
                 receive>>

report_stat == report_stat_read \/ report_stat_set \/ report_stat_check
-----------------------------------------------------------------------------
lcore_main_breaks_idle ==
  /\ master = "loop" /\ rx = 0
  /\ master' = IF force_quit THEN "exited" ELSE "drain"
  /\ UNCHANGED <<counter, force_quit, sender, inRing, sent, report, rx>>

lcore_main_check ==
  /\ master = "loop"
  /\ master' = IF force_quit THEN "exited" ELSE "drain"
  /\ UNCHANGED <<counter, force_quit, sender, inRing, sent, report, rx>>

\* rte_eth_rx_burst, and every packet received is freed.
lcore_main_drain ==
  /\ master = "drain" /\ master' = "loop"
  /\ \E n \in 0 .. BURST_SIZE : n <= rx /\ rx' = rx - n
  /\ UNCHANGED <<counter, force_quit, sender, inRing, sent, report>>

lcore_main == lcore_main_check \/ lcore_main_drain

signal_handler ==
  /\ Running /\ force_quit' = TRUE
  /\ UNCHANGED <<counter, sender, inRing, sent, report, receive>>

\* The port: a packet goes out, one comes in.
Transmit ==
  /\ Running /\ inRing > 0 /\ inRing' = inRing - 1
  /\ UNCHANGED <<counter, force_quit, sender, sent, report, receive>>

Receive ==
  /\ Running /\ rx < RxRing /\ rx' = rx + 1
  /\ UNCHANGED <<counter, force_quit, sender, inRing, sent, report, master>>

Next ==
  \/ add_paxos_messages \/ send_batch
  \/ timer_manage \/ report_stat
  \/ lcore_main \/ signal_handler \/ Transmit \/ Receive

\* Every core runs its loop; signals and received packets need not come.
Fairness ==
  /\ WF_vars(add_paxos_messages \/ send_batch)
  /\ WF_vars(timer_manage \/ report_stat)
  /\ WF_vars(lcore_main) /\ WF_vars(Transmit)

Spec == Init /\ [][Next]_vars /\ Fairness
-----------------------------------------------------------------------------
\* What report_stat has printed and what is waiting in the counter never exceed
\* the packets handed to the port.  Between the read and the clearing the value
\* read is in both.
NeverOverReports ==
  reported + counter - (IF timer = "set" THEN count ELSE 0) <= sent

\* The signal handler only raises a flag; the master core sees it and ends the
\* program, however many packets keep coming in.
SignalExits == force_quit ~> master = "exited"
=============================================================================
