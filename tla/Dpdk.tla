-------------------------------- MODULE Dpdk ---------------------------------
(***************************************************************************)
(* The two DPDK programs, of which one runs, as the first state says: the  *)
(* echo server (DpdkEcho) or the packet generator (GenPacket).             *)
(***************************************************************************)
EXTENDS DpdkEcho

\* The generator's burst, rings and bound on the packets sent
CONSTANTS GenBurst, GenTxRing, GenRxRing, MaxSent

ASSUME GeneratorAssumption ==
  /\ GenBurst \in Nat /\ GenTxRing \in Nat /\ GenRxRing \in Nat
  /\ MaxSent \in Nat

VARIABLES program,
          counter, force_quit, generator, genTx, inRing, sent,
          timer, count, reported, timerOn, master, rx

genVars == <<counter, force_quit, generator, genTx, inRing, sent,
             timer, count, reported, timerOn, master, rx>>

Gen == INSTANCE GenPacket WITH
         BURST_SIZE <- GenBurst, TxRing <- GenTxRing, RxRing <- GenRxRing,
         nb_tx <- genTx

DpdkInit == program \in {"echo", "generator"} /\ Init /\ Gen!Init

InEcho(A) == program = "echo" /\ A /\ UNCHANGED <<program, genVars>>
InGenerator(A) == program = "generator" /\ A /\ UNCHANGED <<program, vars>>

DpdkNext == InEcho(Next) \/ InGenerator(Gen!Next)

dpdkVars == <<program, vars, genVars>>

\* The fairness of both programs, each while it is the one that runs
DpdkSpec ==
  /\ DpdkInit /\ [][DpdkNext]_dpdkVars
  /\ WF_dpdkVars(InEcho(lcore_main))
  /\ \A p \in Port : WF_dpdkVars(InEcho(Transmit(p)))
  /\ WF_dpdkVars(InGenerator(Gen!add_paxos_messages \/ Gen!send_batch))
  /\ WF_dpdkVars(InGenerator(Gen!timer_manage \/ Gen!report_stat))
  /\ WF_dpdkVars(InGenerator(Gen!lcore_main))
  /\ WF_dpdkVars(InGenerator(Gen!Transmit))

(***************************************************************************)
(* report_stat never claims packets that send_batch did not hand to the    *)
(* port (see GenPacket).                                                   *)
(***************************************************************************)
NeverOverReports == Gen!NeverOverReports

(***************************************************************************)
(* The flag signal_handler raises ends lcore_main (see GenPacket).         *)
(***************************************************************************)
SignalExits == Gen!SignalExits
=============================================================================
