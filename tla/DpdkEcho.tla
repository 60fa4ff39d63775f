------------------------------ MODULE DpdkEcho ------------------------------
(***************************************************************************)
(* client_server/dpdk/src/basicfwd.c: one core polls the ports in turn,    *)
(* turns ARP and ICMP echo requests into replies in place and sends every  *)
(* frame back on the port it came from.  Frames live in mbufs of one pool. *)
(*                                                                         *)
(* The ports (external): rte_eth_rx_burst hands over the oldest frames of  *)
(* a port's ring, rte_eth_tx_burst takes as many of the frames offered as  *)
(* its ring has room for and returns their number; what it took goes back  *)
(* to the pool once it is on the wire.                                     *)
(***************************************************************************)
EXTENDS Integers, Sequences, Functions

CONSTANTS Mbuf, nb_ports,
          BURST_SIZE,
          TxRing,        \* frames the transmit ring of a port holds
          Request        \* the frames that arrive

Port == 0 .. nb_ports - 1

ASSUME ConstantsAssumption ==
  /\ nb_ports \in Nat \ {0} /\ BURST_SIZE \in Nat \ {0}
  /\ TxRing \in Nat

VARIABLES pool,          \* free mbufs
          rxq, txq,      \* the mbufs in the rings of each port
          frame,         \* the frame in each mbuf
          port, bufs,    \* lcore_main's variables
          nb_tx,         \* frames of the burst that were sent
          pc

rings == <<rxq, txq>>
vars == <<pool, rings, frame, port, bufs, nb_tx, pc>>

TypeOK ==
  /\ pool \subseteq Mbuf
  /\ rxq \in [Port -> Seq(Mbuf)] /\ txq \in [Port -> Seq(Mbuf)]
  /\ DOMAIN frame = Mbuf
  /\ port \in Port /\ bufs \in Seq(Mbuf) /\ Len(bufs) <= BURST_SIZE
  /\ nb_tx \in 0 .. Len(bufs)
  /\ pc \in {"rx", "handle", "tx", "free"}

Other == [kind |-> "other"]

Init ==
  /\ pool = Mbuf /\ frame = [m \in Mbuf |-> Other]
  /\ rxq = [p \in Port |-> <<>>] /\ txq = rxq
  /\ port = 0 /\ bufs = <<>> /\ nb_tx = 0 /\ pc = "rx"
-----------------------------------------------------------------------------
(* Frames.  The host is little endian, and the address a frame asks for is *)
(* compared as it stands in memory.                                        *)

IP_ICMP_ECHO_REQUEST == 8
IP_ICMP_ECHO_REPLY == 0

\* ICMP: the type, the checksum as the host reads it from memory, and the
\* bytes after it; the code is 0.
Icmp(type, cksum, rest) ==
  [kind |-> "icmp", type |-> type, cksum |-> cksum, rest |-> rest]

\* icmp_cksum + (IP_ICMP_ECHO_REQUEST << 8) + ~(IP_ICMP_ECHO_REPLY << 8), cut
\* to the 16 bits of the field
UpdatedChecksum(cksum) ==
  (cksum + 256 * IP_ICMP_ECHO_REQUEST + (-1 - 256 * IP_ICMP_ECHO_REPLY)) % 65536

\* IPv4(192, 168, 10, 97), as the host stores it: the bytes that are compared
\* with and copied into a frame.
my_ip == <<97, 10, 168, 192>>

\* ARP: operation, hardware and protocol address of sender and target.  The
\* hardware address of a port is the port itself.
Arp(op, sha, sip, tha, tip) ==
  [kind |-> "arp", op |-> op, sha |-> sha, sip |-> sip, tha |-> tha,
   tip |-> tip]
-----------------------------------------------------------------------------
packet_handler(f, p) ==
  IF f.kind = "arp" /\ f.op = "request" /\ f.tip = my_ip
    THEN Arp("reply", p, my_ip, f.sha, f.sip)
  ELSE IF f.kind = "icmp" /\ f.type = IP_ICMP_ECHO_REQUEST
    THEN Icmp(IP_ICMP_ECHO_REPLY, UpdatedChecksum(f.cksum), f.rest)
    ELSE f

NextPort == port' = (port + 1) % nb_ports

\* An empty burst: on to the next port.
rx_burst ==
  /\ pc = "rx"
  /\ \E n \in 0 .. BURST_SIZE :
       /\ n <= Len(rxq[port]) /\ (n = 0 => rxq[port] = <<>>)
       /\ bufs' = SubSeq(rxq[port], 1, n)
       /\ rxq' = [rxq EXCEPT ![port] = SubSeq(@, n + 1, Len(@))]
       /\ IF n = 0 THEN NextPort /\ UNCHANGED pc
                   ELSE pc' = "handle" /\ UNCHANGED port
  /\ UNCHANGED <<pool, txq, frame, nb_tx>>

rx_handler ==
  /\ pc = "handle" /\ pc' = "tx"
  /\ frame' = [m \in Mbuf |-> IF m \in Range(bufs)
                                THEN packet_handler(frame[m], port)
                                ELSE frame[m]]
  /\ UNCHANGED <<pool, rings, port, bufs, nb_tx>>

tx_burst_next_port ==
  LET out == (port + 1) % nb_ports IN
  /\ pc = "tx" /\ pc' = "free"
  /\ \E n \in 0 .. Len(bufs) :
       /\ Len(txq[out]) + n <= TxRing
       /\ nb_tx' = n
       /\ txq' = [txq EXCEPT ![out] = @ \o SubSeq(bufs, 1, n)]
  /\ UNCHANGED <<pool, rxq, frame, port, bufs>>

tx_burst ==
  /\ pc = "tx" /\ pc' = "free"
  /\ \E n \in 0 .. Len(bufs) :
       /\ Len(txq[port]) + n <= TxRing
       /\ nb_tx' = n
       /\ txq' = [txq EXCEPT ![port] = @ \o SubSeq(bufs, 1, n)]
  /\ UNCHANGED <<pool, rxq, frame, port, bufs>>

\* Mbufs go back to the pool; nobody reads what is in them any more.
Free(ms) ==
  /\ pool' = pool \cup ms
  /\ frame' = [m \in Mbuf |-> IF m \in ms THEN Other ELSE frame[m]]

\* The frames that were not sent are freed; the next port is polled.
free_off_by_one ==
  /\ pc = "free" /\ pc' = "rx"
  /\ Free(Range(SubSeq(bufs, nb_tx + 2, Len(bufs))))
  /\ bufs' = <<>> /\ nb_tx' = 0 /\ NextPort
  /\ UNCHANGED rings

free_same_port ==
  /\ pc = "free" /\ pc' = "rx"
  /\ Free(Range(SubSeq(bufs, nb_tx + 1, Len(bufs))))
  /\ bufs' = <<>> /\ nb_tx' = 0
  /\ UNCHANGED <<rings, port>>

free_unsent ==
  /\ pc = "free" /\ pc' = "rx"
  /\ Free(Range(SubSeq(bufs, nb_tx + 1, Len(bufs))))
  /\ bufs' = <<>> /\ nb_tx' = 0 /\ NextPort
  /\ UNCHANGED rings

lcore_main == rx_burst \/ rx_handler \/ tx_burst \/ free_unsent
-----------------------------------------------------------------------------
\* A frame arrives; without a free mbuf the port drops it.
Receive(p) ==
  /\ \E m \in pool, f \in Request :
       /\ pool' = pool \ {m}
       /\ frame' = [frame EXCEPT ![m] = f]
       /\ rxq' = [rxq EXCEPT ![p] = Append(@, m)]
  /\ UNCHANGED <<txq, port, bufs, nb_tx, pc>>

Transmit(p) ==
  /\ txq[p] # <<>>
  /\ Free({Head(txq[p])})
  /\ txq' = [txq EXCEPT ![p] = Tail(@)]
  /\ UNCHANGED <<rxq, port, bufs, nb_tx, pc>>

Next == lcore_main \/ \E p \in Port : Receive(p) \/ Transmit(p)

\* The core polls and the ports send; nothing has to arrive.
Spec ==
  /\ Init /\ [][Next]_vars
  /\ WF_vars(lcore_main) /\ \A p \in Port : WF_vars(Transmit(p))
-----------------------------------------------------------------------------
\* The mbufs of the burst that the core holds and has not handed over
Held == IF pc = "free" THEN SubSeq(bufs, nb_tx + 1, Len(bufs)) ELSE bufs

\* Where an mbuf of a port may be: in a ring or in the core's burst.
Place == {"rx", "tx", "core"}
MbufsAt(k, p) ==
  IF k = "rx" THEN rxq[p]
  ELSE IF k = "tx" THEN txq[p]
  ELSE IF p = port THEN Held ELSE <<>>

\* Every mbuf is in exactly one place: free, in one ring, or in the burst the
\* core holds and has not handed over.  A frame that was neither sent nor freed
\* would be lost to the pool for good, one that was both would be reused while
\* the port still reads it.
MbufsConserved ==
  /\ \A k, l \in Place, p, q \in Port :
       \A i \in DOMAIN MbufsAt(k, p), j \in DOMAIN MbufsAt(l, q) :
         MbufsAt(k, p)[i] = MbufsAt(l, q)[j] => k = l /\ p = q /\ i = j
  /\ \A m \in Mbuf :
       m \in pool <=> \A k \in Place, p \in Port : m \notin Range(MbufsAt(k, p))

\* An ARP reply that packet_handler made, and not one that came in and goes
\* back as it is, leaves through the port whose address it announces, and tells
\* the host that asked, under the address it asked with, that this port has the
\* address it asked for.
ArpReplies ==
  \A p \in Port : \A i \in DOMAIN txq[p] :
    LET f == frame[txq[p][i]] IN
      (f.kind = "arp" /\ f.op = "reply" /\ f \notin Request) =>
        /\ f.sha = p
        /\ \E q \in Request : /\ q.kind = "arp" /\ q.op = "request"
                              /\ f.tha = q.sha /\ f.tip = q.sip
                              /\ f.sip = q.tip

\* No port is starved: however busy the others are, a frame in its receive
\* ring is taken out by the loop over the ports.
PortsServed ==
  \A p \in Port, m \in Mbuf : m \in Range(rxq[p]) ~> m \notin Range(rxq[p])
=============================================================================
