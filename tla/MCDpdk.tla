------------------------------- MODULE MCDpdk --------------------------------
(***************************************************************************)
(* The frames that arrive at the echo server, and what becomes of their    *)
(* checksums.                                                              *)
(***************************************************************************)
EXTENDS Dpdk

CK == INSTANCE Checksum

\* For the echo server: an ARP request for the address it compares with, one
\* for that address as it is written, and a right echo request.
MCRequest ==
  {Arp("request", "host", <<192, 168, 10, 1>>, "none", tip) :
     tip \in {my_ip, <<192, 168, 10, 97>>}}
    \cup {Icmp(IP_ICMP_ECHO_REQUEST,
               CK!csum(<<IP_ICMP_ECHO_REQUEST, 0, 0, 0, 18, 52>>), <<18, 52>>)}

\* The checksum over the whole message, checksum included, is 0.
Verifies(f) ==
  CK!csum(<<f.type, 0, f.cksum % 256, f.cksum \div 256>> \o f.rest) = 0

\* The comment at packet_handler's assignment to icmp_cksum says that it
\* updates the checksum: an echo reply made of a request whose checksum was
\* right leaves with one that is right.
IcmpReplyVerifies ==
  (\A q \in Request : q.kind = "icmp" => Verifies(q)) =>
    \A p \in Port : \A i \in DOMAIN txq[p] :
      LET f == frame[txq[p][i]] IN
        (f.kind = "icmp" /\ f.type = IP_ICMP_ECHO_REPLY) => Verifies(f)
=============================================================================
