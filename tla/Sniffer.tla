------------------------------- MODULE Sniffer -------------------------------
(***************************************************************************)
(* libpcap/sniffex.c: open a capture device, take num_packets packets and  *)
(* print the payload of the TCP ones in rows of 16 bytes.  A packet is the *)
(* fields got_packet looks at; its payload is the numbers of its bytes.    *)
(***************************************************************************)
EXTENDS Integers, Sequences

CONSTANTS num_packets,
          Packet     \* records with ip_hl, ip_p, ip_len and th_off

ASSUME PacketAssumption ==
  /\ num_packets \in Nat
  /\ \A pkt \in Packet :
       pkt.ip_hl \in Nat /\ pkt.th_off \in Nat /\ pkt.ip_len \in Nat

VARIABLES pc,        \* "start", the calls of main, "loop", "print" (the loop of
                     \* print_payload), "done" or "failed"
          argc,
          count,     \* the static counter of got_packet
          captured,  \* packets pcap_loop has handed over
          dump,      \* what got_packet printed for the last of them
          ch, len_rem, offset  \* in print_payload: where it is, what is left

payload == <<ch, len_rem, offset>>
snVars == <<pc, argc, count, captured, dump, payload>>

line_width == 16

\* One row: the offset printed, the bytes, and where the ASCII column starts.
print_hex_ascii_line(from, len, off) ==
  [offset |-> off,
   bytes |-> [i \in 1 .. len |-> from + i - 1],
   ascii |-> 3 * len + (IF len > 7 THEN 1 ELSE 0) + (IF len < 8 THEN 1 ELSE 0)
               + (IF len < line_width THEN 3 * (line_width - len) ELSE 0)]

\* The modulus the other way about.
LineLenSwapped(left) == left % line_width

LineLen(left) == line_width % left

Shown(number, verdict, size, rows) ==
  [number |-> number, verdict |-> verdict, size |-> size, rows |-> rows]

Nothing == Shown(0, "none", 0, <<>>)

\* The first lines of print_payload: what fits on one line, or nothing yet.
FirstRows(len) ==
  IF len \in 1 .. line_width THEN <<print_hex_ascii_line(0, len, 0)>> ELSE <<>>

Dissect(pkt) ==
  LET size_ip == pkt.ip_hl * 4
      size_tcp == pkt.th_off * 4
      size_payload == pkt.ip_len - (size_ip + size_tcp)
  IN IF size_ip < 20 THEN Shown(count, "bad ip", 0, <<>>)
     ELSE IF pkt.ip_p # "tcp" THEN Shown(count, pkt.ip_p, 0, <<>>)
     ELSE IF size_tcp < 20 THEN Shown(count, "bad tcp", 0, <<>>)
     ELSE Shown(count, "tcp", size_payload, FirstRows(size_payload))
-----------------------------------------------------------------------------
SnifferInit ==
  /\ pc = "start" /\ argc \in 1 .. 3
  /\ count = 1 /\ captured = 0 /\ dump = Nothing
  /\ ch = 0 /\ len_rem = 0 /\ offset = 0

Goto(to) == pc' = to /\ UNCHANGED <<argc, count, captured, dump, payload>>

\* The device is the argument, or what pcap_lookupdev finds.
ChooseDevice ==
  /\ pc = "start"
  /\ \/ argc <= 2 /\ Goto("open")
     \/ argc # 2 /\ Goto("failed")

\* pcap_open_live, pcap_datalink, pcap_compile and pcap_setfilter; any that
\* fails ends the program.
OpenDevice ==
  /\ pc = "open"
  /\ Goto("loop") \/ Goto("failed")

\* Up to the for loop of print_payload, if it gets there.
got_packet(pkt) ==
  /\ pc = "loop" /\ captured < num_packets
  /\ dump' = Dissect(pkt)
  /\ count' = count + 1 /\ captured' = captured + 1
  /\ pc' = IF dump'.size > line_width THEN "print" ELSE "loop"
  /\ ch' = 0 /\ len_rem' = dump'.size /\ offset' = 0
  /\ UNCHANGED argc

\* One round of that loop; the last one prints two rows.
print_payload ==
  LET line_len == LineLen(len_rem)
      rem == len_rem - line_len
      row == print_hex_ascii_line(ch, line_len, offset)
      last == print_hex_ascii_line(ch + line_len, rem, offset + line_width)
  IN /\ pc = "print"
     /\ pc' = IF rem <= line_width THEN "loop" ELSE "print"
     /\ dump' = [dump EXCEPT !.rows =
                   IF rem <= line_width THEN Append(Append(@, row), last)
                                        ELSE Append(@, row)]
     /\ ch' = ch + line_len /\ len_rem' = rem /\ offset' = offset + line_width
     /\ UNCHANGED <<argc, count, captured>>

\* pcap_loop returns, also on an error, which main does not look at.
CaptureComplete == pc = "loop" /\ Goto("done")

SnifferNext ==
  \/ ChooseDevice \/ OpenDevice \/ CaptureComplete \/ print_payload
  \/ \E pkt \in Packet : got_packet(pkt)

SnifferSpec == SnifferInit /\ [][SnifferNext]_snVars
-----------------------------------------------------------------------------
RowEnd(row) == row.offset + Len(row.bytes)

(***************************************************************************)
(* The rows that print_payload prints for a TCP packet are its payload:    *)
(* every byte once and in order, each row under the offset of its first    *)
(* byte, at most 16 to a row and the ASCII column always in one place.     *)
(* Packets are numbered from 1, and no other packet prints rows.           *)
(***************************************************************************)
DumpComplete ==
  LET rows == dump.rows IN
  /\ dump.number = captured
  /\ dump.verdict # "tcp" => rows = <<>>
  /\ \A i \in DOMAIN rows :
       /\ Len(rows[i].bytes) \in 1 .. 16
       /\ \A j \in DOMAIN rows[i].bytes : rows[i].bytes[j] = rows[i].offset + j - 1
       /\ rows[i].offset = IF i = 1 THEN 0 ELSE RowEnd(rows[i - 1])
       /\ rows[i].ascii = rows[1].ascii
  /\ pc # "print" =>
       IF dump.size <= 0 THEN rows = <<>>
       ELSE rows # <<>> /\ RowEnd(rows[Len(rows)]) = dump.size
=============================================================================
