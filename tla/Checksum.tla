------------------------------ MODULE Checksum -------------------------------
(***************************************************************************)
(* csum of checksum/main.c, which raw_socket/main.c repeats: the Internet  *)
(* checksum of nbytes bytes on a little-endian machine.  `long' is wide    *)
(* enough for the sum; the answer is cut to 16 bits.                       *)
(***************************************************************************)
EXTENDS Integers, Sequences, Functions

\* The 16-bit words of a buffer; an odd last byte gets a zero after it.
Words(b) ==
  [i \in 1 .. (Len(b) + 1) \div 2 |->
     b[2 * i - 1] + 256 * (IF 2 * i <= Len(b) THEN b[2 * i] ELSE 0)]

\* One fold only.
FoldOnce(sum) == (sum \div 65536) + (sum % 65536)

\* sum = (sum>>16)+(sum & 0xffff); sum = sum + (sum>>16)
FoldTwice(sum) ==
  LET once == (sum \div 65536) + (sum % 65536) IN once + once \div 65536

csum(b) == (-1 - FoldTwice(SumFunction(Words(b)))) % 65536
=============================================================================
