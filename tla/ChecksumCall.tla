---------------------------- MODULE ChecksumCall -----------------------------
(***************************************************************************)
(* The call of csum in checksum/main.c and raw_socket/main.c: a buffer     *)
(* goes in, and the answer is what a receiver will check.                  *)
(***************************************************************************)
EXTENDS Checksum

CONSTANTS Buffers,   \* what csum is called with
          NoAnswer

Byte == 0 .. 255

\* Two folds are enough for the sum of 2^16 words, the checksum among them.
ASSUME BuffersAssumption ==
  /\ \A b \in Buffers : b \in Seq(Byte) /\ Len(b) <= 131070
  /\ NoAnswer \notin Nat

VARIABLES buf, answer

csVars == <<buf, answer>>

ChecksumInit == buf \in Buffers /\ answer = NoAnswer

Csum == answer = NoAnswer /\ answer' = csum(buf) /\ UNCHANGED buf

ChecksumSpec == ChecksumInit /\ [][Csum]_csVars
-----------------------------------------------------------------------------
(***************************************************************************)
(* A receiver accepts what csum computed: over the buffer, filled up to a  *)
(* whole word, and its checksum together, csum gives 0.                    *)
(***************************************************************************)
ChecksumVerifies ==
  answer # NoAnswer =>
    LET whole == IF Len(buf) % 2 = 0 THEN buf ELSE Append(buf, 0)
    IN csum(whole \o <<answer % 256, answer \div 256>>) = 0
=============================================================================
