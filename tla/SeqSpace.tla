------------------------------ MODULE SeqSpace ------------------------------
(***************************************************************************)
(* The sequence-number space of the file transfer (project2/util.h): the   *)
(* window and sequence lengths, and the three helpers with which sendfile  *)
(* and recvfile compare numbers taken modulo SEQ_LEN.                      *)
(***************************************************************************)
EXTENDS Integers, FiniteSets

CONSTANTS
  WINDOW_LEN,   \* packets that may be outstanding (8 in util.h)
  SEQ_LEN       \* number of sequence numbers (16 in util.h)

ASSUME WindowAssumption ==
  /\ WINDOW_LEN \in Nat \ {0}
  /\ SEQ_LEN \in Nat
  /\ WINDOW_LEN < SEQ_LEN

SeqNum == 0 .. SEQ_LEN - 1

\* util.h between(): is ack_num in the circular interval low..high?
Between(low, high, ack_num) ==
  IF low <= high
    THEN low <= ack_num /\ ack_num <= high
    ELSE low <= ack_num \/ ack_num <= high

\* Mistake: the reassembly queue indexed as a ring.
RingIndex(low, ind) == ind % WINDOW_LEN

\* util.h map_to_window(): how far ind lies after low, modulo SEQ_LEN.
MapToWindow(low, ind) ==
  IF ind < low THEN ind + (SEQ_LEN - low) ELSE ind - low

\* The remainder of C, which has the sign of the dividend.
CRem(a, b) == IF a >= 0 THEN a % b ELSE -((-a) % b)

\* util.h mod(): the remainder brought back into 0..b-1.
Mod(a, b) == LET r == CRem(a, b) IN IF r < 0 THEN r + b ELSE r

\* The sequence number of the last slot of the window that starts at low.
WindowHigh(low) == (low + WINDOW_LEN - 1) % SEQ_LEN

\* The sequence numbers of that window.
WindowSeqs(low) == {(low + j) % SEQ_LEN : j \in 0 .. WINDOW_LEN - 1}
=============================================================================
