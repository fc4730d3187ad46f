------------------------------- MODULE Crc16 -------------------------------
(***************************************************************************)
(* project2/crc16.h: the checksum of a datagram, bit by bit.  A 16-bit     *)
(* register is the set of the numbers of the bits that are 1 in it; data   *)
(* is a sequence of bits, each byte from its least significant bit on.     *)
(***************************************************************************)
EXTENDS Integers, Sequences, FiniteSets

\* CRC16: 0x8005
Polynomial == {0, 2, 15}

Xor(A, B) == (A \ B) \cup (B \ A)

\* A slip: the polynomial has lost its middle.
NextCyclic(out, bit) ==
  LET moved == {b + 1 : b \in out \ {15}} \cup (IF bit THEN {0} ELSE {})
  IN IF 15 \in out THEN Xor(moved, {0}) ELSE moved

\* One turn of the loop: out <<= 1, the next bit, and the polynomial if the
\* bit that went out was set.
NextOut(out, bit) ==
  LET moved == {b + 1 : b \in out \ {15}} \cup (IF bit THEN {0} ELSE {})
  IN IF 15 \in out THEN Xor(moved, Polynomial) ELSE moved

\* calc_crc16 of size bytes that have ones at the places of a set: after them
\* 16 more turns, as with two bytes of zeros, and the register reversed.
calc_crc16(ones, size) ==
  LET AfterByte(out, j) ==
        LET turn[b \in 0 .. 8] ==
              IF b = 0 THEN out ELSE NextOut(turn[b - 1], 8 * j + b - 1 \in ones)
        IN turn[8]
      register[j \in 0 .. size + 2] ==
        IF j = 0 THEN {} ELSE UNION {AfterByte(out, j - 1) : out \in {register[j - 1]}}
  IN {15 - b : b \in register[size + 2]}

-----------------------------------------------------------------------------
(* An acknowledgement: 16 bits of checksum, 0 .. 15, and 14 bytes of data, *)
(* 16 .. 127.                                                              *)

CHECK_BITS == 16
ACK_BITS == 128

\* What one bit of the data does to the checksum.
Effect == [i \in CHECK_BITS .. ACK_BITS - 1 |->
             calc_crc16({i - CHECK_BITS}, 14)]

\* ntohs(checksum) != check_sum: the bits of a set have flipped on the way.
\* The checksum is linear: what counts is the sum of their effects.
Survives(flips) ==
  \A b \in 0 .. 15 :
    (b \in flips) <=>
      Cardinality({i \in flips \ (0 .. 15) : b \in Effect[i]}) % 2 = 1
=============================================================================
