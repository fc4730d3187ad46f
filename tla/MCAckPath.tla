----------------------------- MODULE MCAckPath -----------------------------
(***************************************************************************)
(* The damage that the path does for TLC: any one or two bits of the 128,  *)
(* and any burst that is at most 8 bits long.                              *)
(***************************************************************************)
EXTENDS AckPath

Places == 0 .. ACK_BITS - 1

\* The bit at a place of the datagram: htons puts the high byte first.
BitAt(w) == IF w < CHECK_BITS THEN (w + 8) % CHECK_BITS ELSE w

TwoBits == {{i, j} : i, j \in Places}
Bursts == UNION {{{BitAt(w) : w \in {i} \cup rest} : rest \in SUBSET ((i + 1 .. i + 7) \cap Places)} : i \in Places}

SomeDamage == TwoBits \cup Bursts
=============================================================================
