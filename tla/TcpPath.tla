------------------------------ MODULE TcpPath ------------------------------
(***************************************************************************)
(* The TCP connections between the ping-pong clients and the server of     *)
(* project1, as both programs use them: two byte streams per client,       *)
(* reliable and in order, each of which holds a bounded number of bytes.   *)
(* send takes as many bytes as there is room for, recv returns bytes that  *)
(* have arrived.  The kernel is external to the repository.                *)
(***************************************************************************)
EXTENDS Integers, Sequences, FiniteSets

CONSTANTS
  Clients,    \* the ping-pong clients
  SIZE,       \* bytes of a message (size_msg, the same for every client)
  COUNT,      \* messages each client exchanges
  ROOM,       \* bound: bytes the streams of a narrow client can hold
  Narrow,     \* which sets of clients may be the narrow ones
  SPLIT_HEADER \* may the two bytes of the length come apart from them?

ASSUME PathAssumption ==
  /\ Clients # {}
  /\ SIZE \in Nat /\ SIZE >= 2
  /\ COUNT \in Nat \ {0}
  /\ ROOM \in Nat \ {0}
  /\ Narrow \subseteq SUBSET Clients
  /\ SPLIT_HEADER \in BOOLEAN

VARIABLES
  c2s,   \* c2s[c]: bytes on their way from client c to the server
  s2c,   \* s2c[c]: bytes on their way back
  narrow \* the clients that send and receive in small portions

pathVars == <<c2s, s2c>>

\* A byte is named by its message and its place there.  The first two bytes
\* of a message hold its length.
Byte == (1 .. COUNT) \X (1 .. SIZE)
NoByte == <<0, 0>>               \* memory nobody has written yet

Message(n) == [p \in 1 .. SIZE |-> <<n, p>>]

PathTypeOK ==
  /\ c2s \in [Clients -> Seq(Byte)]
  /\ s2c \in [Clients -> Seq(Byte \cup {NoByte})]

PathInit ==
  /\ c2s = [c \in Clients |-> <<>>]
  /\ s2c = [c \in Clients |-> <<>>]
  /\ narrow \in Narrow

Lesser(a, b) == IF a < b THEN a ELSE b

\* The path of a client that is not narrow has room for a message.
Width(c) == IF c \in narrow THEN ROOM ELSE SIZE
Room(c, stream) == Width(c) - Len(stream)

\* How many of up to want bytes a recv may return: any part of what has been
\* sent, or all of it.
Portions(stream, want) == 1 .. Lesser(want, Len(stream))
Whole(stream, want) == {Lesser(want, Len(stream))} \ {0}

Drop(stream, k) == SubSeq(stream, k + 1, Len(stream))

\* Mistake: every recv writes to the start of the buffer.
WrittenAtStart(buf, pos, bytes) ==
  [p \in DOMAIN buf |-> IF p \in 1 .. Len(bytes) THEN bytes[p] ELSE buf[p]]

\* recv writes bytes into buf behind position pos.
Written(buf, pos, bytes) ==
  [p \in DOMAIN buf |->
     IF p \in pos + 1 .. pos + Len(bytes) THEN bytes[p - pos] ELSE buf[p]]
=============================================================================
