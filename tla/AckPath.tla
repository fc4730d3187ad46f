------------------------------ MODULE AckPath ------------------------------
(***************************************************************************)
(* project2: acknowledgements on their way from recvfile to sendfile, with *)
(* the timestamps, the checksum and the linked list of which FileTransfer  *)
(* keeps the effect only.  recvfile stamps an acknowledgement with the     *)
(* time of day; sendfile makes 32 bits of it and takes the acknowledgement *)
(* only if it is newer than the last one.  The path reorders, doubles,     *)
(* loses and damages them.                                                 *)
(*                                                                         *)
(* The transfer is one that begins and ends in the same cycle of the       *)
(* 32-bit clock of microseconds; packets are in time, so that an           *)
(* acknowledgement may come of anything that was sent.                     *)
(***************************************************************************)
EXTENDS FixQueue, SeqSpace, Crc16, SequencesExt

CONSTANTS
  WORD,      \* timestamps are 32-bit: taken modulo 2^32
  MILLION,   \* microseconds in a second
  START,     \* the time of day at which the transfer begins
  END,       \* bound: when it ends
  PACKETS,   \* bound: packets of the file
  NET_CAP,   \* bound: acknowledgements in flight
  Damage     \* the sets of bits that may flip in one of them

ASSUME ClockAssumption ==
  /\ WORD \in Nat \ {0}
  /\ MILLION \in Nat \ {0}
  /\ START \in Nat /\ END \in Nat /\ START <= END
  /\ START \div WORD = END \div WORD

VARIABLES
  now,            \* the time of day
  s_pc,           \* "hello", "data" or "misled"
  last_ack_time,  \* last_ack_time
  acked,          \* packets acknowledged; la_seq is that modulo SEQ_LEN
  sent,           \* packets read and sent
  arrived,        \* packets that recvfile has, without a gap
  net,            \* the acknowledgements in flight, in the order of sending
  heard           \* history: the last one that was taken, and how many were

vars == <<now, s_pc, last_ack_time, acked, sent, arrived, net, heard, queueVars>>

\* An acknowledgement carries its number and the time of day in two words.
Ack == [ack : SeqNum, sec : Nat, usec : Nat]
AckOf(n, t) == [ack |-> Mod((n % SEQ_LEN) - 1, SEQ_LEN), sec |-> t \div MILLION, usec |-> t % MILLION]
NoAck == [ack |-> 0, sec |-> 0, usec |-> 0]

\* The time when it was sent; what sendfile makes of it; a slip: of the
\* microseconds only.
SentAt(a) == MILLION * a.sec + a.usec
StampUsec(a) == a.usec
Stamp(a) == SentAt(a) % WORD

Init ==
  /\ now = START
  /\ s_pc = "hello"
  /\ last_ack_time = 0
  /\ acked = 0
  /\ sent = 0
  /\ arrived = 0
  /\ net = <<>>
  /\ heard = [count |-> 0, last |-> NoAck]
  /\ QueueInit

-----------------------------------------------------------------------------

Tick ==
  /\ now < END
  /\ now' = now + 1
  /\ UNCHANGED <<s_pc, last_ack_time, acked, sent, arrived, net, heard, queueVars>>

\* A turn of recvfile's loop: a packet may have come, and an acknowledgement
\* goes out, or is lost.
Acknowledge ==
  /\ \E n \in arrived .. sent :
       /\ arrived' = n
       /\ \/ Len(net) < NET_CAP /\ net' = Append(net, AckOf(n, now))
          \/ n > arrived /\ UNCHANGED net
  /\ UNCHANGED <<now, s_pc, last_ack_time, acked, sent, heard, queueVars>>

\* The path loses the j-th acknowledgement.
Lost(j) ==
  /\ net' = RemoveAt(net, j)
  /\ UNCHANGED <<now, s_pc, last_ack_time, acked, sent, arrived, heard, queueVars>>

\* A turn of the pass over the window: the node for the next packet, by its
\* place in the list, or a new one.
SendPacket ==
  LET node == GetK(sent - acked)
  IN /\ s_pc = "data"
     /\ sent < PACKETS
     /\ sent < acked + WINDOW_LEN
     /\ sent' = sent + 1
     /\ IF node = NULL
          THEN \E x \in Nodes \ live : Enqueue(x, sent')
          ELSE data' = [data EXCEPT ![node] = sent'] /\ UNCHANGED <<root, next, live>>
     /\ UNCHANGED <<now, s_pc, last_ack_time, acked, arrived, net, heard>>

\* A slip: an acknowledgement of the same microsecond is newer.
NotOlder(a) == Stamp(a) >= last_ack_time

\* tmp_time > last_ack_time
Newer(a) == Stamp(a) > last_ack_time

\* A slip: any number is taken for one of the window.
AckedByAny(a) ==
  LET la == acked % SEQ_LEN
  IN Cardinality({i \in la .. la + WINDOW_LEN - 1 : Between(la, a.ack, i % SEQ_LEN)})

\* The packets that an acknowledgement of the window acknowledges.
AckedBy(a) ==
  LET la == acked % SEQ_LEN
  IN IF Between(la, WindowHigh(la), a.ack)
       THEN Cardinality({i \in la .. la + WINDOW_LEN - 1 : Between(la, a.ack, i % SEQ_LEN)})
       ELSE 0

\* Recorded for the properties: a was taken.  It may come a second time.
Taken(j) ==
  /\ last_ack_time' = Stamp(net[j])
  /\ heard' = [count |-> heard.count + 1, last |-> net[j]]
  /\ net' \in {net, RemoveAt(net, j)}

\* While it waits for the answer to the file name, sendfile takes the one
\* that says so, and forgets others.
HearHello(j) ==
  /\ s_pc = "hello"
  /\ Newer(net[j])
  /\ net[j].ack = SEQ_LEN - 1
  /\ Taken(j)
  /\ s_pc' = "data"
  /\ UNCHANGED <<now, acked, sent, arrived, queueVars>>

\* The packets that are acknowledged leave the list.
HearAck(j) ==
  /\ s_pc = "data"
  /\ Newer(net[j])
  /\ Taken(j)
  /\ acked' = acked + AckedBy(net[j])
  /\ Dequeue(AckedBy(net[j]))
  /\ UNCHANGED <<now, s_pc, sent, arrived>>

\* Whether damage is noticed.
Noticed == {~ Survives(flips) : flips \in Damage}

\* A damaged acknowledgement is not taken.  If its checksum fitted it would
\* mislead the sender; what it does then is not followed.
HearDamaged(j) ==
  /\ s_pc # "misled"
  /\ \E noticed \in Noticed : s_pc' = IF noticed THEN s_pc ELSE "misled"
  /\ net' = RemoveAt(net, j)
  /\ UNCHANGED <<now, last_ack_time, acked, sent, arrived, heard, queueVars>>

Next ==
  \/ Tick
  \/ Acknowledge
  \/ SendPacket
  \/ \E j \in 1 .. Len(net) : Lost(j) \/ HearHello(j) \/ HearAck(j) \/ HearDamaged(j)

Spec == Init /\ [][Next]_vars

-----------------------------------------------------------------------------
(* Properties. *)

\* What is sent has arrived before it is acknowledged, and the window holds.
TypeOK ==
  /\ now \in START .. END
  /\ s_pc \in {"hello", "data", "misled"}
  /\ last_ack_time \in 0 .. WORD - 1
  /\ net \in Seq(Ack)
  /\ heard.count \in Nat
  /\ acked \in 0 .. arrived /\ arrived \in 0 .. sent
  /\ sent \in acked .. acked + WINDOW_LEN

\* sendfile never acts upon an acknowledgement that was damaged on the way.
AckIntact == s_pc # "misled"

\* The list, node by node, is the packets that are not acknowledged, in their
\* order; it ends, no node of it is freed, and none that is not freed is lost.
QueueKept ==
  /\ \A k \in 0 .. sent - acked - 1 :
       Steps(root, k) \in live /\ data[Steps(root, k)] = acked + k + 1
  /\ Steps(root, sent - acked) = NULL
  /\ live = {Steps(root, k) : k \in 0 .. sent - acked - 1}

\* An acknowledgement is taken only if it was sent later than the one that
\* was taken before, whatever the path does to their order.
InOrder ==
  [][heard' # heard /\ heard.count > 0 => SentAt(heard'.last) > SentAt(heard.last)]_vars

\* The path with its clock, and the comparison of timestamps, is the channel
\* that FileTransfer uses: those that are newer were sent last.
Usable ==
  LET fresh == Cardinality({j \in DOMAIN net : Newer(net[j])})
  IN [k \in 1 .. fresh |-> net[Len(net) - fresh + k].ack]

Channel == INSTANCE AckChannel WITH
  AckNum <- SeqNum,
  usable <- Usable,
  got <- [count |-> heard.count, ack |-> heard.last.ack]

Implements == Channel!Spec
=============================================================================
