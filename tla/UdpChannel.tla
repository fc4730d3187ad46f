----------------------------- MODULE UdpChannel -----------------------------
(***************************************************************************)
(* The two directions of the UDP path between sendfile and recvfile, as    *)
(* both programs use it: datagrams may be lost, duplicated, reordered or   *)
(* corrupted.  The kernel and the network are external to the repository.  *)
(*                                                                         *)
(*  - data_net is the set of data packets in flight.  Any of them may be   *)
(*    received next, and again later (a duplicate).  A loss is decided     *)
(*    when the packet is sent: nobody can tell it from a later one.  A     *)
(*    corrupt datagram fails calc_crc16 and both programs treat it as if   *)
(*    nothing had arrived, so corruption is a loss.                        *)
(*  - ack_net holds the acknowledgement numbers in flight that the sender  *)
(*    can still use, ordered by the timestamp that recvfile puts in them.  *)
(*    sendfile takes an ack only if its timestamp is newer than            *)
(*    last_ack_time, so taking one makes every older or equal one          *)
(*    worthless: it leaves the sequence together with the ack taken.       *)
(*    Reordered, duplicated or delayed acks are the same as lost ones.     *)
(*    The timestamp is read as one that never wraps.                       *)
(***************************************************************************)
EXTENDS SeqSpace, Sequences

CONSTANTS
  NCHUNKS,    \* chunks of BUFLEN bytes fread takes from the file; the last
              \* one is shorter than BUFLEN, possibly empty
  DATA_CAP,   \* bound: data packets in flight
  ACK_CAP     \* bound: usable acknowledgements in flight

ASSUME ChannelAssumption ==
  /\ NCHUNKS \in Nat \ {0}
  /\ DATA_CAP \in Nat
  /\ ACK_CAP \in Nat

VARIABLES data_net, ack_net

chanVars == <<data_net, ack_net>>

NoData == 0                      \* a payload that is no chunk of the file
Chunk  == 1 .. NCHUNKS           \* a chunk is named by its place in the file

\* A packet of sendfile: sequence number, type (2 regular, 4 last packet),
\* 32-bit packet id and payload.
DataPacket == [seq : SeqNum, type : {2, 4}, id : Nat, data : Chunk \cup {NoData}]

\* The first packet: the file name, under id 0.
Hello == [seq |-> SEQ_LEN - 1, type |-> 2, id |-> 0, data |-> NoData]

ChanTypeOK ==
  /\ data_net \subseteq DataPacket
  /\ ack_net \in Seq(SeqNum)

ChanInit ==
  /\ data_net = {}
  /\ ack_net = <<>>

\* sendto of a data packet: the path may lose it, and does when it is full.
SendData(m) ==
  \/ UNCHANGED data_net
  \/ /\ Cardinality(data_net \cup {m}) <= DATA_CAP
     /\ data_net' = data_net \cup {m}

\* recvfrom of data packet m, whose copy may stay in flight.
TakeData(m) ==
  /\ m \in data_net
  /\ data_net' \in {data_net, data_net \ {m}}

\* sendto of an acknowledgement: likewise.
SendAck(n) ==
  \/ UNCHANGED ack_net
  \/ /\ Len(ack_net) < ACK_CAP
     /\ ack_net' = Append(ack_net, n)

\* recvfrom of the j-th usable ack: older ones are stale from now on.
TakeAck(j) ==
  /\ j \in 1 .. Len(ack_net)
  /\ ack_net' = SubSeq(ack_net, j + 1, Len(ack_net))
=============================================================================
