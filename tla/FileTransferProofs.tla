------------------------- MODULE FileTransferProofs -------------------------
(***************************************************************************)
(* The inductive invariant of the file transfer and what follows from it.  *)
(***************************************************************************)
EXTENDS FileTransfer, SeqSpaceProofs, FiniteSetTheorems, SequenceTheorems

\* The packet that carries chunk p.
Pkt(p) ==
  [seq |-> (p - 1) % SEQ_LEN, type |-> IF p = NCHUNKS THEN 4 ELSE 2,
   id |-> p, data |-> p]

\* The queue holds the packets read and not acknowledged, in order.
QueueInv ==
  /\ packet_id <= NCHUNKS
  /\ Len(s_root) <= packet_id
  /\ Len(s_root) <= WINDOW_LEN
  /\ s_pc = "done" => s_root = <<>> /\ packet_id = NCHUNKS
  /\ s_pc # "done" =>
       /\ Acked < NCHUNKS
       /\ s_la = Acked % SEQ_LEN
       /\ \A j \in 1 .. Len(s_root) : s_root[j] = Pkt(Acked + j)

\* The alarms of exactly their slots are set.
AlarmInv ==
  s_pc # "done" =>
    \A d \in 0 .. SEQ_LEN - 1 :
      is_set[(s_la + d) % SEQ_LEN] # 0 <=> d < Len(s_root)

\* The last packet is noted when it is read, and the pass over the window is
\* never beyond the end of the queue.
PassInv ==
  /\ s_pc # "done" =>
       s_last = IF packet_id = NCHUNKS THEN (NCHUNKS - 1) % SEQ_LEN ELSE -1
  /\ s_pc = "window" => s_i \in s_la .. s_la + Len(s_root)

SendInv == QueueInv /\ AlarmInv /\ PassInv

\* recvfile has written the first last_id chunks.
WrittenInv ==
  /\ Acked <= last_id
  /\ last_id <= packet_id
  /\ file = [p \in 1 .. last_id |-> p]
  /\ r_la = last_id % SEQ_LEN
  /\ r_pc \in {"hello", "open"} => last_id = 0

\* A buffered slot holds its chunk, and the next chunk is never buffered.
BufferInv ==
  \A d \in 0 .. SEQ_LEN - 1 :
    (r_la + d) % SEQ_LEN \in received =>
      /\ d # 0
      /\ last_id + d + 1 <= packet_id
      /\ r_root[d + 1] = last_id + d + 1

\* A last packet that was noted is packet NCHUNKS, and the loop is left when
\* that one is written.
ExitInv ==
  /\ ready_exit # 0 => packet_id = NCHUNKS /\ r_last = (NCHUNKS - 1) % SEQ_LEN
  /\ ready_exit = 2 => last_id = NCHUNKS
  /\ r_pc \in {"final", "done"} <=> ready_exit = 2
  /\ r_pc # "done" => r_count > 0

RecvInv == WrittenInv /\ BufferInv /\ ExitInv

\* In flight are the file name and packets that were read.
DataInv == \A m \in data_net : m = Hello \/ \E p \in 1 .. packet_id : m = Pkt(p)

\* The number in the acknowledgement of the first n chunks.
AckNum(n) == (n + SEQ_LEN - 1) % SEQ_LEN

\* The usable acks carry levels that grow from Acked at least to last_id at
\* most: the ack of level n says that n chunks are written.
AckInv ==
  \E level \in [1 .. Len(ack_net) -> 0 .. NCHUNKS] :
    /\ \A j \in 1 .. Len(ack_net) :
         /\ level[j] \in Acked .. last_id
         /\ ack_net[j] = AckNum(level[j])
    /\ \A j, k \in 1 .. Len(ack_net) : j <= k => level[j] <= level[k]

IInv == TypeOK /\ SendInv /\ RecvInv /\ DataInv /\ AckInv
-----------------------------------------------------------------------------
(* The ranges the invariant gives the variables, and the packets. *)

\* What every step may assume of the counters.
LEMMA Ranges ==
  ASSUME IInv
  PROVE  /\ packet_id \in 0 .. NCHUNKS
         /\ Len(s_root) \in 0 .. WINDOW_LEN
         /\ Acked \in Nat
         /\ Acked + Len(s_root) = packet_id
         /\ last_id \in Acked .. packet_id
         /\ s_la \in SeqNum
         /\ r_la \in SeqNum
         /\ s_root \in Seq(DataPacket)
  BY ChannelAssumption, WindowAssumption
  DEF IInv, TypeOK, SendTypeOK, RecvTypeOK, SendInv, QueueInv, RecvInv, WrittenInv, Acked

\* A packet that was read is a packet.
LEMMA PktType ==
  ASSUME NEW p \in 1 .. NCHUNKS
  PROVE  Pkt(p) \in DataPacket
<1>1. (p - 1) % SEQ_LEN \in SeqNum  BY ModRange, ChannelAssumption
<1> QED BY <1>1, ChannelAssumption DEF Pkt, DataPacket, Chunk

\* So is the file name.
LEMMA HelloType == Hello \in DataPacket
  BY WindowAssumption DEF Hello, DataPacket, SeqNum, NoData

\* Whatever is in flight is a packet.
LEMMA DataInvType ==
  ASSUME DataInv, packet_id \in 0 .. NCHUNKS
  PROVE  data_net \subseteq DataPacket
  BY PktType, HelloType, ChannelAssumption DEF DataInv

-----------------------------------------------------------------------------
(* The channel. *)

\* Sending the file name or a packet that was read.
LEMMA SendDataInv ==
  ASSUME DataInv, packet_id \in 0 .. NCHUNKS, packet_id' \in 0 .. NCHUNKS,
         packet_id <= packet_id', NEW m, SendData(m),
         m = Hello \/ \E p \in 1 .. packet_id' : m = Pkt(p)
  PROVE  DataInv'
<1> SUFFICES ASSUME NEW n \in data_net'
             PROVE  n = Hello \/ \E p \in 1 .. packet_id' : n = Pkt(p)
  BY DEF DataInv, Hello, Pkt
<1>1. n = m \/ n \in data_net  BY DEF SendData
<1>2. CASE n \in data_net
  BY <1>2, ChannelAssumption DEF DataInv
<1> QED BY <1>1, <1>2

\* Receiving one.
LEMMA TakeDataInv ==
  ASSUME DataInv, NEW m, TakeData(m), packet_id' = packet_id
  PROVE  /\ DataInv'
         /\ m = Hello \/ \E p \in 1 .. packet_id : m = Pkt(p)
  BY DEF DataInv, TakeData, Hello, Pkt

\* Sending nothing.
LEMMA DataInvFrame ==
  ASSUME DataInv, packet_id \in 0 .. NCHUNKS, packet_id' \in 0 .. NCHUNKS,
         packet_id <= packet_id', data_net' = data_net
  PROVE  DataInv'
<1> SUFFICES ASSUME NEW n \in data_net
             PROVE  n = Hello \/ \E p \in 1 .. packet_id' : n = Pkt(p)
  BY DEF DataInv, Hello, Pkt
<1> QED BY ChannelAssumption DEF DataInv

\* The acknowledgement recvfile sends is the one of level last_id.
LEMMA AckOfLevel ==
  ASSUME NEW n \in Nat
  PROVE  AckOf(n % SEQ_LEN) = AckNum(n)
<1> DEFINE r == n % SEQ_LEN
           a == r - 1
           e == SEQ_LEN - 1
<1>1. r \in SeqNum  BY ModRange
<1>2. a \in -1 .. 2 * SEQ_LEN - 1 /\ e \in Int
  BY <1>1, WindowAssumption DEF SeqNum
<1>3. a + SEQ_LEN = r + e /\ n + e = n + SEQ_LEN - 1
  BY <1>1, WindowAssumption DEF SeqNum
<1> HIDE DEF a, e
<1>4. Mod(a, SEQ_LEN) = (a + SEQ_LEN) % SEQ_LEN  BY <1>2, ModIsRemainder
<1>5. (r + e) % SEQ_LEN = (n + e) % SEQ_LEN  BY <1>2, ModAdd
<1> QED BY <1>3, <1>4, <1>5 DEF AckOf, AckNum, a

\* Sending that acknowledgement.
LEMMA SendAckInv ==
  ASSUME AckInv, ack_net \in Seq(SeqNum), Acked \in Nat, Acked' = Acked,
         last_id \in Acked .. last_id', last_id' \in 0 .. NCHUNKS,
         SendAck(AckNum(last_id'))
  PROVE  AckInv' /\ ack_net' \in Seq(SeqNum)
<1> DEFINE a == AckNum(last_id')
           n == Len(ack_net)
<1>1. a \in SeqNum  BY ModRange, WindowAssumption DEF AckNum
<1>2. PICK level \in [1 .. n -> 0 .. NCHUNKS] :
        /\ \A j \in 1 .. n : /\ level[j] \in Acked .. last_id
                             /\ ack_net[j] = AckNum(level[j])
        /\ \A j, k \in 1 .. n : j <= k => level[j] <= level[k]
  BY DEF AckInv
<1>3. CASE UNCHANGED ack_net
  <2>1. \A j \in 1 .. n : level[j] \in Acked' .. last_id'
    BY <1>2, ChannelAssumption
  <2> QED BY <1>2, <1>3, <2>1 DEF AckInv
<1>4. CASE ack_net' = Append(ack_net, a)
  <2> DEFINE up == [j \in 1 .. n + 1 |-> IF j <= n THEN level[j] ELSE last_id']
  <2>1. n \in Nat /\ Len(ack_net') = n + 1 /\ ack_net' \in Seq(SeqNum)
    BY <1>1, <1>4
  <2>2. \A j \in 1 .. n + 1 : ack_net'[j] = IF j <= n THEN ack_net[j] ELSE a
    BY <1>4, <2>1
  <2>3. up \in [1 .. n + 1 -> 0 .. NCHUNKS]
    BY <1>2, <2>1
  <2>4. \A j \in 1 .. n + 1 :
          /\ up[j] \in Acked' .. last_id'
          /\ ack_net'[j] = AckNum(up[j])
    BY <1>2, <2>1, <2>2, ChannelAssumption
  <2>5. \A j, k \in 1 .. n + 1 : j <= k => up[j] <= up[k]
    BY <1>2, <2>1, ChannelAssumption
  <2> HIDE DEF up
  <2> QED BY <2>1, <2>3, <2>4, <2>5 DEF AckInv
<1> QED BY <1>3, <1>4 DEF SendAck

\* Receiving an acknowledgement of some level n; the ones that remain usable
\* have that level at least.
LEMMA TakeAckInv ==
  ASSUME AckInv, ack_net \in Seq(SeqNum), NEW j, TakeAck(j), Acked \in Nat,
         last_id \in Nat, last_id' = last_id
  PROVE  /\ ack_net' \in Seq(SeqNum)
         /\ \E n \in Acked .. last_id :
              /\ ack_net[j] = AckNum(n)
              /\ Acked' \in 0 .. n => AckInv'
<1> DEFINE len == Len(ack_net)
<1>1. PICK level \in [1 .. len -> 0 .. NCHUNKS] :
        /\ \A i \in 1 .. len : /\ level[i] \in Acked .. last_id
                               /\ ack_net[i] = AckNum(level[i])
        /\ \A i, k \in 1 .. len : i <= k => level[i] <= level[k]
  BY DEF AckInv
<1>2. len \in Nat /\ j \in 1 .. len /\ ack_net' = SubSeq(ack_net, j + 1, len)
  BY DEF TakeAck
<1>3. /\ ack_net' \in Seq(SeqNum)
      /\ Len(ack_net') = len - j
      /\ \A i \in 1 .. len - j : ack_net'[i] = ack_net[i + j]
  BY <1>2
<1>4. ASSUME Acked' \in 0 .. level[j]
      PROVE  AckInv'
  <2> DEFINE rest == [i \in 1 .. len - j |-> level[i + j]]
  <2>1. \A i \in 1 .. len - j : i + j \in 1 .. len /\ j <= i + j
    BY <1>2
  <2>2. rest \in [1 .. len - j -> 0 .. NCHUNKS]
    BY <1>1, <2>1
  <2>3. \A i \in 1 .. len - j :
          /\ rest[i] \in Acked' .. last_id'
          /\ ack_net'[i] = AckNum(rest[i])
    BY SMTT(40), <1>1, <1>2, <1>3, <1>4, <2>1, ChannelAssumption
  <2>4. \A i, k \in 1 .. len - j : i <= k => rest[i] <= rest[k]
    BY <1>1, <1>2, <2>1
  <2> HIDE DEF rest
  <2> QED BY <1>3, <2>2, <2>3, <2>4 DEF AckInv
<1> QED BY <1>1, <1>2, <1>3, <1>4

-----------------------------------------------------------------------------
(* What a step leaves alone. *)

\* A step of the sender, seen from the receiver.
LEMMA RecvFrame ==
  ASSUME IInv, UNCHANGED recvVars, packet_id' \in packet_id .. NCHUNKS,
         Acked' \in 0 .. last_id
  PROVE  RecvTypeOK' /\ RecvInv'
<1>1. RecvTypeOK'  BY DEF IInv, TypeOK, RecvTypeOK, recvVars
<1>2. /\ Acked' <= last_id /\ last_id <= packet_id'
      /\ \A n \in Nat : n <= packet_id => n <= packet_id'
      /\ packet_id = NCHUNKS => packet_id' = NCHUNKS
  BY Ranges, ChannelAssumption
<1>3. WrittenInv'
  BY <1>2 DEF IInv, RecvInv, WrittenInv, recvVars
<1>4. BufferInv'
  <2> SUFFICES ASSUME NEW d \in 0 .. SEQ_LEN - 1,
                      (r_la + d) % SEQ_LEN \in received
               PROVE  d # 0 /\ last_id + d + 1 <= packet_id'
                        /\ r_root[d + 1] = last_id + d + 1
    BY DEF BufferInv, recvVars
  <2>1. d # 0 /\ last_id + d + 1 <= packet_id /\ r_root[d + 1] = last_id + d + 1
    BY DEF IInv, RecvInv, BufferInv
  <2> QED BY <2>1, Ranges, WindowAssumption, ChannelAssumption
<1>5. ExitInv'
  BY <1>2 DEF IInv, RecvInv, ExitInv, recvVars
<1> QED BY <1>1, <1>3, <1>4, <1>5 DEF RecvInv

\* A step of the receiver, seen from the sender.
LEMMA SendFrame ==
  ASSUME IInv, UNCHANGED sendVars
  PROVE  SendTypeOK' /\ SendInv' /\ Acked' = Acked
  BY DEF IInv, TypeOK, SendTypeOK, SendInv, QueueInv, AlarmInv, PassInv, sendVars, Acked

\* A step that touches no acknowledgement.
LEMMA AckFrame ==
  ASSUME AckInv, UNCHANGED ack_net, last_id' = last_id, Acked' = Acked
  PROVE  AckInv'
  BY DEF AckInv

\* A step of the sender that leaves the queue, and which alarms are set.
LEMMA SendLocal ==
  ASSUME IInv, s_pc # "done", UNCHANGED <<s_la, s_root, packet_id, s_last>>,
         s_pc' \in {"hello", "poll", "window", "failed"},
         is_set' \in [SeqNum -> 0 .. 2],
         \A k \in SeqNum : is_set'[k] # 0 <=> is_set[k] # 0,
         s_i' \in 0 .. 2 * SEQ_LEN,
         s_pc' = "window" => s_i' \in s_la .. s_la + Len(s_root)
  PROVE  SendTypeOK' /\ SendInv' /\ Acked' = Acked
<1>1. Acked' = Acked  BY DEF Acked
<1>2. SendTypeOK'  BY DEF IInv, TypeOK, SendTypeOK
<1>3. \A d \in 0 .. SEQ_LEN - 1 : (s_la + d) % SEQ_LEN \in SeqNum
  BY OffsetRange, Ranges
<1>4. SendInv'
  BY <1>1, <1>3 DEF IInv, SendInv, QueueInv, AlarmInv, PassInv
<1> QED BY <1>1, <1>2, <1>4

\* check_timeout turns alarms that are set into expired ones.
LEMMA ExpireSet ==
  ASSUME IInv, NEW T \in SUBSET Armed
  PROVE  /\ Expire(T) \in [SeqNum -> 0 .. 2]
         /\ \A k \in SeqNum : Expire(T)[k] # 0 <=> is_set[k] # 0
  BY DEF IInv, TypeOK, SendTypeOK, Expire, Armed

-----------------------------------------------------------------------------
(* The initial states. *)

\* Both programs start in the invariant.
LEMMA InitInv == Init => IInv
<1> SUFFICES ASSUME Init PROVE IInv  OBVIOUS
<1> USE DEF Init, ChanInit, SendInit, RecvInit
<1>1. 0 \in SeqNum /\ 0 % SEQ_LEN = 0 /\ Acked = 0
  <2>1. 0 \in 0 .. 2 * SEQ_LEN - 1 /\ 0 < SEQ_LEN  BY WindowAssumption
  <2> QED BY <2>1, ModSmall, WindowAssumption DEF SeqNum, Acked
<1>2. TypeOK
  BY <1>1, WindowAssumption, FinalAcksAssumption
  DEF TypeOK, ChanTypeOK, SendTypeOK, RecvTypeOK, NoData
<1>3. SendInv
  <2>1. QueueInv  BY <1>1, ChannelAssumption, WindowAssumption DEF QueueInv
  <2>2. AlarmInv
    <3> SUFFICES ASSUME NEW d \in 0 .. SEQ_LEN - 1
                 PROVE  is_set[(s_la + d) % SEQ_LEN] # 0 <=> d < Len(s_root)
      BY DEF AlarmInv
    <3>1. \A x \in SeqNum : (x + d) % SEQ_LEN \in SeqNum  BY OffsetRange
    <3>2. (s_la + d) % SEQ_LEN \in SeqNum  BY <1>1, <3>1
    <3>3. ~ (d < Len(s_root))  BY WindowAssumption
    <3> QED BY <3>2, <3>3
  <2>3. PassInv  BY ChannelAssumption DEF PassInv
  <2> QED BY <2>1, <2>2, <2>3 DEF SendInv
<1>4. RecvInv
  BY <1>1, ChannelAssumption, WindowAssumption, FinalAcksAssumption
  DEF RecvInv, WrittenInv, BufferInv, ExitInv
<1>5. DataInv  BY DEF DataInv
<1>6. AckInv
  <2>1. Len(ack_net) = 0 /\ <<>> \in [1 .. 0 -> 0 .. NCHUNKS]
    OBVIOUS
  <2>2. \A j \in 1 .. 0 : FALSE  OBVIOUS
  <2> QED BY <2>1, <2>2 DEF AckInv
<1> QED BY <1>2, <1>3, <1>4, <1>5, <1>6 DEF IInv

-----------------------------------------------------------------------------
(* The steps of sendfile. *)

\* What a step of the sender has to show.
LEMMA SenderStepInv ==
  ASSUME IInv, UNCHANGED recvVars, SendTypeOK', SendInv', DataInv', AckInv',
         ack_net' \in Seq(SeqNum), packet_id' \in packet_id .. NCHUNKS,
         Acked' \in 0 .. last_id
  PROVE  IInv'
<1>1. RecvTypeOK' /\ RecvInv'  BY RecvFrame
<1>2. data_net' \subseteq DataPacket
  <2>1. packet_id' \in 0 .. NCHUNKS  BY Ranges, ChannelAssumption
  <2>2. \A p \in 1 .. packet_id' : p \in 1 .. NCHUNKS
    BY <2>1, ChannelAssumption
  <2> QED BY <2>2, PktType, HelloType DEF DataInv
<1> QED BY <1>1, <1>2 DEF IInv, TypeOK, ChanTypeOK

\* A step that changes neither the queue nor which alarms are set.
LEMMA QuietStepInv ==
  ASSUME IInv, UNCHANGED recvVars, s_pc # "done",
         UNCHANGED <<s_la, s_root, packet_id, s_last>>,
         s_pc' \in {"hello", "poll", "window", "failed"},
         is_set' \in [SeqNum -> 0 .. 2],
         \A k \in SeqNum : is_set'[k] # 0 <=> is_set[k] # 0,
         s_i' \in 0 .. 2 * SEQ_LEN,
         s_pc' = "window" => s_i' \in s_la .. s_la + Len(s_root),
         DataInv', AckInv', ack_net' \in Seq(SeqNum)
  PROVE  IInv'
<1>1. SendTypeOK' /\ SendInv' /\ Acked' = Acked  BY SendLocal
<1>2. packet_id' \in packet_id .. NCHUNKS /\ Acked' \in 0 .. last_id
  BY <1>1, Ranges, ChannelAssumption
<1> QED BY <1>1, <1>2, SenderStepInv

\* A step that receives and sends nothing.
LEMMA NetFrame ==
  ASSUME IInv, UNCHANGED chanVars, packet_id' = packet_id, Acked' = Acked,
         last_id' = last_id
  PROVE  DataInv' /\ AckInv' /\ ack_net' \in Seq(SeqNum)
<1>1. DataInv'
  BY Ranges, DataInvFrame, ChannelAssumption DEF chanVars, IInv
<1>2. AckInv' /\ ack_net' \in Seq(SeqNum)
  BY AckFrame DEF chanVars, IInv, TypeOK, ChanTypeOK
<1> QED BY <1>1, <1>2

\* sendto of the file name: only the path changes, and it may carry Hello.
LEMMA SendHelloInv ==
  ASSUME IInv, SendHello, UNCHANGED recvVars
  PROVE  IInv'
<1> USE DEF SendHello, sendVars, recvVars
<1>1. Acked' = Acked  BY DEF Acked
<1>2. DataInv'
  <2>1. packet_id' = packet_id /\ packet_id \in 0 .. NCHUNKS  BY Ranges
  <2> QED BY <2>1, SendDataInv DEF IInv
<1>3. AckInv' /\ ack_net' \in Seq(SeqNum)
  BY <1>1, AckFrame DEF IInv, TypeOK, ChanTypeOK
<1>4. SendTypeOK' /\ SendInv'  BY SendFrame
<1>5. packet_id' \in packet_id .. NCHUNKS /\ Acked' \in 0 .. last_id
  BY <1>1, Ranges, ChannelAssumption
<1> QED BY <1>2, <1>3, <1>4, <1>5, SenderStepInv

\* Receiving an ack that moves nothing.
LEMMA IdleAckInv ==
  ASSUME IInv, NEW j, TakeAck(j), UNCHANGED recvVars, UNCHANGED data_net,
         UNCHANGED <<s_root, packet_id>>
  PROVE  DataInv' /\ AckInv' /\ ack_net' \in Seq(SeqNum)
<1>1. Acked' = Acked  BY DEF Acked
<1>2. DataInv'  BY Ranges, DataInvFrame, ChannelAssumption DEF IInv
<1>3. last_id' = last_id /\ last_id \in Nat /\ ack_net \in Seq(SeqNum)
  BY DEF recvVars, IInv, TypeOK, ChanTypeOK, RecvTypeOK
<1>4. PICK n \in Acked .. last_id : Acked' \in 0 .. n => AckInv'
  BY <1>3, Ranges, TakeAckInv DEF IInv
<1>5. AckInv'  BY <1>1, <1>4, Ranges
<1>6. ack_net' \in Seq(SeqNum)  BY <1>3, Ranges, TakeAckInv DEF IInv
<1> QED BY <1>2, <1>5, <1>6

\* The answer to the file name starts the transfer with an empty window.
LEMMA RecvHelloAckInv ==
  ASSUME IInv, NEW j, RecvHelloAck(j), UNCHANGED recvVars
  PROVE  IInv'
<1>1. DataInv' /\ AckInv' /\ ack_net' \in Seq(SeqNum)
  BY IdleAckInv DEF RecvHelloAck
<1>2. /\ is_set' \in [SeqNum -> 0 .. 2] /\ is_set' = is_set
      /\ s_i' \in 0 .. 2 * SEQ_LEN
  BY DEF RecvHelloAck, IInv, TypeOK, SendTypeOK
<1> QED BY <1>1, <1>2, QuietStepInv DEF RecvHelloAck

\* check_timeout turns set alarms into expired ones and nothing else.
LEMMA PollNothingInv ==
  ASSUME IInv, NEW T \in SUBSET Armed, PollNothing(T), UNCHANGED recvVars
  PROVE  IInv'
<1> USE DEF PollNothing, EnterWindow
<1>1. Acked' = Acked /\ last_id' = last_id /\ packet_id' = packet_id
  BY DEF Acked, recvVars
<1>2. DataInv' /\ AckInv' /\ ack_net' \in Seq(SeqNum)  BY <1>1, NetFrame
<1>3. s_i' \in 0 .. 2 * SEQ_LEN /\ s_i' \in s_la .. s_la + Len(s_root)
  BY Ranges, WindowAssumption DEF SeqNum
<1> QED BY <1>2, <1>3, ExpireSet, QuietStepInv

\* An ack outside the window changes nothing but what is in flight.
LEMMA PollOldAckInv ==
  ASSUME IInv, NEW T \in SUBSET Armed, NEW j, PollOldAck(T, j),
         UNCHANGED recvVars
  PROVE  IInv'
<1> USE DEF PollOldAck, EnterWindow
<1>1. DataInv' /\ AckInv' /\ ack_net' \in Seq(SeqNum)  BY IdleAckInv
<1>2. s_i' \in 0 .. 2 * SEQ_LEN /\ s_i' \in s_la .. s_la + Len(s_root)
  BY Ranges, WindowAssumption DEF SeqNum
<1> QED BY <1>1, <1>2, ExpireSet, QuietStepInv

\* Where the pass over the window stands: at a slot of the queue, or just
\* behind it at an unused one.
LEMMA SlotPosition ==
  ASSUME IInv, s_pc = "window", ~ LoopOver
  PROVE  /\ WinId \in 0 .. WINDOW_LEN - 1
         /\ WinId <= Len(s_root)
         /\ Slot \in SeqNum
         /\ Slot = (s_la + WinId) % SEQ_LEN
         /\ is_set[Slot] # 0 <=> WinId < Len(s_root)
         /\ s_i + 1 \in 0 .. 2 * SEQ_LEN
         /\ s_i = s_la + WinId
<1>1. s_i \in s_la .. s_la + Len(s_root)  BY DEF IInv, SendInv, PassInv
<1>2. s_i < s_la + WINDOW_LEN
  BY <1>1, Ranges, WindowAssumption DEF LoopOver, SeqNum
<1>3. /\ WinId \in 0 .. WINDOW_LEN - 1
      /\ WinId <= Len(s_root)
      /\ s_i = s_la + WinId
      /\ WinId \in 0 .. SEQ_LEN - 1
      /\ s_i + 1 \in 0 .. 2 * SEQ_LEN
  BY <1>1, <1>2, Ranges, WindowAssumption DEF WinId, SeqNum
<1>4. Slot = (s_la + WinId) % SEQ_LEN  BY <1>3 DEF Slot
<1>5. Slot \in SeqNum  BY <1>3, <1>4, Ranges, OffsetRange
<1>6. is_set[Slot] # 0 <=> WinId < Len(s_root)
  BY <1>3, <1>4 DEF IInv, SendInv, AlarmInv
<1> QED BY <1>3, <1>4, <1>5, <1>6

\* The end of the pass over the window goes back to the receipt.
LEMMA WindowEndInv ==
  ASSUME IInv, WindowEnd, UNCHANGED recvVars
  PROVE  IInv'
<1> USE DEF WindowEnd
<1>1. Acked' = Acked /\ last_id' = last_id /\ packet_id' = packet_id
  BY DEF Acked, recvVars
<1>2. DataInv' /\ AckInv' /\ ack_net' \in Seq(SeqNum)  BY <1>1, NetFrame
<1>3. is_set' \in [SeqNum -> 0 .. 2] /\ s_i' \in 0 .. 2 * SEQ_LEN
  BY WindowAssumption DEF IInv, TypeOK, SendTypeOK
<1> QED BY <1>2, <1>3, QuietStepInv

\* A slot that waits for its ack is skipped.
LEMMA SlotWaitingInv ==
  ASSUME IInv, SlotWaiting, UNCHANGED recvVars
  PROVE  IInv'
<1> USE DEF SlotWaiting, AtSlot
<1>1. Acked' = Acked /\ last_id' = last_id /\ packet_id' = packet_id
  BY DEF Acked, recvVars
<1>2. DataInv' /\ AckInv' /\ ack_net' \in Seq(SeqNum)  BY <1>1, NetFrame
<1>3. /\ is_set' \in [SeqNum -> 0 .. 2] /\ is_set' = is_set
      /\ s_pc' = "window"
  BY DEF IInv, TypeOK, SendTypeOK
<1>4. WinId < Len(s_root)  BY SlotPosition
<1>5. s_i' \in 0 .. 2 * SEQ_LEN /\ s_i' \in s_la .. s_la + Len(s_root)
  BY SMTT(40), <1>4, SlotPosition, Ranges, WindowAssumption DEF SeqNum
<1> QED BY <1>2, <1>3, <1>5, QuietStepInv

\* A failed sendto ends sendfile with everything else as it was.
LEMMA SlotSendFailsInv ==
  ASSUME IInv, SlotSendFails, UNCHANGED recvVars
  PROVE  IInv'
<1> USE DEF SlotSendFails, AtSlot
<1>1. Acked' = Acked /\ last_id' = last_id /\ packet_id' = packet_id
  BY DEF Acked, recvVars
<1>2. DataInv' /\ AckInv' /\ ack_net' \in Seq(SeqNum)  BY <1>1, NetFrame
<1>3. /\ is_set' \in [SeqNum -> 0 .. 2] /\ is_set' = is_set
      /\ s_i' \in 0 .. 2 * SEQ_LEN
  BY DEF IInv, TypeOK, SendTypeOK
<1> QED BY <1>2, <1>3, QuietStepInv

\* The node that is sent again holds the packet of the slot.
LEMMA SlotResendInv ==
  ASSUME IInv, SlotResend, UNCHANGED recvVars
  PROVE  IInv'
<1> USE DEF SlotResend, AtSlot, SetAlarm
<1>1. Acked' = Acked /\ last_id' = last_id /\ packet_id' = packet_id
  BY DEF Acked, recvVars
<1>2. is_set \in [SeqNum -> 0 .. 2] /\ s_pc = "window"
  BY DEF IInv, TypeOK, SendTypeOK
<1>3. Slot \in SeqNum /\ WinId \in Nat /\ WinId < Len(s_root)
  BY SlotPosition, WindowAssumption
<1>4. s_root[WinId + 1] = Pkt(Acked + WinId + 1)
  <2>1. WinId + 1 \in 1 .. Len(s_root) /\ Acked + (WinId + 1) = Acked + WinId + 1
    BY <1>3, Ranges
  <2>2. s_root[WinId + 1] = Pkt(Acked + (WinId + 1))
    BY <1>2, <2>1 DEF IInv, SendInv, QueueInv
  <2> QED BY <2>1, <2>2
<1>5. DataInv'
  <2>1. Acked + WinId + 1 \in 1 .. packet_id'
    BY <1>1, <1>3, Ranges
  <2>2. packet_id \in 0 .. NCHUNKS /\ packet_id <= packet_id'
    BY <1>1, Ranges, ChannelAssumption
  <2> QED BY <1>1, <1>4, <2>1, <2>2, SendDataInv DEF IInv
<1>6. AckInv' /\ ack_net' \in Seq(SeqNum)
  BY <1>1, AckFrame DEF IInv, TypeOK, ChanTypeOK
<1>7. /\ is_set' \in [SeqNum -> 0 .. 2]
      /\ \A k \in SeqNum : is_set'[k] # 0 <=> is_set[k] # 0
  BY <1>2, <1>3
<1>8. s_i' \in 0 .. 2 * SEQ_LEN /\ s_i' \in s_la .. s_la + Len(s_root)
  BY SMTT(40), <1>2, <1>3, SlotPosition, Ranges, WindowAssumption DEF SeqNum
<1>9. s_pc' = "window"  BY <1>2
<1> HIDE DEF SlotResend, AtSlot, SetAlarm
<1>10. UNCHANGED <<s_la, s_root, packet_id, s_last>>  BY DEF SlotResend
<1> QED BY <1>2, <1>5, <1>6, <1>7, <1>8, <1>9, <1>10, QuietStepInv

\* An unused slot is the one behind the queue, and something is left to read:
\* once the last packet was read the pass stops at its slot.
LEMMA NewSlot ==
  ASSUME IInv, AtSlot(0)
  PROVE  /\ WinId = Len(s_root)
         /\ Slot = packet_id % SEQ_LEN
         /\ packet_id < NCHUNKS
<1> USE DEF AtSlot
<1>1. WinId = Len(s_root) /\ s_i = s_la + Len(s_root) /\ Slot \in SeqNum
  BY SlotPosition, Ranges, WindowAssumption
<1>2. s_la = Acked % SEQ_LEN /\ Acked < NCHUNKS
  BY DEF IInv, SendInv, QueueInv
<1>3. Slot = packet_id % SEQ_LEN
  <2> DEFINE a == Acked
             n == Len(s_root)
  <2>1. a \in Int /\ n \in Int /\ a + n = packet_id  BY Ranges
  <2>2. Slot = ((a % SEQ_LEN) + n) % SEQ_LEN  BY <1>1, <1>2 DEF Slot
  <2> HIDE DEF a, n
  <2> QED BY <2>1, <2>2, ModAdd
<1>4. ASSUME packet_id = NCHUNKS  PROVE FALSE
  <2>1. s_last = (NCHUNKS - 1) % SEQ_LEN  BY <1>4 DEF IInv, SendInv, PassInv
  <2> DEFINE l == NCHUNKS - 1
             r == l % SEQ_LEN
  <2>2. l \in Int /\ l + 1 = NCHUNKS  BY ChannelAssumption
  <2> HIDE DEF l
  <2>3. r \in SeqNum  BY <2>2, ModRange
  <2>4. Slot = (r + 1) % SEQ_LEN  BY <1>3, <1>4, <2>2, ModAdd
  <2> HIDE DEF r
  <2>5. s_i <= r  BY <2>1, <2>3, <1>1, Ranges DEF LoopOver, PastLast, SeqNum, l, r
  <2>6. s_i >= 1 /\ s_i \in SeqNum
    <3>1. Len(s_root) >= 1  BY <1>2, <1>4, Ranges
    <3>2. s_la >= 0 /\ s_la \in Int  BY Ranges, WindowAssumption DEF SeqNum
    <3>3. Len(s_root) \in Int  BY Ranges
    <3>4. s_i >= 1 /\ s_i \in Int  BY <1>1, <3>1, <3>2, <3>3
    <3> QED BY <2>3, <2>5, <3>4, WindowAssumption DEF SeqNum
  <2>7. Slot = s_i
    <3>1. s_i \in 0 .. 2 * SEQ_LEN - 1 /\ s_i < SEQ_LEN
      BY <2>6, WindowAssumption DEF SeqNum
    <3> QED BY <3>1, ModSmall DEF Slot
  <2>8. (r + 1) % SEQ_LEN = IF r + 1 < SEQ_LEN THEN r + 1 ELSE r + 1 - SEQ_LEN
    BY <2>3, OffsetValue, WindowAssumption DEF SeqNum
  <2> QED BY <2>3, <2>4, <2>5, <2>6, <2>7, <2>8, WindowAssumption DEF SeqNum
<1> QED BY <1>1, <1>3, <1>4, Ranges, ChannelAssumption

\* The packet made of the next chunk is the next packet of the file.
LEMMA NextPacketIs ==
  ASSUME IInv, AtSlot(0)
  PROVE  NextPacket = Pkt(packet_id + 1)
<1>1. packet_id \in Nat /\ packet_id < NCHUNKS /\ Slot = packet_id % SEQ_LEN
  BY NewSlot, Ranges
<1>2. packet_id + 1 - 1 = packet_id  BY <1>1
<1>3. packet_id + 1 >= NCHUNKS <=> packet_id + 1 = NCHUNKS
  BY <1>1, ChannelAssumption
<1>4. packet_id + 1 <= NCHUNKS  BY <1>1, ChannelAssumption
<1> QED BY <1>1, <1>2, <1>3, <1>4 DEF NextPacket, Pkt

\* A new chunk extends the queue, the alarms and the window together, and
\* acknowledges nothing.
LEMMA SlotNewInv ==
  ASSUME IInv, SlotNew, UNCHANGED recvVars
  PROVE  IInv' /\ Acked' = Acked
<1> DEFINE m == NextPacket
           n == Len(s_root)
<1>1. AtSlot(0) /\ s_pc = "window" /\ s_pc' = "window" /\ s_la' = s_la
      /\ ack_net' = ack_net /\ packet_id' = packet_id + 1
      /\ is_set' = [is_set EXCEPT ![Slot] = 1] /\ s_i' = s_i + 1
      /\ SendData(m) /\ s_root' = StorePacket(m)
      /\ s_last' = IF m.type = 4 THEN Slot ELSE s_last
  BY DEF SlotNew, AtSlot, SetAlarm
<1>2. m = Pkt(packet_id + 1) /\ packet_id + 1 \in 1 .. NCHUNKS /\ m \in DataPacket
  BY <1>1, NewSlot, NextPacketIs, PktType, Ranges, ChannelAssumption
<1>3. /\ WinId = n /\ n \in Nat /\ n < WINDOW_LEN
      /\ Slot = packet_id % SEQ_LEN /\ Slot \in SeqNum
      /\ Slot = (s_la + n) % SEQ_LEN
      /\ s_i = s_la + n /\ s_i + 1 \in 0 .. 2 * SEQ_LEN
  BY <1>1, NewSlot, SlotPosition, Ranges, WindowAssumption DEF AtSlot
<1>4. s_root \in Seq(DataPacket) /\ is_set \in [SeqNum -> 0 .. 2]
  BY DEF IInv, TypeOK, SendTypeOK
<1> HIDE DEF m
<1>5. s_root' = Append(s_root, m)  BY <1>1, <1>3 DEF StorePacket
<1>6. /\ s_root' \in Seq(DataPacket) /\ Len(s_root') = n + 1
      /\ \A j \in 1 .. n + 1 : s_root'[j] = IF j <= n THEN s_root[j] ELSE m
  BY <1>2, <1>4, <1>5
<1>7. Acked' = Acked  BY <1>1, <1>3, <1>6, Ranges DEF Acked
<1>8. m.type = 4 <=> packet_id + 1 = NCHUNKS  BY <1>2 DEF Pkt
<1>9. s_last' = IF packet_id' = NCHUNKS THEN (NCHUNKS - 1) % SEQ_LEN ELSE -1
  <2>1. packet_id < NCHUNKS /\ packet_id \in Nat  BY <1>1, NewSlot, Ranges
  <2>2. s_last = -1  BY <1>1, <2>1 DEF IInv, SendInv, PassInv
  <2>3. CASE packet_id + 1 = NCHUNKS
    <3>1. packet_id = NCHUNKS - 1  BY <2>1, <2>3, ChannelAssumption
    <3> QED BY <1>1, <1>3, <1>8, <2>3, <3>1
  <2>4. CASE packet_id + 1 # NCHUNKS
    BY <1>1, <1>8, <2>2, <2>4
  <2> QED BY <2>3, <2>4
<1>10. SendTypeOK'
  <2>1. s_last' \in SeqNum \cup {-1}
    BY <1>1, <1>3 DEF IInv, TypeOK, SendTypeOK
  <2>2. is_set' \in [SeqNum -> 0 .. 2]  BY <1>1, <1>3, <1>4
  <2>3. packet_id' \in Nat  BY <1>1, <1>2
  <2>4. s_la' \in SeqNum  BY <1>1, Ranges
  <2> QED BY <1>1, <1>3, <1>6, <2>1, <2>2, <2>3, <2>4 DEF SendTypeOK
<1>11. QueueInv'
  <2>1. packet_id' <= NCHUNKS /\ n + 1 <= packet_id' /\ n + 1 <= WINDOW_LEN
    <3>1. n <= packet_id /\ packet_id \in Nat  BY Ranges
    <3>2. packet_id' = packet_id + 1 /\ packet_id + 1 <= NCHUNKS
      BY <1>1, <1>2
    <3> QED BY <1>3, <3>1, <3>2, WindowAssumption
  <2>2. /\ Acked < NCHUNKS
        /\ s_la = Acked % SEQ_LEN
        /\ \A j \in 1 .. n : s_root[j] = Pkt(Acked + j)
    BY <1>1 DEF IInv, SendInv, QueueInv
  <2>3. Acked + (n + 1) = packet_id + 1  BY <1>3, Ranges
  <2>4. \A j \in 1 .. n + 1 : s_root'[j] = Pkt(Acked + j)
    <3> SUFFICES ASSUME NEW j \in 1 .. n + 1 PROVE s_root'[j] = Pkt(Acked + j)
      OBVIOUS
    <3>1. CASE j <= n
      <4>1. j \in 1 .. n  BY <1>3, <3>1
      <4> QED BY <1>6, <2>2, <3>1, <4>1
    <3>2. CASE ~ (j <= n)
      <4>1. j = n + 1  BY <1>3, <3>2
      <4> QED BY <1>2, <1>6, <2>3, <3>2, <4>1
    <3> QED BY <3>1, <3>2
  <2> QED BY <1>1, <1>6, <1>7, <2>1, <2>2, <2>4 DEF QueueInv
<1>12. AlarmInv'
  <2> SUFFICES ASSUME NEW d \in 0 .. SEQ_LEN - 1
               PROVE  is_set'[(s_la + d) % SEQ_LEN] # 0 <=> d < n + 1
    BY <1>1, <1>6 DEF AlarmInv
  <2>1. is_set[(s_la + d) % SEQ_LEN] # 0 <=> d < n
    BY <1>1 DEF IInv, SendInv, AlarmInv
  <2>2. (s_la + d) % SEQ_LEN \in SeqNum  BY Ranges, OffsetRange
  <2>3. (s_la + d) % SEQ_LEN = Slot => d = n
    <3>1. s_la \in SeqNum /\ n \in SeqNum /\ d \in SeqNum
      BY <1>3, Ranges, WindowAssumption DEF SeqNum
    <3>2. Slot = (s_la + n) % SEQ_LEN  BY <1>3
    <3> QED BY <3>1, <3>2, OffsetUnique
  <2>4. CASE d = n
    <3>1. (s_la + d) % SEQ_LEN = Slot  BY <1>3, <2>4
    <3>2. is_set'[Slot] = 1  BY <1>1, <1>3, <1>4
    <3> QED BY <1>3, <2>4, <3>1, <3>2
  <2>5. CASE d # n
    <3>1. is_set'[(s_la + d) % SEQ_LEN] = is_set[(s_la + d) % SEQ_LEN]
      BY <1>1, <1>4, <2>2, <2>3, <2>5
    <3>2. d < n <=> d < n + 1  BY <1>3, <2>5, WindowAssumption
    <3> QED BY <2>1, <3>1, <3>2
  <2> QED BY <2>4, <2>5
<1>13. PassInv'
  <2>1. s_i' \in s_la .. s_la + (n + 1)
    <3>1. s_i' = s_la + n + 1 /\ n \in Nat  BY <1>1, <1>3
    <3>2. s_la \in Int  BY Ranges, WindowAssumption DEF SeqNum
    <3> QED BY <3>1, <3>2
  <2> QED BY <1>1, <1>6, <1>9, <2>1 DEF PassInv
<1>14. DataInv'
  <2>1. /\ packet_id \in 0 .. NCHUNKS /\ packet_id' \in 0 .. NCHUNKS
        /\ packet_id <= packet_id' /\ packet_id + 1 \in 1 .. packet_id'
    BY <1>1, <1>2, Ranges, ChannelAssumption
  <2> QED BY <1>1, <1>2, <2>1, SendDataInv DEF IInv
<1>15. AckInv' /\ ack_net' \in Seq(SeqNum)
  BY <1>1, <1>7, AckFrame DEF IInv, TypeOK, ChanTypeOK, recvVars
<1>16. packet_id' \in packet_id .. NCHUNKS /\ Acked' \in 0 .. last_id
  BY <1>1, <1>2, <1>7, Ranges, ChannelAssumption
<1> QED BY <1>7, <1>10, <1>11, <1>12, <1>13, <1>14, <1>15, <1>16, SenderStepInv
        DEF SendInv

\* What an ack of level n tells the sender: n - Acked packets arrived.
LEMMA AckMeaning ==
  ASSUME IInv, s_pc = "poll", NEW n \in Acked .. last_id, NEW d, d = n - Acked,
         NEW a, a = AckNum(n)
  PROVE  /\ d \in 0 .. Len(s_root) /\ d \in 0 .. WINDOW_LEN
         /\ a \in SeqNum
         /\ (a + 1) % SEQ_LEN = n % SEQ_LEN
         /\ n % SEQ_LEN = (s_la + d) % SEQ_LEN
         /\ d >= 1 => a = (s_la + (d - 1)) % SEQ_LEN
         /\ d = 0 => a = (s_la + (SEQ_LEN - 1)) % SEQ_LEN
<1> DEFINE b == Acked
           e == SEQ_LEN - 1
           f == d - 1
<1>1. /\ b \in Nat /\ n \in Nat /\ d \in Int /\ e \in Int /\ f \in Int
      /\ n = b + d /\ d \in 0 .. Len(s_root) /\ d \in 0 .. WINDOW_LEN
  BY Ranges, WindowAssumption
<1>2. s_la = b % SEQ_LEN  BY DEF IInv, SendInv, QueueInv
<1>3. n + SEQ_LEN - 1 = n + e /\ e + 1 = SEQ_LEN /\ f + 1 = d
  BY <1>1, WindowAssumption
<1> HIDE DEF b, e, f
<1>4. a = (n + e) % SEQ_LEN /\ a \in SeqNum
  BY <1>1, <1>3, ModRange DEF AckNum
<1>5. \A x \in Int : (x + SEQ_LEN) % SEQ_LEN = x % SEQ_LEN  BY ModPeriod
<1>6. (a + 1) % SEQ_LEN = n % SEQ_LEN
  <2> DEFINE y == n + e
  <2>1. y \in Int /\ y + 1 = n + SEQ_LEN
    <3>1. n \in Int /\ e \in Int  BY <1>1
    <3>2. e + 1 = SEQ_LEN  BY <1>3
    <3>3. y + 1 = n + (e + 1)  BY <3>1
    <3> QED BY <3>1, <3>2, <3>3
  <2>2. a = y % SEQ_LEN  BY <1>4
  <2> HIDE DEF y
  <2>3. (a + 1) % SEQ_LEN = (y + 1) % SEQ_LEN  BY <2>1, <2>2, ModAdd
  <2> QED BY <1>1, <1>5, <2>1, <2>3
<1>7. n % SEQ_LEN = (s_la + d) % SEQ_LEN  BY <1>1, <1>2, ModAdd
<1>8. a = (s_la + f) % SEQ_LEN
  <2>1. (b + f) + SEQ_LEN = n + e  BY <1>1, <1>3, WindowAssumption
  <2>2. (b + f) \in Int  BY <1>1
  <2>3. a = (b + f) % SEQ_LEN  BY <1>4, <1>5, <2>1, <2>2
  <2> QED BY <1>1, <1>2, <2>3, ModAdd
<1>9. ASSUME d = 0 PROVE a = (s_la + e) % SEQ_LEN
  <2>1. n = b  BY <1>1, <1>9
  <2>2. a = (b + e) % SEQ_LEN  BY <1>4, <2>1
  <2> QED BY <1>1, <1>2, <2>2, ModAdd
<1> QED BY <1>1, <1>4, <1>6, <1>7, <1>8, <1>9 DEF e, f

\* sendfile finds it inside the window exactly if something new arrived.
LEMMA InWindowMeaning ==
  ASSUME IInv, s_pc = "poll", NEW n \in Acked .. last_id, NEW d, d = n - Acked,
         NEW a, a = AckNum(n)
  PROVE  InWindow(a) <=> d >= 1
<1> DEFINE h == WINDOW_LEN - 1
           e == SEQ_LEN - 1
           f == d - 1
<1>1. /\ d \in 0 .. WINDOW_LEN
      /\ d >= 1 => a = (s_la + f) % SEQ_LEN
      /\ d = 0 => a = (s_la + e) % SEQ_LEN
  BY AckMeaning
<1>2. /\ s_la \in SeqNum /\ h \in SeqNum /\ e \in SeqNum /\ e > h
      /\ d >= 1 => f \in SeqNum /\ f <= h
  <2>1. d \in 0 .. WINDOW_LEN  BY <1>1
  <2>2. s_la \in SeqNum  BY Ranges
  <2> QED BY <2>1, <2>2, WindowAssumption DEF SeqNum
<1>3. WindowHigh(s_la) = (s_la + h) % SEQ_LEN
  <2>1. s_la + WINDOW_LEN - 1 = s_la + h
    BY <1>2, WindowAssumption DEF SeqNum
  <2> QED BY <2>1 DEF WindowHigh
<1> HIDE DEF h, e, f
<1>4. CASE d >= 1
  <2>1. Between(s_la, (s_la + h) % SEQ_LEN, (s_la + f) % SEQ_LEN) <=> f <= h
    BY <1>2, <1>4, BetweenOffset
  <2> QED BY <1>1, <1>2, <1>3, <1>4, <2>1 DEF InWindow
<1>5. CASE d = 0
  <2>1. Between(s_la, (s_la + h) % SEQ_LEN, (s_la + e) % SEQ_LEN) <=> e <= h
    BY <1>2, BetweenOffset
  <2>2. ~ (e <= h)  BY <1>2, WindowAssumption DEF SeqNum
  <2>3. ~ (d >= 1)  BY <1>5
  <2> QED BY <1>1, <1>3, <1>5, <2>1, <2>2, <2>3 DEF InWindow
<1>6. d = 0 \/ d >= 1  BY <1>1, Ranges
<1> QED BY <1>4, <1>5, <1>6

\* The slots it acknowledges are the first d of the window.
LEMMA AckedSlotsAre ==
  ASSUME IInv, s_pc = "poll", NEW n \in Acked .. last_id, NEW d, d = n - Acked,
         NEW a, a = AckNum(n), d >= 1
  PROVE  /\ AckedSlots(a) = s_la .. s_la + (d - 1)
         /\ Cardinality(AckedSlots(a)) = d
<1> DEFINE f == d - 1
<1>1. d \in 0 .. WINDOW_LEN /\ a = (s_la + f) % SEQ_LEN
  BY AckMeaning
<1>2. s_la \in SeqNum /\ f \in SeqNum /\ f <= WINDOW_LEN - 1 /\ d = f + 1
  <2>1. d \in 0 .. WINDOW_LEN  BY <1>1
  <2>2. s_la \in SeqNum  BY Ranges
  <2> QED BY <2>1, <2>2, WindowAssumption DEF SeqNum
<1> HIDE DEF f
<1>3. ASSUME NEW i \in s_la .. s_la + WINDOW_LEN - 1
      PROVE  Between(s_la, a, Mod(i, SEQ_LEN)) <=> i <= s_la + f
  <2> DEFINE x == i - s_la
  <2>1. i \in Nat /\ x \in SeqNum /\ i = s_la + x
    BY <1>2, <1>3, WindowAssumption DEF SeqNum
  <2>2. Mod(i, SEQ_LEN) = i % SEQ_LEN  BY <2>1, ModOfNat
  <2>3. x <= f <=> i <= s_la + f  BY <1>2, <2>1, WindowAssumption DEF SeqNum
  <2> HIDE DEF x
  <2>4. Mod(i, SEQ_LEN) = (s_la + x) % SEQ_LEN  BY <2>1, <2>2
  <2>5. Between(s_la, (s_la + f) % SEQ_LEN, (s_la + x) % SEQ_LEN) <=> x <= f
    BY <1>2, <2>1, BetweenOffset
  <2> QED BY <1>1, <2>3, <2>4, <2>5
<1>4. AckedSlots(a) = s_la .. s_la + f
  <2>1. \A i \in Int : i \in s_la .. s_la + WINDOW_LEN - 1 /\ i <= s_la + f
                         <=> i \in s_la .. s_la + f
    BY <1>2, WindowAssumption DEF SeqNum
  <2> QED BY <1>3, <2>1 DEF AckedSlots
<1>5. Cardinality(s_la .. s_la + f) = f + 1
  <2>1. s_la \in Int /\ s_la + f \in Int /\ ~ (s_la > s_la + f)
        /\ (s_la + f) - s_la + 1 = f + 1
    BY <1>2, WindowAssumption DEF SeqNum
  <2> QED BY <2>1, FS_Interval
<1> QED BY <1>2, <1>4, <1>5 DEF f

\* The ack of level n carries the sequence number of packet n.
LEMMA AckNumIs ==
  ASSUME IInv, s_pc = "poll", NEW n \in Acked .. last_id, n - Acked >= 1
  PROVE  /\ AckNum(n) = (s_la + (n - Acked - 1)) % SEQ_LEN
         /\ AckNum(n) = (n - 1) % SEQ_LEN
<1> DEFINE b == Acked
           f == n - Acked - 1
<1>1. AckNum(n) = (s_la + f) % SEQ_LEN
  <2> DEFINE d == n - Acked
             a == AckNum(n)
  <2>1. d = n - Acked /\ a = AckNum(n) /\ d >= 1  OBVIOUS
  <2> HIDE DEF d, a
  <2>2. a = (s_la + (d - 1)) % SEQ_LEN  BY <2>1, AckMeaning
  <2> QED BY <2>1, <2>2
<1>2. s_la = b % SEQ_LEN  BY DEF IInv, SendInv, QueueInv
<1>3. b \in Int /\ f \in Int /\ b + f = n - 1  BY Ranges
<1> HIDE DEF b, f
<1>4. (s_la + f) % SEQ_LEN = (n - 1) % SEQ_LEN  BY <1>2, <1>3, ModAdd
<1> QED BY <1>1, <1>4 DEF f

\* The slots of the first d packets of the window.
LEMMA FirstSlots ==
  ASSUME NEW x \in SeqNum, NEW d \in 1 .. SEQ_LEN, NEW e \in SeqNum
  PROVE  (x + e) % SEQ_LEN \in {i % SEQ_LEN : i \in x .. x + (d - 1)} <=> e < d
<1>1. ASSUME e < d
      PROVE  (x + e) % SEQ_LEN \in {i % SEQ_LEN : i \in x .. x + (d - 1)}
  <2>1. x + e \in x .. x + (d - 1)
    BY <1>1, WindowAssumption DEF SeqNum
  <2> QED BY <2>1
<1>2. ASSUME NEW i \in x .. x + (d - 1), (x + e) % SEQ_LEN = i % SEQ_LEN
      PROVE  e < d
  <2> DEFINE y == i - x
  <2>1. y \in SeqNum /\ y < d /\ i = x + y
    <3>1. i \in x .. x + (d - 1) /\ x \in 0 .. SEQ_LEN - 1 /\ d \in 1 .. SEQ_LEN
      BY <1>2 DEF SeqNum
    <3> QED BY <3>1, WindowAssumption DEF SeqNum
  <2> HIDE DEF y
  <2>2. (x + e) % SEQ_LEN = (x + y) % SEQ_LEN  BY <1>2, <2>1
  <2>3. e = y  BY <2>1, <2>2, OffsetUnique
  <2> QED BY <2>1, <2>3
<1> QED BY <1>1, <1>2

\* A cumulative ack of level n drops n - Acked packets and their alarms.
LEMMA PollNewAckInv ==
  ASSUME IInv, NEW T \in SUBSET Armed, NEW j, PollNewAck(T, j),
         UNCHANGED recvVars
  PROVE  IInv' /\ Acked' \in Acked + 1 .. last_id
<1> DEFINE a == ack_net[j]
           slots == {i % SEQ_LEN : i \in AckedSlots(a)}
           len == Len(s_root)
<1>1. /\ s_pc = "poll" /\ InWindow(a) /\ a # s_last /\ TakeAck(j)
      /\ is_set' = [k \in SeqNum |-> IF k \in slots THEN 0 ELSE Expire(T)[k]]
      /\ s_root' = DequeueN(s_root, Cardinality(AckedSlots(a)))
      /\ s_la' = (a + 1) % SEQ_LEN
      /\ s_pc' = "window" /\ s_i' = s_la'
      /\ data_net' = data_net /\ packet_id' = packet_id /\ s_last' = s_last
  BY DEF PollNewAck, EnterWindow
<1>2. ack_net \in Seq(SeqNum) /\ AckInv /\ last_id' = last_id /\ last_id \in Nat
  BY DEF IInv, TypeOK, ChanTypeOK, RecvTypeOK, recvVars
<1>3. ack_net' \in Seq(SeqNum)  BY <1>1, <1>2, Ranges, TakeAckInv
<1>4. PICK n \in Acked .. last_id :
        a = AckNum(n) /\ (Acked' \in 0 .. n => AckInv')
  BY <1>1, <1>2, Ranges, TakeAckInv
<1> DEFINE d == n - Acked
<1> HIDE DEF a, slots, d
<1>5. d = n - Acked  BY DEF d
<1>6. d >= 1 /\ d \in 0 .. len /\ d \in 0 .. WINDOW_LEN
  BY <1>1, <1>4, <1>5, InWindowMeaning, AckMeaning
<1>7. s_la' = n % SEQ_LEN /\ s_la' = (s_la + d) % SEQ_LEN
  BY <1>1, <1>4, <1>5, AckMeaning
<1>8. slots = {i % SEQ_LEN : i \in s_la .. s_la + (d - 1)}
      /\ Cardinality(AckedSlots(a)) = d
  BY <1>1, <1>4, <1>5, <1>6, AckedSlotsAre DEF slots
<1>9. /\ s_root' \in Seq(DataPacket)
      /\ Len(s_root') = len - d
      /\ \A i \in 1 .. len - d : s_root'[i] = s_root[i + d]
  <2>1. s_root \in Seq(DataPacket) /\ d \in 0 .. len /\ len \in Nat
    BY <1>6, Ranges
  <2>2. s_root' = SubSeq(s_root, d + 1, len)  BY <1>1, <1>8 DEF DequeueN
  <2> QED BY <2>1, <2>2
<1>10. Acked' = n
  <2>1. Acked' = packet_id - (len - d)  BY <1>1, <1>9 DEF Acked
  <2> QED BY <1>5, <1>6, <2>1, Ranges
<1>11. /\ len \in Nat /\ len <= WINDOW_LEN /\ n \in Nat /\ n <= packet_id
       /\ Acked + len = packet_id /\ Acked \in Nat /\ packet_id <= NCHUNKS
       /\ packet_id \in Nat /\ n = Acked + d /\ s_la \in SeqNum /\ n <= last_id
  BY <1>5, Ranges, WindowAssumption
<1>12. n < NCHUNKS
  <2> SUFFICES ASSUME n = NCHUNKS PROVE FALSE  BY <1>11, ChannelAssumption
  <2>1. s_last = (NCHUNKS - 1) % SEQ_LEN
    BY <1>1, <1>11, ChannelAssumption DEF IInv, SendInv, PassInv
  <2>2. AckNum(n) = (n - 1) % SEQ_LEN  BY <1>1, <1>5, <1>6, AckNumIs
  <2> QED BY <1>1, <1>4, <2>1, <2>2
<1>13. s_la' \in SeqNum  BY <1>6, <1>7, <1>11, ModRange
<1>14. SendTypeOK'
  <2>1. is_set' \in [SeqNum -> 0 .. 2]
    BY <1>1, ExpireSet
  <2>2. s_i' \in 0 .. 2 * SEQ_LEN
    BY <1>1, <1>13, WindowAssumption DEF SeqNum
  <2>3. s_last' \in SeqNum \cup {-1}
    BY <1>1 DEF IInv, TypeOK, SendTypeOK
  <2> QED BY <1>1, <1>9, <1>11, <1>13, <2>1, <2>2, <2>3 DEF SendTypeOK
<1>15. QueueInv'
  <2>1. \A i \in 1 .. len - d : s_root'[i] = Pkt(n + i)
    <3> SUFFICES ASSUME NEW i \in 1 .. len - d PROVE s_root'[i] = Pkt(n + i)
      OBVIOUS
    <3>1. i + d \in 1 .. len /\ Acked + (i + d) = n + i  BY <1>6, <1>11
    <3>2. s_root[i + d] = Pkt(Acked + (i + d))
      BY <1>1, <3>1 DEF IInv, SendInv, QueueInv
    <3> QED BY <1>9, <3>1, <3>2
  <2>2. len - d <= packet_id /\ len - d <= WINDOW_LEN
    BY <1>6, <1>11, WindowAssumption
  <2> QED BY <1>1, <1>7, <1>9, <1>10, <1>11, <1>12, <2>1, <2>2 DEF QueueInv
<1>16. AlarmInv'
  <2> SUFFICES ASSUME NEW x \in 0 .. SEQ_LEN - 1
               PROVE  is_set'[(s_la' + x) % SEQ_LEN] # 0 <=> x < len - d
    BY <1>9 DEF AlarmInv
  <2> DEFINE y == IF d + x < SEQ_LEN THEN d + x ELSE d + x - SEQ_LEN
  <2>1. (s_la' + x) % SEQ_LEN = (s_la + y) % SEQ_LEN
    <3>1. d \in 0 .. SEQ_LEN - 1  BY <1>6, WindowAssumption
    <3>2. y = IF d + x < SEQ_LEN THEN d + x ELSE d + x - SEQ_LEN  OBVIOUS
    <3> HIDE DEF y
    <3> QED BY <1>7, <1>11, <3>1, <3>2, OffsetShift
  <2>2. y \in SeqNum /\ d \in 1 .. SEQ_LEN
    BY <1>6, WindowAssumption DEF SeqNum
  <2>3. x < len - d <=> ~ (y < d) /\ y < len
    BY <1>6, <1>11, WindowAssumption
  <2> HIDE DEF y
  <2> DEFINE k == (s_la + y) % SEQ_LEN
  <2>4. k \in SeqNum
    BY <1>11, <2>2, OffsetRange DEF SeqNum
  <2>5. k \in slots <=> y < d
    BY <1>8, <1>11, <2>2, FirstSlots
  <2>6. is_set[k] # 0 <=> y < len
    BY <1>1, <2>2 DEF IInv, SendInv, AlarmInv, SeqNum
  <2>7. Expire(T)[k] # 0 <=> is_set[k] # 0  BY <2>4, ExpireSet
  <2> HIDE DEF k
  <2>8. is_set'[k] = IF k \in slots THEN 0 ELSE Expire(T)[k]
    BY <1>1, <2>4
  <2> QED BY <2>1, <2>3, <2>5, <2>6, <2>7, <2>8 DEF k
<1>17. PassInv'
  <2>1. s_last' = IF packet_id' = NCHUNKS THEN (NCHUNKS - 1) % SEQ_LEN ELSE -1
    BY <1>1 DEF IInv, SendInv, PassInv
  <2>2. s_i' \in s_la' .. s_la' + (len - d)
    BY <1>1, <1>6, <1>11, <1>13 DEF SeqNum
  <2> QED BY <1>9, <2>1, <2>2 DEF PassInv
<1>18. DataInv'
  BY <1>1, <1>11, DataInvFrame, Ranges DEF IInv
<1>19. AckInv'  BY <1>4, <1>10, <1>11
<1>20. packet_id' \in packet_id .. NCHUNKS /\ Acked' \in 0 .. last_id
  BY <1>1, <1>10, <1>11, Ranges, ChannelAssumption
<1>21. Acked' \in Acked + 1 .. last_id
  BY <1>2, <1>6, <1>10, <1>11
<1> QED BY <1>3, <1>14, <1>15, <1>16, <1>17, <1>18, <1>19, <1>20, <1>21,
           SenderStepInv
        DEF SendInv

\* The ack of the last packet has level NCHUNKS: everything is written.
LEMMA PollLastAckInv ==
  ASSUME IInv, NEW T \in SUBSET Armed, NEW j, PollLastAck(T, j),
         UNCHANGED recvVars
  PROVE  IInv' /\ last_id = NCHUNKS /\ Acked' = NCHUNKS
<1> DEFINE a == ack_net[j]
<1>1. /\ s_pc = "poll" /\ InWindow(a) /\ a = s_last /\ TakeAck(j)
      /\ is_set' = Expire(T) /\ s_pc' = "done" /\ s_root' = <<>>
      /\ UNCHANGED <<data_net, s_la, s_i, packet_id, s_last>>
  BY DEF PollLastAck
<1>2. ack_net \in Seq(SeqNum) /\ AckInv /\ last_id' = last_id /\ last_id \in Nat
  BY DEF IInv, TypeOK, ChanTypeOK, RecvTypeOK, recvVars
<1>3. ack_net' \in Seq(SeqNum)  BY <1>1, <1>2, Ranges, TakeAckInv
<1>4. PICK n \in Acked .. last_id :
        a = AckNum(n) /\ (Acked' \in 0 .. n => AckInv')
  BY <1>1, <1>2, Ranges, TakeAckInv
<1> DEFINE d == n - Acked
           len == Len(s_root)
<1> HIDE DEF a, d
<1>5. d = n - Acked  BY DEF d
<1>6. d >= 1 /\ d \in 0 .. len /\ d \in 0 .. WINDOW_LEN /\ a \in SeqNum
  BY <1>1, <1>4, <1>5, InWindowMeaning, AckMeaning
<1>7. /\ len \in Nat /\ len <= WINDOW_LEN /\ n \in Nat /\ n <= packet_id
      /\ Acked + len = packet_id /\ Acked \in Nat /\ packet_id <= NCHUNKS
      /\ packet_id \in Nat /\ n = Acked + d /\ s_la \in SeqNum /\ n <= last_id
      /\ last_id <= packet_id
  BY <1>5, Ranges, WindowAssumption
<1>8. packet_id = NCHUNKS /\ s_last = (NCHUNKS - 1) % SEQ_LEN
  <2>1. s_last # -1  BY <1>1, <1>6, WindowAssumption DEF SeqNum
  <2> QED BY <1>1, <2>1 DEF IInv, SendInv, PassInv
<1>9. n = NCHUNKS
  <2> DEFINE b == Acked
             f == d - 1
             g == len - 1
  <2>1. f \in SeqNum /\ g \in SeqNum /\ b \in Int /\ b + g = NCHUNKS - 1
    BY <1>6, <1>7, <1>8, WindowAssumption DEF SeqNum
  <2>2. s_la = b % SEQ_LEN  BY <1>1 DEF IInv, SendInv, QueueInv
  <2>3. AckNum(n) = (s_la + f) % SEQ_LEN  BY <1>1, <1>5, <1>6, AckNumIs DEF d
  <2>4. (s_la + g) % SEQ_LEN = (NCHUNKS - 1) % SEQ_LEN
    <3> HIDE DEF b, g
    <3>1. g \in Int  BY <2>1 DEF SeqNum
    <3> QED BY <2>1, <2>2, <3>1, ModAdd
  <2> HIDE DEF f, g
  <2>5. f = g  BY <1>1, <1>4, <1>7, <1>8, <2>1, <2>3, <2>4, OffsetUnique
  <2>6. d = len  BY <1>6, <1>7, <2>5 DEF f, g
  <2> QED BY <1>7, <1>8, <2>6
<1>10. last_id = NCHUNKS  BY <1>2, <1>7, <1>8, <1>9
<1>11. Len(s_root') = 0 /\ s_root' \in Seq(DataPacket)  BY <1>1
<1>12. Acked' = NCHUNKS  BY <1>1, <1>7, <1>8, <1>11 DEF Acked
<1>13. SendTypeOK'
  <2>1. is_set' \in [SeqNum -> 0 .. 2]  BY <1>1, ExpireSet
  <2> QED BY <1>1, <1>11, <2>1 DEF IInv, TypeOK, SendTypeOK
<1>14. SendInv'
  BY <1>1, <1>7, <1>8, <1>11, WindowAssumption
  DEF SendInv, QueueInv, AlarmInv, PassInv
<1>15. DataInv'
  BY <1>1, <1>7, DataInvFrame, Ranges DEF IInv
<1>16. AckInv'  BY <1>4, <1>7, <1>9, <1>12
<1>17. packet_id' \in packet_id .. NCHUNKS /\ Acked' \in 0 .. last_id
  BY <1>1, <1>7, <1>8, <1>10, <1>12, ChannelAssumption
<1> QED BY <1>3, <1>10, <1>12, <1>13, <1>14, <1>15, <1>16, <1>17, SenderStepInv

\* Every step of sendfile.
LEMMA SenderStepPreserves ==
  ASSUME IInv, SenderStep
  PROVE  IInv'
<1>1. CASE SendHello  BY <1>1, SendHelloInv DEF SenderStep
<1>2. CASE \E j \in 1 .. Len(ack_net) : RecvHelloAck(j)
  BY <1>2, RecvHelloAckInv DEF SenderStep
<1>3. ASSUME NEW T \in SUBSET Armed, PollNothing(T)
      PROVE  IInv'
  BY <1>3, PollNothingInv DEF SenderStep
<1>4. ASSUME NEW T \in SUBSET Armed, NEW j \in 1 .. Len(ack_net),
             PollOldAck(T, j) \/ PollNewAck(T, j) \/ PollLastAck(T, j)
      PROVE  IInv'
  BY <1>4, PollOldAckInv, PollNewAckInv, PollLastAckInv DEF SenderStep
<1>5. CASE Window
  BY <1>5, WindowEndInv, SlotWaitingInv, SlotNewInv, SlotResendInv,
     SlotSendFailsInv
  DEF Window, SenderStep
<1> QED BY <1>1, <1>2, <1>3, <1>4, <1>5 DEF SenderStep, SendNext, Poll

-----------------------------------------------------------------------------
(* The steps of recvfile. *)

\* What a step of the receiver has to show.
LEMMA ReceiverStepInv ==
  ASSUME IInv, UNCHANGED sendVars, RecvTypeOK', RecvInv', DataInv', AckInv',
         ack_net' \in Seq(SeqNum)
  PROVE  IInv'
<1>1. SendTypeOK' /\ SendInv' /\ Acked' = Acked  BY SendFrame
<1>2. packet_id' = packet_id /\ packet_id \in 0 .. NCHUNKS
  BY Ranges DEF sendVars
<1>3. \A p \in 1 .. packet_id : p \in 1 .. NCHUNKS
  BY <1>2, ChannelAssumption
<1>4. data_net' \subseteq DataPacket
  BY <1>2, <1>3, PktType, HelloType DEF DataInv
<1> QED BY <1>1, <1>4 DEF IInv, TypeOK, ChanTypeOK

\* Every turn of its loops ends with the acknowledgement of what is written.
LEMMA AckStep ==
  ASSUME IInv, UNCHANGED sendVars, last_id' \in last_id .. NCHUNKS,
         r_la' = last_id' % SEQ_LEN, SendAck(AckOf(r_la'))
  PROVE  AckInv' /\ ack_net' \in Seq(SeqNum)
<1>1. Acked' = Acked  BY SendFrame
<1>2. last_id' \in 0 .. NCHUNKS /\ last_id \in Acked .. last_id'
      /\ last_id' \in Nat /\ Acked \in Nat
  BY Ranges, ChannelAssumption
<1>3. AckOf(r_la') = AckNum(last_id')  BY <1>2, AckOfLevel
<1>4. AckInv /\ ack_net \in Seq(SeqNum)  BY DEF IInv, TypeOK, ChanTypeOK
<1> QED BY <1>1, <1>2, <1>3, <1>4, SendAckInv

\* A step that writes and buffers nothing.
LEMMA RecvQuiet ==
  ASSUME IInv, UNCHANGED sendVars,
         UNCHANGED <<r_la, received, last_id, r_root, file>>,
         RecvTypeOK', ExitInv', r_pc' \in {"hello", "open"} => last_id = 0
  PROVE  RecvInv'
<1>1. Acked' = Acked /\ packet_id' = packet_id  BY SendFrame DEF sendVars
<1>2. WrittenInv'  BY <1>1 DEF IInv, RecvInv, WrittenInv
<1>3. BufferInv'  BY <1>1 DEF IInv, RecvInv, BufferInv
<1> QED BY <1>2, <1>3 DEF RecvInv

\* The first datagram only starts recvfile: nothing is buffered for it.
LEMMA RecvHelloInv ==
  ASSUME IInv, NEW m, RecvHello(m), UNCHANGED sendVars
  PROVE  IInv'
<1> USE DEF RecvHello
<1>1. packet_id' = packet_id  BY DEF sendVars
<1>2. DataInv'  BY <1>1, TakeDataInv DEF IInv
<1>3. last_id = 0 /\ r_la = 0 % SEQ_LEN /\ last_id' = last_id /\ r_la' = r_la
  BY DEF IInv, RecvInv, WrittenInv
<1>4. AckOf(0 % SEQ_LEN) = SEQ_LEN - 1
  <2> DEFINE e == SEQ_LEN - 1
  <2>1. AckOf(0 % SEQ_LEN) = (0 + SEQ_LEN - 1) % SEQ_LEN
    BY AckOfLevel DEF AckNum
  <2>2. 0 + SEQ_LEN - 1 = e /\ e \in 0 .. 2 * SEQ_LEN - 1 /\ e < SEQ_LEN
    BY WindowAssumption
  <2> HIDE DEF e
  <2>3. e % SEQ_LEN = e  BY <2>2, ModSmall
  <2> QED BY <2>1, <2>2, <2>3 DEF e
<1>5. last_id' \in last_id .. NCHUNKS  BY <1>3, ChannelAssumption
<1>6. AckInv' /\ ack_net' \in Seq(SeqNum)  BY <1>3, <1>4, <1>5, AckStep
<1>7. RecvTypeOK' /\ ExitInv'
  BY <1>1 DEF IInv, TypeOK, RecvTypeOK, RecvInv, ExitInv
<1>8. RecvInv'  BY <1>3, <1>7, RecvQuiet
<1> QED BY <1>2, <1>6, <1>7, <1>8, ReceiverStepInv

\* fopen of the output file leaves the transfer untouched.
LEMMA OpenFileInv ==
  ASSUME IInv, OpenFile, UNCHANGED sendVars
  PROVE  IInv'
<1> USE DEF OpenFile
<1>1. packet_id' = packet_id /\ Acked' = Acked /\ last_id' = last_id
  BY SendFrame DEF sendVars
<1>2. DataInv' /\ AckInv' /\ ack_net' \in Seq(SeqNum)  BY <1>1, NetFrame
<1>3. RecvTypeOK' /\ ExitInv'
  BY <1>1 DEF IInv, TypeOK, RecvTypeOK, RecvInv, ExitInv
<1>4. RecvInv'  BY <1>3, RecvQuiet DEF IInv, RecvInv, WrittenInv
<1> QED BY <1>2, <1>3, <1>4, ReceiverStepInv

\* A turn of the loop that leaves what is written and buffered.
LEMMA IdleTurnInv ==
  ASSUME IInv, UNCHANGED sendVars, DataInv',
         UNCHANGED <<r_la, received, last_id, r_root, file>>,
         SendAck(AckOf(r_la)), RecvTypeOK', ExitInv',
         r_pc' \notin {"hello", "open"}
  PROVE  IInv'
<1>1. last_id' \in last_id .. NCHUNKS /\ r_la' = last_id' % SEQ_LEN
  BY Ranges, ChannelAssumption DEF IInv, RecvInv, WrittenInv
<1>2. AckInv' /\ ack_net' \in Seq(SeqNum)  BY <1>1, AckStep
<1>3. RecvInv'  BY RecvQuiet
<1> QED BY <1>2, <1>3, ReceiverStepInv

\* A turn without a packet repeats the acknowledgement of last_id.
LEMMA RecvNothingInv ==
  ASSUME IInv, RecvNothing, UNCHANGED sendVars
  PROVE  IInv'
<1> USE DEF RecvNothing, recvVars
<1>1. packet_id' = packet_id  BY DEF sendVars
<1>2. DataInv'  BY <1>1, Ranges, DataInvFrame DEF IInv
<1>3. RecvTypeOK' /\ ExitInv'
  BY <1>1 DEF IInv, TypeOK, RecvTypeOK, RecvInv, ExitInv
<1> QED BY <1>2, <1>3, IdleTurnInv

\* A packet that is already written only repeats the acknowledgement.
LEMMA RecvStaleInv ==
  ASSUME IInv, NEW m, RecvStale(m), UNCHANGED sendVars
  PROVE  IInv'
<1> USE DEF RecvStale, recvVars
<1>1. packet_id' = packet_id  BY DEF sendVars
<1>2. DataInv'  BY <1>1, TakeDataInv DEF IInv
<1>3. RecvTypeOK' /\ ExitInv'
  BY <1>1 DEF IInv, TypeOK, RecvTypeOK, RecvInv, ExitInv
<1> QED BY <1>2, <1>3, IdleTurnInv

\* An acknowledgement after fclose counts the final ones down.
LEMMA FinalAckInv ==
  ASSUME IInv, FinalAck, UNCHANGED sendVars
  PROVE  IInv'
<1> USE DEF FinalAck
<1>1. packet_id' = packet_id  BY DEF sendVars
<1>2. DataInv'  BY <1>1, Ranges, DataInvFrame DEF IInv
<1>3. r_count \in 0 .. FINAL_ACKS /\ r_count > 0
  BY DEF IInv, TypeOK, RecvTypeOK, RecvInv, ExitInv
<1>4. RecvTypeOK' /\ ExitInv'
  BY <1>1, <1>3, FinalAcksAssumption DEF IInv, TypeOK, RecvTypeOK, RecvInv, ExitInv
<1>5. r_pc' \notin {"hello", "open"}  OBVIOUS
<1> QED BY <1>2, <1>4, <1>5, IdleTurnInv

\* A fresh packet is one of the next WINDOW_LEN of the file, at the offset of
\* its place from the next one.
LEMMA FreshPacket ==
  ASSUME IInv, NEW m, TakeData(m), Fresh(m)
  PROVE  \E p \in last_id + 1 .. packet_id :
           /\ m = Pkt(p)
           /\ m.seq = (r_la + (p - last_id - 1)) % SEQ_LEN
           /\ p - last_id - 1 \in 0 .. WINDOW_LEN - 1
<1>1. m = Hello \/ \E p \in 1 .. packet_id : m = Pkt(p)
  BY DEF TakeData, IInv, DataInv
<1>2. last_id \in Nat /\ packet_id \in Nat /\ packet_id <= last_id + WINDOW_LEN
  BY Ranges, WindowAssumption
<1>3. m # Hello
  BY <1>2 DEF Fresh, Hello
<1>4. PICK p \in 1 .. packet_id : m = Pkt(p)  BY <1>1, <1>3
<1>5. p > last_id  BY <1>4 DEF Fresh, Pkt
<1> DEFINE e == p - last_id - 1
<1>6. e \in 0 .. WINDOW_LEN - 1 /\ p \in last_id + 1 .. packet_id
  BY <1>2, <1>5, WindowAssumption
<1>7. m.seq = (r_la + e) % SEQ_LEN
  <2>1. r_la = last_id % SEQ_LEN  BY DEF IInv, RecvInv, WrittenInv
  <2>2. m.seq = (p - 1) % SEQ_LEN  BY <1>4 DEF Pkt
  <2>3. last_id \in Int /\ e \in Int /\ last_id + e = p - 1
    BY <1>2, <1>6
  <2> HIDE DEF e
  <2>4. (r_la + e) % SEQ_LEN = (last_id + e) % SEQ_LEN
    BY <2>1, <2>3, ModAdd
  <2> QED BY <2>2, <2>3, <2>4
<1> QED BY <1>4, <1>6, <1>7

\* Noting a last packet.
LEMMA NotedLastPacket ==
  ASSUME IInv, NEW p \in 1 .. packet_id, NEW m, m = Pkt(p)
  PROVE  /\ NotedExit(m) \in 0 .. 2
         /\ NotedLast(m) \in SeqNum \cup {-1}
         /\ NotedExit(m) # 0 =>
              packet_id = NCHUNKS /\ NotedLast(m) = (NCHUNKS - 1) % SEQ_LEN
         /\ r_pc = "run" => NotedExit(m) # 2
<1>1. ready_exit \in 0 .. 2 /\ r_last \in SeqNum \cup {-1}
  BY DEF IInv, TypeOK, RecvTypeOK
<1>2. /\ ready_exit # 0 => packet_id = NCHUNKS /\ r_last = (NCHUNKS - 1) % SEQ_LEN
      /\ r_pc = "run" => ready_exit # 2
  BY DEF IInv, RecvInv, ExitInv
<1>3. packet_id \in 0 .. NCHUNKS  BY Ranges
<1>4. CASE p = NCHUNKS
  <2>1. m.type = 4 /\ m.seq = (NCHUNKS - 1) % SEQ_LEN /\ packet_id = NCHUNKS
    BY <1>3, <1>4, ChannelAssumption DEF Pkt
  <2>2. m.seq \in SeqNum  BY <2>1, ModRange, ChannelAssumption
  <2> QED BY <2>1, <2>2 DEF NotedExit, NotedLast
<1>5. CASE p # NCHUNKS
  <2>1. m.type # 4  BY <1>5 DEF Pkt
  <2> QED BY <1>1, <1>2, <2>1 DEF NotedExit, NotedLast
<1> QED BY <1>4, <1>5

\* A fresh packet that is not accepted may still announce the last number.
LEMMA RecvIgnoredInv ==
  ASSUME IInv, NEW m, RecvIgnored(m), UNCHANGED sendVars
  PROVE  IInv'
<1>1. /\ r_pc = "run" /\ TakeData(m) /\ Fresh(m) /\ SendAck(AckOf(r_la))
      /\ ready_exit' = NotedExit(m) /\ r_last' = NotedLast(m)
      /\ UNCHANGED <<r_pc, r_la, received, last_id, r_root, file, r_count>>
  BY DEF RecvIgnored
<1>2. packet_id' = packet_id  BY DEF sendVars
<1>3. PICK p \in last_id + 1 .. packet_id : m = Pkt(p)
  BY <1>1, FreshPacket
<1>4. p \in 1 .. packet_id  BY Ranges
<1>5. DataInv'  BY <1>1, <1>2, TakeDataInv DEF IInv
<1>6. /\ NotedExit(m) \in 0 .. 2 /\ NotedExit(m) # 2
      /\ NotedLast(m) \in SeqNum \cup {-1}
      /\ NotedExit(m) # 0 =>
           packet_id = NCHUNKS /\ NotedLast(m) = (NCHUNKS - 1) % SEQ_LEN
  BY <1>1, <1>3, <1>4, NotedLastPacket
<1>7. RecvTypeOK'
  BY <1>1, <1>6 DEF IInv, TypeOK, RecvTypeOK
<1>8. ExitInv'
  BY <1>1, <1>2, <1>6 DEF IInv, RecvInv, ExitInv
<1> QED BY <1>1, <1>5, <1>7, <1>8, IdleTurnInv

\* The reassembly queue once an acceptable packet is in its slot: every filled
\* slot holds its chunk, the slots before c are filled and slot c is not.
LEMMA FilledSlots ==
  ASSUME IInv, NEW m, NEW c \in 0 .. WINDOW_LEN,
         TakeData(m), Fresh(m), Released(m, c)
  PROVE  /\ Buffer(m) \in [1 .. WINDOW_LEN -> Chunk \cup {NoData}]
         /\ Filled(m) \subseteq SeqNum
         /\ \A d \in 0 .. SEQ_LEN - 1 :
              (r_la + d) % SEQ_LEN \in Filled(m) =>
                /\ d < WINDOW_LEN
                /\ last_id + d + 1 <= packet_id
                /\ Buffer(m)[d + 1] = last_id + d + 1
         /\ \A d \in 0 .. c - 1 : (r_la + d) % SEQ_LEN \in Filled(m)
         /\ c = WINDOW_LEN \/ (r_la + c) % SEQ_LEN \notin Filled(m)
<1>1. PICK p \in last_id + 1 .. packet_id :
        /\ m = Pkt(p)
        /\ m.seq = (r_la + (p - last_id - 1)) % SEQ_LEN
        /\ p - last_id - 1 \in 0 .. WINDOW_LEN - 1
  BY FreshPacket
<1> DEFINE e == p - last_id - 1
<1>2. /\ last_id \in Nat /\ packet_id \in Nat /\ r_la \in SeqNum
      /\ packet_id <= last_id + WINDOW_LEN /\ packet_id <= NCHUNKS
      /\ p = last_id + e + 1
  BY Ranges, WindowAssumption, ChannelAssumption
<1>3. e \in 0 .. WINDOW_LEN - 1 /\ e \in SeqNum /\ m.seq = (r_la + e) % SEQ_LEN
  BY <1>1, WindowAssumption DEF SeqNum
<1>4. m.data = last_id + e + 1  BY <1>1, <1>2 DEF Pkt
<1> HIDE DEF e
<1>5. MapToWindow(r_la, m.seq) = e  BY <1>2, <1>3, MapToWindowOffset
<1>6. m.seq \in SeqNum  BY <1>2, <1>3, OffsetRange DEF SeqNum
<1>7. r_root \in [1 .. WINDOW_LEN -> Chunk \cup {NoData}] /\ received \subseteq SeqNum
  BY DEF IInv, TypeOK, RecvTypeOK
<1>8. Buffer(m) \in [1 .. WINDOW_LEN -> Chunk \cup {NoData}]
      /\ Buffer(m) = [r_root EXCEPT ![e + 1] = last_id + e + 1]
  <2>1. Buffer(m) = [r_root EXCEPT ![e + 1] = last_id + e + 1]
    BY <1>4, <1>5 DEF Buffer
  <2>2. last_id + e + 1 \in Chunk
    BY <1>1, <1>2, ChannelAssumption DEF Chunk
  <2> QED BY <1>7, <2>1, <2>2
<1>9. Filled(m) \subseteq SeqNum  BY <1>6, <1>7 DEF Filled
<1>10. ASSUME NEW d \in 0 .. SEQ_LEN - 1, (r_la + d) % SEQ_LEN \in Filled(m)
       PROVE  /\ d < WINDOW_LEN
              /\ last_id + d + 1 <= packet_id
              /\ Buffer(m)[d + 1] = last_id + d + 1
  <2>1. e + 1 \in 1 .. WINDOW_LEN  BY <1>3, WindowAssumption
  <2>2. CASE d = e
    <3>1. Buffer(m)[e + 1] = last_id + e + 1  BY <1>7, <1>8, <2>1
    <3>2. e < WINDOW_LEN /\ last_id + e + 1 <= packet_id
      BY <1>1, <1>2, <1>3, WindowAssumption
    <3> QED BY <2>2, <3>1, <3>2
  <2>3. CASE d # e
    <3>1. (r_la + d) % SEQ_LEN # m.seq
      <4>1. d \in SeqNum  BY DEF SeqNum
      <4> QED BY <1>2, <1>3, <2>3, <4>1, OffsetUnique
    <3>2. (r_la + d) % SEQ_LEN \in received  BY <1>10, <3>1 DEF Filled
    <3>3. last_id + d + 1 <= packet_id /\ r_root[d + 1] = last_id + d + 1
      BY <3>2 DEF IInv, RecvInv, BufferInv
    <3>4. d < WINDOW_LEN /\ d + 1 \in 1 .. WINDOW_LEN /\ d + 1 # e + 1
      BY <1>2, <1>3, <2>3, <3>3, WindowAssumption
    <3> QED BY <1>7, <1>8, <3>3, <3>4
  <2> QED BY <2>2, <2>3
<1>11. /\ \A d \in 0 .. c - 1 : (r_la + d) % SEQ_LEN \in Filled(m)
       /\ c = WINDOW_LEN \/ (r_la + c) % SEQ_LEN \notin Filled(m)
  <2>1. CASE m.seq = r_la
    BY <2>1 DEF Released, FilledRun
  <2>2. CASE m.seq # r_la
    <3>1. c = 0  BY <2>2 DEF Released
    <3>2. (r_la + 0) % SEQ_LEN = r_la
      <4>1. r_la + 0 = r_la /\ r_la \in 0 .. 2 * SEQ_LEN - 1 /\ r_la < SEQ_LEN
        BY <1>2, WindowAssumption DEF SeqNum
      <4> QED BY <4>1, ModSmall
    <3>3. 0 \in 0 .. SEQ_LEN - 1  BY WindowAssumption
    <3>4. (r_la + 0) % SEQ_LEN \notin received
      BY <3>3 DEF IInv, RecvInv, BufferInv
    <3>5. (r_la + c) % SEQ_LEN \notin Filled(m)
      BY <2>2, <3>1, <3>2, <3>4 DEF Filled
    <3> QED BY <3>1, <3>5
  <2> QED BY <2>1, <2>2
<1> QED BY <1>8, <1>9, <1>10, <1>11

\* Writing the next c chunks extends the file by exactly these.
LEMMA WriteRun ==
  ASSUME NEW n \in Nat, NEW c \in Nat, NEW b,
         \A p \in 1 .. c : b[p] = n + p
  PROVE  [p \in 1 .. n |-> p] \o [p \in 1 .. c |-> b[p]] = [p \in 1 .. n + c |-> p]
<1> DEFINE f == [p \in 1 .. n |-> p]
           g == [p \in 1 .. c |-> b[p]]
           h == [p \in 1 .. n + c |-> p]
<1>1. f \in Seq(Nat) /\ Len(f) = n  OBVIOUS
<1>2. g \in Seq(Nat) /\ Len(g) = c
  <2>1. \A p \in 1 .. c : b[p] \in Nat  OBVIOUS
  <2> QED BY <2>1
<1>3. h \in Seq(Nat) /\ Len(h) = n + c  OBVIOUS
<1>4. \A p \in 1 .. n : f[p] = p  OBVIOUS
<1>5. \A p \in 1 .. c : g[p] = n + p  OBVIOUS
<1>6. \A p \in 1 .. n + c : h[p] = p  OBVIOUS
<1> HIDE DEF f, g, h
<1>7. /\ f \o g \in Seq(Nat)
      /\ Len(f \o g) = n + c
      /\ \A p \in 1 .. n + c : (f \o g)[p] = IF p <= n THEN f[p] ELSE g[p - n]
  BY <1>1, <1>2, ConcatProperties
<1>8. \A p \in 1 .. n + c : (f \o g)[p] = h[p]
  <2> TAKE p \in 1 .. n + c
  <2>1. p <= n \/ (p - n \in 1 .. c /\ n + (p - n) = p)  OBVIOUS
  <2> QED BY <1>4, <1>5, <1>6, <1>7, <2>1
<1>9. f \o g = h  BY <1>3, <1>7, <1>8, SeqEqual
<1> QED BY <1>9 DEF f, g, h

\* An acceptable packet is buffered, the run it completes is written, and the
\* window slides past it.
LEMMA RecvAcceptedInv ==
  ASSUME IInv, NEW m, NEW c \in 0 .. WINDOW_LEN, RecvAccepted(m, c),
         UNCHANGED sendVars
  PROVE  IInv'
<1> DEFINE exit == NotedExit(m)
<1>1. /\ r_pc = "run" /\ TakeData(m) /\ Fresh(m) /\ Acceptable(m) /\ Released(m, c)
      /\ file' = file \o [p \in 1 .. c |-> Buffer(m)[p]]
      /\ r_root' = [p \in 1 .. WINDOW_LEN |->
                      IF p + c <= WINDOW_LEN THEN Buffer(m)[p + c] ELSE NoData]
      /\ received' = Filled(m) \ {(r_la + j) % SEQ_LEN : j \in 0 .. c - 1}
      /\ last_id' = last_id + c
      /\ r_last' = NotedLast(m)
      /\ ready_exit' = IF exit # 0 /\ r_last' = r_la + c - 1 THEN 2 ELSE exit
      /\ r_la' = (r_la + c) % SEQ_LEN
      /\ r_pc' = IF ready_exit' = 2 THEN "final" ELSE r_pc
      /\ SendAck(AckOf(r_la')) /\ r_count' = r_count
  BY DEF RecvAccepted
<1>2. /\ Buffer(m) \in [1 .. WINDOW_LEN -> Chunk \cup {NoData}]
      /\ Filled(m) \subseteq SeqNum
      /\ \A d \in 0 .. SEQ_LEN - 1 :
           (r_la + d) % SEQ_LEN \in Filled(m) =>
             /\ d < WINDOW_LEN
             /\ last_id + d + 1 <= packet_id
             /\ Buffer(m)[d + 1] = last_id + d + 1
      /\ \A d \in 0 .. c - 1 : (r_la + d) % SEQ_LEN \in Filled(m)
      /\ c = WINDOW_LEN \/ (r_la + c) % SEQ_LEN \notin Filled(m)
  BY <1>1, FilledSlots
<1>3. PICK p \in last_id + 1 .. packet_id : m = Pkt(p)
  BY <1>1, FreshPacket
<1> HIDE DEF exit
<1>4. /\ last_id \in Nat /\ packet_id \in Nat /\ packet_id <= NCHUNKS
      /\ packet_id <= last_id + WINDOW_LEN /\ r_la \in SeqNum /\ c \in Nat
      /\ Acked <= last_id /\ Acked \in Nat
  BY Ranges, WindowAssumption, ChannelAssumption
<1>5. packet_id' = packet_id /\ Acked' = Acked  BY SendFrame DEF sendVars
<1>6. DataInv'  BY <1>1, <1>5, TakeDataInv DEF IInv
<1>7. /\ last_id + c <= packet_id
      /\ \A q \in 1 .. c : Buffer(m)[q] = last_id + q
  <2>1. ASSUME NEW q \in 1 .. c
        PROVE  last_id + q <= packet_id /\ Buffer(m)[q] = last_id + q
    <3> DEFINE d == q - 1
    <3>1. d \in 0 .. c - 1 /\ d \in 0 .. SEQ_LEN - 1 /\ d + 1 = q
          /\ last_id + d + 1 = last_id + q
      BY <1>4, WindowAssumption
    <3> HIDE DEF d
    <3> QED BY <1>2, <3>1
  <2>2. c = 0 \/ c \in 1 .. c  BY <1>4
  <2> QED BY <1>3, <1>4, <2>1, <2>2
<1>8. r_la' = last_id' % SEQ_LEN
  <2>1. r_la = last_id % SEQ_LEN  BY DEF IInv, RecvInv, WrittenInv
  <2>2. ((last_id % SEQ_LEN) + c) % SEQ_LEN = (last_id + c) % SEQ_LEN
    BY <1>4, ModAdd
  <2> QED BY <1>1, <2>1, <2>2
<1>9. last_id' \in last_id .. NCHUNKS  BY <1>1, <1>4, <1>7, ChannelAssumption
<1>10. AckInv' /\ ack_net' \in Seq(SeqNum)  BY <1>1, <1>8, <1>9, AckStep
<1>11. WrittenInv'
  <2>1. file = [q \in 1 .. last_id |-> q]  BY DEF IInv, RecvInv, WrittenInv
  <2>2. file' = [q \in 1 .. last_id + c |-> q]
    BY <1>1, <1>4, <1>7, <2>1, WriteRun
  <2>3. Acked' <= last_id' /\ last_id' <= packet_id'
    BY <1>1, <1>4, <1>5, <1>7
  <2>4. r_pc' \notin {"hello", "open"}  BY <1>1
  <2> QED BY <1>1, <1>8, <2>2, <2>3, <2>4 DEF WrittenInv
<1>12. BufferInv'
  <2> SUFFICES ASSUME NEW x \in 0 .. SEQ_LEN - 1,
                      (r_la' + x) % SEQ_LEN \in received'
               PROVE  /\ x # 0
                      /\ last_id' + x + 1 <= packet_id'
                      /\ r_root'[x + 1] = last_id' + x + 1
    BY DEF BufferInv
  <2> DEFINE y == IF c + x < SEQ_LEN THEN c + x ELSE c + x - SEQ_LEN
  <2>1. y \in SeqNum /\ (r_la' + x) % SEQ_LEN = (r_la + y) % SEQ_LEN
    <3>1. c \in 0 .. SEQ_LEN - 1  BY WindowAssumption
    <3>2. y = IF c + x < SEQ_LEN THEN c + x ELSE c + x - SEQ_LEN  OBVIOUS
    <3>3. r_la' = (r_la + c) % SEQ_LEN /\ r_la \in SeqNum  BY <1>1, <1>4
    <3> HIDE DEF y
    <3> QED BY <3>1, <3>2, <3>3, OffsetShift
  <2>2. /\ y = c + x \/ y < c
        /\ y \in 0 .. SEQ_LEN - 1
    BY <1>4, <2>1, WindowAssumption DEF SeqNum
  <2> HIDE DEF y
  <2>3. (r_la + y) % SEQ_LEN \in Filled(m) /\ ~ (y \in 0 .. c - 1)
    BY <1>1, <2>1
  <2>4. y = c + x  BY <1>4, <2>2, <2>3, WindowAssumption
  <2>5. y < WINDOW_LEN /\ last_id + y + 1 <= packet_id
        /\ Buffer(m)[y + 1] = last_id + y + 1
    BY <1>2, <2>2, <2>3
  <2>6. x # 0
    <3> SUFFICES ASSUME x = 0 PROVE FALSE  OBVIOUS
    <3>1. y = c  BY <1>4, <2>4
    <3> QED BY <1>2, <1>4, <2>3, <2>5, <3>1
  <2>7. last_id' + x + 1 = last_id + y + 1  BY <1>1, <1>4, <2>4
  <2>8. r_root'[x + 1] = Buffer(m)[y + 1]
    <3>1. x + 1 \in 1 .. WINDOW_LEN /\ (x + 1) + c = y + 1 /\ y + 1 <= WINDOW_LEN
      BY <1>4, <2>4, <2>5, WindowAssumption
    <3> QED BY <1>1, <3>1
  <2> QED BY <1>5, <2>5, <2>6, <2>7, <2>8
<1>13. p \in 1 .. packet_id  BY <1>3, <1>4
<1>14. /\ exit \in 0 .. 2 /\ exit # 2 /\ r_last' \in SeqNum \cup {-1}
       /\ exit # 0 => packet_id = NCHUNKS /\ r_last' = (NCHUNKS - 1) % SEQ_LEN
  BY <1>1, <1>3, <1>13, NotedLastPacket DEF exit
<1>15. ready_exit' = 2 => last_id' = NCHUNKS
  <2> SUFFICES ASSUME exit # 0, r_last' = r_la + c - 1
               PROVE  last_id + c = NCHUNKS
    BY <1>1, <1>14
  <2> DEFINE g == NCHUNKS - 1 - last_id
  <2>1. g \in 0 .. WINDOW_LEN - 1 /\ g \in SeqNum /\ last_id + g = NCHUNKS - 1
    BY <1>3, <1>4, <1>14, WindowAssumption, ChannelAssumption DEF SeqNum
  <2> HIDE DEF g
  <2>2. (r_la + g) % SEQ_LEN = (NCHUNKS - 1) % SEQ_LEN
    <3>1. r_la = last_id % SEQ_LEN  BY DEF IInv, RecvInv, WrittenInv
    <3>2. g \in Int /\ last_id \in Int  BY <1>4, <2>1
    <3> QED BY <2>1, <3>1, <3>2, ModAdd
  <2>3. (r_la + g) % SEQ_LEN
          = IF r_la + g < SEQ_LEN THEN r_la + g ELSE r_la + g - SEQ_LEN
    BY <1>4, <2>1, OffsetValue
  <2>4. (r_la + g) % SEQ_LEN = r_la + c - 1  BY <1>14, <2>2
  <2>5. r_la \in Nat /\ g \in Nat /\ c \in 0 .. WINDOW_LEN
    BY <1>4, <2>1 DEF SeqNum
  <2>6. g = c - 1
    BY <2>1, <2>3, <2>4, <2>5, WindowAssumption
  <2> QED BY <1>4, <2>1, <2>6, ChannelAssumption
<1>16. ExitInv'
  <2>1. r_count > 0 /\ ready_exit' \in 0 .. 2
    BY <1>1, <1>14 DEF IInv, RecvInv, ExitInv
  <2> QED BY <1>1, <1>5, <1>14, <1>15, <2>1 DEF ExitInv
<1>17. RecvTypeOK'
  <2>1. r_la' \in SeqNum  BY <1>8, <1>9, ModRange, <1>4
  <2>2. received' \subseteq SeqNum  BY <1>1, <1>2
  <2>3. last_id' \in Nat  BY <1>1, <1>4
  <2>4. r_root' \in [1 .. WINDOW_LEN -> Chunk \cup {NoData}]
    <3> SUFFICES ASSUME NEW q \in 1 .. WINDOW_LEN
                 PROVE  (IF q + c <= WINDOW_LEN THEN Buffer(m)[q + c] ELSE NoData)
                          \in Chunk \cup {NoData}
      BY <1>1
    <3>1. q + c <= WINDOW_LEN => q + c \in 1 .. WINDOW_LEN
      BY <1>4, WindowAssumption
    <3> QED BY <1>2, <3>1
  <2>5. file' \in Seq(Chunk \cup {NoData})
    <3>1. file' = [q \in 1 .. last_id' |-> q] /\ last_id' \in Nat
      BY <1>11, <2>3 DEF WrittenInv
    <3>2. \A q \in 1 .. last_id' : q \in Chunk
      BY <1>9, <2>3, ChannelAssumption DEF Chunk
    <3> QED BY <3>1, <3>2, IsASeq
  <2>6. r_pc' \in {"run", "final"} /\ ready_exit' \in 0 .. 2
    BY <1>1, <1>14
  <2>7. r_count' \in 0 .. FINAL_ACKS
    BY <1>1 DEF IInv, TypeOK, RecvTypeOK
  <2> QED BY <1>14, <2>1, <2>2, <2>3, <2>4, <2>5, <2>6, <2>7 DEF RecvTypeOK
<1>18. RecvInv'  BY <1>11, <1>12, <1>16 DEF RecvInv
<1> QED BY <1>6, <1>10, <1>17, <1>18, ReceiverStepInv

\* Every step of recvfile.
LEMMA ReceiverStepPreserves ==
  ASSUME IInv, ReceiverStep
  PROVE  IInv'
<1>1. ASSUME NEW m \in data_net, RecvHello(m) \/ RecvStale(m) \/ RecvIgnored(m)
      PROVE  IInv'
  BY <1>1, RecvHelloInv, RecvStaleInv, RecvIgnoredInv DEF ReceiverStep
<1>2. ASSUME NEW m \in data_net, NEW c \in 0 .. WINDOW_LEN, RecvAccepted(m, c)
      PROVE  IInv'
  BY <1>2, RecvAcceptedInv DEF ReceiverStep
<1>3. CASE OpenFile \/ RecvNothing \/ FinalAck
  BY <1>3, OpenFileInv, RecvNothingInv, FinalAckInv DEF ReceiverStep
<1> QED BY <1>1, <1>2, <1>3 DEF ReceiverStep, RecvNext, RecvPacket

-----------------------------------------------------------------------------
(* The invariant, and the safety properties of FileTransfer that it implies. *)

\* IInv holds in every reachable state: nothing either program does, in any
\* order and with any loss or duplication on the path, breaks it.
THEOREM Invariance == Spec => []IInv
<1>1. Init => IInv  BY InitInv
<1>2. IInv /\ [Next]_vars => IInv'
  <2> SUFFICES ASSUME IInv, [Next]_vars PROVE IInv'  OBVIOUS
  <2>1. CASE SenderStep  BY <2>1, SenderStepPreserves
  <2>2. CASE ReceiverStep  BY <2>2, ReceiverStepPreserves
  <2>3. CASE UNCHANGED vars
    <3>1. UNCHANGED sendVars /\ UNCHANGED recvVars /\ UNCHANGED chanVars
          /\ packet_id' = packet_id /\ last_id' = last_id
      BY <2>3 DEF vars, sendVars, recvVars
    <3>2. Acked' = Acked  BY <3>1, SendFrame
    <3>3. DataInv' /\ AckInv' /\ ack_net' \in Seq(SeqNum)
      BY <3>1, <3>2, NetFrame
    <3>4. packet_id' \in packet_id .. NCHUNKS /\ Acked' \in 0 .. last_id
      BY <3>1, <3>2, Ranges, ChannelAssumption
    <3>5. RecvTypeOK' /\ RecvInv'  BY <3>1, <3>4, RecvFrame
    <3> QED BY <3>1, <3>3, <3>5, ReceiverStepInv
  <2> QED BY <2>1, <2>2, <2>3 DEF Next, Ended
<1> QED BY <1>1, <1>2, PTL DEF Spec

\* Every variable keeps the range its declaration in the code gives it.
THEOREM TypeCorrect == Spec => []TypeOK
<1>1. IInv => TypeOK  BY DEF IInv
<1> QED BY <1>1, Invariance, PTL

\* README.txt's promise of delivery: what recvfile has written is the chunks
\* of the file in order from the first, whatever the window and sequence
\* lengths (WINDOW_LEN < SEQ_LEN) and however long the file.
THEOREM DeliveryInOrder == Spec => []InOrderPrefix
<1>1. IInv => InOrderPrefix
  <2> SUFFICES ASSUME IInv PROVE InOrderPrefix  OBVIOUS
  <2>1. file = [p \in 1 .. last_id |-> p]  BY DEF IInv, RecvInv, WrittenInv
  <2>2. last_id \in Nat /\ last_id <= NCHUNKS  BY Ranges, ChannelAssumption
  <2>3. Len(file) = last_id  BY <2>1, <2>2
  <2> QED BY <2>1, <2>2, <2>3 DEF InOrderPrefix
<1> QED BY <1>1, Invariance, PTL

\* The length of what is written is last_id.
LEMMA WrittenLength == ASSUME IInv PROVE Len(file) = last_id
<1>1. file = [p \in 1 .. last_id |-> p]  BY DEF IInv, RecvInv, WrittenInv
<1>2. last_id \in Nat  BY Ranges
<1> QED BY <1>1, <1>2

\* sendfile never frees a packet that recvfile may still need.
THEOREM NothingForgotten == Spec => []AckedIsWritten
<1>1. IInv => AckedIsWritten
  <2> SUFFICES ASSUME IInv PROVE AckedIsWritten  OBVIOUS
  <2>1. Len(file) = last_id /\ last_id \in Acked .. packet_id
    BY WrittenLength, Ranges
  <2> QED BY <2>1, Ranges DEF AckedIsWritten
<1> QED BY <1>1, Invariance, PTL

\* sendfile reports completion only when the whole file is written.
THEOREM CompletionIsTrue == Spec => []CompletedIsWritten
<1>1. IInv => CompletedIsWritten
  <2> SUFFICES ASSUME IInv, s_pc = "done" PROVE Len(file) = NCHUNKS
    BY DEF CompletedIsWritten
  <2>1. Len(file) = last_id /\ last_id \in Acked .. packet_id
    BY WrittenLength, Ranges
  <2>2. packet_id = NCHUNKS /\ Len(s_root) = 0
    BY DEF IInv, SendInv, QueueInv
  <2> QED BY <2>1, <2>2, Ranges, ChannelAssumption
<1> QED BY <1>1, Invariance, PTL

\* The queue of sendfile and its alarm table always agree, so a node exists
\* for every alarm that expires and holds the packet of its slot.
THEOREM QueueAndAlarms == Spec => []QueueMatchesAlarms
<1>1. IInv => QueueMatchesAlarms
  <2> SUFFICES ASSUME IInv, s_pc \in {"poll", "window"}
               PROVE  /\ Len(s_root) <= WINDOW_LEN
                      /\ \A j \in 0 .. WINDOW_LEN - 1 :
                           /\ is_set[(s_la + j) % SEQ_LEN] # 0 <=> j < Len(s_root)
                           /\ j < Len(s_root) =>
                                s_root[j + 1].seq = (s_la + j) % SEQ_LEN
                      /\ \A k \in SeqNum \ WindowSeqs(s_la) : is_set[k] = 0
    BY DEF QueueMatchesAlarms
  <2>1. Len(s_root) \in 0 .. WINDOW_LEN /\ s_la \in SeqNum /\ Acked \in Nat
    BY Ranges
  <2>2. \A d \in 0 .. SEQ_LEN - 1 :
          is_set[(s_la + d) % SEQ_LEN] # 0 <=> d < Len(s_root)
    BY DEF IInv, SendInv, AlarmInv
  <2>3. ASSUME NEW j \in 0 .. WINDOW_LEN - 1
        PROVE  is_set[(s_la + j) % SEQ_LEN] # 0 <=> j < Len(s_root)
    BY <2>2, WindowAssumption
  <2>4. ASSUME NEW j \in 0 .. WINDOW_LEN - 1, j < Len(s_root)
        PROVE  s_root[j + 1].seq = (s_la + j) % SEQ_LEN
    <3> DEFINE b == Acked
    <3>1. j + 1 \in 1 .. Len(s_root)  BY <2>1, <2>4, WindowAssumption
    <3>2. s_root[j + 1] = Pkt(b + (j + 1)) /\ s_la = b % SEQ_LEN
      BY <3>1 DEF IInv, SendInv, QueueInv
    <3>3. b \in Int /\ j \in Int /\ b + (j + 1) - 1 = b + j
      BY <2>1, WindowAssumption
    <3> HIDE DEF b
    <3>4. s_root[j + 1].seq = (b + j) % SEQ_LEN  BY <3>2, <3>3 DEF Pkt
    <3> QED BY <3>2, <3>3, <3>4, ModAdd
  <2>5. ASSUME NEW k \in SeqNum \ WindowSeqs(s_la)
        PROVE  is_set[k] = 0
    <3>1. PICK d \in SeqNum : k = (s_la + d) % SEQ_LEN
      BY <2>1, OffsetExists
    <3>2. d \notin 0 .. WINDOW_LEN - 1  BY <2>5, <3>1 DEF WindowSeqs
    <3>3. d \in 0 .. SEQ_LEN - 1 /\ ~ (d < Len(s_root))
      BY <2>1, <3>2, WindowAssumption DEF SeqNum
    <3> QED BY <2>2, <3>1, <3>3
  <2> QED BY <2>1, <2>3, <2>4, <2>5, WindowAssumption
<1> QED BY <1>1, Invariance, PTL

\* A buffered slot of recvfile's reassembly queue holds the chunk that belongs
\* there, never one of an older or newer packet with the same number.
THEOREM BufferOrder == Spec => []BufferedInPlace
<1>1. IInv => BufferedInPlace
  BY WindowAssumption DEF IInv, RecvInv, BufferInv, BufferedInPlace
<1> QED BY <1>1, Invariance, PTL

\* sendfile reads nothing after the end of the file.
THEOREM ReadsOnlyTheFile == Spec => []NoReadPastEnd
<1>1. IInv => NoReadPastEnd
  BY DEF IInv, SendInv, QueueInv, NoReadPastEnd
<1> QED BY <1>1, Invariance, PTL

-----------------------------------------------------------------------------
(* The file transfer implements ReliableTransfer. *)

\* What recvfile shows of itself is changed by the write of a run only.
LEMMA ReceiverRefines ==
  ASSUME IInv, IInv', ReceiverStep
  PROVE  [RT!Next]_(RT!vars)
<1>1. /\ Acked' = Acked /\ (s_pc' = "done") = (s_pc = "done")
      /\ packet_id' = packet_id /\ UNCHANGED sendVars
  BY SendFrame DEF ReceiverStep, sendVars
<1>2. ASSUME UNCHANGED file,
             (r_pc' \in {"final", "done"}) = (r_pc \in {"final", "done"})
      PROVE  UNCHANGED RT!vars
  BY <1>1, <1>2 DEF RT!vars
<1>3. ASSUME NEW m \in data_net, RecvHello(m) \/ RecvStale(m) \/ RecvIgnored(m)
      PROVE  UNCHANGED RT!vars
  BY <1>2, <1>3 DEF RecvHello, RecvStale, RecvIgnored, recvVars
<1>4. CASE OpenFile \/ RecvNothing \/ FinalAck
  BY <1>2, <1>4 DEF OpenFile, RecvNothing, FinalAck, recvVars
<1>5. ASSUME NEW m \in data_net, NEW c \in 0 .. WINDOW_LEN, RecvAccepted(m, c)
      PROVE  RT!Next \/ UNCHANGED RT!vars
  <2>1. /\ r_pc = "run" /\ TakeData(m) /\ Fresh(m) /\ last_id' = last_id + c
        /\ r_pc' = IF ready_exit' = 2 THEN "final" ELSE r_pc
    BY <1>5 DEF RecvAccepted
  <2>2. PICK p \in last_id + 1 .. packet_id : m = Pkt(p)
    BY <2>1, FreshPacket
  <2>3. /\ last_id \in Nat /\ packet_id <= NCHUNKS /\ packet_id \in Nat
        /\ last_id < NCHUNKS /\ c \in Nat
    BY <2>2, Ranges, WindowAssumption, ChannelAssumption
  <2>4. /\ file = [q \in 1 .. last_id |-> q]
        /\ file' = [q \in 1 .. last_id + c |-> q]
        /\ last_id' <= packet_id'
    BY <2>1 DEF IInv, RecvInv, WrittenInv
  <2>5. Len(file) = last_id  BY <2>3, <2>4
  <2>6. ready_exit' = 2 => last_id' = NCHUNKS
    BY DEF IInv, RecvInv, ExitInv
  <2>7. CASE c = 0
    \* An accepted packet that is not the next one releases nothing.
    <3>1. file' = file  BY <2>3, <2>4, <2>7
    <3>2. ready_exit' # 2  BY <2>1, <2>3, <2>6, <2>7
    <3>3. r_pc' = "run"  BY <2>1, <3>2
    <3>4. UNCHANGED RT!vars  BY <1>2, <2>1, <3>1, <3>3
    <3> QED BY <3>4
  <2>8. CASE c # 0
    <3> DEFINE b == [q \in 1 .. c |-> Len(file) + q]
    <3>1. c \in 1 .. NCHUNKS /\ Len(file) + c <= NCHUNKS
      BY <1>1, <2>1, <2>3, <2>4, <2>5, <2>8, ChannelAssumption
    <3>2. file' = file \o [q \in 1 .. c |-> Len(file) + q]
      <4>1. \A q \in 1 .. c : b[q] = last_id + q  BY <2>5
      <4>2. b = [q \in 1 .. c |-> b[q]]  OBVIOUS
      <4> HIDE DEF b
      <4>3. [q \in 1 .. last_id |-> q] \o [q \in 1 .. c |-> b[q]]
              = [q \in 1 .. last_id + c |-> q]
        BY <2>3, <4>1, WriteRun
      <4>4. file' = file \o b  BY <2>4, <4>2, <4>3
      <4> QED BY <4>4 DEF b
    <3>3. ~ (r_pc \in {"final", "done"})  BY <2>1
    <3>4. /\ (r_pc' \in {"final", "done"}) \in BOOLEAN
          /\ r_pc' \in {"final", "done"} => Len(file) + c = NCHUNKS
      <4>1. (r_pc' \in {"final", "done"}) \in BOOLEAN  OBVIOUS
      <4>2. r_pc' \in {"final", "done"} => Len(file) + c = NCHUNKS
        BY <2>1, <2>5, <2>6
      <4> QED BY <4>1, <4>2
    <3>5. RT!Deliver(c)  BY <1>1, <3>1, <3>2, <3>3, <3>4 DEF RT!Deliver
    <3> QED BY <3>1, <3>5 DEF RT!Next
  <2> QED BY <2>7, <2>8
<1> QED BY <1>3, <1>4, <1>5 DEF ReceiverStep, RecvNext, RecvPacket

\* What sendfile shows of itself is changed by acknowledgements only.
LEMMA SenderRefines ==
  ASSUME IInv, IInv', SenderStep
  PROVE  [RT!Next]_(RT!vars)
<1>1. UNCHANGED recvVars /\ last_id \in Nat /\ Acked \in Nat /\ last_id <= NCHUNKS
      /\ Len(file) = last_id
  BY Ranges, WrittenLength, ChannelAssumption DEF SenderStep
<1>2. UNCHANGED file /\ UNCHANGED r_pc  BY <1>1 DEF recvVars
<1>3. ASSUME Acked' = Acked, s_pc # "done", s_pc' # "done"
      PROVE  UNCHANGED RT!vars
  BY <1>2, <1>3 DEF RT!vars
<1>4. ASSUME UNCHANGED <<s_root, packet_id>>, s_pc # "done", s_pc' # "done"
      PROVE  UNCHANGED RT!vars
  BY <1>3, <1>4 DEF Acked
<1>5. CASE SendHello \/ \E j \in 1 .. Len(ack_net) : RecvHelloAck(j)
  BY <1>4, <1>5 DEF SendHello, RecvHelloAck, sendVars
<1>6. ASSUME NEW T \in SUBSET Armed, NEW j \in 1 .. Len(ack_net),
             PollOldAck(T, j)
      PROVE  UNCHANGED RT!vars
  BY <1>4, <1>6 DEF PollOldAck, EnterWindow
<1>7. ASSUME NEW T \in SUBSET Armed, PollNothing(T)
      PROVE  UNCHANGED RT!vars
  BY <1>4, <1>7 DEF PollNothing, EnterWindow
<1>8. CASE WindowEnd \/ SlotWaiting \/ SlotResend \/ SlotSendFails
  BY <1>4, <1>8 DEF WindowEnd, SlotWaiting, SlotResend, SlotSendFails, AtSlot
<1>9. CASE SlotNew
  <2>1. Acked' = Acked  BY <1>1, <1>9, SlotNewInv
  <2>2. s_pc # "done" /\ s_pc' # "done"  BY <1>9 DEF SlotNew, AtSlot
  <2> QED BY <1>3, <2>1, <2>2
<1>10. ASSUME NEW T \in SUBSET Armed, NEW j \in 1 .. Len(ack_net),
              PollNewAck(T, j)
       PROVE  RT!Next
  <2>1. Acked' \in Acked + 1 .. last_id  BY <1>1, <1>10, PollNewAckInv
  <2>2. s_pc = "poll" /\ s_pc' = "window"
    BY <1>10 DEF PollNewAck, EnterWindow
  <2> DEFINE n == Acked'
  <2>3. n \in 1 .. NCHUNKS /\ n \in Acked .. Len(file)
    BY <1>1, <2>1, ChannelAssumption
  <2>4. RT!Forget(n)  BY <1>2, <2>2, <2>3 DEF RT!Forget
  <2> QED BY <2>3, <2>4 DEF RT!Next
<1>11. ASSUME NEW T \in SUBSET Armed, NEW j \in 1 .. Len(ack_net),
              PollLastAck(T, j)
       PROVE  RT!Next
  <2>1. last_id = NCHUNKS /\ Acked' = NCHUNKS
    BY <1>1, <1>11, PollLastAckInv
  <2>2. s_pc = "poll" /\ s_pc' = "done"  BY <1>11 DEF PollLastAck
  <2>3. RT!Finish  BY <1>1, <1>2, <2>1, <2>2 DEF RT!Finish
  <2> QED BY <2>3 DEF RT!Next
<1> QED BY <1>5, <1>6, <1>7, <1>8, <1>9, <1>10, <1>11
        DEF SenderStep, SendNext, Poll, Window

\* sendfile and recvfile together implement ReliableTransfer: every step of
\* either program is a delivery, a release, the sender's completion, or
\* invisible.
THEOREM ImplementsReliable == Spec => Reliable
<1>1. Init => RT!Init
  <2> SUFFICES ASSUME Init PROVE RT!Init  OBVIOUS
  <2>1. packet_id = 0  BY DEF Init, SendInit
  <2>2. Len(s_root) = 0  BY DEF Init, SendInit
  <2>3. Acked = 0  BY <2>1, <2>2 DEF Acked
  <2> QED BY <2>3 DEF Init, SendInit, RecvInit, RT!Init
<1>2. IInv /\ IInv' /\ [Next]_vars => [RT!Next]_(RT!vars)
  <2> SUFFICES ASSUME IInv, IInv', [Next]_vars
               PROVE  [RT!Next]_(RT!vars)
    OBVIOUS
  <2>1. CASE SenderStep  BY <2>1, SenderRefines
  <2>2. CASE ReceiverStep  BY <2>2, ReceiverRefines
  <2>3. CASE UNCHANGED vars
    BY <2>3 DEF vars, sendVars, recvVars, RT!vars, Acked
  <2> QED BY <2>1, <2>2, <2>3 DEF Next, Ended
<1>3. Spec => []IInv  BY Invariance
<1> QED BY <1>1, <1>2, <1>3, PTL DEF Spec, Reliable, RT!Spec

-----------------------------------------------------------------------------
(* How recvfile ends.                                                       *)

\* The sequence numbers of the last packets, whichever of them come together,
\* do not begin again at 0; so it is for a file of at most SEQ_LEN chunks, too.
LastWindowFits == (NCHUNKS - 1) % SEQ_LEN >= WINDOW_LEN - 1 \/ NCHUNKS <= SEQ_LEN

\* When the last chunk is in the reassembly queue, the last packet is noted.
LastNoted ==
  \A d \in 0 .. SEQ_LEN - 1 :
    (r_la + d) % SEQ_LEN \in received /\ last_id + d + 1 = NCHUNKS => ready_exit # 0

\* The test on the last number, when the window does not wrap.
LEMMA LastTest ==
  ASSUME LastWindowFits, NEW n \in Nat, NEW c \in 1 .. WINDOW_LEN, n + c = NCHUNKS
  PROVE  (NCHUNKS - 1) % SEQ_LEN = (n % SEQ_LEN) + c - 1
<1> DEFINE r == n % SEQ_LEN
           e == c - 1
           last == NCHUNKS - 1
<1>1. r \in SeqNum /\ e \in SeqNum /\ e \in Int /\ c = e + 1 /\ e <= WINDOW_LEN - 1
  <2>1. r \in SeqNum
    BY ModRange
  <2> HIDE DEF r
  <2> QED BY <2>1, WindowAssumption DEF SeqNum
<1>2. n + e = last /\ last \in Nat
  BY <1>1, ChannelAssumption
<1> HIDE DEF e
<1>3. (r + e) % SEQ_LEN = last % SEQ_LEN
  BY <1>1, <1>2, ModAdd
<1>4. last % SEQ_LEN = IF r + e < SEQ_LEN THEN r + e ELSE r + e - SEQ_LEN
  <2> HIDE DEF r
  <2> QED BY <1>1, <1>3, OffsetValue
<1>5. CASE NCHUNKS <= SEQ_LEN
  <2>1. last \in 0 .. 2 * SEQ_LEN - 1 /\ last < SEQ_LEN /\ n \in 0 .. 2 * SEQ_LEN - 1 /\ n < SEQ_LEN
    BY <1>1, <1>2, <1>5, WindowAssumption, ChannelAssumption
  <2>2. last % SEQ_LEN = last /\ r = n
    <3> HIDE DEF last
    <3> QED BY <2>1, ModSmall
  <2> QED BY <1>1, <1>2, <2>2
<1>6. CASE last % SEQ_LEN >= WINDOW_LEN - 1
  <2> DEFINE l == last % SEQ_LEN
  <2>1. l = r + e \/ l = r + e - SEQ_LEN
    BY <1>4
  <2>2. r \in Int /\ r < SEQ_LEN /\ l \in Int
    <3>1. l \in SeqNum
      BY <1>2, ModRange
    <3> HIDE DEF l, r
    <3> QED BY <1>1, <3>1, WindowAssumption DEF SeqNum
  <2> HIDE DEF l, r
  <2>3. l # r + e - SEQ_LEN
    BY <1>1, <1>6, <2>2, WindowAssumption DEF l
  <2>4. l = r + c - 1
    BY <1>1, <2>1, <2>2, <2>3
  <2> QED BY <2>4 DEF l, r
<1> QED BY <1>5, <1>6 DEF LastWindowFits

\* A packet that is in place d of the window, if it is the last, is noted.
LEMMA LastIsNoted ==
  ASSUME IInv, LastNoted, NEW m, TakeData(m), Fresh(m), NEW d \in 0 .. SEQ_LEN - 1,
         (r_la + d) % SEQ_LEN \in Filled(m), last_id + d + 1 = NCHUNKS
  PROVE  NotedExit(m) # 0
<1>1. CASE (r_la + d) % SEQ_LEN \in received
  BY <1>1 DEF LastNoted, NotedExit
<1>2. CASE (r_la + d) % SEQ_LEN = m.seq
  <2>1. PICK p \in last_id + 1 .. packet_id :
          /\ m = Pkt(p)
          /\ m.seq = (r_la + (p - last_id - 1)) % SEQ_LEN
          /\ p - last_id - 1 \in 0 .. WINDOW_LEN - 1
    BY FreshPacket
  <2> DEFINE e == p - last_id - 1
  <2>2. e \in SeqNum /\ d \in SeqNum /\ r_la \in SeqNum
    BY <2>1, Ranges, WindowAssumption DEF SeqNum
  <2>3. last_id + e + 1 = p
    BY <2>1, Ranges
  <2>4. (r_la + d) % SEQ_LEN = (r_la + e) % SEQ_LEN
    BY <1>2, <2>1
  <2> HIDE DEF e
  <2>5. d = e
    BY <2>2, <2>4, OffsetUnique
  <2>6. p = NCHUNKS
    BY <2>3, <2>5
  <2> QED BY <2>1, <2>6 DEF Pkt, NotedExit
<1> QED BY <1>1, <1>2 DEF Filled

LEMMA AcceptedCloses ==
  ASSUME LastWindowFits, IInv, LastNoted, AllWrittenCloses,
         NEW m, NEW c \in 0 .. WINDOW_LEN, RecvAccepted(m, c), UNCHANGED sendVars
  PROVE  LastNoted' /\ AllWrittenCloses'
<1> DEFINE exit == NotedExit(m)
<1>1. /\ TakeData(m) /\ Fresh(m) /\ Released(m, c)
      /\ received' = Filled(m) \ {(r_la + j) % SEQ_LEN : j \in 0 .. c - 1}
      /\ last_id' = last_id + c
      /\ r_last' = NotedLast(m)
      /\ ready_exit' = IF exit # 0 /\ r_last' = r_la + c - 1 THEN 2 ELSE exit
      /\ r_la' = (r_la + c) % SEQ_LEN
  BY DEF RecvAccepted
<1>2. /\ \A d \in 0 .. SEQ_LEN - 1 : (r_la + d) % SEQ_LEN \in Filled(m) => d < WINDOW_LEN
      /\ \A d \in 0 .. c - 1 : (r_la + d) % SEQ_LEN \in Filled(m)
  BY <1>1, FilledSlots
<1>3. PICK p \in last_id + 1 .. packet_id : m = Pkt(p)
  BY <1>1, FreshPacket
<1>4. /\ last_id \in Nat /\ packet_id \in 0 .. NCHUNKS /\ r_la \in SeqNum /\ c \in Nat
      /\ r_la = last_id % SEQ_LEN
  BY Ranges, WindowAssumption DEF IInv, RecvInv, WrittenInv
<1>5. exit # 0 => ready_exit' # 0
  BY <1>1
<1>6. LastNoted'
  <2> SUFFICES ASSUME NEW x \in 0 .. SEQ_LEN - 1,
                      (r_la' + x) % SEQ_LEN \in received', last_id' + x + 1 = NCHUNKS
               PROVE  exit # 0
    BY <1>5 DEF LastNoted
  <2> DEFINE y == IF c + x < SEQ_LEN THEN c + x ELSE c + x - SEQ_LEN
  <2>1. y \in SeqNum /\ (r_la' + x) % SEQ_LEN = (r_la + y) % SEQ_LEN
    <3>1. c \in 0 .. SEQ_LEN - 1  BY WindowAssumption
    <3>2. y = IF c + x < SEQ_LEN THEN c + x ELSE c + x - SEQ_LEN  OBVIOUS
    <3>3. r_la' = (r_la + c) % SEQ_LEN /\ r_la \in SeqNum  BY <1>1, <1>4
    <3> HIDE DEF y
    <3> QED BY <3>1, <3>2, <3>3, OffsetShift
  <2>2. (y = c + x \/ y < c) /\ y \in 0 .. SEQ_LEN - 1
    BY <1>4, <2>1, WindowAssumption DEF SeqNum
  <2> HIDE DEF y
  <2>3. (r_la + y) % SEQ_LEN \in Filled(m) /\ ~ (y \in 0 .. c - 1)
    BY <1>1, <2>1
  <2>4. y = c + x  BY <1>4, <2>2, <2>3, WindowAssumption
  <2>5. last_id + y + 1 = NCHUNKS
    BY <1>1, <1>4, <2>4
  <2> QED BY <1>1, <2>2, <2>3, <2>5, LastIsNoted
<1>7. AllWrittenCloses'
  <2> SUFFICES ASSUME last_id + c = NCHUNKS
               PROVE  ready_exit' = 2
    BY <1>1 DEF AllWrittenCloses
  <2>1. c \in 1 .. WINDOW_LEN
    BY <1>3, <1>4, ChannelAssumption
  <2> DEFINE y == c - 1
  <2>2. y \in 0 .. c - 1 /\ y \in 0 .. SEQ_LEN - 1 /\ last_id + y + 1 = NCHUNKS
    BY <1>4, <2>1, WindowAssumption
  <2> HIDE DEF y
  <2>3. exit # 0
    BY <1>1, <1>2, <2>2, LastIsNoted
  <2>4. r_last' = (NCHUNKS - 1) % SEQ_LEN
    <3>1. p \in 1 .. packet_id
      BY <1>3, <1>4
    <3> QED BY <1>1, <1>3, <2>3, <3>1, NotedLastPacket
  <2>5. (NCHUNKS - 1) % SEQ_LEN = r_la + c - 1
    BY <1>4, <2>1, LastTest
  <2> QED BY <1>1, <2>3, <2>4, <2>5
<1> QED BY <1>6, <1>7

\* When the last chunk is written, recvfile leaves its loop: unless the last
\* window wraps, which the test on the last number overlooks.
THEOREM ClosesUnlessWrapped ==
  ASSUME LastWindowFits
  PROVE  Spec => []AllWrittenCloses
<1>1. Init => LastNoted /\ AllWrittenCloses
  BY ChannelAssumption DEF Init, RecvInit, LastNoted, AllWrittenCloses
<1>2. IInv /\ LastNoted /\ AllWrittenCloses /\ [Next]_vars => LastNoted' /\ AllWrittenCloses'
  <2> SUFFICES ASSUME IInv, LastNoted, AllWrittenCloses, [Next]_vars
               PROVE  LastNoted' /\ AllWrittenCloses'
    OBVIOUS
  <2>1. CASE UNCHANGED vars \/ SenderStep \/ Ended
    BY <2>1 DEF vars, SenderStep, Ended, recvVars, LastNoted, AllWrittenCloses
  <2>2. ASSUME NEW m, RecvHello(m) \/ RecvStale(m)
        PROVE  LastNoted' /\ AllWrittenCloses'
    BY <2>2 DEF RecvHello, RecvStale, recvVars, LastNoted, AllWrittenCloses
  <2>3. ASSUME NEW m, RecvIgnored(m)
        PROVE  LastNoted' /\ AllWrittenCloses'
    <3>1. r_pc = "run" /\ UNCHANGED <<r_la, received, last_id>> /\ ready_exit' = NotedExit(m)
      BY <2>3 DEF RecvIgnored
    <3>2. last_id # NCHUNKS
      BY <3>1 DEF AllWrittenCloses, IInv, RecvInv, ExitInv
    <3>3. ready_exit # 0 => ready_exit' # 0
      BY <3>1 DEF NotedExit
    <3> QED BY <3>1, <3>2, <3>3 DEF LastNoted, AllWrittenCloses
  <2>4. ASSUME NEW m, NEW c \in 0 .. WINDOW_LEN, RecvAccepted(m, c), UNCHANGED sendVars
        PROVE  LastNoted' /\ AllWrittenCloses'
    BY <2>4, AcceptedCloses
  <2>5. CASE OpenFile \/ RecvNothing \/ FinalAck
    BY <2>5 DEF OpenFile, RecvNothing, FinalAck, recvVars, LastNoted, AllWrittenCloses
  <2> QED BY <2>1, <2>2, <2>3, <2>4, <2>5 DEF Next, ReceiverStep, RecvNext, RecvPacket
<1> QED BY <1>1, <1>2, Invariance, PTL DEF Spec
=============================================================================
