------------------------------ MODULE SendFile ------------------------------
(***************************************************************************)
(* project2/sendfile.c: the sending program.  It repeats the file name     *)
(* until it is acknowledged, then loops: check_timeout, one non-blocking   *)
(* recvfrom, and a pass over the window that reads and sends new chunks    *)
(* and sends again the packets whose alarm has expired.                    *)
(*                                                                         *)
(* A step is one recvfrom with what the code does about its result, or one *)
(* turn of the for loop over the window.  Clock values are abstracted:     *)
(* any alarm that is set may be found expired (elapsed_time > timeout), so *)
(* the round-trip estimate that computes timeout is left out.              *)
(***************************************************************************)
EXTENDS UdpChannel

CONSTANT SEND_FAULTS   \* may sendto of a data packet report an error?

VARIABLES
  s_pc,        \* "hello", "poll", "window", or how the program ended
  s_la,        \* la_seq: the least unacknowledged sequence number
  s_i,         \* i: the slot the window loop is at (0 outside the loop)
  is_set,      \* alarm_list[].is_set: 0 unused, 1 waiting for ack, 2 expired
  s_root,      \* root: the queue of packets kept for retransmission
  packet_id,   \* packet_id: packets read from the file so far
  s_last       \* last_window: sequence number of the last packet, or -1

sendVars == <<s_pc, s_la, s_i, is_set, s_root, packet_id, s_last>>

SendTypeOK ==
  /\ s_pc \in {"hello", "poll", "window", "done", "failed"}
  /\ s_la \in SeqNum
  /\ s_i \in 0 .. 2 * SEQ_LEN
  /\ is_set \in [SeqNum -> 0 .. 2]
  /\ s_root \in Seq(DataPacket)
  /\ packet_id \in Nat
  /\ s_last \in SeqNum \cup {-1}

SendInit ==
  /\ s_pc = "hello"
  /\ s_la = 0
  /\ s_i = 0
  /\ is_set = [k \in SeqNum |-> 0]
  /\ s_root = <<>>
  /\ packet_id = 0
  /\ s_last = -1

-----------------------------------------------------------------------------
(* The handshake. *)

\* The file name is sent at first and whenever 5 ms passed without an answer.
SendHello ==
  /\ s_pc = "hello"
  /\ SendData(Hello)
  /\ UNCHANGED <<ack_net, sendVars>>

\* An ack of sequence number SEQ_LEN-1 ends the handshake; another is skipped
\* and leaves last_ack_time as it was.
RecvHelloAck(j) ==
  /\ s_pc = "hello"
  /\ ack_net[j] = SEQ_LEN - 1
  /\ TakeAck(j)
  /\ s_pc' = "poll"
  /\ UNCHANGED <<data_net, s_la, s_i, is_set, s_root, packet_id, s_last>>

-----------------------------------------------------------------------------
(* check_timeout and the receipt of an acknowledgement. *)

\* Mistake: an alarm that is not set may expire.
ArmedUnset == WindowSeqs(s_la)

\* check_timeout looks at the alarms of the window only.
Armed == {k \in WindowSeqs(s_la) : is_set[k] # 0}

Expire(T) == [k \in SeqNum |-> IF k \in T THEN 2 ELSE is_set[k]]

\* Mistake: every newer ack is taken for one of the window.
AnyAck(ack_num) == TRUE

InWindow(ack_num) == Between(s_la, WindowHigh(s_la), ack_num)

\* The slots i of the window whose packets ack_num acknowledges.
AckedSlots(ack_num) ==
  {i \in s_la .. s_la + WINDOW_LEN - 1 :
     Between(s_la, ack_num, Mod(i, SEQ_LEN))}

\* Mistake: one Dequeue for each acknowledgement.
DequeueOnce(q, n) == SubSeq(q, 2, Len(q))

\* Dequeue(&root) repeated n times; on an empty queue it does nothing.
DequeueN(q, n) == SubSeq(q, n + 1, Len(q))

EnterWindow(first) ==
  /\ s_pc' = "window"
  /\ s_i' = first

\* Nothing usable was received.
PollNothing(T) ==
  /\ s_pc = "poll"
  /\ is_set' = Expire(T)
  /\ EnterWindow(s_la)
  /\ UNCHANGED <<chanVars, s_la, s_root, packet_id, s_last>>

\* A newer ack that acknowledges nothing outstanding.
PollOldAck(T, j) ==
  /\ s_pc = "poll"
  /\ ~ InWindow(ack_net[j])
  /\ TakeAck(j)
  /\ is_set' = Expire(T)
  /\ EnterWindow(s_la)
  /\ UNCHANGED <<data_net, s_la, s_root, packet_id, s_last>>

\* A cumulative ack: stop the alarms, drop the packets, slide the window.
PollNewAck(T, j) ==
  LET ack_num == ack_net[j]
      acked   == AckedSlots(ack_num)
  IN /\ s_pc = "poll"
     /\ InWindow(ack_num)
     /\ ack_num # s_last
     /\ TakeAck(j)
     /\ is_set' = [k \in SeqNum |->
                     IF k \in {i % SEQ_LEN : i \in acked} THEN 0 ELSE Expire(T)[k]]
     /\ s_root' = DequeueN(s_root, Cardinality(acked))
     /\ s_la' = (ack_num + 1) % SEQ_LEN
     /\ EnterWindow(s_la')
     /\ UNCHANGED <<data_net, packet_id, s_last>>

\* The ack of the last packet: free the queue and exit.
PollLastAck(T, j) ==
  /\ s_pc = "poll"
  /\ InWindow(ack_net[j])
  /\ ack_net[j] = s_last
  /\ TakeAck(j)
  /\ is_set' = Expire(T)
  /\ s_pc' = "done"
  /\ s_root' = <<>>
  /\ UNCHANGED <<data_net, s_la, s_i, packet_id, s_last>>

-----------------------------------------------------------------------------
(* The pass over the window: for(i=la_seq; i < la_seq + WINDOW_LEN; i++). *)

\* The loop ends at the end of the window or past the last packet.
PastLast == s_last # -1 /\ s_i > s_last

\* Mistake: the pass does not stop at the last packet.
WindowOver == s_i >= s_la + WINDOW_LEN

LoopOver == s_i >= s_la + WINDOW_LEN \/ PastLast

Slot == s_i % SEQ_LEN
WinId == s_i - s_la

AtSlot(flag) ==
  /\ s_pc = "window"
  /\ ~ LoopOver
  /\ is_set[Slot] = flag

\* set_alarm(k), and on to the next turn.
SetAlarm ==
  /\ is_set' = [is_set EXCEPT ![Slot] = 1]
  /\ s_i' = s_i + 1

WindowEnd ==
  /\ s_pc = "window"
  /\ LoopOver
  /\ s_pc' = "poll"
  /\ s_i' = 0
  /\ UNCHANGED <<chanVars, s_la, is_set, s_root, packet_id, s_last>>

\* The packet of this slot is waiting for its ack.
SlotWaiting ==
  /\ AtSlot(1)
  /\ s_i' = s_i + 1
  /\ UNCHANGED <<chanVars, s_pc, s_la, is_set, s_root, packet_id, s_last>>

\* The packet built from the next fread; after the end of the file fread
\* returns 0 bytes, fewer than BUFLEN, which makes a last packet as well.
NextPacket ==
  LET id == packet_id + 1
  IN [seq  |-> Slot,
      type |-> IF id >= NCHUNKS THEN 4 ELSE 2,
      id   |-> id,
      data |-> IF id <= NCHUNKS THEN id ELSE NoData]

\* GetK(root, win_id) is the node to fill, or a new one is enqueued.
StorePacket(m) ==
  IF WinId < Len(s_root)
    THEN [s_root EXCEPT ![WinId + 1] = m]
    ELSE Append(s_root, m)

\* An unused slot: read the next chunk, keep the packet and send it.
SlotNew ==
  /\ AtSlot(0)
  /\ packet_id' = packet_id + 1
  /\ s_root' = StorePacket(NextPacket)
  /\ s_last' = IF NextPacket.type = 4 THEN Slot ELSE s_last
  /\ SetAlarm
  /\ SendData(NextPacket)
  /\ UNCHANGED <<ack_net, s_pc, s_la>>

\* An expired slot: send its packet again.
SlotResend ==
  /\ AtSlot(2)
  /\ SendData(s_root[WinId + 1])
  /\ SetAlarm
  /\ UNCHANGED <<ack_net, s_pc, s_la, s_root, packet_id, s_last>>

\* sendto reports an error: perror and exit(1).
SlotSendFails ==
  /\ SEND_FAULTS
  /\ AtSlot(0) \/ AtSlot(2)
  /\ s_pc' = "failed"
  /\ UNCHANGED <<chanVars, s_la, s_i, is_set, s_root, packet_id, s_last>>

-----------------------------------------------------------------------------
\* Steps singled out for fairness: the send of the oldest packet that is not
\* acknowledged, the timeout of its alarm, the receipt of an acknowledgement.
SendOldest ==
  /\ s_i = s_la
  /\ SlotNew \/ SlotResend

OldestExpires ==
  \E T \in SUBSET Armed : s_la \in T /\ is_set[s_la] = 1 /\ PollNothing(T)

PollAck ==
  \E j \in 1 .. Len(ack_net) :
    RecvHelloAck(j) \/ PollOldAck({}, j) \/ PollNewAck({}, j) \/ PollLastAck({}, j)

Poll ==
  \E T \in SUBSET Armed :
    \/ PollNothing(T)
    \/ \E j \in 1 .. Len(ack_net) :
         PollOldAck(T, j) \/ PollNewAck(T, j) \/ PollLastAck(T, j)

Window ==
  \/ WindowEnd
  \/ SlotWaiting
  \/ SlotNew
  \/ SlotResend
  \/ SlotSendFails

SendNext ==
  \/ SendHello
  \/ \E j \in 1 .. Len(ack_net) : RecvHelloAck(j)
  \/ Poll
  \/ Window
=============================================================================
