---------------------------- MODULE FileTransfer ----------------------------
(***************************************************************************)
(* The reliable file transfer of project2: sendfile and recvfile joined by *)
(* UDP.  project2/README.txt promises "data is delivered in order, without *)
(* duplicates, missing data, or errors".                                   *)
(***************************************************************************)
EXTENDS SendFile, RecvFile

vars == <<chanVars, sendVars, recvVars>>

Init == ChanInit /\ SendInit /\ RecvInit

SenderStep == SendNext /\ UNCHANGED recvVars
ReceiverStep == RecvNext /\ UNCHANGED sendVars

\* Both programs have ended.
Ended ==
  /\ s_pc \in {"done", "failed"}
  /\ r_pc \in {"done", "failed"}
  /\ UNCHANGED vars

Next == SenderStep \/ ReceiverStep \/ Ended

Spec == Init /\ [][Next]_vars

-----------------------------------------------------------------------------
(* Safety. *)

\* Acked is the number of packets the sender has forgotten as acknowledged.
Acked == packet_id - Len(s_root)

\* Every variable keeps the range its declaration in the code gives it.
TypeOK == ChanTypeOK /\ SendTypeOK /\ RecvTypeOK

\* What recvfile has written is the chunks of the file in order from the
\* first: nothing missing, doubled, swapped, or taken from another packet
\* that happens to carry the same sequence number (the file name included).
InOrderPrefix == file = [p \in 1 .. Len(file) |-> p] /\ Len(file) <= NCHUNKS

\* sendfile frees a packet (Dequeue after an ack) only when recvfile has
\* written it, so whatever is still missing can be sent again.
AckedIsWritten == Acked <= Len(file)

\* sendfile reports "[Completed!]" only when the whole file is written.
CompletedIsWritten == s_pc = "done" => Len(file) = NCHUNKS

\* The queue and the alarm table agree: slot j of the window has an alarm
\* exactly if the queue has a j-th node, and that node holds the packet with
\* the sequence number of the slot.  SlotResend relies on it: it takes the
\* node GetK(root, win_id) for the alarm of sequence number k.
QueueMatchesAlarms ==
  s_pc \in {"poll", "window"} =>
    /\ Len(s_root) <= WINDOW_LEN
    /\ \A j \in 0 .. WINDOW_LEN - 1 :
         /\ is_set[(s_la + j) % SEQ_LEN] # 0 <=> j < Len(s_root)
         /\ j < Len(s_root) => s_root[j + 1].seq = (s_la + j) % SEQ_LEN
    /\ \A k \in SeqNum \ WindowSeqs(s_la) : is_set[k] = 0

\* A buffered slot of the reassembly queue holds the chunk that belongs there.
BufferedInPlace ==
  \A j \in 0 .. WINDOW_LEN - 1 :
    (r_la + j) % SEQ_LEN \in received => r_root[j + 1] = last_id + j + 1

\* The pass over the window stops at the last packet: fread is never called
\* again after the short chunk, which would make up an extra last packet.
NoReadPastEnd == packet_id <= NCHUNKS

\* Once the whole file is written recvfile leaves its loop, closes the file
\* and ends.  True only if the last window does not wrap around SEQ_LEN: the
\* test last_window == la_seq + reverse_count-1 is not taken modulo SEQ_LEN.
AllWrittenCloses == last_id = NCHUNKS => ready_exit = 2

\* The transfer, seen through what recvfile wrote, what sendfile keeps and
\* how the two programs end, is a reliable transfer.
RT == INSTANCE ReliableTransfer WITH
        delivered   <- file,
        forgotten   <- Acked,
        sender_done <- s_pc = "done",
        closed      <- r_pc \in {"final", "done"}

\* sendfile and recvfile together implement ReliableTransfer.
Reliable == RT!Spec
-----------------------------------------------------------------------------
(* Liveness. *)

\* Both programs keep running their loops, and an alarm that is set again and
\* again is found expired again and again.
LoopFairness ==
  /\ WF_vars((Poll \/ Window) /\ UNCHANGED recvVars)
  /\ WF_vars((OpenFile \/ FinalAck) /\ UNCHANGED sendVars)
  /\ SF_vars(OldestExpires /\ UNCHANGED recvVars)

\* The datagrams recvfile is waiting for: the file name, or the next chunk.
Awaited == {m \in data_net : IF r_pc = "hello" THEN TRUE ELSE m.id = last_id + 1}

\* A fair lossy path: a datagram that is sent again and again gets through,
\* and one that recvfile waits for is received.
PathFairness ==
  /\ SF_vars(SendHello /\ Hello \in data_net' /\ UNCHANGED recvVars)
  /\ SF_vars(SendOldest /\ s_root'[1] \in data_net' /\ UNCHANGED recvVars)
  /\ SF_vars((\E m \in Awaited : RecvPacket(m)) /\ UNCHANGED sendVars)
  /\ SF_vars(RecvNothing /\ ack_net' # ack_net /\ UNCHANGED sendVars)
  /\ SF_vars(PollAck /\ UNCHANGED recvVars)

FairSpec == Spec /\ LoopFairness /\ PathFairness

\* Every chunk of the file is written in the end, whatever the path loses.
EventuallyWritten == <>(Len(file) = NCHUNKS)

\* recvfile closes the file and exits.
ReceiverExits == <>(r_pc = "done")

=============================================================================
