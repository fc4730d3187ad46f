------------------------------ MODULE RecvFile ------------------------------
(***************************************************************************)
(* project2/recvfile.c: the receiving program.  The first intact datagram  *)
(* is the file name.  Then it loops: one non-blocking recvfrom, what the   *)
(* code does with a data packet, and an acknowledgement at the end of      *)
(* every turn, whether or not something arrived.  When the last packet is  *)
(* written it closes the file and sends FINAL_ACKS more acknowledgements.  *)
(*                                                                         *)
(* A step is one turn of a loop.                                           *)
(***************************************************************************)
EXTENDS UdpChannel

CONSTANTS
  OPEN_FAULTS,  \* may fopen of the output file fail?
  FINAL_ACKS    \* acknowledgements sent after the file is closed (400)

ASSUME FinalAcksAssumption == FINAL_ACKS \in Nat \ {0}

VARIABLES
  r_pc,         \* "hello", "open", "run", "final", or how the program ended
  r_la,         \* la_seq: the sequence number expected next
  received,     \* the sequence numbers k with received[k] = 1
  last_id,      \* last_id: packets written to the file
  r_root,       \* root: the reassembly queue, always WINDOW_LEN nodes
  file,         \* the chunks given to fwrite, in order
  ready_exit,   \* 0, 1 once a last packet was seen, 2 once it is written
  r_last,       \* last_window: sequence number of the last packet, or -1
  r_count       \* acknowledgements still to be sent after the loop

recvVars == <<r_pc, r_la, received, last_id, r_root, file, ready_exit, r_last, r_count>>

RecvTypeOK ==
  /\ r_pc \in {"hello", "open", "run", "final", "done", "failed"}
  /\ r_la \in SeqNum
  /\ received \subseteq SeqNum
  /\ last_id \in Nat
  /\ r_root \in [1 .. WINDOW_LEN -> Chunk \cup {NoData}]
  /\ file \in Seq(Chunk \cup {NoData})
  /\ ready_exit \in 0 .. 2
  /\ r_last \in SeqNum \cup {-1}
  /\ r_count \in 0 .. FINAL_ACKS

RecvInit ==
  /\ r_pc = "hello"
  /\ r_la = 0
  /\ received = {}
  /\ last_id = 0
  /\ r_root = [p \in 1 .. WINDOW_LEN |-> NoData]
  /\ file = <<>>
  /\ ready_exit = 0
  /\ r_last = -1
  /\ r_count = FINAL_ACKS

-----------------------------------------------------------------------------
(* The file name and the output file. *)

\* Any intact datagram is taken as the file name and acknowledged.
RecvHello(m) ==
  /\ r_pc = "hello"
  /\ TakeData(m)
  /\ SendAck(SEQ_LEN - 1)
  /\ r_pc' = "open"
  /\ UNCHANGED <<r_la, received, last_id, r_root, file, ready_exit, r_last, r_count>>

\* mkdir and fopen; a failure ends the program after the name was acknowledged.
OpenFile ==
  /\ r_pc = "open"
  /\ r_pc' \in IF OPEN_FAULTS THEN {"run", "failed"} ELSE {"run"}
  /\ UNCHANGED <<chanVars, r_la, received, last_id, r_root, file, ready_exit,
                 r_last, r_count>>

-----------------------------------------------------------------------------
(* The receive loop. *)

\* Mistake: a C remainder that may be negative.
AckOfSigned(la) == CRem(la - 1, SEQ_LEN)

\* Mistake: acknowledges the packet it expects.
AckOfNext(la) == la

\* The acknowledgement is cumulative: the number before la_seq.
AckOf(la) == Mod(la - 1, SEQ_LEN)

\* Nothing arrived, or a corrupt datagram.
RecvNothing ==
  /\ r_pc = "run"
  /\ SendAck(AckOf(r_la))
  /\ UNCHANGED <<data_net, recvVars>>

\* Mistake: the packet_id is not compared with last_id.
FreshByType(m) == m.type \in {2, 4}

\* (type == 2 || type == 4) && packet_id > last_id
Fresh(m) == m.type \in {2, 4} /\ m.id > last_id

\* A packet that is already written, or the file name again.
RecvStale(m) ==
  /\ r_pc = "run"
  /\ TakeData(m)
  /\ ~ Fresh(m)
  /\ SendAck(AckOf(r_la))
  /\ UNCHANGED recvVars

\* Mistakes: a last packet is noted only in order; the note is overwritten by
\* the next packet; every packet is taken for the last one.
NotedInOrder(m) == IF m.type = 4 /\ m.seq = r_la THEN 1 ELSE ready_exit
NotedAnew(m) == IF m.type = 4 THEN 1 ELSE 0
NotedEvery(m) == m.seq

\* A last packet is noted before it is known whether it is accepted.
NotedExit(m) == IF m.type = 4 THEN 1 ELSE ready_exit
NotedLast(m) == IF m.type = 4 THEN m.seq ELSE r_last

Acceptable(m) ==
  Between(r_la, WindowHigh(r_la), m.seq) /\ m.seq \notin received

\* A fresh packet outside the window or already buffered.
RecvIgnored(m) ==
  /\ r_pc = "run"
  /\ TakeData(m)
  /\ Fresh(m)
  /\ ~ Acceptable(m)
  /\ ready_exit' = NotedExit(m)
  /\ r_last' = NotedLast(m)
  /\ SendAck(AckOf(r_la))
  /\ UNCHANGED <<r_pc, r_la, received, last_id, r_root, file, r_count>>

\* Flags and reassembly queue once m is in its slot.
Filled(m) == received \cup {m.seq}
Buffer(m) == [r_root EXCEPT ![MapToWindow(r_la, m.seq) + 1] = m.data]

\* The c slots from la_seq on are filled, and the next one is not.
FilledRun(m, c) ==
  /\ \A j \in 0 .. c - 1 : (r_la + j) % SEQ_LEN \in Filled(m)
  /\ c = WINDOW_LEN \/ (r_la + c) % SEQ_LEN \notin Filled(m)

\* Mistake: the chunks buffered behind the next one are not released with it.
ReleasedOne(m, c) == c = IF m.seq # r_la THEN 0 ELSE 1

\* How many chunks an accepted packet releases: none unless it is the next.
Released(m, c) == IF m.seq # r_la THEN c = 0 ELSE FilledRun(m, c)

\* An acceptable packet: buffer it, write the run it completes, slide.
RecvAccepted(m, c) ==
  LET exit == NotedExit(m)
  IN /\ r_pc = "run"
     /\ TakeData(m)
     /\ Fresh(m)
     /\ Acceptable(m)
     /\ Released(m, c)
     /\ file' = file \o [p \in 1 .. c |-> Buffer(m)[p]]
     /\ r_root' = [p \in 1 .. WINDOW_LEN |->
                     IF p + c <= WINDOW_LEN THEN Buffer(m)[p + c] ELSE NoData]
     /\ received' = Filled(m)
                      \ {(r_la + j) % SEQ_LEN : j \in 0 .. c - 1}
     /\ last_id' = last_id + c
     /\ r_last' = NotedLast(m)
     /\ ready_exit' = IF exit # 0 /\ r_last' = r_la + c - 1 THEN 2 ELSE exit
     /\ r_la' = (r_la + c) % SEQ_LEN
     /\ r_pc' = IF ready_exit' = 2 THEN "final" ELSE r_pc
     /\ SendAck(AckOf(r_la'))
     /\ UNCHANGED r_count

-----------------------------------------------------------------------------
\* After fclose: FINAL_ACKS acknowledgements, then exit.
FinalAck ==
  /\ r_pc = "final"
  /\ SendAck(AckOf(r_la))
  /\ r_count' = r_count - 1
  /\ r_pc' = IF r_count = 1 THEN "done" ELSE r_pc
  /\ UNCHANGED <<data_net, r_la, received, last_id, r_root, file, ready_exit, r_last>>

RecvPacket(m) ==
  \/ RecvHello(m)
  \/ RecvStale(m)
  \/ RecvIgnored(m)
  \/ \E c \in 0 .. WINDOW_LEN : RecvAccepted(m, c)

RecvNext ==
  \/ \E m \in data_net : RecvPacket(m)
  \/ OpenFile
  \/ RecvNothing
  \/ FinalAck
=============================================================================
