----------------------------- MODULE PingServer -----------------------------
(***************************************************************************)
(* project1/server.c and util.c: the ping-pong server.  A turn of its loop *)
(* is a select, an accept if the listening socket was ready, and a walk    *)
(* over the list of nodes: serverSending if the socket was ready to write, *)
(* then serverRecieving if it was ready to read.  A step is the select,    *)
(* the accept, or one half of the visit of a node; the clients run in      *)
(* between, so the sets that select returned may be out of date.           *)
(***************************************************************************)
EXTENDS PingClient, SequencesExt

CONSTANTS
  Modes,         \* the modes the server may be started in: 0, 1
  MSG_MAX,       \* Msg_size_max, the size of a node's buffer
  FREED_FAULTS,  \* may reading a freed node end the program?
  CALLS_FAIL     \* may select, accept and fcntl fail?

\* A send of a misread length takes all there is room for (see Taken): ROOM
\* keeps it, and the recv that follows, from passing the end of the buffer by
\* more than the bytes it reads.
ASSUME ServerAssumption ==
  /\ Modes \subseteq {0, 1}
  /\ MSG_MAX \in Nat /\ MSG_MAX >= SIZE /\ MSG_MAX >= ROOM
  /\ CALLS_FAIL \in BOOLEAN

VARIABLES
  mode_flag,    \* 0: ping-pong mode, 1: www mode; from the command line
  s_pc,         \* "select", "accept", "write", "read", "crashed", or a step of WebServer
  backlog,      \* clients that wait to be accepted
  nodes,        \* the linked list behind head, as a sequence of clients
  todo,         \* the nodes the walk has still to visit, the current one first
  read_set,     \* the sockets select found ready to read
  write_set,    \* the sockets select found ready to write
  buffer,       \* buffer of the node of a client
  added_pos,    \* added_pos: the position for the next recv, or send
  len_buffer,   \* len_buffer: the length of the message, 0 between messages
  pending_data, \* pending_data: the message is complete and to be sent back
  broken        \* clients that are gone and were sent something since

nodeVars == <<buffer, added_pos, len_buffer, pending_data>>
loopVars == <<s_pc, backlog, nodes, todo, read_set, write_set, broken>>
serverVars == <<loopVars, nodeVars>>

\* What does not change while the programs run.
setup == <<mode_flag, narrow>>

NodeSet == {nodes[j] : j \in 1 .. Len(nodes)}

ServerTypeOK ==
  /\ mode_flag \in {0, 1}
  /\ s_pc \in {"select", "accept", "write", "read", "crashed"}
       \cup {"request", "valid", "exists", "access", "send", "close"}
  /\ backlog \in Seq(Clients)
  /\ nodes \in Seq(Clients)
  /\ todo \in Seq(Clients)
  /\ read_set \subseteq Clients
  /\ write_set \subseteq Clients
  /\ buffer \in [Clients -> [1 .. MSG_MAX -> Byte \cup {NoByte}]]
  /\ added_pos \in [Clients -> 0 .. MSG_MAX]
  /\ len_buffer \in [Clients -> 0 .. MSG_MAX]
  /\ pending_data \in [Clients -> BOOLEAN]
  /\ broken \subseteq Clients

ServerInit ==
  /\ mode_flag \in Modes
  /\ s_pc = "select"
  /\ backlog = <<>>
  /\ nodes = <<>>
  /\ todo = <<>>
  /\ read_set = {}
  /\ write_set = {}
  /\ buffer = [c \in Clients |-> [p \in 1 .. MSG_MAX |-> NoByte]]
  /\ added_pos = [c \in Clients |-> 0]
  /\ len_buffer = [c \in Clients |-> 0]
  /\ pending_data = [c \in Clients |-> FALSE]
  /\ broken = {}

-----------------------------------------------------------------------------
(* The turn of the loop. *)

\* connect(): the kernel completes it before the server accepts.
ClientConnect(c) ==
  /\ c_pc[c] = "start"
  /\ s_pc # "crashed"
  /\ c_pc' = [c_pc EXCEPT ![c] = "send"]
  /\ backlog' = Append(backlog, c)
  /\ UNCHANGED <<pathVars, cnt, num_tests, cbuf, nodeVars,
                 s_pc, nodes, todo, read_set, write_set, broken>>

Readable(c) == c2s[c] # <<>> \/ Gone(c)
Writable(c) == Room(c, s2c[c]) > 0 \/ Gone(c)

Ready(c) == Readable(c) \/ (pending_data[c] /\ Writable(c))

\* select; without a ready descriptor it times out and the loop repeats.
Select ==
  /\ s_pc = "select"
  /\ read_set' = {c \in NodeSet : Readable(c)}
  /\ write_set' = {c \in NodeSet : pending_data[c] /\ Writable(c)}
  /\ backlog # <<>> \/ read_set' \cup write_set' # {}
  /\ s_pc' = IF backlog # <<>> THEN "accept" ELSE "write"
  /\ todo' = nodes
  /\ UNCHANGED <<pathVars, clientVars, nodeVars, backlog, nodes, broken>>

\* accept, and add() at the head of the list; the new socket is in no set.
Accept ==
  LET c == Head(backlog)
  IN /\ s_pc = "accept"
     /\ mode_flag = 0
     /\ backlog' = Tail(backlog)
     /\ nodes' = <<c>> \o nodes
     /\ todo' = nodes'
     /\ s_pc' = "write"
     /\ buffer' = [buffer EXCEPT ![c] = [p \in 1 .. MSG_MAX |-> NoByte]]
     /\ added_pos' = [added_pos EXCEPT ![c] = 0]
     /\ len_buffer' = [len_buffer EXCEPT ![c] = 0]
     /\ pending_data' = [pending_data EXCEPT ![c] = FALSE]
     /\ UNCHANGED <<pathVars, clientVars, read_set, write_set, broken>>

\* select, accept or fcntl fails: abort().
CallFails ==
  /\ CALLS_FAIL
  /\ s_pc \in {"select", "accept"}
  /\ s_pc' = "crashed"
  /\ UNCHANGED <<pathVars, clientVars, nodeVars, backlog, nodes, todo, read_set, write_set, broken>>

\* Mistakes: the head is removed, whichever node was asked for; no node is.
DumpedHead(c) == Tail(nodes)
NotDumped(c) == nodes

\* dump(): the first node of c in the list leaves it.
Dumped(c) == RemoveAt(nodes, CHOOSE j \in 1 .. Len(nodes) : nodes[j] = c)

\* current = current->next, or the end of the walk.
Advance ==
  /\ todo' = Tail(todo)
  /\ s_pc' = IF Tail(todo) = <<>> THEN "select" ELSE "write"

\* The program reads the node it has just freed.
ReadFreed == FREED_FAULTS /\ s_pc' = "crashed" /\ UNCHANGED todo

-----------------------------------------------------------------------------
(* serverSending. *)

\* Mistake: the length of the message is kept after the echo.
AfterSendLen(c, k) ==
  LET all == k = len_buffer[c]
  IN /\ added_pos' = [added_pos EXCEPT ![c] = IF all THEN 0 ELSE k]
     /\ pending_data' = [pending_data EXCEPT ![c] = @ /\ ~ all]
     /\ UNCHANGED len_buffer

\* The node after k bytes were sent: reset if that was all.  added_pos = cnt
\* does not advance the position but replaces it.
AfterSend(c, k) ==
  LET all == k = len_buffer[c]
  IN /\ added_pos' = [added_pos EXCEPT ![c] = IF all THEN 0 ELSE k]
     /\ pending_data' = [pending_data EXCEPT ![c] = @ /\ ~ all]
     /\ len_buffer' = [len_buffer EXCEPT ![c] = IF all THEN 0 ELSE @]

AtWrite(c) ==
  /\ s_pc = "write"
  /\ todo # <<>>
  /\ c = Head(todo)

NotWritable(c) ==
  /\ AtWrite(c)
  /\ c \notin write_set
  /\ s_pc' = "read"
  /\ UNCHANGED <<pathVars, clientVars, nodeVars, backlog, nodes, todo,
                 read_set, write_set, broken>>

\* send() takes what there is room for.  When the length was misread the
\* position may be beyond it: what is left to send is negative, and as the
\* size_t that it becomes, more than there is room for.
Taken(c, room) ==
  LET want == len_buffer[c] - added_pos[c]
  IN IF want < 0 THEN room ELSE Lesser(want, room)

\* k bytes of memory behind position pos of a buffer.
Behind(buf, pos, k) ==
  [p \in 1 .. k |-> IF pos + p \in DOMAIN buf THEN buf[pos + p] ELSE NoByte]

ServerSend(c) ==
  LET k == Taken(c, Room(c, s2c[c]))
  IN /\ AtWrite(c)
     /\ c \in write_set
     /\ ~ Gone(c)
     /\ s2c' = [s2c EXCEPT ![c] = @ \o Behind(buffer[c], added_pos[c], k)]
     /\ AfterSend(c, k)
     /\ s_pc' = "read"
     /\ UNCHANGED <<c2s, clientVars, buffer, backlog, nodes, todo,
                    read_set, write_set, broken>>

\* To a client that is gone a first send succeeds (the bytes are lost and
\* answered by a reset), of a part of the message if its path is narrow.
ServerSendLost(c) ==
  /\ AtWrite(c)
  /\ c \in write_set
  /\ Gone(c)
  /\ c \notin broken
  /\ AfterSend(c, Taken(c, Room(c, <<>>)))
  /\ broken' = broken \cup {c}
  /\ s_pc' = "read"
  /\ UNCHANGED <<pathVars, clientVars, buffer, backlog, nodes, todo,
                 read_set, write_set>>

\* A later one raises SIGPIPE, which nothing in the program handles.
ServerSigPipe(c) ==
  /\ AtWrite(c)
  /\ c \in write_set
  /\ c \in broken
  /\ s_pc' = "crashed"
  /\ UNCHANGED <<pathVars, clientVars, nodeVars, backlog, nodes, todo,
                 read_set, write_set, broken>>

\* A client that was killed may have reset the connection: send returns -1,
\* the node is dumped, and FD_ISSET(current->socket, ...) reads it afterwards.
ServerSendError(c) ==
  /\ AtWrite(c)
  /\ c \in write_set
  /\ c_pc[c] = "killed"
  /\ nodes' = Dumped(c)
  /\ ReadFreed \/ Advance
  /\ UNCHANGED <<pathVars, clientVars, nodeVars, backlog, read_set,
                 write_set, broken>>

-----------------------------------------------------------------------------
(* serverRecieving. *)

AtRead(c) ==
  /\ s_pc = "read"
  /\ todo # <<>>
  /\ c = Head(todo)

NotReadable(c) ==
  /\ AtRead(c)
  /\ c \notin read_set
  /\ Advance
  /\ UNCHANGED <<pathVars, clientVars, nodeVars, backlog, nodes, read_set,
                 write_set, broken>>

\* ntohs of the first two bytes of a buffer, whatever is there.
HeaderLen(b) ==
  IF b[1] # NoByte /\ b[1][2] = 1 /\ b[2] # NoByte /\ b[2][2] = 2
    THEN {SIZE} ELSE 0 .. MSG_MAX

\* How many bytes a recv may return.
Returned(c) ==
  {k \in Portions(c2s[c], MSG_MAX - added_pos[c]) :
     added_pos[c] + k > 1 \/ (SPLIT_HEADER /\ c \in narrow)}

\* Mistakes: the position is replaced, as in serverSending; it is off by one.
RecvReplaces(old, k) == k
RecvBeyond(old, k) == old + k + 1

\* added_pos += cnt
RecvUpTo(old, k) == old + k

\* Bytes arrive; with the last one of the message the echo is due.
ServerRecv(c) ==
  \E k \in Returned(c) :
    LET buf == Written(buffer[c], added_pos[c], SubSeq(c2s[c], 1, k))
        pos == RecvUpTo(added_pos[c], k)
    IN \E len \in IF len_buffer[c] = 0 THEN HeaderLen(buf) ELSE {len_buffer[c]} :
         /\ AtRead(c)
         /\ c \in read_set
         /\ c2s' = [c2s EXCEPT ![c] = Drop(@, k)]
         /\ buffer' = [buffer EXCEPT ![c] = buf]
         /\ len_buffer' = [len_buffer EXCEPT ![c] = len]
         /\ added_pos' = [added_pos EXCEPT ![c] = IF pos = len THEN 0 ELSE pos]
         /\ pending_data' = [pending_data EXCEPT ![c] = @ \/ pos = len]
         /\ Advance
         /\ UNCHANGED <<s2c, clientVars, backlog, nodes, read_set, write_set, broken>>

\* recv returns 0 at the end of the stream or when the buffer is full, and
\* -1 after a reset: the node is dumped, and current->next reads it after.
ServerRecvEnd(c) ==
  /\ AtRead(c)
  /\ c \in read_set
  /\ \/ Gone(c) /\ c2s[c] = <<>>
     \/ c_pc[c] = "killed" \/ c \in broken
     \/ added_pos[c] = MSG_MAX
  /\ nodes' = Dumped(c)
  /\ ReadFreed \/ Advance
  /\ UNCHANGED <<pathVars, clientVars, nodeVars, backlog, read_set,
                 write_set, broken>>

-----------------------------------------------------------------------------
\* What a client meets when the server has ended: connect and send fail and
\* end it, recv returns 0 (after -1, if the connection was reset), with which
\* its loop goes on for ever.
ServerLost(c) ==
  /\ s_pc = "crashed"
  /\ mode_flag = 0
  /\ \/ /\ c_pc[c] \in {"start", "send"}
        /\ c_pc' = [c_pc EXCEPT ![c] = "killed"]
        /\ UNCHANGED cnt
     \/ /\ c_pc[c] = "recv"
        /\ s2c[c] = <<>>
        /\ cnt' = [cnt EXCEPT ![c] = 0]
        /\ UNCHANGED c_pc
  /\ UNCHANGED <<pathVars, num_tests, cbuf, serverVars>>

Visit(c) ==
  \/ NotWritable(c)
  \/ ServerSend(c)
  \/ ServerSendLost(c)
  \/ ServerSigPipe(c)
  \/ ServerSendError(c)
  \/ NotReadable(c)
  \/ ServerRecv(c)
  \/ ServerRecvEnd(c)

\* main, in ping-pong mode.
ServerNext == Select \/ Accept \/ \E c \in Clients : Visit(c)
=============================================================================
