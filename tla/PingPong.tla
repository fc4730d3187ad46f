------------------------------ MODULE PingPong ------------------------------
(***************************************************************************)
(* The ping-pong program of project1: clients that measure the latency of  *)
(* COUNT exchanges, and the server that sends every message back.          *)
(***************************************************************************)
EXTENDS WebServer

vars == <<pathVars, clientVars, serverVars, setup, webVars>>

Init == PathInit /\ ClientInit /\ ServerInit /\ WebInit

\* What a client does next: a ping-pong client, or a browser.
ClientGoesOn(c) ==
  \/ ClientConnect(c) /\ UNCHANGED <<setup, webVars>>
  \/ mode_flag = 0 /\ (ClientSend(c) \/ ClientRecv(c)) /\ UNCHANGED <<serverVars, setup, webVars>>
  \/ (BrowserSend(c) \/ BrowserEnd(c)) /\ UNCHANGED setup

ClientNext(c) ==
  \/ ClientGoesOn(c)
  \/ ClientKilled(c) /\ UNCHANGED <<serverVars, setup, webVars>>
  \/ ServerLost(c) /\ UNCHANGED <<setup, webVars>>

\* main: the loop is the same in both modes up to accept.
MainLoop ==
  \/ ServerNext /\ UNCHANGED <<setup, webVars>>
  \/ WebNext /\ UNCHANGED setup

\* select times out, or the server has ended.
Idle ==
  /\ \/ s_pc = "select" /\ backlog = <<>> /\ \A c \in NodeSet : ~ Ready(c)
     \/ s_pc = "crashed"
  /\ UNCHANGED vars

Next ==
  \/ MainLoop
  \/ CallFails /\ UNCHANGED <<setup, webVars>>
  \/ \E c \in Clients : ClientNext(c)
  \/ FileChanges /\ UNCHANGED setup
  \/ Idle

Spec == Init /\ [][Next]_vars

-----------------------------------------------------------------------------
(* Safety. *)

\* Every variable keeps its range: a node is never written beyond its buffer,
\* also when a length was misread and an echo is sent in portions.
TypeOK == PathTypeOK /\ ClientTypeOK /\ ServerTypeOK

\* When a client counts an exchange, the bytes it holds are the message it
\* sent: none is missing, doubled or another client's.  That needs a path
\* that takes a message whole (see EchoInOrder).
EchoIntact ==
  \A c \in Clients \ narrow :
    num_tests[c] > 0 /\ c_pc[c] \in {"send", "done"} => cbuf[c] = Message(num_tests[c])

\* Where the bytes of a client's message are, at any time: on the way to the
\* server, in the node's buffer, complete and due to be sent, or on the way
\* back; never at two places, and none of them lost.
OneMessage ==
  \A c \in NodeSet \ narrow :
    ~ Gone(c) =>
      \/ /\ ~ pending_data[c]
         /\ s2c[c] = <<>>
         /\ added_pos[c] + Len(c2s[c]) = IF c_pc[c] = "send" THEN cnt[c] ELSE SIZE
         /\ len_buffer[c] = IF added_pos[c] = 0 THEN 0 ELSE SIZE
      \/ /\ c_pc[c] = "recv"
         /\ pending_data[c]
         /\ len_buffer[c] = SIZE
         /\ c2s[c] = <<>>
         /\ s2c[c] = <<>>
      \/ /\ c_pc[c] = "recv"
         /\ ~ pending_data[c]
         /\ len_buffer[c] = 0
         /\ c2s[c] = <<>>
         /\ s2c[c] = Message(num_tests[c] + 1)

Follows(b, d) == d = IF b[2] < SIZE THEN <<b[1], b[2] + 1>> ELSE <<b[1] + 1, 1>>

\* The bytes on the way to a client follow one another as in its messages,
\* also when send takes only a portion of the buffer.
EchoInOrder ==
  \A c \in Clients : \A p \in 1 .. Len(s2c[c]) - 1 : Follows(s2c[c][p], s2c[c][p + 1])

\* The list holds every client that is connected, once, unless its path is
\* narrow: of a header that came in two parts the length is misread, and the
\* node is dumped when its buffer is full.  And the walk visits nodes of the
\* list only: the one it is at is the only one that it may find freed.
ListKept ==
  /\ \A c \in Clients \ narrow :
       mode_flag = 0 /\ c_pc[c] \in {"send", "recv"} =>
         \/ Cardinality({j \in 1 .. Len(nodes) : nodes[j] = c}) = 1
         \/ \E j \in 1 .. Len(backlog) : backlog[j] = c
  /\ s_pc \in {"write", "read"} => todo # <<>> /\ \A j \in 1 .. Len(todo) : todo[j] \in NodeSet

\* A client that disconnects ("connection is closed, clean up") does not end
\* the server while another one is connected.
ServerSurvives == s_pc = "crashed" => \A c \in Clients : c_pc[c] \notin {"send", "recv"}

-----------------------------------------------------------------------------
(* The web server. *)

\* The request of new_sock came whole, with the one recv.
AllCame == asked[new_sock] = PIECES /\ unread[new_sock] = 0

\* The answers that are right for a request.  When the file has changed, the
\* server may have found it at any stage of its checks, or not at all.
Due(r) ==
  IF r.cmd # "GET" THEN {"501"}
  ELSE IF r.path = "outside" THEN {"400"}
  ELSE IF r.path = "directory" THEN {"200"}
  ELSE IF changes > 0 THEN {"200", "404", "500"}
  ELSE IF disk = "none" THEN {"404"} ELSE {"200"}

\* There is nothing to read behind the path: a directory, or a file that is
\* empty or not there any more.
BadFile(r) ==
  /\ r.cmd = "GET"
  /\ r.path = "directory" \/ (r.path = "file" /\ disk # "page")

\* The server does not work for new_sock: it has closed its socket, or not
\* accepted it yet.
NotServed ==
  \/ new_sock \in closed
  \/ c_pc[new_sock] = "start"
  \/ \E j \in 1 .. Len(backlog) : backlog[j] = new_sock

\* A browser is sent the parts of one answer, in order, and the right answer
\* if its request came whole with the one recv.  Its socket is closed when all
\* four parts are sent, or it went away.  And the server does not end on it,
\* between two parts or before the first, unless it went away, its request
\* came in pieces, or it asked for something that cannot be read (BadFile).
\* In these three cases it may be left with no answer or the header alone.
WebAnswers ==
  LET c == new_sock
  IN /\ c \in closed => Len(answer) = 4 \/ Gone(c)
     /\ answer # <<>> => \E status \in {"200", "400", "404", "500", "501"} :
          /\ IsPrefix(answer, Answer(status))
          /\ s_pc = "close" /\ AllCame => status \in Due(request[c])
     /\ mode_flag = 1 /\ s_pc = "crashed" =>
          NotServed \/ Gone(c) \/ ~ AllCame \/ BadFile(request[c])

-----------------------------------------------------------------------------
(* Liveness. *)

\* The server repeats its loop and every client that is not killed goes on.
FairSpec ==
  /\ Spec
  /\ WF_vars(MainLoop)
  /\ \A c \in Clients : WF_vars(ClientGoesOn(c))

\* Every client completes its exchanges, or is answered, unless it is killed,
\* its path is narrow, or the server ends.  Others that come, go, stop in the
\* middle of a message or have theirs mixed up do not keep it waiting.
EveryClientFinishes == <>(s_pc = "crashed" \/ \A c \in Clients \ narrow : Gone(c))

\* The server forgets every client that is gone: from some time on its list has
\* only clients that are not.
ServerTidies == <>[](s_pc = "crashed" \/ \A c \in NodeSet : ~ Gone(c))
=============================================================================
