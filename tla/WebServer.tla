----------------------------- MODULE WebServer -----------------------------
(***************************************************************************)
(* project1: the server in www mode.  It serves one client after another,  *)
(* with calls that block: one recv, the decision about the request, and    *)
(* the sends of the answer; meanwhile the files may change.  A step is a   *)
(* system call on the socket or on a file.                                 *)
(*                                                                         *)
(* The client is a browser that sends one request and reads to the end of  *)
(* the answer.  A request is sent, and received, at once or, if            *)
(* SPLIT_REQUEST says so, in two pieces.                                   *)
(* A path is "outside" if it is in the file system as it stands, or has    *)
(* "../" in it; below the server's directory it names a "file", that may   *)
(* be missing, or a "directory".  Paths fit into full_dir.                 *)
(***************************************************************************)
EXTENDS PingServer

CONSTANTS
  Requests,      \* the requests of browsers, [cmd, path]
  SPLIT_REQUEST, \* may a request come in two pieces?
  Disks,         \* what the file may be when the server is started
  FILE_CHANGES   \* bound: changes of the file while the server runs

ASSUME WebAssumption ==
  /\ \A r \in Requests : r.cmd # "NULL" /\ r.path \in {"outside", "file", "directory"}
  /\ SPLIT_REQUEST \in BOOLEAN
  /\ Disks \subseteq {"page", "blank", "none"}

VARIABLES
  request,   \* request[c]: what the browser c asks for, once it has started to
  asked,     \* asked[c]: how many of the pieces c has sent
  unread,    \* unread[c]: how many of them are not received yet
  new_sock,  \* the client that is served, the last one that was
  cmmd_dir,  \* the command and the path that were received
  answer,    \* what the server has sent to new_sock
  closed,    \* the clients whose sockets the server has closed
  left,      \* the parts of the answer that are not sent yet
  disk,      \* the file: "page", "blank" (no bytes) or "none" that can be opened
  changes    \* how often the file has changed

webVars == <<request, asked, unread, new_sock, cmmd_dir, answer, closed, left, disk, changes>>

PIECES == 2
NoRequest == [cmd |-> "NULL", path |-> "NULL"]

WebInit ==
  /\ mode_flag = 1 => narrow = {}
  /\ request = [c \in Clients |-> NoRequest]
  /\ asked = [c \in Clients |-> 0]
  /\ unread = [c \in Clients |-> 0]
  /\ new_sock = (CHOOSE c \in Clients : TRUE)
  /\ cmmd_dir = NoRequest
  /\ answer = <<>>
  /\ closed = {}
  /\ left = <<>>
  /\ disk \in IF mode_flag = 1 THEN Disks ELSE {"page"}
  /\ changes = 0

-----------------------------------------------------------------------------
(* The browser. *)

\* How many of n pieces go in one call.
Some(n) == IF SPLIT_REQUEST THEN 1 .. n ELSE {n} \ {0}

BrowserSend(c) ==
  /\ mode_flag = 1
  /\ s_pc # "crashed"
  /\ c_pc[c] = "send"
  /\ c \notin closed
  /\ \E k \in Some(PIECES - asked[c]) :
       /\ asked' = [asked EXCEPT ![c] = @ + k]
       /\ unread' = [unread EXCEPT ![c] = @ + k]
       /\ \E r \in IF asked[c] = 0 THEN Requests ELSE {request[c]} : request' = [request EXCEPT ![c] = r]
       /\ c_pc' = [c_pc EXCEPT ![c] = IF asked[c] + k = PIECES THEN "recv" ELSE @]
  /\ UNCHANGED <<pathVars, cnt, num_tests, cbuf, serverVars, new_sock, cmmd_dir, answer,
                 closed, left, disk, changes>>

\* The server has closed the connection, or has ended.
BrowserEnd(c) ==
  /\ mode_flag = 1
  /\ \/ c_pc[c] \in {"send", "recv"} /\ c \in closed
     \/ c_pc[c] \in {"start", "send", "recv"} /\ s_pc = "crashed"
  /\ c_pc' = [c_pc EXCEPT ![c] = "done"]
  /\ UNCHANGED <<pathVars, cnt, num_tests, cbuf, serverVars, webVars>>

\* A file matters only while the server looks for it and sends it.
FileChanges ==
  /\ cmmd_dir.path = "file"
  /\ s_pc \in {"exists", "access"} \/ (s_pc = "send" /\ "file" \in Range(left))
  /\ changes < FILE_CHANGES
  /\ changes' = changes + 1
  /\ disk' \in {"page", "blank", "none"} \ {disk}
  /\ UNCHANGED <<pathVars, clientVars, serverVars, request, asked, unread, new_sock, cmmd_dir, answer, closed, left>>

-----------------------------------------------------------------------------
(* accept and recv. *)

frame == <<pathVars, clientVars, nodeVars, nodes, todo, read_set, write_set>>

WebAccept ==
  /\ s_pc = "accept"
  /\ mode_flag = 1
  /\ new_sock' = Head(backlog)
  /\ answer' = <<>>
  /\ backlog' = Tail(backlog)
  /\ s_pc' = "request"
  /\ UNCHANGED <<frame, broken, request, asked, unread, cmmd_dir, closed, left, disk, changes>>

\* strtok: the words of what has come of a request: nothing, a part of it,
\* or all.  A part of the path may be the path of something else.
Words(r, k) ==
  CASE k = 0 -> {NoRequest}
    [] k = 1 -> [cmd : {"part", r.cmd}, path : {"NULL"}]
                  \cup [cmd : {r.cmd}, path : {"outside", "file", "directory"}]
    [] OTHER -> {r}

\* The server is blocked here until bytes come, or the end of the stream.
WebRecv ==
  LET c == new_sock
  IN /\ s_pc = "request"
     /\ \E k \in IF unread[c] = 0 /\ Gone(c) THEN {0} ELSE Some(unread[c]) :
          /\ cmmd_dir' \in Words(request[c], k)
          /\ unread' = [unread EXCEPT ![c] = @ - k]
     /\ s_pc' = "valid"
     /\ UNCHANGED <<frame, backlog, broken, request, asked, new_sock, answer, closed, left, disk, changes>>

-----------------------------------------------------------------------------
(* process. *)

Implemented(cmd) == cmd = "GET"

\* A slip: every path is valid.
AnyDir(path) == TRUE

\* validDir
ValidDir(path) == path # "outside"

\* fopen, for reading: a directory can be opened, too.
FileExist(path) == path = "directory" \/ (path = "file" /\ disk # "none")

\* reportErr: the header, the type, a blank line and the body.
Answer(status) == <<status, "type", "blank line", IF status = "200" THEN "file" ELSE "message">>

Report(status) == left' = Answer(status) /\ s_pc' = "send"

processFrame == <<frame, backlog, broken, request, asked, unread, new_sock, cmmd_dir, answer, closed,
                  disk, changes>>

\* strcmp or strstr of a word that is not there ends the program.
WebNull ==
  /\ s_pc = "valid"
  /\ \/ cmmd_dir.cmd = "NULL"
     \/ Implemented(cmmd_dir.cmd) /\ cmmd_dir.path = "NULL"
  /\ s_pc' = "crashed"
  /\ UNCHANGED <<processFrame, left>>

WebValid ==
  /\ s_pc = "valid"
  /\ cmmd_dir.cmd # "NULL"
  /\ Implemented(cmmd_dir.cmd) => cmmd_dir.path # "NULL"
  /\ IF ~ Implemented(cmmd_dir.cmd)     THEN Report("501")
     ELSE IF ~ ValidDir(cmmd_dir.path)  THEN Report("400")
     ELSE s_pc' = "exists" /\ UNCHANGED left
  /\ UNCHANGED processFrame

WebExists ==
  /\ s_pc = "exists"
  /\ IF ~ FileExist(cmmd_dir.path) THEN Report("404") ELSE s_pc' = "access" /\ UNCHANGED left
  /\ UNCHANGED processFrame

\* serverIssue: the file was there a moment ago.
WebAccess ==
  /\ s_pc = "access"
  /\ Report(IF FileExist(cmmd_dir.path) THEN "200" ELSE "500")
  /\ UNCHANGED processFrame

-----------------------------------------------------------------------------
(* sendingMsgs, part by part. *)

\* sendingValidFile opens the file again: fseek of NULL if that fails, and
\* exit(1) if there is nothing that can be read.
NoFile == Head(left) = "file" /\ (cmmd_dir.path = "directory" \/ disk # "page")

WebSend ==
  LET c == new_sock
  IN /\ s_pc = "send"
     /\ ~ NoFile
     /\ c \notin broken
     /\ IF Gone(c)
          THEN broken' = broken \cup {c} /\ UNCHANGED answer
          ELSE answer' = Append(answer, Head(left)) /\ UNCHANGED broken
     /\ left' = Tail(left)
     /\ s_pc' = IF Tail(left) = <<>> THEN "close" ELSE "send"
     /\ UNCHANGED <<frame, backlog, request, asked, unread, new_sock, cmmd_dir, closed, disk, changes>>

\* The file is not there any more, or the client is not (SIGPIPE).
WebSendFails ==
  /\ s_pc = "send"
  /\ NoFile \/ new_sock \in broken
  /\ s_pc' = "crashed"
  /\ UNCHANGED <<processFrame, left>>

\* A slip: the socket stays open.
LeftOpen(c) == closed

Closed(c) == closed \cup {c}

\* close, by process() and again, with no effect, by main(), which has freed
\* the request.
WebClose ==
  /\ s_pc = "close"
  /\ closed' = Closed(new_sock)
  /\ unread' = [unread EXCEPT ![new_sock] = 0]
  /\ cmmd_dir' = NoRequest
  /\ s_pc' = "select"
  /\ UNCHANGED <<frame, backlog, broken, request, asked, new_sock, answer, left, disk, changes>>

WebNext ==
  \/ WebAccept
  \/ WebRecv
  \/ WebNull
  \/ WebValid
  \/ WebExists
  \/ WebAccess
  \/ WebSend
  \/ WebSendFails
  \/ WebClose
=============================================================================
