----------------------------- MODULE PingClient -----------------------------
(***************************************************************************)
(* project1/client.c: the ping-pong client.  COUNT times it sends a        *)
(* message of SIZE bytes and receives as many bytes back.  Both calls      *)
(* block; a step is one send or one recv that returns.                     *)
(***************************************************************************)
EXTENDS TcpPath

CONSTANT CLIENT_CRASH   \* may a client be killed?

VARIABLES
  c_pc,        \* c_pc[c]: "start", "send", "recv", "done" or "killed"
  cnt,         \* cnt of the loop client c is in
  num_tests,   \* num_tests: exchanges completed
  cbuf         \* buffer: what was received

clientVars == <<c_pc, cnt, num_tests, cbuf>>

ClientTypeOK ==
  /\ c_pc \in [Clients -> {"start", "send", "recv", "done", "killed"}]
  /\ cnt \in [Clients -> 0 .. SIZE - 1]
  /\ num_tests \in [Clients -> 0 .. COUNT]
  /\ cbuf \in [Clients -> [1 .. SIZE -> Byte \cup {NoByte}]]

ClientInit ==
  /\ c_pc = [c \in Clients |-> "start"]
  /\ cnt = [c \in Clients |-> 0]
  /\ num_tests = [c \in Clients |-> 0]
  /\ cbuf = [c \in Clients |-> [p \in 1 .. SIZE |-> NoByte]]

\* The socket of c is closed, by close() or by the death of the process.
Gone(c) == c_pc[c] \in {"done", "killed"}

\* while(cnt < size_msg) cnt += send(...)
ClientSend(c) ==
  /\ c_pc[c] = "send"
  /\ \E k \in 1 .. Lesser(SIZE - cnt[c], Room(c, c2s[c])) :
       LET upto == cnt[c] + k
       IN /\ upto > 1 \/ (SPLIT_HEADER /\ c \in narrow)
          /\ c2s' = [c2s EXCEPT ![c] =
                       @ \o SubSeq(Message(num_tests[c] + 1), cnt[c] + 1, upto)]
          /\ IF upto < SIZE
               THEN cnt' = [cnt EXCEPT ![c] = upto] /\ UNCHANGED c_pc
               ELSE /\ cnt' = [cnt EXCEPT ![c] = 0]
                    /\ c_pc' = [c_pc EXCEPT ![c] = "recv"]
  /\ UNCHANGED <<s2c, num_tests, cbuf>>

\* while(cnt < size_msg) cnt = recv(sock, buffer+cnt, size_msg-cnt, 0): the
\* assignment forgets what was received before.
ClientRecv(c) ==
  LET want == SIZE - cnt[c]
  IN /\ c_pc[c] = "recv"
     /\ \E k \in IF c \in narrow THEN Portions(s2c[c], want) ELSE Whole(s2c[c], want) :
          /\ s2c' = [s2c EXCEPT ![c] = Drop(@, k)]
          /\ cbuf' = [cbuf EXCEPT ![c] = Written(@, cnt[c], SubSeq(s2c[c], 1, k))]
          /\ IF k < SIZE
               THEN /\ cnt' = [cnt EXCEPT ![c] = k]
                    /\ UNCHANGED <<c_pc, num_tests>>
               ELSE /\ cnt' = [cnt EXCEPT ![c] = 0]
                    /\ num_tests' = [num_tests EXCEPT ![c] = @ + 1]
                    /\ c_pc' = [c_pc EXCEPT ![c] =
                                  IF num_tests'[c] < COUNT THEN "send" ELSE "done"]
     /\ UNCHANGED c2s

ClientKilled(c) ==
  /\ CLIENT_CRASH
  /\ c_pc[c] \in {"send", "recv"}
  /\ c_pc' = [c_pc EXCEPT ![c] = "killed"]
  /\ UNCHANGED <<pathVars, cnt, num_tests, cbuf>>
=============================================================================
