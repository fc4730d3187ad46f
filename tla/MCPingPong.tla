----------------------------- MODULE MCPingPong -----------------------------
(***************************************************************************)
(* The requests that TLC lets browsers make.                               *)
(***************************************************************************)
EXTENDS PingPong

SomeRequests ==
  {[cmd |-> "POST", path |-> "file"]}
    \cup [cmd : {"GET"}, path : {"outside", "directory", "file"}]

\* What the file is at first; a change can make it "blank".
SomeFile == {"page", "none"}

\* One request, and a file that can be read.
GetFile == {[cmd |-> "GET", path |-> "file"]}
Page == {"page"}
=============================================================================
