-------------------------- MODULE ReliableTransfer --------------------------
(***************************************************************************)
(* What the file transfer of project2 promises, without packets, windows,  *)
(* sequence numbers or clocks: the chunks of one file are stored in order, *)
(* the sender forgets a chunk only when it is stored, and each program     *)
(* claims to be finished only when the whole file is.  This is the promise *)
(* of project2/README.txt: "data is delivered in order, without            *)
(* duplicates, missing data, or errors".                                   *)
(***************************************************************************)
EXTENDS Naturals, Sequences

CONSTANT NCHUNKS   \* chunks of the file

VARIABLES
  delivered,   \* the chunks stored so far
  forgotten,   \* how many of them the sender no longer keeps
  sender_done, \* the sender has reported completion
  closed       \* the receiver has closed the file

vars == <<delivered, forgotten, sender_done, closed>>

Init ==
  /\ delivered = <<>>
  /\ forgotten = 0
  /\ sender_done = FALSE
  /\ closed = FALSE

\* The next n chunks are stored, and with the last one the file may be closed.
Deliver(n) ==
  /\ ~ closed
  /\ Len(delivered) + n <= NCHUNKS
  /\ delivered' = delivered \o [p \in 1 .. n |-> Len(delivered) + p]
  /\ closed' \in BOOLEAN
  /\ closed' => Len(delivered) + n = NCHUNKS
  /\ UNCHANGED <<forgotten, sender_done>>

\* The sender learns that the first n chunks are stored.
Forget(n) ==
  /\ ~ sender_done
  /\ n \in forgotten .. Len(delivered)
  /\ forgotten' = n
  /\ UNCHANGED <<delivered, sender_done, closed>>

\* The sender learns that all are, and reports it.
Finish ==
  /\ ~ sender_done
  /\ Len(delivered) = NCHUNKS
  /\ forgotten' = NCHUNKS
  /\ sender_done' = TRUE
  /\ UNCHANGED <<delivered, closed>>

Next ==
  \/ \E n \in 1 .. NCHUNKS : Deliver(n)
  \/ \E n \in 1 .. NCHUNKS : Forget(n)
  \/ Finish

Spec == Init /\ [][Next]_vars
=============================================================================
