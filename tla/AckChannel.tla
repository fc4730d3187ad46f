----------------------------- MODULE AckChannel -----------------------------
(***************************************************************************)
(* What UdpChannel takes for granted of the acknowledgements: that they    *)
(* are a sequence, from which the sender takes one after another, in the   *)
(* order in which they were sent, each at most once and as it was sent.    *)
(***************************************************************************)
EXTENDS Integers, Sequences

CONSTANT AckNum

VARIABLES
  usable,   \* the acknowledgements that may still be taken
  got       \* how many were taken, and the last of them

Init ==
  /\ usable = <<>>
  /\ got = [count |-> 0, ack |-> 0]

Send(n) ==
  /\ usable' = Append(usable, n)
  /\ UNCHANGED got

\* With the j-th all before it are worthless, and those with its timestamp.
Take(j, k) ==
  /\ j < k
  /\ got' = [count |-> got.count + 1, ack |-> usable[j]]
  /\ usable' = SubSeq(usable, k, Len(usable))

Lose(j) ==
  /\ usable' = SubSeq(usable, 1, j - 1) \o SubSeq(usable, j + 1, Len(usable))
  /\ UNCHANGED got

Next ==
  \/ \E n \in AckNum : Send(n)
  \/ \E j \in 1 .. Len(usable) : Lose(j) \/ \E k \in 2 .. Len(usable) + 1 : Take(j, k)

Spec == Init /\ [][Next]_<<usable, got>>
=============================================================================
