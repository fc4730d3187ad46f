---------------------------- MODULE MCSimulation ----------------------------
(***************************************************************************)
(* Configuration files for TLC: links that die and come back, lose packets *)
(* or change their delay, two links between the same nodes, and files with *)
(* something missing, unknown or out of order.                             *)
(***************************************************************************)
EXTENDS Simulation

\* ids is what atoi makes of the words: 0 of "(1,2)" and of a name.
Header(title) == [kind |-> "header", title |-> title]
Nodes(ids) == [kind |-> "nodes", ids |-> ids]
Line(n, m, delay, loss) ==
  [kind |-> "link", ids |-> <<0, 0, delay>>, from |-> n, to |-> m, delay |-> delay, loss |-> loss]
Dies(t, n, m) == [kind |-> "linkdying", ids |-> <<t, 0, 0>>, time |-> t, src |-> n, dst |-> m, delay |-> 0]
ComesUp(t, n, m) == [kind |-> "linkcomingup", ids |-> <<t, 0, 0>>, time |-> t, src |-> n, dst |-> m, delay |-> 0]
Delay(t, n, m, d) == [kind |-> "changedelay", ids |-> <<t, 0, 0>>, time |-> t, src |-> n, dst |-> m, delay |-> d]
Xmit(t, n, m) == [kind |-> "xmit", ids |-> <<t, 0, 0>>, time |-> t, src |-> n, dst |-> m]
End(t) == [kind |-> "end", ids |-> <<t, 0>>, time |-> t]
Blank == [kind |-> "blank"]
Other == [kind |-> "other", ids |-> <<0>>]

Two == <<Header("nodes"), Nodes(<<1, 2>>), Header("links")>>
File(links_, events) == Two \o links_ \o <<Header("events")>> \o events

\* The link is down for a while, named from its other end when it comes up.
Down == File(<<Line(1, 2, 1, "never")>>, <<Dies(9, 1, 2), ComesUp(27, 2, 1), End(41)>>)
\* Packets are lost by chance, or all of them.
Lossy == File(<<Line(2, 1, 1, "sometimes")>>, <<Xmit(3, 1, 2), Blank, End(33)>>)
Dead == File(<<Line(1, 2, 1, "always")>>, <<End(12)>>)
\* The delay goes up by as much as it can.
Slower == File(<<Line(1, 2, 0, "never")>>, <<Delay(5, 1, 2, 2), End(20)>>)
\* The pair (1, 2) stands for the second of two links.
Parallel == File(<<Line(1, 2, 1, "never"), Line(2, 1, 2, "never")>>, <<Dies(5, 1, 2), End(24)>>)

\* Node 2 has two ports, its neighbours have one each.
Middle == <<Header("nodes"), Nodes(<<1, 2, 3>>), Header("links"), Line(1, 2, 1, "never"),
            Line(3, 2, 1, "never"), Header("events"), End(13)>>

\* Sections that are missing or out of order; then no link, no event, no end.
Swapped == <<Blank, Header("links"), Line(1, 2, 1, "never"), Header("nodes"), Nodes(<<1, 2>>)>>
NoLinksFile == <<Header("nodes"), Nodes(<<1>>), Nodes(<<2>>), Header("events"), End(2), Header("links")>>
\* The title of the links is missing: their lines are read as nodes 0 and 1.
NoLinksTitle == <<Header("nodes"), Nodes(<<1, 2>>), Line(1, 2, 1, "never"), Other, Header("events"), End(12)>>
OnlyNodes == <<Header("nodes"), Nodes(<<1, 2>>), Blank>>
NoTitle == <<Blank, Other>>
Empty == <<>>

\* Nodes, links and words that are not known.
NoSuchNode == Two \o <<Line(1, 3, 1, "never")>>
NoSuchLink == File(<<>>, <<Dies(1, 1, 2), End(3)>>)
NoSuchEnd == File(<<Line(1, 2, 1, "never")>>, <<Xmit(1, 1, 3), End(3)>>)
NoSuchEvent == File(<<Line(1, 2, 1, "never")>>, <<Other>>)
NotALink == Two \o <<Other>>

SomeFiles == {Down, Lossy, Dead, Slower, Parallel, Middle, Swapped, NoLinksFile, NoLinksTitle, OnlyNodes,
              NoTitle, Empty, NoSuchNode, NoSuchLink, NoSuchEnd, NoSuchEvent, NotALink}
=============================================================================
