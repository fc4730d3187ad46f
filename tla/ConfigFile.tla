----------------------------- MODULE ConfigFile -----------------------------
(***************************************************************************)
(* project3/Simulator::init: the configuration file is read line by line   *)
(* into the tables of nodes and links and the queue of events.  Sections   *)
(* are expected in the order nodes, links, events; what comes out of order *)
(* ends the reading without a word.                                        *)
(*                                                                         *)
(* A line is a record: its words have been told apart and its numbers      *)
(* converted, those that links and events need, and ids, what atoi makes   *)
(* of its words.  One that does not fit its section stands for any that    *)
(* the code refuses.  Times are in seconds, where the code has             *)
(* milliseconds.                                                           *)
(***************************************************************************)
EXTENDS EventQueue

CONSTANT Files   \* the configuration files, sequences of lines

\* The lines: of a header, of nodes, of a link, of an event, of nothing, and
\* any other.
Time == 0 .. TIME_MOD - 1
FileLine ==
  [kind : {"blank"}] \cup
  [kind : {"header"}, title : {"nodes", "links", "events", "other"}] \cup
  [kind : {"nodes", "other"}, ids : Seq(Nat)] \cup
  [kind : {"link"}, ids : Seq(Nat), from : Nat, to : Nat, delay : Time, loss : {"never", "sometimes", "always"}] \cup
  [kind : {"linkdying", "linkcomingup", "changedelay"}, ids : Seq(Nat), time : Time,
   src : Nat, dst : Nat, delay : Time] \cup
  [kind : {"xmit"}, ids : Seq(Nat), time : Time, src : Nat, dst : Nat] \cup
  [kind : {"end"}, ids : Seq(Nat), time : Time]

ASSUME FilesAssumption == Files \subseteq Seq(FileLine)

VARIABLES
  pc,           \* "init", "spin", "boot", "run", "pop", or how the program ended
  lines,        \* the lines not read yet
  section,      \* the section that is being read
  node_table,   \* the ids of the nodes
  null_nodes,   \* ids that node_table maps to NULL
  links,        \* the Link objects, in the order of their creation
  link_table,   \* from a pair of nodes, in either order, to an index of links
  link_vector,  \* link_vector[n][p]: the link behind port p of node n
  stop_time

tableVars == <<node_table, null_nodes, links, link_table, link_vector>>
fileVars == <<lines, section, stop_time>>

\* Link(node1, node2, delay, loss_prob); loss: "never", "sometimes" or "always".
Link(n, m, delay, loss) == [node1 |-> n, node2 |-> m, delay |-> delay, loss |-> loss, alive |-> TRUE]

NodeIds == UNION {UNION {{f[k].ids[j] : j \in 1 .. Len(f[k].ids)} :
                    k \in {i \in 1 .. Len(f) : f[i].kind \notin {"blank", "header"}}} : f \in Files}

NoLinks == [p \in {} |-> 0]

FileInit ==
  /\ pc = "init"
  /\ lines \in Files
  /\ section = "start"
  /\ node_table = {}
  /\ null_nodes = {}
  /\ links = <<>>
  /\ link_table = NoLinks
  /\ link_vector = [n \in NodeIds |-> <<>>]
  /\ stop_time = 0

\* The sections that may follow one another.
Follow == [start |-> {"nodes", "links", "events"}, nodes |-> {"links", "events"},
           links |-> {"events"}, events |-> {}]

\* A slip: the header that ends the links is not recognised.
EndsSectionNotLinks(line) == line.kind = "header" /\ section # "links"

EndsSection(line) == line.kind = "header"

\* The line is of no interest: blank, or the section goes on without it.
ReadBlank(line) ==
  /\ line.kind = "blank"
  /\ UNCHANGED <<pc, section, tableVars, stop_time, event_q, top>>

\* A header starts the next section, or ends the reading.
ReadHeader(line) ==
  /\ EndsSection(line)
  /\ IF line.title \in Follow[section]
       THEN section' = line.title /\ UNCHANGED pc
       ELSE pc' = "boot" /\ UNCHANGED section
  /\ UNCHANGED <<tableVars, stop_time, event_q, top>>

\* A file that does not start with a header is not read.
ReadNoHeader(line) ==
  /\ line.kind \notin {"blank", "header"}
  /\ section = "start"
  /\ pc' = "boot"
  /\ UNCHANGED <<section, tableVars, stop_time, event_q, top>>

\* add_node for every word of the line, whatever the line is: the loop ends at
\* a line with a bracket only, and atoi makes a number of any word.
ReadNodes(line) ==
  /\ line.kind \notin {"blank", "header"}
  /\ section = "nodes"
  /\ node_table' = node_table \cup Range(line.ids)
  /\ UNCHANGED <<pc, section, null_nodes, links, link_table, link_vector, stop_time, event_q, top>>

\* A slip: the link is added to one of its two nodes.
AttachedFrom(vectors, n, m, l) == [vectors EXCEPT ![n] = Append(@, l)]

\* The link is pushed to the link_vector of both nodes.
Attached(vectors, n, m, l) ==
  LET one == [vectors EXCEPT ![n] = Append(@, l)] IN [one EXCEPT ![m] = Append(@, l)]

\* A link between two known nodes; its pair may be in link_table already, and
\* then stands for the new link.  A node that is not known is a NULL pointer.
ReadLink(line) ==
  /\ line.kind = "link"
  /\ section = "links"
  /\ IF {line.from, line.to} \subseteq node_table
       THEN /\ links' = Append(links, Link(line.from, line.to, line.delay, line.loss))
            /\ link_table' = [p \in DOMAIN link_table \cup {{line.from, line.to}} |->
                 IF p = {line.from, line.to} THEN Len(links) + 1 ELSE link_table[p]]
            /\ link_vector' = Attached(link_vector, line.from, line.to, Len(links) + 1)
            /\ UNCHANGED pc
       ELSE pc' = "crashed" /\ UNCHANGED <<links, link_table, link_vector>>
  /\ UNCHANGED <<section, node_table, null_nodes, stop_time, event_q, top>>

\* link_table[pair]: NULL, here 0, if there is none.
LinkOf(n, m) == IF {n, m} \in DOMAIN link_table THEN link_table[{n, m}] ELSE 0

\* An event of the file.  xmit looks up its two nodes, which makes entries
\* for those that are not known; end only sets stop_time.
ReadEvent(line) ==
  /\ line.kind \in {"linkdying", "linkcomingup", "changedelay", "xmit", "end"}
  /\ section = "events"
  /\ CASE line.kind = "end"  -> /\ stop_time' = line.time
                                /\ UNCHANGED <<null_nodes, event_q, top>>
       [] line.kind = "xmit" -> /\ null_nodes' = null_nodes \cup ({line.src, line.dst} \ node_table)
                                /\ Push(<<[kind |-> "xmit", time |-> line.time, node |-> line.src]>>)
                                /\ UNCHANGED stop_time
       [] OTHER              -> /\ Push(<<[kind |-> line.kind, time |-> line.time,
                                           link |-> LinkOf(line.src, line.dst), delay |-> line.delay]>>)
                                /\ UNCHANGED <<null_nodes, stop_time>>
  /\ UNCHANGED <<pc, section, node_table, links, link_table, link_vector>>

\* A line that does not fit into the links or the events ends the program.
ReadWrong(line) ==
  /\ ~ EndsSection(line) /\ line.kind # "blank"
  /\ \/ section = "links" /\ line.kind # "link"
     \/ section = "events" /\ line.kind \notin {"linkdying", "linkcomingup", "changedelay", "xmit", "end"}
  /\ pc' = "refused"
  /\ UNCHANGED <<section, tableVars, stop_time, event_q, top>>

ReadLine ==
  /\ pc = "init"
  /\ lines # <<>>
  /\ lines' = Tail(lines)
  /\ LET line == Head(lines)
     IN \/ ReadBlank(line)
        \/ ReadHeader(line)
        \/ ReadNoHeader(line)
        \/ ReadNodes(line)
        \/ ReadLink(line)
        \/ ReadEvent(line)
        \/ ReadWrong(line)
  /\ UNCHANGED <<global_time, curr_event>>

\* The end of the file.  The loop over the nodes does not look for it and
\* waits for ever for a line with a bracket.
EndOfFile ==
  /\ pc = "init"
  /\ lines = <<>>
  /\ pc' = IF section = "nodes" THEN "spin" ELSE "boot"
  /\ UNCHANGED <<queueVars, tableVars, fileVars>>
=============================================================================
