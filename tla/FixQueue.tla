------------------------------ MODULE FixQueue ------------------------------
(***************************************************************************)
(* project2/fix_queue.h: the linked list in which both programs keep their *)
(* packets, down to its nodes in memory.                                   *)
(***************************************************************************)
EXTENDS Integers, Sequences, FiniteSets

CONSTANT Nodes   \* the places where malloc may put a node

NULL == "NULL"

ASSUME NodesAssumption == IsFiniteSet(Nodes) /\ NULL \notin Nodes

VARIABLES
  root,    \* root: the first node, or NULL
  next,    \* next[x]: the next field of node x
  data,    \* data[x]: the packet in node x
  live     \* the nodes that are allocated

queueVars == <<root, next, data, live>>

QueueInit ==
  /\ root = NULL
  /\ next = [x \in Nodes |-> NULL]
  /\ data = [x \in Nodes |-> 0]
  /\ live = {}

\* The node that k steps from r lead to; NULL past the end.
Steps(r, k) ==
  LET at[j \in 0 .. k] ==
        IF j = 0 THEN r ELSE LET x == at[j - 1] IN IF x = NULL THEN NULL ELSE next[x]
  IN at[k]

\* How many nodes the list has.
Length(r) == Cardinality({k \in 0 .. Cardinality(Nodes) - 1 : Steps(r, k) # NULL})

\* GetK: the loop stops at the last node, and that is an answer only if k has
\* come down to 0.
GetK(k) == Steps(root, k)

\* malloc of a node, with next = NULL and the packet in it, and Enqueue
\* behind the last node.
Enqueue(x, packet) ==
  /\ x \in Nodes \ live
  /\ live' = live \cup {x}
  /\ data' = [data EXCEPT ![x] = packet]
  /\ IF root = NULL
       THEN root' = x /\ next' = [next EXCEPT ![x] = NULL]
       ELSE /\ next' = [next EXCEPT ![x] = NULL, ![Steps(root, Length(root) - 1)] = x]
            /\ UNCHANGED root

\* A slip: the first node is freed, and root stays where it is.
DequeueStays(n) ==
  /\ live' = live \ {Steps(root, k) : k \in 0 .. n - 1}
  /\ UNCHANGED <<root, next, data>>

\* n times Dequeue, which frees the first node, if there is one.
Dequeue(n) ==
  /\ root' = Steps(root, n)
  /\ live' = live \ {Steps(root, k) : k \in 0 .. n - 1}
  /\ UNCHANGED <<next, data>>
=============================================================================
