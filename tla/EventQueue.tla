----------------------------- MODULE EventQueue -----------------------------
(***************************************************************************)
(* project3/Simulator: the priority queue of events and the clock.  The    *)
(* loop of run() looks at the top event, dispatches it, and only then pops *)
(* the queue: what dispatch pushes must not take the top's place.          *)
(*                                                                         *)
(* A heap keeps an event of least time at its top, and an event that is    *)
(* pushed replaces it only if it comes before it.  Which of several events *)
(* of one time comes up after a pop is not specified.                      *)
(***************************************************************************)
EXTENDS Integers, Sequences, FiniteSets, Bags, SequencesExt

CONSTANTS
  TIME_MOD,   \* unsigned int time is taken modulo this (2^32)
  Boot        \* what global_time may hold before run() sets it

ASSUME ClockAssumption ==
  /\ TIME_MOD \in Nat \ {0}
  /\ Boot \subseteq 0 .. TIME_MOD - 1

VARIABLES
  global_time,
  event_q,      \* the events in the queue, a bag
  top,          \* the one that event_q.top() returns
  curr_event    \* the one that run() has dispatched and not yet popped

queueVars == <<global_time, event_q, top, curr_event>>

NoEvent == [kind |-> "none", time |-> 0]

\* A slip: events of the same time change places.
BeforeOrEqual(e, f) == e.time <= f.time

\* lteve: e is taken before f.
Before(e, f) == e.time < f.time

\* The time that lies duration after t, and the time from s to t.
After(t, duration) == (t + duration) % TIME_MOD
Age(t, s) == (t - s) % TIME_MOD

\* What a heap may have at its top.
Earliest(q) == {e \in BagToSet(q) : \A f \in BagToSet(q) : e.time <= f.time}

\* How often an event is in the queue.
Copies(q, e) == IF e \in DOMAIN q THEN q[e] ELSE 0

\* push of the events of a sequence, one by one: what the queue holds then,
\* and the one at its top.
Pushed(q, events) ==
  [e \in DOMAIN q \cup Range(events) |->
     Copies(q, e) + Cardinality({k \in DOMAIN events : events[k] = e})]
TopAfter(first, events) ==
  LET all == IF first = NoEvent THEN events ELSE <<first>> \o events
      k == CHOOSE k \in DOMAIN all : \A j \in DOMAIN all :
             (j < k => Before(all[k], all[j])) /\ (j > k => ~ Before(all[j], all[k]))
  IN IF all = <<>> THEN NoEvent ELSE all[k]

QueueInit ==
  /\ global_time \in Boot
  /\ event_q = EmptyBag
  /\ top = NoEvent
  /\ curr_event = NoEvent

Push(events) ==
  /\ event_q' = Pushed(event_q, events)
  /\ top' = TopAfter(top, events)

\* pop() removes the top.
Pop ==
  /\ event_q' = event_q (-) SetToBag({top})
  /\ top' \in IF event_q' = EmptyBag THEN {NoEvent} ELSE Earliest(event_q')
=============================================================================
