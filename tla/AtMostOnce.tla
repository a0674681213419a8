----------------------------- MODULE AtMostOnce -----------------------------
(* What the recurrence scheduler promises (server/plan/scheduler.ts:14-20): the *)
(* slots of each source are taken in order and never twice; a slot that was     *)
(* taken is delivered once or, when a process stops or a clone fails, lost.  A  *)
(* source may be forsaken, once and for all: nothing more is promised of it.    *)
EXTENDS Integers

CONSTANT Sources
VARIABLES
  forsaken,   \* the sources of which nothing is promised any more
  last,       \* the last slot taken of each source
  pending,    \* slots taken and not delivered yet
  delivered   \* slots delivered, each with how many times

vars == <<forsaken, last, pending, delivered>>

Init == forsaken = {} /\ last = [s \in Sources |-> -1] /\ pending = {} /\ delivered = {}

Take(s) ==
  /\ s \notin forsaken
  /\ last'[s] > last[s]
  /\ last' = [last EXCEPT ![s] = last'[s]]
  /\ pending' = pending \cup {<<s, last'[s]>>}
  /\ UNCHANGED <<forsaken, delivered>>

Deliver(p) ==
  /\ pending' = pending \ {p}
  /\ delivered' = delivered \cup {<<p[1], p[2], 1>>}
  /\ UNCHANGED <<forsaken, last>>

Lose(p) ==
  /\ pending' = pending \ {p}
  /\ UNCHANGED <<forsaken, last, delivered>>

Forsake(s) ==
  /\ s \notin forsaken /\ forsaken' = forsaken \cup {s}
  /\ last' = [last EXCEPT ![s] = -1]
  /\ pending' = {p \in pending : p[1] # s}
  /\ delivered' = {d \in delivered : d[1] # s}

Next == (\E s \in Sources : Take(s) \/ Forsake(s)) \/ (\E p \in pending : Deliver(p) \/ Lose(p))

Spec == Init /\ [][Next]_vars
=============================================================================
