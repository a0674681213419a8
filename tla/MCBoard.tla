------------------------------ MODULE MCBoard ------------------------------
(* Instances of Board for TLC. *)
EXTENDS Board

CONSTANTS s1, l1, l2, a1, u1

OneSlot == {s1}
TwoLanes == {l1, l2}
OneApp == {a1}
OneMember == {u1}

\* The dates: three cards with every dependency, in every row order; one call
\* more than it takes to draw them.  The lanes: two cards and two lanes.
Dates == [topics |-> {"dates"}, cards |-> 3, calls |-> 4,
          ops |-> {"create", "update", "schedule", "unschedule", "set_dependencies",
                   "complete", "delete", "crash"}]
LaneMoves == [topics |-> {"lanes"}, cards |-> 2, calls |-> 5,
              ops |-> {"create", "update", "attach", "detach", "move", "set_assignee",
                       "delete", "crash"}]
\* The push: four cards, and one of them rescheduled.
Push == [topics |-> {"dates"}, cards |-> 4, calls |-> 5, ops |-> {"create", "schedule"}]

BothUsages == {Dates, LaneMoves}

PushUsage == {Push}
TwoOrders == {<<1, 2, 3, 4>>, <<1, 3, 2, 4>>}
FirstDays == {0, 3}
TwoDays == {1}
NoPatches == {}
SomeStarts == {NoDay, 1}
SomeDurs == {2}
Undated == {NoDay}
SomeDatePatches ==
  [{"start"} -> {NoDay, 0, 3}] \cup [{"dur"} -> {0, 3}] \cup [{"due"} -> {NoDay, 2}]
  \cup [{"done"} -> BOOLEAN] \cup [{"deps"} -> SUBSET CardIds]
SomeLanePatches ==
  [{"lane"} -> Lanes \cup {None}] \cup [{"app"} -> Apps \cup {None}]
  \cup {[lane |-> l2, app |-> a1]}
EveryOrder == {p \in SetToAllKPermutations(CardIds) : Len(p) = MaxCards}
=============================================================================
