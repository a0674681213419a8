----------------------------- MODULE MCServices -----------------------------
(* The instance of Services for TLC. *)
EXTENDS Services, Calendar, MCBoard

CONSTANTS v1, v2, e1, c1, c2, x, t1, t2, k1, k2, l3, l4, n1, n2, i1, i2, m1, b1, p1, p2, g1, g2

TwoServers == {v1, v2}
OneEditor == {e1}
Daily == [kind |-> "daily", at |-> 0]
Evening == [kind |-> "daily", at |-> 1]
TwoRules == {Daily, Evening}
TwoTasks == {1, 2}
FewDays == 0..3
DayOfSlot(slot) == slot \div PerDay

TwoCards == {c1, c2}
OneContent == {x}
TwoTokenSlots == {t1, t2}
TwoKeys == {k1, k2}
OneLane == {l1}
TwoIntervals == {i1, i2}

TwoAddresses == {b1, m1}
OneManager == {m1}
Contractor == {b1}

\* Files of three rows: new and known keys, a key or an interval named twice, a
\* refused row, names in some rows only; two spellings of a name (l1 and l2, n1 and
\* n2), and one longer than the column (l3, kept as l4).
FourNames == {l1, l2, l3, l4}
TwoSpellings == {n1, n2}
FoldedName(name) == CASE name = l2 -> l1 [] name = n2 -> n1 [] OTHER -> name
CutName(name) == IF name = l3 THEN l4 ELSE name
TaskRowOf(key, lane) == [key |-> key, lane |-> lane]
EntryRowOf(interval, lane, client) == [interval |-> interval, lane |-> lane, client |-> client]
SomeFiles ==
  {[kind |-> "task", rows |-> <<TaskRowOf(k1, l1), TaskRowOf(k2, l2), TaskRowOf(k1, Nameless)>>],
   [kind |-> "task", rows |-> <<TaskRowOf(k2, l3), Refused, TaskRowOf(k1, l3)>>],
   [kind |-> "time", rows |-> <<EntryRowOf(i1, l2, n1), EntryRowOf(i2, l1, Nameless), EntryRowOf(i1, l4, n2)>>],
   [kind |-> "time", rows |-> <<EntryRowOf(i2, Nameless, n2), Refused>>]}

\* Rows of two days: one line of two sources, one without a lane, and every
\* approval; seconds that round up and down.  Rates with and without a member's
\* and a lane's.
WorkRow(id, day, lane, task, source, secs, cost, approval) ==
  [id |-> id, day |-> day, lane |-> lane, task |-> task, source |-> source, secs |-> secs,
   cost |-> cost, rate |-> Absent, approval |-> approval]
SomeWork ==
  {WorkRow(1, 1, l1, k1, "human", 90, 0, "approved"), WorkRow(2, 1, l1, k1, "agent", 90, 14, "pending"),
   WorkRow(3, 1, Absent, Absent, "human", 29, 0, "none"), WorkRow(4, 2, l1, Absent, "human", 89, 0, "rejected"),
   WorkRow(5, 2, l1, Absent, "agent", 31, 14, "approved")}
SomeSheets == {{}, {r \in SomeWork : r.id \in {1, 3}}}
TwoPriceLists == {[member |-> 4510, customer |-> Absent, lanes |-> l1 :> 4510],
                  [member |-> Absent, customer |-> 3070, lanes |-> <<>>]}

\* Two terminals of one agent, a stream with a budget and cards outside any: a
\* run that only its attestation priced has spent the smaller ceiling at first.
\* One measurement names its cost; the table prices the other, of which a total
\* hides what the cache served and what was written to it for an hour.  A month
\* has one day.
TwoTerminals == {p1, p2}
OneSeat == p1 :> g1 @@ p2 :> g1
OneQueue == g1 :> <<l1, Unset>>
TwoCeilings == {[budget |-> 20, mode |-> "enforce"], [budget |-> 40, mode |-> "alert"]}
OneBill == {20}
TokenRate == [input |-> 20, output |-> 100, read |-> 2] @@ "5m" :> 25 @@ "1h" :> 40
MonthOfOneDay(day) == day
UsageOf(total, input, read, write, ttl, cost) ==
  [tokens |-> total, input |-> input, output |-> Unset, read |-> read, write |-> write, ttl |-> ttl,
   cost |-> cost, priced |-> TRUE]
OneToken == UsageOf(1, 1, 0, 0, "5m", 20)
SomeMeasures == {OneToken, UsageOf(3, Unset, 1, 1, "1h", Unset)}
OneRun == {<<>>, <<[seat |-> g1, lane |-> l1, day |-> 0, open |-> FALSE, claim |-> Unset, cost |-> 20,
              sworn |-> TRUE, claimBy |-> [by |-> p2, of |-> OneToken], swornBy |-> [by |-> p2, of |-> OneToken]]>>}
TwoChats == {g1, g2}
OneSubject == {p1}
OneCaller == {t1}

\* Every kind of rule, over the first months of a common year.
CalendarRules ==
  [kind : {"daily", "weekdays"}, at : {0, 1}] \cup [kind : {"weekly"}, days : {{0}, {1, 3}, {2, 6}}, at : {0, 1}]
  \cup [kind : {"monthly"}, day : {1, 28, 30, 31}, at : {0, 1}]
CadenceRules == [kind : {"every"}, every : {1, 2, 3, 14}, at : {0, 1}]

\* The next firing is the first slot of the rule strictly after the moment given,
\* on every day a rule of the calendar names, the last day of a short month
\* included (recurrence.ts:121-124); a cadence keeps its distance.
NextIsFirst ==
  scene = "recurrence" /\ RecurrenceInit =>
    /\ \A rule \in CalendarRules :
         LET slots == {AtOn(d, rule.at) : d \in RuleDays(rule, 0..160)}
         IN \A from \in 0..(120 * PerDay) :
              LET next == NextRunAfter(rule, from)
              IN next \in slots /\ next > from /\ \A s \in slots : s > from => s >= next
    /\ \A rule \in CadenceRules, from \in 0..9, later \in 0..20 :
         LET first == NextRunAfter(rule, from)
             next  == CatchUp(rule, first, first + later)
             step  == rule.every * PerDay
         IN next > first + later /\ (next - first) % step = 0 /\ next - step <= first + later
=============================================================================
