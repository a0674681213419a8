------------------------------ MODULE Calendar ------------------------------
(* The recurrence rules of server/plan/recurrence.ts as pure operators.  Time  *)
(* is counted in PerDay units a day from 1970-01-01, and a rule fires at unit  *)
(* rule.at of a day, as the code's hour and minute do.  The years are common   *)
(* years: the instances stay below 1972.                                       *)
EXTENDS Integers, FiniteSets, FiniteSetsExt

PerDay == 2
Months == 0..23

\* getUTCDay: 1970-01-01 was a Thursday, and 0 is Sunday.
Weekday(day) == (day + 4) % 7
WorkDays == 1..5

DaysInMonth(m) == <<31, 28, 31, 30, 31, 30, 31, 31, 30, 31, 30, 31>>[(m % 12) + 1]
FirstOf(m) == (m \div 12) * 365 + FoldSet(LAMBDA k, sum : sum + DaysInMonth(k), 0, 0..((m % 12) - 1))
MonthOf(day) == Max({m \in Months : FirstOf(m) <= day})

AtOn(day, at) == day * PerDay + at

\* The day the loops start from: the day of `from`, or the one `step` days on
\* when that day's slot is not after it.
FirstDay(rule, from, step) ==
  LET day == from \div PerDay IN IF AtOn(day, rule.at) <= from THEN day + step ELSE day

\* weekdays and weekly look at most seven days on.
NextAmong(days, day) == day + Min({i \in 0..6 : Weekday(day + i) \in days} \cup {7})

\* monthly asks each month in turn, its day clamped to the month's length.
\* Mutant: the day is not clamped, so a short month's slot falls in the next.
NextMonthly_Bug(rule, from) ==
  LET slot(m) == AtOn(FirstOf(m) + rule.day - 1, rule.at)
  IN Min({slot(m) : m \in {m \in Months : slot(m) > from}})

NextMonthly(rule, from) ==
  LET slot(m) == AtOn(FirstOf(m) + Min({rule.day, DaysInMonth(m)}) - 1, rule.at)
      month   == MonthOf(from \div PerDay)
  IN slot(Min({m \in month..23 : slot(m) > from}))

NextRunAfter(rule, from) ==
  CASE rule.kind = "daily"    -> AtOn(FirstDay(rule, from, 1), rule.at)
    [] rule.kind = "weekdays" -> AtOn(NextAmong(WorkDays, FirstDay(rule, from, 1)), rule.at)
    [] rule.kind = "weekly"   -> AtOn(NextAmong(rule.days, FirstDay(rule, from, 1)), rule.at)
    [] rule.kind = "monthly"  -> NextMonthly(rule, from)
    [] rule.kind = "every"    -> AtOn(FirstDay(rule, from, rule.every), rule.at)

\* The loop stops at the first firing after now; here it is given `now - from`
\* turns in place of 4000, each of which moves on.
CatchUp(rule, from, now) ==
  LET Turn(i, next) == IF next <= now THEN NextRunAfter(rule, next) ELSE next
  IN FoldSet(Turn, NextRunAfter(rule, from), from..now)
-----------------------------------------------------------------------------
\* What the rules mean: the days each one names (recurrence.ts:9-13).
RuleDays(rule, days) ==
  CASE rule.kind \in {"daily", "every"} -> days
    [] rule.kind = "weekdays" -> {d \in days : Weekday(d) \notin {0, 6}}
    [] rule.kind = "weekly"   -> {d \in days : Weekday(d) \in rule.days}
    [] rule.kind = "monthly"  ->
         {d \in days : LET dayOfMonth == d - FirstOf(MonthOf(d)) + 1
                           last == DaysInMonth(MonthOf(d))
                       IN dayOfMonth = Min({rule.day, last})}
=============================================================================
