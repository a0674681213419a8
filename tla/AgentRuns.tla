------------------------------ MODULE AgentRuns ------------------------------
(* Agents at work under a budget: the command line and the session hooks of one *)
(* seat or several, which ask next_task for a card, time themselves on it, and  *)
(* report and attest what it cost (cli/src/commands/agent.ts, hooks/), the wall *)
(* a stream's budget puts up (server/usage/budget.ts), and the fold behind      *)
(* usage.summary (server/usage/fold.ts).  A card stands for its stream, an      *)
(* amount is in the unit in which no price needs rounding.  Starting and        *)
(* stopping are atomic here: see Track for their steps.                         *)
EXTENDS Integers, Sequences, FiniteSets, FiniteSetsExt, SequencesExt

CONSTANTS
  Terminals, SeatOf,  \* processes, and the agent seat whose credential each uses
  Streams, Queues,    \* by seat, the streams of its cards in next_task's order
  Openings,           \* bound: the rows there are at first
  Ceilings,           \* bound: budgets with their mode
  Measures,           \* bound: what commands and transcripts say was used
  Bills,              \* bound: figures of people, and of agents that measure nothing
  Rate,               \* the price of a token of each kind
  MonthStart(_),      \* the first day of a day's month
  MaxSessions, LastDay, MaxOffice,  \* bounds
  Unset, Office       \* a null column; people who are at no terminal

Seats == {SeatOf[t] : t \in Terminals}
Places == Streams \cup {Unset}
Amount == Nat \cup {Unset}

\* What a session used: a total, which need not be the sum of its parts, the parts
\* that were itemised, the cache traffic and how long it was written for; a cost
\* of its own, or a model the price table knows.
Usage ==
  [tokens : Nat, input : Amount, output : Amount, read : Nat, write : Nat, ttl : {"5m", "1h"},
   cost : Amount, priced : BOOLEAN]

\* A row remembers who claimed and who attested, and on which measurement.
Stamps == [by : Terminals, of : Measures]
SessionRow ==
  [seat : Seats, lane : Places, day : Nat, open : BOOLEAN, claim : Amount, cost : Amount, sworn : BOOLEAN,
   claimBy : [by : Terminals, of : Measures \cup {Unset}] \cup {Unset}, swornBy : Stamps \cup {Unset, Office}]

Num(cost) == IF cost = Unset THEN 0 ELSE cost
-----------------------------------------------------------------------------
Itemised(u) == u.input # Unset \/ u.output # Unset

\* splitFromEvidence: with nothing itemised, what the cache leaves of the total is
\* input.
SplitOf(tokens, u) ==
  LET left == tokens - u.read - u.write IN
  [input  |-> IF Itemised(u) THEN Num(u.input) ELSE IF left > 0 THEN left ELSE 0,
   output |-> Num(u.output), read |-> u.read, write |-> u.write, ttl |-> u.ttl]

\* costForSplit, for a model of the table.
Price(split) ==
  Rate["input"] * split.input + Rate["output"] * split.output + Rate["read"] * split.read + Rate[split.ttl] * split.write

\* resolveCost: what an attestation of the measurement stores.
Evidence(u) ==
  IF u.cost # Unset THEN u.cost ELSE IF u.priced THEN Price(SplitOf(u.tokens, u)) ELSE Unset

\* What a stop claims for it: the cost it names, else what usage.price answers,
\* which is sent a total as input and no ttl (priceUsage, and the stop hook); the
\* call may fail.
Asked(u) == [u EXCEPT !.input = IF Itemised(u) THEN @ ELSE u.tokens, !.ttl = "5m"]
ClaimsOf(u) ==
  IF u.cost # Unset THEN {u.cost}
  ELSE IF u.priced THEN {Price(SplitOf(0, Asked(u))), Unset} ELSE {Unset}

\* The two are the same arithmetic, but for a total that hides the cache's part
\* and for what was cached for an hour.
Exact(u) ==
  \/ u.cost # Unset
  \/ (Itemised(u) \/ u.read + u.write = 0) /\ (u.ttl = "5m" \/ u.write = 0)

\* What a terminal attested is the price of its own measurement, which it had
\* claimed before.
IsOwn(row) ==
  row.swornBy \in Stamps =>
    /\ ~row.open /\ row.claimBy = row.swornBy
    /\ row.cost = Evidence(row.swornBy.of)
    /\ Exact(row.swornBy.of) => row.claim \in {row.cost, Unset}

\* A verified cost comes with its attestation.
IsSworn(row) == row.cost # Unset => row.sworn

\* A row that is open has not been reported or attested.
IsBlank(row) == row.open => row.claim = Unset /\ row.cost = Unset

ASSUME AgentAssumption ==
  /\ IsFiniteSet(Terminals) /\ IsFiniteSet(Streams)
  /\ Unset \notin Streams \cup Terminals \cup Nat \cup Stamps /\ Office \notin Terminals \cup Stamps
  /\ Queues \in [Seats -> Seq(Places)]
  /\ Bills \subseteq Nat /\ \A w \in Ceilings : w.budget \in (Nat \ {0}) \cup {Unset}
  /\ Measures \subseteq Usage /\ Rate \in [{"input", "output", "read", "5m", "1h"} -> Nat]
  /\ LastDay \in Nat /\ \A d \in 0..LastDay : MonthStart(d) \in 0..d
  /\ \A rows \in Openings : /\ rows \in Seq(SessionRow)
                            /\ \A i \in DOMAIN rows : IsOwn(rows[i]) /\ IsSworn(rows[i]) /\ IsBlank(rows[i])

VARIABLES
  walls,     \* agentBudgetUsd and budgetMode of each stream
  archived,  \* the streams that are archived
  sessions,  \* time_entries of the agent seats, by id
  errand,    \* what each terminal is doing
  date,      \* the day
  overruns,  \* history: sessions each terminal began on an offer in a stream that
             \* was exhausted then, since it is
  office     \* bound: acts of people and of the platform

agentVars == <<walls, archived, sessions, errand, date, overruns, office>>

AtRest == [pc |-> "rest"]

AgentInit ==
  /\ walls \in [Streams -> Ceilings] /\ archived = {} /\ sessions \in Openings
  /\ errand = [t \in Terminals |-> AtRest] /\ date = 0
  /\ overruns = [t \in Terminals |-> [l \in Streams |-> 0]] /\ office = 0

SumOver(cost(_), S) == SumFunctionOnSet([i \in S |-> cost(sessions[i])], S)

\* What a row counts for: the verified cost where there is one, else the claim.
Spending(row) == IF row.cost # Unset THEN row.cost ELSE Num(row.claim)
-----------------------------------------------------------------------------
\* monthToDateSpend: everything since the month began, what is dated ahead of
\* today with it.  Mutant: the claim alone.
SinceMonthBegan(lane) == {i \in DOMAIN sessions : sessions[i].lane = lane /\ sessions[i].day >= MonthStart(date)}

MonthToDateSpend_Bug(lane) == SumOver(LAMBDA row : Num(row.claim), SinceMonthBegan(lane))

MonthToDateSpend(lane) == SumOver(Spending, SinceMonthBegan(lane))

\* evaluateBudget, and blockedStreamIds over streamBudgets: the lanes an agent is
\* not offered.  Mutant: only once the ceiling is passed.
Blocked_Bug ==
  {l \in Streams \ archived :
     walls[l].mode = "enforce" /\ walls[l].budget # Unset /\ MonthToDateSpend(l) > walls[l].budget}

Blocked ==
  {l \in Streams \ archived :
     walls[l].mode = "enforce" /\ walls[l].budget # Unset /\ MonthToDateSpend(l) >= walls[l].budget}

\* next_task with assignee "me": nothing is claimed by the answer.
NextTask(seat) ==
  LET offered == {i \in DOMAIN Queues[seat] : Queues[seat][i] \notin Blocked}
  IN IF offered = {} THEN Unset ELSE Queues[seat][Min(offered)]

OpenEntry(seat) ==
  LET open == {i \in DOMAIN sessions : sessions[i].seat = seat /\ sessions[i].open}
  IN IF open = {} THEN Unset ELSE Max(open)

\* A lane has spent what it may this month, up to today: written from what a
\* budget is for, beside the code's own sum.
Reckoned(lane, from, to, rows) ==
  FoldLeft(LAMBDA sum, row :
             IF row.lane # lane \/ row.day < from \/ row.day > to THEN sum
             ELSE sum + Num(IF row.sworn /\ row.cost # Unset THEN row.cost ELSE row.claim),
           0, rows)

Exhausted(lane) ==
  /\ walls[lane].mode = "enforce" /\ walls[lane].budget # Unset /\ lane \notin archived
  /\ Reckoned(lane, MonthStart(date), date, sessions) >= walls[lane].budget

\* Every step keeps the count of sessions that began beyond the wall.
Count(t, lane) ==
  overruns' = [u \in Terminals |-> [l \in Streams |->
                 IF ~Exhausted(l)' THEN 0 ELSE overruns[u][l] + (IF u = t /\ l = lane THEN 1 ELSE 0)]]

Does(t, e) == errand' = [errand EXCEPT ![t] = e]
-----------------------------------------------------------------------------
\* pickTask, and the start hook that finds nothing running: the card that was
\* named, whatever its budget, else the one offered.
Pick(t) ==
  /\ errand[t].pc = "rest"
  /\ \/ Does(t, [pc |-> "picked", lane |-> NextTask(SeatOf[t]), offered |-> TRUE])
     \/ \E l \in Streams : Does(t, [pc |-> "picked", lane |-> l, offered |-> FALSE])
  /\ UNCHANGED <<walls, archived, sessions, date, overruns, office>>

\* The start hook leaves a running entry be: the session is timed on it.
LeaveBe(t) ==
  /\ errand[t].pc = "rest" /\ OpenEntry(SeatOf[t]) # Unset
  /\ Does(t, [pc |-> "timed"])
  /\ UNCHANGED <<walls, archived, sessions, date, overruns, office>>

SessionOf(t, lane) ==
  [seat |-> SeatOf[t], lane |-> lane, day |-> date, open |-> TRUE, claim |-> Unset, cost |-> Unset,
   sworn |-> FALSE, claimBy |-> Unset, swornBy |-> Unset]

\* time_entry.start: with a timer running the command runs untracked, and a
\* session of the hooks goes on until its stop hook.
Clock(t) ==
  /\ errand[t].pc = "picked" /\ OpenEntry(SeatOf[t]) = Unset /\ Len(sessions) < MaxSessions
  /\ sessions' = Append(sessions, SessionOf(t, errand[t].lane))
  /\ Does(t, [pc |-> "timed"])
  /\ UNCHANGED <<walls, archived, date, office>>
  /\ Count(t, IF errand[t].offered THEN errand[t].lane ELSE Unset)

ClockRefused(t) ==
  /\ errand[t].pc = "picked" /\ OpenEntry(SeatOf[t]) # Unset
  /\ \/ Does(t, AtRest)
     \/ Does(t, [pc |-> "timed"])
  /\ UNCHANGED <<walls, archived, sessions, date, overruns, office>>

\* time_entry.stop closes the open entry of the seat, whoever began it, with the
\* claim of a measurement that will be attested; or with a figure of the agent's
\* own, a report without tokens, or none, which nobody attests.  With nothing
\* running the report is lost.
ClosedWith(entry, claim, by) ==
  sessions' = [sessions EXCEPT ![entry].open = FALSE, ![entry].claim = claim, ![entry].claimBy = by]

\* Mutant: the report is attested on the newest entry.
Stop_Bug(t) ==
  /\ errand[t].pc = "timed"
  /\ LET e == OpenEntry(SeatOf[t]) IN
     \/ /\ e = Unset
        /\ Does(t, AtRest) /\ UNCHANGED sessions
     \/ \E u \in Measures : \E c \in ClaimsOf(u) :
        /\ e # Unset /\ u.tokens > 0
        /\ ClosedWith(e, c, [by |-> t, of |-> u])
        /\ Does(t, [pc |-> "stopped", entry |-> Len(sessions), of |-> u])
  /\ UNCHANGED <<walls, archived, date, office>> /\ Count(t, Unset)

Stop(t) ==
  /\ errand[t].pc = "timed"
  /\ LET e == OpenEntry(SeatOf[t]) IN
     \/ /\ e = Unset
        /\ Does(t, AtRest) /\ UNCHANGED sessions
     \/ \E c \in Bills \cup {Unset} :
        /\ e # Unset
        /\ ClosedWith(e, c, [by |-> t, of |-> Unset])
        /\ Does(t, AtRest)
     \/ \E u \in Measures : \E c \in ClaimsOf(u) :
        /\ e # Unset /\ u.tokens > 0
        /\ ClosedWith(e, c, [by |-> t, of |-> u])
        /\ Does(t, [pc |-> "stopped", entry |-> e, of |-> u])
  /\ UNCHANGED <<walls, archived, date, office>> /\ Count(t, Unset)

\* ci-report: time_entry.log_past of up to a day ago, with a cost only if one was
\* given; a report without tokens is not attested.
LogRun(t) ==
  /\ errand[t].pc = "picked" /\ Len(sessions) < MaxSessions
  /\ \E d \in {date - 1, date} \cap Nat, u \in Measures :
       /\ sessions' = Append(sessions, [SessionOf(t, errand[t].lane) EXCEPT
                        !.day = d, !.open = FALSE, !.claim = u.cost, !.claimBy = [by |-> t, of |-> u]])
       /\ Does(t, IF u.tokens > 0 THEN [pc |-> "stopped", entry |-> Len(sessions) + 1, of |-> u] ELSE AtRest)
  /\ UNCHANGED <<walls, archived, date, office>>
  /\ Count(t, IF errand[t].offered THEN errand[t].lane ELSE Unset)

\* time_entry.attest: the last one stands, priced or not.
Attested(entry, cost, by) ==
  sessions' = [sessions EXCEPT ![entry].sworn = TRUE, ![entry].cost = cost, ![entry].swornBy = by]

AttestOwn(t) ==
  /\ errand[t].pc = "stopped"
  /\ Attested(errand[t].entry, Evidence(errand[t].of), [by |-> t, of |-> errand[t].of])
  /\ Does(t, AtRest) /\ UNCHANGED <<walls, archived, date, office>> /\ Count(t, Unset)
-----------------------------------------------------------------------------
Acts(kept) ==
  /\ office < MaxOffice /\ office' = office + 1 /\ UNCHANGED kept
  /\ Count(Office, Unset)

\* A terminal dies, or its stop is refused since the timer ran overlong: the timer
\* runs on, its report is not attested.
Dies(t) ==
  /\ errand[t].pc # "rest" /\ Does(t, AtRest)
  /\ Acts(<<walls, archived, sessions, date>>)

\* ci-report --entry, the provider's figures, or a manager: any closed row.
AttestOther(i, cost) ==
  /\ ~sessions[i].open /\ Attested(i, cost, Office)
  /\ Acts(<<walls, archived, errand, date>>)

\* time_entry.update: another stream, another day, one to come as well, or an end
\* for a timer that was left running.  No claim can be changed.
Amend(i, lane, day, open) ==
  LET row == [sessions[i] EXCEPT !.lane = lane, !.day = day, !.open = @ /\ open] IN
  /\ row # sessions[i] /\ sessions' = [sessions EXCEPT ![i] = row]
  /\ Acts(<<walls, archived, errand, date>>)

\* stream.set_budget.
SetBudget(l, w) ==
  /\ walls[l] # w /\ walls' = [walls EXCEPT ![l] = w]
  /\ Acts(<<archived, sessions, errand, date>>)

\* stream.update: a lane is archived, or brought back.
Archive(l) ==
  /\ archived' = (archived \cup {l}) \ (archived \cap {l})
  /\ Acts(<<walls, sessions, errand, date>>)

NewDay ==
  /\ date < LastDay /\ date' = date + 1
  /\ Acts(<<walls, archived, sessions, errand>>)

AgentNext ==
  \/ \E t \in Terminals : \/ Pick(t) \/ LeaveBe(t) \/ Clock(t) \/ ClockRefused(t)
                          \/ Stop(t) \/ LogRun(t) \/ AttestOwn(t) \/ Dies(t)
  \/ \E i \in DOMAIN sessions : \/ \E c \in Bills \cup {Unset} : AttestOther(i, c)
                                \/ \E l \in Places, d \in 0..LastDay, b \in BOOLEAN : Amend(i, l, d, b)
  \/ \E l \in Streams : (\E w \in Ceilings : SetBudget(l, w)) \/ Archive(l)
  \/ NewDay

AgentSpec == AgentInit /\ [][AgentNext]_agentVars
-----------------------------------------------------------------------------
\* usage.summary: what readUsageRows selects of the window, folded row by row into
\* the totals, a bucket for each seat and one for each stream.
IsUsage(row, from, to) == ~row.open /\ from <= row.day /\ row.day <= to

EmptyBucket == [entries |-> 0, attested |-> 0, reported |-> 0, verified |-> 0, delta |-> 0, unverified |-> 0]

\* Mutant: what nobody attested counts as verified.
Tally_Bug(b, row) ==
  [b EXCEPT !.entries = @ + 1, !.reported = @ + Num(row.claim), !.attested = @ + 1,
            !.verified = @ + Num(row.cost), !.delta = @ + Num(row.cost) - Num(row.claim)]

Tally(b, row) ==
  LET seen == [b EXCEPT !.entries = @ + 1, !.reported = @ + Num(row.claim)]
  IN IF ~row.sworn THEN [seen EXCEPT !.unverified = @ + Num(row.claim)]
     ELSE [seen EXCEPT !.attested = @ + 1, !.verified = @ + Num(row.cost),
                       !.delta = @ + Num(row.cost) - Num(row.claim)]

NoUsage ==
  [totals |-> EmptyBucket, seats |-> [s \in Seats |-> EmptyBucket], lanes |-> [l \in Places |-> EmptyBucket]]

FoldUsage(from, to) ==
  FoldLeft(LAMBDA sum, row : IF ~IsUsage(row, from, to) THEN sum
                             ELSE [totals |-> Tally(sum.totals, row),
                                   seats  |-> [sum.seats EXCEPT ![row.seat] = Tally(@, row)],
                                   lanes  |-> [sum.lanes EXCEPT ![row.lane] = Tally(@, row)]],
           NoUsage, sessions)

\* A wall holds: once an enforced budget is spent, the offers of next_task start
\* at most one more session at each terminal, the one it had been offered before,
\* until the budget or the month is another or the lane is archived: an archived
\* lane has no wall, and its cards are offered (budget.ts:4-8, 125-126).  Cards
\* that are named and not offered are outside: pickTask asks no budget for them.
WallHolds == \A t \in Terminals, l \in Streams : overruns[t][l] <= 1

\* The wall and the report of the month to date speak of the same money: what a
\* stream has spent is what its usage report calls verified and unverified, the
\* claims of the sessions that were attested without a price, and what is dated
\* ahead of today, which only the wall counts (budget.ts:104, summary.ts:49-50).
\* The report's parts add up, seat by seat and stream by stream.
DollarsAgree ==
  LET sum == FoldUsage(MonthStart(date), date)
      Unpriced(l) == SumOver(LAMBDA row : Num(row.claim),
                             {i \in SinceMonthBegan(l) : /\ sessions[i].day <= date
                                                         /\ sessions[i].sworn /\ sessions[i].cost = Unset})
      Ahead(l) == SumOver(Spending, {i \in SinceMonthBegan(l) : sessions[i].day > date})
      Agrees(parts, keys) ==
        \A part \in DOMAIN EmptyBucket :
          sum.totals[part] = SumFunctionOnSet([k \in keys |-> parts[k][part]], keys)
  IN /\ \A l \in Places :
          MonthToDateSpend(l) = sum.lanes[l].verified + sum.lanes[l].unverified + Unpriced(l) + Ahead(l)
     /\ Agrees(sum.seats, Seats) /\ Agrees(sum.lanes, Places)
     /\ sum.totals.delta = sum.totals.verified - (sum.totals.reported - sum.totals.unverified)

\* Evidence is a session's own: a row a terminal attested holds the price of that
\* terminal's measurement, the claim beside it was made on the same one, whoever
\* began the entry, died or was late in between, and says the same where the claim
\* and the evidence are priced alike (agent.ts:145-150, cost.ts:108-130).
EvidenceIsOwn == \A i \in DOMAIN sessions : IsOwn(sessions[i])
=============================================================================
