---------------------------- MODULE WorkProofs ----------------------------
(* The work that is billed, for any number of terminals, rows, files, invoices, *)
(* keys and readers: whose evidence an agent's session holds and what it spends,*)
(* what an invoice says when it is verified, who is let in to read it, and what *)
(* of it a file brings in.                                                      *)
EXTENDS AgentRuns, Documents, Sharing, Import, FoldLemmas

-----------------------------------------------------------------------------
\* Agents at work under a budget (server/usage/budget.ts, cli/src/commands/agent.ts).

Errand ==
  [pc : {"rest", "timed"}] \cup [pc : {"picked"}, lane : Places, offered : BOOLEAN]
    \cup [pc : {"stopped"}, entry : Nat, of : Measures]

AgentTypes ==
  /\ sessions \in Seq(SessionRow) /\ errand \in [Terminals -> Errand] /\ date \in 0..LastDay

\* What is claimed of a measurement agrees with its evidence where the two are
\* priced alike.
ClaimsFor(claim, u) == Exact(u) => claim \in {Evidence(u), Unset}

\* A terminal that is about to attest has closed the entry, and claimed the same
\* measurement.
HasClaimed(t) ==
  errand[t].pc = "stopped" =>
    /\ errand[t].entry \in DOMAIN sessions
    /\ LET row == sessions[errand[t].entry]
       IN ~row.open /\ row.claimBy = [by |-> t, of |-> errand[t].of] /\ ClaimsFor(row.claim, errand[t].of)

AgentInv == AgentTypes /\ EvidenceIsOwn /\ \A t \in Terminals : HasClaimed(t)

\* The split of a measurement, and its price.
Split == [input : Nat, output : Nat, read : Nat, write : Nat, ttl : {"5m", "1h"}]

LEMMA SplitsArePriced ==
  ASSUME NEW s \in Split
  PROVE  /\ Price(s) \in Nat
         /\ \A ttl \in {"5m", "1h"} :
              s.write = 0 \/ ttl = s.ttl =>
                Price(s) = Rate["input"] * s.input + Rate["output"] * s.output + Rate["read"] * s.read + Rate[ttl] * s.write
<1>1. \A k \in {"input", "output", "read", "5m", "1h"} : Rate[k] \in Nat BY AgentAssumption
<1>2. /\ s.input \in Nat /\ s.output \in Nat /\ s.read \in Nat /\ s.write \in Nat /\ s.ttl \in {"5m", "1h"}
  BY DEF Split
<1>3. \A m, n \in Nat : m * n \in Nat OBVIOUS
<1>4. PICK a \in Nat : a = Rate["input"] * s.input BY <1>1, <1>2, <1>3
<1>5. PICK b \in Nat : b = Rate["output"] * s.output BY <1>1, <1>2, <1>3
<1>6. PICK c \in Nat : c = Rate["read"] * s.read BY <1>1, <1>2, <1>3
<1>7. \A ttl \in {"5m", "1h"} : Rate[ttl] * s.write \in Nat BY <1>1, <1>2, <1>3
<1>8. \A n \in Nat : n * 0 = 0 OBVIOUS
<1>9. \A ttl \in {"5m", "1h"} : s.write = 0 \/ ttl = s.ttl => Rate[ttl] * s.write = Rate[s.ttl] * s.write
  BY <1>1, <1>2, <1>8
<1>10. PICK d \in Nat : d = Rate[s.ttl] * s.write BY <1>2, <1>7
<1>11. Price(s) = a + b + c + d BY <1>4, <1>5, <1>6, <1>10 DEF Price
<1>12. ASSUME NEW ttl \in {"5m", "1h"}, s.write = 0 \/ ttl = s.ttl
       PROVE  Price(s) = Rate["input"] * s.input + Rate["output"] * s.output + Rate["read"] * s.read + Rate[ttl] * s.write
  <2>1. Rate[ttl] * s.write = d BY <1>9, <1>10, <1>12
  <2> QED BY <1>4, <1>5, <1>6, <1>11, <2>1
<1> QED BY <1>11, <1>12

LEMMA SplitsAre ==
  ASSUME NEW n \in Nat, NEW u \in Usage
  PROVE  /\ SplitOf(n, u) \in Split /\ SplitOf(n, u).write = u.write /\ SplitOf(n, u).read = u.read
         /\ SplitOf(n, u).ttl = u.ttl /\ SplitOf(n, u).output = Num(u.output)
         /\ Itemised(u) => SplitOf(n, u).input = Num(u.input)
         /\ ~Itemised(u) /\ u.read + u.write = 0 => SplitOf(n, u).input = n
<1>1. u.read \in Nat /\ u.write \in Nat /\ u.ttl \in {"5m", "1h"} BY DEF Usage
<1>2. Num(u.input) \in Nat /\ Num(u.output) \in Nat BY DEF Usage, Amount, Num
<1>3. PICK left \in Int : left = n - u.read - u.write BY <1>1
<1>4. PICK input \in Nat : input = IF Itemised(u) THEN Num(u.input) ELSE IF left > 0 THEN left ELSE 0 BY <1>2, <1>3
<1>5. SplitOf(n, u) = [input |-> input, output |-> Num(u.output), read |-> u.read, write |-> u.write, ttl |-> u.ttl]
  BY <1>3, <1>4 DEF SplitOf
<1>6. u.read + u.write = 0 => left = n BY <1>1, <1>3
<1> QED BY <1>1, <1>2, <1>4, <1>5, <1>6 DEF Split

LEMMA ClaimsAgree ==
  ASSUME NEW u \in Measures
  PROVE  /\ u.cost \in Amount /\ Evidence(u) \in Amount /\ ClaimsFor(u.cost, u)
         /\ \A c \in ClaimsOf(u) : c \in Amount /\ ClaimsFor(c, u)
<1>1. u \in Usage /\ Unset \notin Nat BY AgentAssumption
<1>2. /\ u.cost \in Amount /\ u.tokens \in Nat /\ u.input \in Amount /\ u.output \in Amount
      /\ u.read \in Nat /\ u.write \in Nat /\ u.ttl \in {"5m", "1h"}
  BY <1>1 DEF Usage
<1>3. PICK e : e = SplitOf(u.tokens, u) OBVIOUS
<1>4. PICK a \in Usage :
        /\ a = Asked(u) /\ a.ttl = "5m" /\ a.output = u.output /\ a.read = u.read /\ a.write = u.write
        /\ a.input = IF Itemised(u) THEN u.input ELSE u.tokens
  <2>1. PICK input \in Amount : input = IF Itemised(u) THEN u.input ELSE u.tokens BY <1>2 DEF Amount
  <2>2. Asked(u) = [u EXCEPT !.input = input, !.ttl = "5m"] BY <2>1 DEF Asked
  <2> QED BY <1>1, <2>1, <2>2 DEF Usage
<1>5. PICK c : c = SplitOf(0, a) OBVIOUS
<1>6. Itemised(a) BY <1>1, <1>2, <1>4 DEF Itemised
<1>7. c \in Split /\ e \in Split BY <1>1, <1>2, <1>3, <1>5, SplitsAre
<1>8. Price(c) \in Nat /\ Price(e) \in Nat BY <1>7, SplitsArePriced
<1>9. Evidence(u) \in Amount BY <1>2, <1>3, <1>8 DEF Evidence, Amount
<1>10. ASSUME u.cost = Unset, u.priced, Exact(u) PROVE Price(c) = Price(e)
  <2>1. c.output = e.output /\ c.read = e.read /\ c.write = e.write BY <1>1, <1>2, <1>3, <1>4, <1>5, SplitsAre
  <2>2. c.input = e.input
    <3>1. c.input = Num(a.input) BY <1>5, <1>6, SplitsAre
    <3>2. CASE Itemised(u) BY <1>1, <1>2, <1>3, <1>4, <3>1, <3>2, SplitsAre
    <3>3. CASE ~Itemised(u)
      <4>1. u.read + u.write = 0 BY <1>10, <3>3 DEF Exact
      <4>2. e.input = u.tokens BY <1>1, <1>2, <1>3, <3>3, <4>1, SplitsAre
      <4> QED BY <1>1, <1>2, <1>4, <3>1, <3>3, <4>2 DEF Num
    <3> QED BY <3>2, <3>3
  <2>3. c.ttl = "5m" /\ e.ttl = u.ttl /\ e.write = u.write BY <1>1, <1>2, <1>3, <1>4, <1>5, SplitsAre
  <2>4. e.write = 0 \/ "5m" = e.ttl BY <1>10, <2>3 DEF Exact
  <2>5. Price(e) = Rate["input"] * e.input + Rate["output"] * e.output + Rate["read"] * e.read + Rate["5m"] * e.write
    BY <1>7, <2>4, SplitsArePriced
  <2>6. Price(c) = Rate["input"] * c.input + Rate["output"] * c.output + Rate["read"] * c.read + Rate["5m"] * c.write
    BY <1>7, <2>3, SplitsArePriced
  <2> QED BY <2>1, <2>2, <2>5, <2>6
<1>11. ASSUME NEW x \in ClaimsOf(u) PROVE x \in Amount /\ ClaimsFor(x, u)
  <2>1. CASE u.cost # Unset BY <1>2, <1>11, <2>1 DEF ClaimsOf, ClaimsFor, Evidence
  <2>2. CASE u.cost = Unset
    <3>1. x = Unset \/ (u.priced /\ x = Price(c)) BY <1>4, <1>5, <1>11, <2>2 DEF ClaimsOf
    <3>2. CASE x = Unset BY <3>2 DEF Amount, ClaimsFor
    <3>3. CASE u.priced /\ x = Price(c)
      <4>1. Evidence(u) = Price(e) BY <1>3, <2>2, <3>3 DEF Evidence
      <4> QED BY <1>8, <1>10, <2>2, <3>3, <4>1 DEF Amount, ClaimsFor
    <3> QED BY <3>1, <3>2, <3>3
  <2> QED BY <2>1, <2>2
<1>12. ClaimsFor(u.cost, u) BY DEF ClaimsFor, Evidence
<1> QED BY <1>2, <1>9, <1>11, <1>12

LEMMA AgentStarts == AgentInit => AgentInv
BY AgentAssumption DEF AgentInit, AgentInv, AgentTypes, Errand, AtRest, EvidenceIsOwn, HasClaimed

LEMMA OpenIsOpen ==
  ASSUME AgentInv, NEW seat, OpenEntry(seat) # Unset
  PROVE  OpenEntry(seat) \in DOMAIN sessions /\ sessions[OpenEntry(seat)].open
<1> DEFINE S == {i \in DOMAIN sessions : sessions[i].seat = seat /\ sessions[i].open}
<1>1. Len(sessions) \in Nat /\ S \in SUBSET (1..Len(sessions)) BY DEF AgentInv, AgentTypes
<1>2. S # {} /\ OpenEntry(seat) = Max(S) BY DEF OpenEntry
<1> HIDE DEF S
<1>3. Max(S) \in S BY <1>1, <1>2, GreatestIs
<1> QED BY <1>2, <1>3 DEF S

LEMMA OffersArePlaces == ASSUME NEW seat \in Seats PROVE NextTask(seat) \in Places
<1> DEFINE S == {i \in DOMAIN Queues[seat] : Queues[seat][i] \notin Blocked}
<1>1. Queues[seat] \in Seq(Places) BY AgentAssumption
<1>2. S \in SUBSET Nat /\ S \subseteq DOMAIN Queues[seat] BY <1>1
<1>3. CASE S = {} BY <1>3 DEF NextTask, Places
<1>4. CASE S # {}
  <2>1. Min(S) \in S BY <1>2, <1>4, LeastIs
  <2>2. NextTask(seat) = Queues[seat][Min(S)] BY <1>4 DEF NextTask
  <2>3. Min(S) \in DOMAIN Queues[seat] BY <1>2, <2>1
  <2>4. \A i \in DOMAIN Queues[seat] : Queues[seat][i] \in Places BY <1>1
  <2> QED BY <2>2, <2>3, <2>4
<1> QED BY <1>3, <1>4

\* A terminal goes on and the rows stay,
LEMMA ErrandMoves ==
  ASSUME AgentInv, NEW t \in Terminals, NEW e \in Errand, errand' = [errand EXCEPT ![t] = e], e.pc # "stopped",
         UNCHANGED <<sessions, date>>
  PROVE  AgentInv'
<1>1. \A u \in Terminals : errand'[u] = IF u = t THEN e ELSE errand[u] BY DEF AgentInv, AgentTypes
<1>2. AgentTypes' BY DEF AgentInv, AgentTypes
<1> QED BY <1>1, <1>2 DEF AgentInv, EvidenceIsOwn, HasClaimed

\* a session is added, by a terminal that may be about to attest it,
LEMMA SessionBegins ==
  ASSUME AgentInv, NEW t \in Terminals, NEW row \in SessionRow, NEW e \in Errand, IsOwn(row),
         errand' = [errand EXCEPT ![t] = e], sessions' = Append(sessions, row), UNCHANGED date,
         e.pc = "stopped" => /\ e.entry = Len(sessions) + 1 /\ ~row.open
                             /\ row.claimBy = [by |-> t, of |-> e.of] /\ ClaimsFor(row.claim, e.of)
  PROVE  AgentInv'
<1>1. \A u \in Terminals : errand'[u] = IF u = t THEN e ELSE errand[u] BY DEF AgentInv, AgentTypes
<1>2. AgentTypes' BY DEF AgentInv, AgentTypes
<1>3. /\ DOMAIN sessions' = DOMAIN sessions \cup {Len(sessions) + 1} /\ Len(sessions) + 1 \notin DOMAIN sessions
      /\ \A i \in DOMAIN sessions : sessions'[i] = sessions[i]
      /\ sessions'[Len(sessions) + 1] = row
  BY DEF AgentInv, AgentTypes
<1>4. EvidenceIsOwn'
  <2>1. \A i \in DOMAIN sessions' : IsOwn(sessions'[i]) BY <1>3 DEF AgentInv, EvidenceIsOwn
  <2> QED BY <2>1 DEF EvidenceIsOwn, IsOwn
<1>5. \A u \in Terminals : HasClaimed(u)' BY <1>1, <1>3 DEF AgentInv, HasClaimed
<1> QED BY <1>2, <1>4, <1>5 DEF AgentInv

\* or a row becomes another: an open one is claimed, a closed one keeps its claim.
LEMMA SessionChanges ==
  ASSUME AgentInv, NEW i \in DOMAIN sessions, NEW row \in SessionRow, IsOwn(row),
         sessions' = [sessions EXCEPT ![i] = row], errand' \in [Terminals -> Errand], date' \in 0..LastDay,
         ~sessions[i].open => ~row.open /\ row.claimBy = sessions[i].claimBy /\ row.claim = sessions[i].claim,
         \A u \in Terminals :
           errand'[u].pc = "stopped" =>
             \/ errand[u].pc = "stopped" /\ errand'[u].entry = errand[u].entry /\ errand'[u].of = errand[u].of
             \/ /\ errand'[u].entry = i
                /\ ~row.open /\ row.claimBy = [by |-> u, of |-> errand'[u].of] /\ ClaimsFor(row.claim, errand'[u].of)
  PROVE  AgentInv'
<1>1. AgentTypes' BY DEF AgentInv, AgentTypes
<1>2. DOMAIN sessions' = DOMAIN sessions /\ \A j \in DOMAIN sessions : sessions'[j] = IF j = i THEN row ELSE sessions[j]
  BY DEF AgentInv, AgentTypes
<1>3. EvidenceIsOwn'
  <2>1. \A j \in DOMAIN sessions' : IsOwn(sessions'[j]) BY <1>2 DEF AgentInv, EvidenceIsOwn
  <2> QED BY <2>1 DEF EvidenceIsOwn, IsOwn
<1>4. \A u \in Terminals : HasClaimed(u)' BY <1>2 DEF AgentInv, HasClaimed
<1> QED BY <1>1, <1>3, <1>4 DEF AgentInv

\* A session as it begins is a row, and nobody's evidence.
LEMMA SessionsAre ==
  ASSUME AgentTypes, NEW t \in Terminals, NEW l \in Places
  PROVE  /\ SessionOf(t, l) \in SessionRow /\ SessionOf(t, l).swornBy = Unset
         /\ SessionOf(t, l).cost = Unset /\ SessionOf(t, l).claim = Unset
<1>1. date \in Nat /\ SeatOf[t] \in Seats BY AgentAssumption DEF AgentTypes, Seats
<1> QED BY <1>1 DEF SessionOf, SessionRow, Amount

LEMMA AgentSteps == AgentInv /\ [AgentNext]_agentVars => AgentInv'
<1> SUFFICES ASSUME AgentInv, [AgentNext]_agentVars PROVE AgentInv' OBVIOUS
<1>0. AgentTypes BY DEF AgentInv
<1>1. CASE UNCHANGED agentVars
  <2>1. UNCHANGED <<sessions, errand, date>> BY <1>1 DEF agentVars
  <2> QED BY <2>1 DEF AgentInv, AgentTypes, EvidenceIsOwn, HasClaimed
<1>2. ASSUME NEW t \in Terminals, Pick(t) PROVE AgentInv'
  <2>1. UNCHANGED <<sessions, date>> BY <1>2 DEF Pick
  <2>2. ASSUME NEW l \in Places, NEW b \in BOOLEAN,
               errand' = [errand EXCEPT ![t] = [pc |-> "picked", lane |-> l, offered |-> b]]
        PROVE  AgentInv'
    <3> DEFINE e == [pc |-> "picked", lane |-> l, offered |-> b]
    <3>1. e \in Errand /\ e.pc # "stopped" /\ errand' = [errand EXCEPT ![t] = e] BY <2>2 DEF Errand
    <3> HIDE DEF e
    <3> QED BY <2>1, <3>1, ErrandMoves
  <2>3. NextTask(SeatOf[t]) \in Places BY OffersArePlaces DEF Seats
  <2>4. Streams \subseteq Places BY DEF Places
  <2> QED BY <1>2, <2>2, <2>3, <2>4 DEF Pick, Does
<1>3. ASSUME NEW t \in Terminals, LeaveBe(t) \/ ClockRefused(t) PROVE AgentInv'
  <2>1. PICK e \in {AtRest, [pc |-> "timed"]} : errand' = [errand EXCEPT ![t] = e]
    BY <1>3 DEF LeaveBe, ClockRefused, Does
  <2>2. e \in Errand /\ e.pc # "stopped" BY DEF Errand, AtRest
  <2>3. UNCHANGED <<sessions, date>> BY <1>3 DEF LeaveBe, ClockRefused
  <2> QED BY <2>1, <2>2, <2>3, ErrandMoves
<1>4. ASSUME NEW t \in Terminals, Clock(t) PROVE AgentInv'
  <2>1. errand[t] \in Errand /\ errand[t].pc = "picked" BY <1>0, <1>4 DEF Clock, AgentTypes
  <2>2. errand[t].lane \in Places BY <2>1 DEF Errand
  <2> DEFINE row == SessionOf(t, errand[t].lane)
             e == [pc |-> "timed"]
  <2>3. row \in SessionRow /\ row.swornBy = Unset /\ e \in Errand /\ e.pc = "timed"
    BY <1>0, <2>2, SessionsAre DEF Errand
  <2>4. IsOwn(row) BY <2>3, AgentAssumption DEF IsOwn
  <2>5. errand' = [errand EXCEPT ![t] = e] /\ sessions' = Append(sessions, row) /\ UNCHANGED date
    BY <1>4 DEF Clock, Does
  <2> HIDE DEF row, e
  <2> QED BY <2>3, <2>4, <2>5, SessionBegins
<1>5. ASSUME NEW t \in Terminals, LogRun(t) PROVE AgentInv'
  <2>1. errand[t] \in Errand /\ errand[t].pc = "picked" BY <1>0, <1>5 DEF LogRun, AgentTypes
  <2>2. errand[t].lane \in Places BY <2>1 DEF Errand
  <2>3. PICK d \in {date - 1, date} \cap Nat, u \in Measures :
          /\ sessions' = Append(sessions, [SessionOf(t, errand[t].lane) EXCEPT
               !.day = d, !.open = FALSE, !.claim = u.cost, !.claimBy = [by |-> t, of |-> u]])
          /\ errand' = [errand EXCEPT ![t] = IF u.tokens > 0 THEN [pc |-> "stopped", entry |-> Len(sessions) + 1, of |-> u]
                                             ELSE AtRest]
    BY <1>5 DEF LogRun, Does
  <2>4. d \in Nat /\ u.cost \in Amount /\ ClaimsFor(u.cost, u) BY ClaimsAgree
  <2>5. PICK stamp \in [by : Terminals, of : Measures \cup {Unset}] : stamp = [by |-> t, of |-> u] OBVIOUS
  <2> DEFINE row == [SessionOf(t, errand[t].lane) EXCEPT !.day = d, !.open = FALSE, !.claim = u.cost, !.claimBy = stamp]
  <2>6. SessionOf(t, errand[t].lane) \in SessionRow /\ SessionOf(t, errand[t].lane).swornBy = Unset
    BY <1>0, <2>2, SessionsAre
  <2>7. row \in SessionRow /\ row.swornBy = Unset /\ ~row.open /\ row.claimBy = stamp /\ row.claim = u.cost
    BY <2>4, <2>6 DEF SessionRow
  <2>8. IsOwn(row) BY <2>7, AgentAssumption DEF IsOwn
  <2>9. sessions' = Append(sessions, row) /\ UNCHANGED date BY <1>5, <2>3, <2>5 DEF LogRun
  <2>10. PICK e \in Errand : /\ errand' = [errand EXCEPT ![t] = e]
                             /\ e.pc = "stopped" => e.entry = Len(sessions) + 1 /\ e.of = u
    <3>1. Len(sessions) + 1 \in Nat BY <1>0 DEF AgentTypes
    <3>2. CASE u.tokens > 0
      <4>1. [pc |-> "stopped", entry |-> Len(sessions) + 1, of |-> u] \in Errand BY <3>1 DEF Errand
      <4> QED BY <2>3, <3>2, <4>1
    <3>3. CASE ~(u.tokens > 0)
      <4>1. AtRest \in Errand /\ AtRest.pc # "stopped" BY DEF AtRest, Errand
      <4> QED BY <2>3, <3>3, <4>1
    <3> QED BY <3>2, <3>3
  <2> HIDE DEF row
  <2> QED BY <2>4, <2>5, <2>7, <2>8, <2>9, <2>10, SessionBegins
<1>6. ASSUME NEW t \in Terminals, Stop(t) PROVE AgentInv'
  <2> DEFINE k == OpenEntry(SeatOf[t])
  <2>1. UNCHANGED date BY <1>6 DEF Stop
  <2>2. CASE errand' = [errand EXCEPT ![t] = AtRest] /\ UNCHANGED sessions
    <3>1. AtRest \in Errand /\ AtRest.pc # "stopped" BY DEF AtRest, Errand
    <3> QED BY <2>1, <2>2, <3>1, ErrandMoves
  <2>3. ASSUME NEW c \in Amount, NEW stamp \in [by : Terminals, of : Measures \cup {Unset}], NEW e \in Errand,
               k # Unset, ClosedWith(k, c, stamp), errand' = [errand EXCEPT ![t] = e],
               e.pc = "stopped" => e.entry = k /\ stamp = [by |-> t, of |-> e.of] /\ ClaimsFor(c, e.of)
        PROVE  AgentInv'
    <3>1. k \in DOMAIN sessions /\ sessions[k].open BY <2>3, OpenIsOpen
    <3> DEFINE row == [sessions[k] EXCEPT !.open = FALSE, !.claim = c, !.claimBy = stamp]
    <3>2. sessions[k] \in SessionRow BY <1>0, <3>1 DEF AgentTypes
    <3>3. /\ row \in SessionRow /\ ~row.open /\ row.claimBy = stamp /\ row.claim = c
          /\ row.swornBy = sessions[k].swornBy
      BY <3>2 DEF SessionRow
    <3>4. IsOwn(row) BY <3>1, <3>3 DEF AgentInv, EvidenceIsOwn, IsOwn
    <3>5. sessions' = [sessions EXCEPT ![k] = row] BY <2>3 DEF ClosedWith
    <3>6. /\ errand' \in [Terminals -> Errand]
          /\ \A u \in Terminals : errand'[u] = IF u = t THEN e ELSE errand[u]
      BY <1>0, <2>3 DEF AgentTypes
    <3> HIDE DEF row, k
    <3>7. \A u \in Terminals : errand'[u].pc = "stopped" =>
            \/ errand[u].pc = "stopped" /\ errand'[u].entry = errand[u].entry /\ errand'[u].of = errand[u].of
            \/ /\ errand'[u].entry = k
               /\ ~row.open /\ row.claimBy = [by |-> u, of |-> errand'[u].of] /\ ClaimsFor(row.claim, errand'[u].of)
      BY <2>3, <3>3, <3>6
    <3>8. date' \in 0..LastDay BY <1>0, <2>1 DEF AgentTypes
    <3> QED BY <3>1, <3>3, <3>4, <3>5, <3>6, <3>7, <3>8, SessionChanges
  <2>4. ASSUME NEW c \in Bills \cup {Unset}, k # Unset, ClosedWith(k, c, [by |-> t, of |-> Unset]),
               errand' = [errand EXCEPT ![t] = AtRest]
        PROVE  AgentInv'
    <3>1. AtRest \in Errand /\ AtRest.pc # "stopped" BY DEF AtRest, Errand
    <3>2. PICK stamp \in [by : Terminals, of : Measures \cup {Unset}] : stamp = [by |-> t, of |-> Unset] OBVIOUS
    <3>3. c \in Amount BY AgentAssumption DEF Amount
    <3> HIDE DEF k
    <3> QED BY <2>3, <2>4, <3>1, <3>2, <3>3
  <2>5. ASSUME NEW u \in Measures, NEW c \in ClaimsOf(u), k # Unset, ClosedWith(k, c, [by |-> t, of |-> u]),
               errand' = [errand EXCEPT ![t] = [pc |-> "stopped", entry |-> k, of |-> u]]
        PROVE  AgentInv'
    <3>1. c \in Amount /\ ClaimsFor(c, u) BY ClaimsAgree
    <3>2. k \in Nat BY <1>0, <2>5, OpenIsOpen DEF AgentTypes
    <3> DEFINE e == [pc |-> "stopped", entry |-> k, of |-> u]
    <3>3. e \in Errand /\ e.entry = k /\ e.of = u BY <3>1, <3>2 DEF Errand
    <3>4. errand' = [errand EXCEPT ![t] = e] BY <2>5
    <3>5. PICK stamp \in [by : Terminals, of : Measures \cup {Unset}] : stamp = [by |-> t, of |-> u] OBVIOUS
    <3> HIDE DEF e, k
    <3> QED BY <2>3, <2>5, <3>1, <3>3, <3>4, <3>5
  <2> QED BY <1>6, <2>2, <2>4, <2>5 DEF Stop, Does
<1> DEFINE Sworn(i, c, by) == [sessions[i] EXCEPT !.sworn = TRUE, !.cost = c, !.swornBy = by]
<1>7. ASSUME NEW i \in DOMAIN sessions, NEW c \in Amount, NEW by \in Stamps \cup {Office}
      PROVE  /\ Sworn(i, c, by) \in SessionRow /\ Sworn(i, c, by).open = sessions[i].open
             /\ Sworn(i, c, by).claimBy = sessions[i].claimBy /\ Sworn(i, c, by).claim = sessions[i].claim
             /\ Sworn(i, c, by).cost = c /\ Sworn(i, c, by).swornBy = by
             /\ Attested(i, c, by) => sessions' = [sessions EXCEPT ![i] = Sworn(i, c, by)]
  <2>1. sessions[i] \in SessionRow BY <1>0 DEF AgentTypes
  <2> QED BY <2>1 DEF SessionRow, Attested
<1> HIDE DEF Sworn
<1>8. ASSUME NEW t \in Terminals, AttestOwn(t) PROVE AgentInv'
  <2>1. errand[t] \in Errand /\ errand[t].pc = "stopped" BY <1>0, <1>8 DEF AttestOwn, AgentTypes
  <2>2. PICK u \in Measures, i \in DOMAIN sessions :
          /\ u = errand[t].of /\ i = errand[t].entry
          /\ ~sessions[i].open /\ sessions[i].claimBy = [by |-> t, of |-> u] /\ ClaimsFor(sessions[i].claim, u)
    BY <2>1 DEF AgentInv, HasClaimed, Errand
  <2>3. PICK stamp : stamp = [by |-> t, of |-> u] OBVIOUS
  <2>4. stamp \in Stamps /\ stamp.of = u BY <2>3 DEF Stamps
  <2>5. PICK c \in Amount : c = Evidence(u) BY ClaimsAgree
  <2>6. PICK row : row = Sworn(i, c, stamp) OBVIOUS
  <2>7. /\ sessions' = [sessions EXCEPT ![i] = row] /\ row \in SessionRow /\ row.open = sessions[i].open
        /\ row.claimBy = sessions[i].claimBy /\ row.claim = sessions[i].claim
        /\ row.cost = c /\ row.swornBy = stamp
    BY <1>7, <1>8, <2>2, <2>3, <2>4, <2>5, <2>6 DEF AttestOwn
  <2>8. IsOwn(row) BY <2>2, <2>3, <2>4, <2>5, <2>7 DEF IsOwn, ClaimsFor
  <2>9. AtRest \in Errand /\ AtRest.pc # "stopped" BY DEF AtRest, Errand
  <2>10. errand' = [errand EXCEPT ![t] = AtRest] /\ date' \in 0..LastDay BY <1>0, <1>8 DEF AttestOwn, Does, AgentTypes
  <2>11. /\ errand' \in [Terminals -> Errand]
         /\ \A w \in Terminals : errand'[w] = IF w = t THEN AtRest ELSE errand[w]
    BY <1>0, <2>9, <2>10 DEF AgentTypes
  <2>12. \A w \in Terminals : errand'[w].pc = "stopped" =>
          errand[w].pc = "stopped" /\ errand'[w].entry = errand[w].entry /\ errand'[w].of = errand[w].of
    BY <2>9, <2>11
  <2> QED BY <2>2, <2>7, <2>8, <2>10, <2>11, <2>12, SessionChanges
<1>9. ASSUME NEW t \in Terminals, Dies(t) PROVE AgentInv'
  <2>1. AtRest \in Errand /\ AtRest.pc # "stopped" BY DEF AtRest, Errand
  <2>2. errand' = [errand EXCEPT ![t] = AtRest] /\ UNCHANGED <<sessions, date>> BY <1>9 DEF Dies, Does, Acts
  <2> QED BY <2>1, <2>2, ErrandMoves
<1>10. ASSUME NEW i \in DOMAIN sessions, NEW row \in SessionRow, IsOwn(row), UNCHANGED errand, UNCHANGED date,
              sessions' = [sessions EXCEPT ![i] = row],
              ~sessions[i].open => ~row.open /\ row.claimBy = sessions[i].claimBy /\ row.claim = sessions[i].claim
       PROVE  AgentInv'
  <2>1. errand' \in [Terminals -> Errand] /\ date' \in 0..LastDay BY <1>0, <1>10 DEF AgentTypes
  <2>2. \A u \in Terminals : errand'[u].pc = "stopped" =>
          errand[u].pc = "stopped" /\ errand'[u].entry = errand[u].entry /\ errand'[u].of = errand[u].of
    BY <1>10
  <2> QED BY <1>10, <2>1, <2>2, SessionChanges
<1>11. ASSUME NEW i \in DOMAIN sessions, NEW c \in Bills \cup {Unset}, AttestOther(i, c) PROVE AgentInv'
  <2>0. c \in Amount BY AgentAssumption DEF Amount
  <2>1. ~sessions[i].open /\ Attested(i, c, Office) /\ UNCHANGED errand /\ UNCHANGED date
    BY <1>11 DEF AttestOther, Acts
  <2>2. PICK row : row = Sworn(i, c, Office) OBVIOUS
  <2>3. /\ row \in SessionRow /\ row.open = sessions[i].open /\ row.claimBy = sessions[i].claimBy
        /\ row.claim = sessions[i].claim /\ row.swornBy = Office /\ sessions' = [sessions EXCEPT ![i] = row]
    BY <1>7, <2>0, <2>1, <2>2
  <2>4. Office \notin Stamps BY AgentAssumption
  <2>5. IsOwn(row) BY <2>3, <2>4 DEF IsOwn
  <2> QED BY <1>10, <2>1, <2>3, <2>5
<1>12. ASSUME NEW i \in DOMAIN sessions, NEW l \in Places, NEW p \in 0..LastDay, NEW b \in BOOLEAN, Amend(i, l, p, b)
       PROVE  AgentInv'
  <2> DEFINE runs == sessions[i].open /\ b
             row == [sessions[i] EXCEPT !.lane = l, !.day = p, !.open = runs]
  <2>1. sessions[i] \in SessionRow /\ p \in Nat BY <1>0, AgentAssumption DEF AgentTypes
  <2>5. runs \in BOOLEAN /\ (~sessions[i].open => ~runs) BY <2>1 DEF SessionRow
  <2>2. /\ row \in SessionRow /\ row.claimBy = sessions[i].claimBy /\ row.claim = sessions[i].claim
        /\ row.cost = sessions[i].cost /\ row.swornBy = sessions[i].swornBy
        /\ ~sessions[i].open => ~row.open
    <3> HIDE DEF runs
    <3> QED BY <2>1, <2>5 DEF SessionRow
  <2>3. sessions' = [sessions EXCEPT ![i] = row] /\ UNCHANGED errand /\ UNCHANGED date
    BY <1>12 DEF Amend, Acts
  <2> HIDE DEF row
  <2>4. IsOwn(row) BY <2>2 DEF AgentInv, EvidenceIsOwn, IsOwn
  <2> QED BY <1>10, <2>2, <2>3, <2>4
<1>13. ASSUME NewDay \/ \E l \in Streams : (\E w \in Ceilings : SetBudget(l, w)) \/ Archive(l) PROVE AgentInv'
  <2>1. date \in 0..LastDay /\ LastDay \in Nat BY <1>0, AgentAssumption DEF AgentTypes
  <2>2. CASE NewDay BY <2>1, <2>2 DEF NewDay, Acts, AgentInv, AgentTypes, EvidenceIsOwn, HasClaimed
  <2>3. UNCHANGED <<sessions, errand, date>> \/ NewDay BY <1>13 DEF SetBudget, Archive, Acts
  <2>4. CASE UNCHANGED <<sessions, errand, date>> BY <2>4 DEF AgentInv, AgentTypes, EvidenceIsOwn, HasClaimed
  <2> QED BY <2>2, <2>3, <2>4
<1> QED BY <1>1, <1>2, <1>3, <1>4, <1>5, <1>6, <1>8, <1>9, <1>11, <1>12, <1>13 DEF AgentNext

\* What a terminal attested is its own measurement, whoever began the entry, died
\* or was late in between.
THEOREM EvidenceStands == AgentSpec => []EvidenceIsOwn
<1>1. AgentInv => EvidenceIsOwn BY DEF AgentInv
<1> QED BY <1>1, AgentStarts, AgentSteps, PTL DEF AgentSpec
-----------------------------------------------------------------------------
\* What a stream has spent, as a sum over the rows.

Owed(row) == Num(IF row.sworn /\ row.cost # Unset THEN row.cost ELSE row.claim)
CountsFor(lane, row) == row.lane = lane /\ row.day >= MonthStart(date)
DueFor(lane, row) == CountsFor(lane, row) /\ row.day <= date

\* A row's worth where it counts, and nothing elsewhere.
SpentAt(lane) == [i \in DOMAIN sessions |-> IF CountsFor(lane, sessions[i]) THEN Spending(sessions[i]) ELSE 0]
OwedAt(lane) == [i \in DOMAIN sessions |-> IF DueFor(lane, sessions[i]) THEN Owed(sessions[i]) ELSE 0]

LEMMA CostsAreNumbers ==
  ASSUME NEW row \in SessionRow
  PROVE  /\ Num(row.claim) \in Nat /\ Spending(row) \in Nat /\ Owed(row) \in Nat
         /\ IsSworn(row) => Owed(row) = Spending(row)
<1>1. row.claim \in Amount /\ row.cost \in Amount BY DEF SessionRow
<1> QED BY <1>1 DEF Amount, Num, Spending, Owed, IsSworn

LEMMA DatesAre ==
  ASSUME AgentInv
  PROVE  date \in Nat /\ MonthStart(date) \in Nat /\ \A i \in DOMAIN sessions : sessions[i].day \in Nat
<1>1. date \in 0..LastDay /\ LastDay \in Nat BY AgentAssumption DEF AgentInv, AgentTypes
<1>2. MonthStart(date) \in 0..date BY <1>1, AgentAssumption
<1>3. \A i \in DOMAIN sessions : sessions[i] \in SessionRow BY DEF AgentInv, AgentTypes
<1> QED BY <1>1, <1>2, <1>3 DEF SessionRow

LEMMA RowsAre ==
  ASSUME AgentInv
  PROVE  /\ Len(sessions) \in Nat /\ DOMAIN sessions = 1..Len(sessions) /\ IsFiniteSet(DOMAIN sessions)
         /\ \A i \in DOMAIN sessions : sessions[i] \in SessionRow
<1>1. sessions \in Seq(SessionRow) BY DEF AgentInv, AgentTypes
<1>2. Len(sessions) \in Nat /\ DOMAIN sessions = 1..Len(sessions) BY <1>1
<1>3. IsFiniteSet(1..Len(sessions)) BY <1>2, FS_Interval
<1> QED BY <1>1, <1>2, <1>3

LEMMA SumOverIs ==
  ASSUME AgentInv, NEW f \in [DOMAIN sessions -> Int], NEW S \in SUBSET DOMAIN sessions, NEW e,
         \A i \in S : e[i] = f[i], \A i \in DOMAIN sessions \ S : f[i] = 0
  PROVE  SumFunctionOnSet(e, S) = SumFunctionOnSet(f, DOMAIN sessions)
<1>1. IsFiniteSet(DOMAIN sessions) /\ IsFiniteSet(S) BY RowsAre, FS_Subset
<1>2. \A i \in S : f[i] \in Int /\ e[i] = f[i] OBVIOUS
<1>3. SumFunctionOnSet(f, S) = SumFunctionOnSet(e, S) BY <1>1, <1>2, SumSame
<1>4. SumFunctionOnSet(f, S) = SumFunctionOnSet(f, DOMAIN sessions)
  <2>1. PICK D : D = DOMAIN sessions OBVIOUS
  <2>2. IsFiniteSet(D) /\ S \in SUBSET D /\ (\A i \in D : f[i] \in Int) /\ \A i \in D \ S : f[i] = 0 BY <1>1, <2>1
  <2>3. SumFunctionOnSet(f, S) = SumFunctionOnSet(f, D) BY <2>2, SumSkips
  <2> QED BY <2>1, <2>3
<1> QED BY <1>3, <1>4

LEMMA SpendIs ==
  ASSUME AgentInv, NEW lane
  PROVE  MonthToDateSpend(lane) = SumFunctionOnSet(SpentAt(lane), DOMAIN sessions)
<1> DEFINE S == SinceMonthBegan(lane)
           e == [i \in S |-> Spending(sessions[i])]
<1>1. S \subseteq DOMAIN sessions /\ \A i \in DOMAIN sessions : i \in S <=> CountsFor(lane, sessions[i])
  BY DEF SinceMonthBegan, CountsFor
<1>2. \A i \in DOMAIN sessions : Spending(sessions[i]) \in Nat BY RowsAre, CostsAreNumbers
<1>3. PICK f : f = SpentAt(lane) OBVIOUS
<1>4. /\ f \in [DOMAIN sessions -> Int] /\ \A i \in S : f[i] = Spending(sessions[i])
      /\ \A i \in DOMAIN sessions \ S : f[i] = 0
  <2> HIDE DEF S
  <2> QED BY <1>1, <1>2, <1>3 DEF SpentAt
<1>5. \A i \in S : e[i] = f[i]
  <2> HIDE DEF S
  <2> QED BY <1>4
<1>6. MonthToDateSpend(lane) = SumFunctionOnSet(e, S) BY DEF MonthToDateSpend, SumOver
<1> HIDE DEF e, S
<1>7. SumFunctionOnSet(e, S) = SumFunctionOnSet(f, DOMAIN sessions) BY <1>1, <1>4, <1>5, SumOverIs
<1> QED BY <1>3, <1>6, <1>7

LEMMA ReckonIs ==
  ASSUME AgentInv, NEW lane
  PROVE  Reckoned(lane, MonthStart(date), date, sessions) = SumFunctionOnSet(OwedAt(lane), DOMAIN sessions)
<1> DEFINE n == Len(sessions)
           Step(sum, row) == IF row.lane # lane \/ row.day < MonthStart(date) \/ row.day > date THEN sum
                             ELSE sum + Num(IF row.sworn /\ row.cost # Unset THEN row.cost ELSE row.claim)
           P(it) == it = [s \in SUBSET (DOMAIN sessions) |->
                            IF s = {} THEN 0 ELSE Step(it[s \ {Max(s)}], sessions[Max(s)])]
<1>1. n \in Nat /\ DOMAIN sessions = 1..n BY RowsAre
<1>2. PICK f : f = OwedAt(lane) OBVIOUS
<1>3. f \in [1..n -> Int]
  <2>1. \A i \in DOMAIN sessions : Owed(sessions[i]) \in Nat BY RowsAre, CostsAreNumbers
  <2> QED BY <1>1, <1>2, <2>1 DEF OwedAt
<1>4. \A i \in 1..n, sum \in Int : Step(sum, sessions[i]) = sum + f[i]
  <2> SUFFICES ASSUME NEW i \in 1..n, NEW sum \in Int PROVE Step(sum, sessions[i]) = sum + f[i] OBVIOUS
  <2>1. f[i] = IF DueFor(lane, sessions[i]) THEN Owed(sessions[i]) ELSE 0 BY <1>1, <1>2 DEF OwedAt
  <2>2. sessions[i].day \in Nat /\ MonthStart(date) \in Nat /\ date \in Nat BY <1>1, DatesAre
  <2>3. DueFor(lane, sessions[i]) <=>
          ~(sessions[i].lane # lane \/ sessions[i].day < MonthStart(date) \/ sessions[i].day > date)
    BY <2>2 DEF DueFor, CountsFor
  <2> QED BY <2>1, <2>3 DEF Owed
<1>5. \A s \in SUBSET (1..n) : s # {} => Max(s) \in 1..n BY <1>1, GreatestIs
<1> DEFINE F == [p \in Int \X (1..n) |-> p[1] + f[p[2]]]
<1>6. F \in [Int \X (1..n) -> Int] /\ 0 \in Int BY <1>3
<1>7. PICK h \in [SUBSET (1..n) -> Int] : FoldsBy(h, n, 0, F)
  <2> HIDE DEF F, n
  <2> QED BY <1>1, <1>6, FoldExists
<1>8. P(h)
  <2>1. \A s \in SUBSET (1..n) : h[s] = IF s = {} THEN 0 ELSE Step(h[s \ {Max(s)}], sessions[Max(s)])
    <3> SUFFICES ASSUME NEW s \in SUBSET (1..n), s # {} PROVE h[s] = Step(h[s \ {Max(s)}], sessions[Max(s)])
      BY <1>7 DEF FoldsBy
    <3> HIDE DEF Step, n
    <3>1. Max(s) \in 1..n /\ h[s \ {Max(s)}] \in Int BY <1>5
    <3>2. h[s] = F[<<h[s \ {Max(s)}], Max(s)>>] BY <1>7 DEF FoldsBy
    <3> QED BY <1>4, <3>1, <3>2
  <2> HIDE DEF Step
  <2> QED BY <1>1, <2>1
<1>9. PICK it : it = (CHOOSE g : P(g)) OBVIOUS
<1>10. P(it)
  <2> HIDE DEF P
  <2> QED BY <1>8, <1>9
<1>11. Reckoned(lane, MonthStart(date), date, sessions) = it[DOMAIN sessions]
  BY <1>9 DEF Reckoned, FoldLeft, MapThenFoldSet
<1>12. FoldsWithin(Int, n, 0, F, it)
  <2> HIDE DEF Step, n
  <2>1. it[{}] = 0 BY <1>10
  <2>2. ASSUME NEW s \in SUBSET (1..n), s # {}, it[s \ {Max(s)}] \in Int
        PROVE  it[s] = F[<<it[s \ {Max(s)}], Max(s)>>]
    <3>1. Max(s) \in 1..n BY <1>5, <2>2
    <3>2. it[s] = Step(it[s \ {Max(s)}], sessions[Max(s)]) BY <1>1, <1>10, <2>2
    <3> QED BY <1>4, <2>2, <3>1, <3>2
  <2> HIDE DEF F, P
  <2> QED BY <2>1, <2>2 DEF FoldsWithin
<1> HIDE DEF P, n
<1>13. it[1..n] = SumFunctionOnSet(f, 1..n) BY <1>1, <1>3, <1>12, FoldSums
<1> QED BY <1>1, <1>2, <1>11, <1>13
\* A verified cost is an attestation's, and a row that is open has no cost.
IsTold(row) == IsSworn(row) /\ IsBlank(row)
RowsAreTold == \A i \in DOMAIN sessions : IsTold(sessions[i])

\* A sum of what is not negative is not negative.
LEMMA SumIsNatural ==
  ASSUME NEW n \in Nat, NEW f, \A i \in 1..n : f[i] \in Nat
  PROVE  SumFunctionOnSet(f, 1..n) \in Nat
<1> DEFINE Q == {k \in 0..n : SumFunctionOnSet(f, 1..k) \in Nat}
<1>1. 0 \in Q
  <2>1. 1..0 = {} OBVIOUS
  <2> QED BY <2>1, SumOfNone
<1>2. ASSUME NEW k \in 0..(n - 1), k \in Q PROVE k + 1 \in Q
  <2>1. k \in Nat /\ k + 1 \in 0..n /\ k + 1 \in 1..(k + 1) OBVIOUS
  <2>2. IsFiniteSet(1..(k + 1)) BY <2>1, FS_Interval
  <2>3. \A i \in 1..(k + 1) : f[i] \in Nat BY <2>1
  <2>4. \A i \in 1..(k + 1) : f[i] \in Int BY <2>3
  <2>5. PICK D : D = 1..(k + 1) OBVIOUS
  <2>6. SumFunctionOnSet(f, D) = f[k + 1] + SumFunctionOnSet(f, D \ {k + 1}) BY <2>1, <2>2, <2>4, <2>5, SumTakes
  <2>7. D \ {k + 1} = 1..k BY <2>1, <2>5, InitialIs
  <2>8. PICK m \in Nat : m = f[k + 1] BY <2>1, <2>3
  <2>9. PICK rest \in Nat : rest = SumFunctionOnSet(f, D \ {k + 1}) BY <1>2, <2>7
  <2>10. SumFunctionOnSet(f, D) = m + rest BY <2>6, <2>8, <2>9
  <2>11. SumFunctionOnSet(f, 1..(k + 1)) \in Nat BY <2>5, <2>10
  <2> QED BY <2>1, <2>11
<1> HIDE DEF Q
<1>3. \A k \in 0..n : k \in Q BY <1>1, <1>2, CountingTo
<1> QED BY <1>3 DEF Q

\* The wall counts no less than what has been spent: all of it, and what is dated
\* ahead.
LEMMA ExhaustedIsBlocked ==
  ASSUME AgentInv, RowsAreTold, walls \in [Streams -> Ceilings], NEW lane \in Streams, Exhausted(lane)
  PROVE  lane \in Blocked
<1> DEFINE reckoned == SumFunctionOnSet(OwedAt(lane), DOMAIN sessions)
<1>1. walls[lane].budget \in Nat /\ walls[lane].mode = "enforce" /\ walls[lane].budget # Unset /\ lane \notin archived
  BY AgentAssumption DEF Exhausted
<1>3. reckoned >= walls[lane].budget BY ReckonIs DEF Exhausted
<1>4. reckoned \in Int /\ MonthToDateSpend(lane) \in Int /\ MonthToDateSpend(lane) >= reckoned
  <2>1. PICK f : f = OwedAt(lane) OBVIOUS
  <2>2. PICK e : e = SpentAt(lane) OBVIOUS
  <2>3. \A i \in DOMAIN sessions : Owed(sessions[i]) \in Nat /\ Owed(sessions[i]) = Spending(sessions[i])
    BY RowsAre, CostsAreNumbers DEF RowsAreTold, IsTold
  <2>4. PICK d : d = [i \in DOMAIN sessions |-> e[i] - f[i]] OBVIOUS
  <2>5. \A i \in DOMAIN sessions : f[i] \in Nat /\ e[i] \in Nat /\ d[i] \in Nat /\ e[i] = f[i] + d[i]
    <3> SUFFICES ASSUME NEW i \in DOMAIN sessions PROVE f[i] \in Nat /\ e[i] \in Nat /\ d[i] \in Nat /\ e[i] = f[i] + d[i]
      OBVIOUS
    <3>1. PICK n \in Nat : n = Owed(sessions[i]) /\ n = Spending(sessions[i]) BY <2>3
    <3>2. f[i] = IF DueFor(lane, sessions[i]) THEN n ELSE 0 BY <2>1, <3>1 DEF OwedAt
    <3>3. e[i] = IF CountsFor(lane, sessions[i]) THEN n ELSE 0 BY <2>2, <3>1 DEF SpentAt
    <3>4. DueFor(lane, sessions[i]) => CountsFor(lane, sessions[i]) BY DEF DueFor
    <3>5. d[i] = e[i] - f[i] BY <2>4
    <3> QED BY <3>2, <3>3, <3>4, <3>5
  <2>6. PICK n \in Nat : n = Len(sessions) /\ DOMAIN sessions = 1..n BY RowsAre
  <2>7. PICK D : D = 1..n /\ IsFiniteSet(D) BY <2>6, FS_Interval
  <2>8. \A i \in D : f[i] \in Int /\ d[i] \in Int /\ e[i] = f[i] + d[i] BY <2>5, <2>6, <2>7
  <2>9. SumFunctionOnSet(e, D) = SumFunctionOnSet(f, D) + SumFunctionOnSet(d, D) BY <2>7, <2>8, SumAdds
  <2>10. SumFunctionOnSet(d, D) \in Nat /\ SumFunctionOnSet(f, D) \in Nat BY <2>5, <2>6, <2>7, SumIsNatural
  <2>11. reckoned = SumFunctionOnSet(f, D) /\ MonthToDateSpend(lane) = SumFunctionOnSet(e, D)
    BY <2>1, <2>2, <2>6, <2>7, SpendIs
  <2> QED BY <2>9, <2>10, <2>11
<1> HIDE DEF reckoned
<1> QED BY <1>1, <1>3, <1>4 DEF Blocked

\* Past the wall a terminal has begun at most the session it had been offered
\* before, and once it has, it holds no other offer of that stream.
Holds(e, lane) == e.pc = "picked" /\ e.offered /\ e.lane = lane

Beyond(n, e, lane, shut) == n = 0 \/ (n = 1 /\ shut /\ ~Holds(e, lane))

WallInv ==
  /\ AgentInv /\ RowsAreTold /\ walls \in [Streams -> Ceilings]
  /\ overruns \in [Terminals -> [Streams -> Int]]
  /\ \A t \in Terminals, l \in Streams : Beyond(overruns[t][l], errand[t], l, Exhausted(l))

LEMMA WallStarts == AgentInit => WallInv
<1> SUFFICES ASSUME AgentInit PROVE WallInv OBVIOUS
<1>1. AgentInv BY AgentStarts
<1>2. RowsAreTold BY AgentAssumption DEF AgentInit, RowsAreTold, IsTold
<1>3. overruns \in [Terminals -> [Streams -> Int]] /\ \A t \in Terminals, l \in Streams : overruns[t][l] = 0
  BY DEF AgentInit
<1>4. walls \in [Streams -> Ceilings] BY DEF AgentInit
<1> QED BY <1>1, <1>2, <1>3, <1>4 DEF WallInv, Beyond

\* An offer keeps to the wall.
LEMMA OffersAreOpen ==
  ASSUME WallInv, NEW seat \in Seats, NEW l \in Streams, Exhausted(l) PROVE NextTask(seat) # l
<1> DEFINE S == {i \in DOMAIN Queues[seat] : Queues[seat][i] \notin Blocked}
<1>1. Queues[seat] \in Seq(Places) /\ Unset \notin Streams BY AgentAssumption
<1>2. S \in SUBSET Nat BY <1>1
<1>3. l \in Blocked BY ExhaustedIsBlocked DEF WallInv
<1>4. CASE S = {} BY <1>1, <1>4 DEF NextTask
<1>5. CASE S # {}
  <2>1. Min(S) \in S
    <3> HIDE DEF S
    <3> QED BY <1>2, <1>5, LeastIs
  <2>2. NextTask(seat) = Queues[seat][Min(S)] BY <1>5 DEF NextTask
  <2> QED BY <1>3, <2>1, <2>2
<1> QED BY <1>4, <1>5

\* A step that counts: a session on an offer ends the offer.
LEMMA CountKeeps ==
  ASSUME WallInv, AgentInv', RowsAreTold', walls' \in [Streams -> Ceilings], NEW t, NEW lane, Count(t, lane),
         t \in Terminals /\ lane \in Streams => Holds(errand[t], lane),
         \A u \in Terminals : errand'[u] = errand[u] \/ errand'[u].pc # "picked",
         t \in Terminals /\ lane \in Streams => errand'[t].pc # "picked"
  PROVE  WallInv'
<1> DEFINE More(u, l) == overruns[u][l] + (IF u = t /\ l = lane THEN 1 ELSE 0)
<1>1. overruns' = [u \in Terminals |-> [l \in Streams |-> IF ~Exhausted(l)' THEN 0 ELSE More(u, l)]]
  BY DEF Count
<1>2. \A u \in Terminals, l \in Streams : overruns[u][l] \in Int BY DEF WallInv
<1>3. overruns' \in [Terminals -> [Streams -> Int]] BY <1>1, <1>2
<1>4. ASSUME NEW u \in Terminals, NEW l \in Streams
      PROVE  Beyond(overruns[u][l], errand[u], l, Exhausted(l))' 
  <2>1. overruns'[u][l] = IF ~Exhausted(l)' THEN 0 ELSE More(u, l) BY <1>1
  <2>2. PICK shut : shut = Exhausted(l)' OBVIOUS
  <2>3. overruns[u][l] = 0 \/ (overruns[u][l] = 1 /\ ~Holds(errand[u], l)) BY DEF WallInv, Beyond
  <2>4. CASE ~Exhausted(l)' BY <2>1, <2>4 DEF Beyond
  <2>5. CASE Exhausted(l)' /\ u = t /\ l = lane
    <3>1. Holds(errand[u], l) /\ errand'[u].pc # "picked" BY <2>5
    <3>2. overruns'[u][l] = 1 BY <2>1, <2>3, <2>5, <3>1
    <3> QED BY <2>5, <3>1, <3>2 DEF Beyond, Holds
  <2>6. CASE Exhausted(l)' /\ ~(u = t /\ l = lane)
    <3>1. overruns'[u][l] = overruns[u][l] BY <1>2, <2>1, <2>6
    <3>2. Holds(errand'[u], l) => Holds(errand[u], l) BY DEF Holds
    <3> QED BY <2>3, <2>6, <3>1, <3>2 DEF Beyond
  <2> QED BY <2>4, <2>5, <2>6
<1> QED BY <1>3, <1>4 DEF WallInv

\* A step that does not: the wall stands where it stood.
LEMMA PickKeeps ==
  ASSUME WallInv, AgentInv', UNCHANGED <<walls, archived, sessions, date, overruns>>,
         \A u \in Terminals, l \in Streams : Holds(errand'[u], l) => Holds(errand[u], l) \/ ~Exhausted(l)
  PROVE  WallInv'
<1>1. \A l \in Streams : Exhausted(l)' <=> Exhausted(l) BY DEF Exhausted
<1>2. RowsAreTold' BY DEF WallInv, RowsAreTold
<1>3. ASSUME NEW u \in Terminals, NEW l \in Streams
      PROVE  Beyond(overruns[u][l], errand[u], l, Exhausted(l))'
  <2>1. overruns[u][l] = 0 \/ (overruns[u][l] = 1 /\ Exhausted(l) /\ ~Holds(errand[u], l)) BY DEF WallInv, Beyond
  <2>2. Holds(errand'[u], l) => Holds(errand[u], l) \/ ~Exhausted(l) OBVIOUS
  <2> QED BY <1>1, <2>1, <2>2 DEF Beyond
<1> QED BY <1>2, <1>3 DEF WallInv

LEMMA WallKeeps == WallInv /\ [AgentNext]_agentVars => WallInv'
<1> SUFFICES ASSUME WallInv, [AgentNext]_agentVars PROVE WallInv' OBVIOUS
<1>1. AgentInv /\ AgentInv' BY AgentSteps DEF WallInv
<1>0. /\ AgentTypes /\ RowsAreTold /\ walls \in [Streams -> Ceilings]
      /\ \A i \in DOMAIN sessions : sessions[i] \in SessionRow
  BY <1>1, RowsAre DEF AgentInv, WallInv
<1>u. Unset \notin Streams /\ Office \notin Terminals /\ Unset \notin Terminals BY AgentAssumption
<1>2. CASE UNCHANGED agentVars
  <2>1. UNCHANGED <<walls, archived, sessions, date, overruns, errand>> BY <1>2 DEF agentVars
  <2> QED BY <1>1, <2>1, PickKeeps
<1>3. ASSUME NEW t \in Terminals, Pick(t) PROVE WallInv'
  <2>1. PICK e : errand' = [errand EXCEPT ![t] = e] /\ (Holds(e, NextTask(SeatOf[t])) \/ ~e.offered)
                 /\ e.lane \in Places /\ (e.offered => e.lane = NextTask(SeatOf[t]))
    <3>1. NextTask(SeatOf[t]) \in Places BY OffersArePlaces DEF Seats
    <3>2. CASE errand' = [errand EXCEPT ![t] = [pc |-> "picked", lane |-> NextTask(SeatOf[t]), offered |-> TRUE]]
      <4> DEFINE e == [pc |-> "picked", lane |-> NextTask(SeatOf[t]), offered |-> TRUE]
      <4>1. Holds(e, NextTask(SeatOf[t])) /\ e.lane = NextTask(SeatOf[t]) BY DEF Holds
      <4>2. errand' = [errand EXCEPT ![t] = e] BY <3>2
      <4> HIDE DEF e
      <4> QED BY <3>1, <4>1, <4>2
    <3>3. ASSUME NEW l \in Streams,
                 errand' = [errand EXCEPT ![t] = [pc |-> "picked", lane |-> l, offered |-> FALSE]]
          PROVE  \E e : /\ errand' = [errand EXCEPT ![t] = e] /\ (Holds(e, NextTask(SeatOf[t])) \/ ~e.offered)
                        /\ e.lane \in Places /\ (e.offered => e.lane = NextTask(SeatOf[t]))
      <4> DEFINE e == [pc |-> "picked", lane |-> l, offered |-> FALSE]
      <4>1. ~e.offered /\ e.lane \in Places BY DEF Places
      <4>2. errand' = [errand EXCEPT ![t] = e] BY <3>3
      <4> HIDE DEF e
      <4> QED BY <4>1, <4>2
    <3> QED BY <1>3, <3>2, <3>3 DEF Pick, Does
  <2>2. \A u \in Terminals : errand'[u] = IF u = t THEN e ELSE errand[u] BY <1>0, <2>1 DEF AgentTypes
  <2>3. \A l \in Streams : Exhausted(l) => NextTask(SeatOf[t]) # l BY OffersAreOpen DEF Seats
  <2>4. \A u \in Terminals, l \in Streams : Holds(errand'[u], l) => Holds(errand[u], l) \/ ~Exhausted(l)
    BY <2>1, <2>2, <2>3 DEF Holds
  <2>5. UNCHANGED <<walls, archived, sessions, date, overruns>> BY <1>3 DEF Pick
  <2> QED BY <1>1, <2>4, <2>5, PickKeeps
<1>4. ASSUME NEW t \in Terminals, LeaveBe(t) \/ ClockRefused(t) PROVE WallInv'
  <2>1. PICK e \in {AtRest, [pc |-> "timed"]} : errand' = [errand EXCEPT ![t] = e]
    BY <1>4 DEF LeaveBe, ClockRefused, Does
  <2>2. e.pc # "picked" BY DEF AtRest
  <2>3. \A u \in Terminals : errand'[u] = IF u = t THEN e ELSE errand[u] BY <1>0, <2>1 DEF AgentTypes
  <2>4. UNCHANGED <<walls, archived, sessions, date, overruns>> BY <1>4 DEF LeaveBe, ClockRefused
  <2>5. \A u \in Terminals, l \in Streams : Holds(errand'[u], l) => Holds(errand[u], l) \/ ~Exhausted(l)
    BY <2>2, <2>3 DEF Holds
  <2> QED BY <1>1, <2>4, <2>5, PickKeeps
<1>5. ASSUME NEW t \in Terminals, NEW row \in SessionRow, NEW e, e.pc # "picked", errand[t].pc = "picked",
             row.cost = Unset, row.open => row.claim = Unset, sessions' = Append(sessions, row), UNCHANGED walls,
             errand' = [errand EXCEPT ![t] = e], Count(t, IF errand[t].offered THEN errand[t].lane ELSE Unset)
      PROVE  WallInv'
  <2>1. \A u \in Terminals : errand'[u] = IF u = t THEN e ELSE errand[u] BY <1>0, <1>5 DEF AgentTypes
  <2>2. RowsAreTold'
    <3>1. sessions \in Seq(SessionRow) BY <1>0 DEF AgentTypes
    <3>2. DOMAIN sessions' = DOMAIN sessions \cup {Len(sessions) + 1} BY <1>5, <3>1
    <3>3. \A i \in DOMAIN sessions : sessions'[i] = sessions[i] BY <1>5, <3>1
    <3>4. sessions'[Len(sessions) + 1] = row BY <1>5, <3>1
    <3>5. IsTold(row) BY <1>5 DEF IsTold, IsSworn, IsBlank
    <3>6. \A i \in DOMAIN sessions' : IsTold(sessions'[i]) BY <1>0, <3>2, <3>3, <3>4, <3>5 DEF RowsAreTold
    <3> QED BY <3>6 DEF RowsAreTold, IsTold, IsSworn, IsBlank
  <2>3. PICK lane : lane = IF errand[t].offered THEN errand[t].lane ELSE Unset OBVIOUS
  <2>4. lane \in Streams => Holds(errand[t], lane) BY <1>u, <1>5, <2>3 DEF Holds
  <2>5. Count(t, lane) BY <1>5, <2>3
  <2>6. walls' \in [Streams -> Ceilings] BY <1>0, <1>5
  <2>7. \A u \in Terminals : errand'[u] = errand[u] \/ errand'[u].pc # "picked" BY <1>5, <2>1
  <2>8. errand'[t].pc # "picked" BY <1>5, <2>1
  <2> QED BY <1>1, <2>2, <2>4, <2>5, <2>6, <2>7, <2>8, CountKeeps
<1>6. ASSUME NEW t \in Terminals, Clock(t) PROVE WallInv'
  <2>1. errand[t] \in Errand /\ errand[t].pc = "picked" BY <1>0, <1>6 DEF Clock, AgentTypes
  <2>2. errand[t].lane \in Places BY <2>1 DEF Errand
  <2> DEFINE row == SessionOf(t, errand[t].lane)
             e == [pc |-> "timed"]
  <2>3. row \in SessionRow /\ row.cost = Unset /\ row.claim = Unset /\ e.pc # "picked" BY <1>0, <2>2, SessionsAre
  <2>4. /\ errand' = [errand EXCEPT ![t] = e] /\ sessions' = Append(sessions, row) /\ UNCHANGED walls
        /\ Count(t, IF errand[t].offered THEN errand[t].lane ELSE Unset)
    BY <1>6 DEF Clock, Does
  <2> HIDE DEF row, e
  <2> QED BY <1>5, <2>1, <2>3, <2>4
<1>7. ASSUME NEW t \in Terminals, LogRun(t) PROVE WallInv'
  <2>1. errand[t] \in Errand /\ errand[t].pc = "picked" BY <1>0, <1>7 DEF LogRun, AgentTypes
  <2>2. errand[t].lane \in Places BY <2>1 DEF Errand
  <2>3. PICK d \in {date - 1, date} \cap Nat, u \in Measures :
          /\ sessions' = Append(sessions, [SessionOf(t, errand[t].lane) EXCEPT
               !.day = d, !.open = FALSE, !.claim = u.cost, !.claimBy = [by |-> t, of |-> u]])
          /\ errand' = [errand EXCEPT ![t] = IF u.tokens > 0 THEN [pc |-> "stopped", entry |-> Len(sessions) + 1, of |-> u]
                                             ELSE AtRest]
    BY <1>7 DEF LogRun, Does
  <2>4. d \in Nat /\ u.cost \in Amount BY ClaimsAgree
  <2>5. SessionOf(t, errand[t].lane) \in SessionRow /\ SessionOf(t, errand[t].lane).cost = Unset
    BY <1>0, <2>2, SessionsAre
  <2>6. PICK stamp \in [by : Terminals, of : Measures \cup {Unset}] : stamp = [by |-> t, of |-> u] OBVIOUS
  <2> DEFINE row == [SessionOf(t, errand[t].lane) EXCEPT !.day = d, !.open = FALSE, !.claim = u.cost, !.claimBy = stamp]
  <2>7. row \in SessionRow /\ row.cost = Unset /\ ~row.open BY <2>4, <2>5 DEF SessionRow
  <2>8. PICK e : e.pc # "picked" /\ errand' = [errand EXCEPT ![t] = e]
    <3>1. CASE u.tokens > 0 BY <2>3, <3>1
    <3>2. CASE ~(u.tokens > 0) BY <2>3, <3>2 DEF AtRest
    <3> QED BY <3>1, <3>2
  <2>9. /\ sessions' = Append(sessions, row) /\ UNCHANGED walls
        /\ Count(t, IF errand[t].offered THEN errand[t].lane ELSE Unset)
    BY <1>7, <2>3, <2>6 DEF LogRun
  <2> HIDE DEF row
  <2> QED BY <1>5, <2>1, <2>7, <2>8, <2>9
\* The other steps begin no session.
<1>8. ASSUME NEW by, Count(by, Unset), RowsAreTold', walls' \in [Streams -> Ceilings],
             \A u \in Terminals : errand'[u] = errand[u] \/ errand'[u].pc # "picked"
      PROVE  WallInv'
  <2>1. Unset \notin Streams BY <1>u
  <2> QED BY <1>1, <1>8, <2>1, CountKeeps
<1>9. ASSUME NEW t \in Terminals, NEW e, e.pc # "picked", errand' = [errand EXCEPT ![t] = e]
      PROVE  \A u \in Terminals : errand'[u] = errand[u] \/ errand'[u].pc # "picked"
  <2>1. \A u \in Terminals : errand'[u] = IF u = t THEN e ELSE errand[u] BY <1>0, <1>9 DEF AgentTypes
  <2> QED BY <1>9, <2>1
<1>10. ASSUME NEW i \in DOMAIN sessions, NEW row, IsTold(row), sessions' = [sessions EXCEPT ![i] = row]
       PROVE  RowsAreTold'
  <2>1. DOMAIN sessions' = DOMAIN sessions /\ \A j \in DOMAIN sessions : sessions'[j] = IF j = i THEN row ELSE sessions[j]
    BY <1>0, <1>10 DEF AgentTypes
  <2>2. \A j \in DOMAIN sessions' : IsTold(sessions'[j]) BY <1>0, <1>10, <2>1 DEF RowsAreTold
  <2> QED BY <2>2 DEF RowsAreTold, IsTold, IsSworn, IsBlank
<1>11. UNCHANGED sessions => RowsAreTold' BY <1>0 DEF RowsAreTold
<1>12. ASSUME NEW t \in Terminals, Stop(t) PROVE WallInv'
  <2>1. Count(t, Unset) /\ walls' \in [Streams -> Ceilings] BY <1>0, <1>12 DEF Stop
  <2>2. PICK e : e.pc # "picked" /\ errand' = [errand EXCEPT ![t] = e] BY <1>12 DEF Stop, Does, AtRest
  <2>3. RowsAreTold'
    <3> DEFINE k == OpenEntry(SeatOf[t])
    <3>1. UNCHANGED sessions \/ (k # Unset /\ \E c, by : ClosedWith(k, c, by)) BY <1>12 DEF Stop
    <3>2. ASSUME NEW c, NEW by, k # Unset, ClosedWith(k, c, by) PROVE RowsAreTold'
      <4> DEFINE row == [sessions[k] EXCEPT !.open = FALSE, !.claim = c, !.claimBy = by]
      <4>1. k \in DOMAIN sessions BY <1>1, <3>2, OpenIsOpen
      <4>2. sessions[k] \in SessionRow /\ IsTold(sessions[k]) BY <1>0, <4>1 DEF RowsAreTold
      <4>3. row.cost = sessions[k].cost /\ row.sworn = sessions[k].sworn /\ ~row.open BY <4>2 DEF SessionRow
      <4>4. IsTold(row) BY <4>2, <4>3 DEF IsTold, IsSworn, IsBlank
      <4>5. sessions' = [sessions EXCEPT ![k] = row] BY <3>2 DEF ClosedWith
      <4> HIDE DEF row, k
      <4> QED BY <1>10, <4>1, <4>4, <4>5
    <3> QED BY <1>11, <3>1, <3>2
  <2>4. \A u \in Terminals : errand'[u] = errand[u] \/ errand'[u].pc # "picked" BY <1>9, <2>2
  <2> QED BY <1>8, <2>1, <2>3, <2>4
<1>13. ASSUME NEW i \in DOMAIN sessions, NEW c, NEW by, ~sessions[i].open, Attested(i, c, by) PROVE RowsAreTold'
  <2> DEFINE row == [sessions[i] EXCEPT !.sworn = TRUE, !.cost = c, !.swornBy = by]
  <2>1. sessions[i] \in SessionRow BY <1>0
  <2>2. row.sworn /\ ~row.open BY <1>13, <2>1 DEF SessionRow
  <2>3. sessions' = [sessions EXCEPT ![i] = row] BY <1>13 DEF Attested
  <2>4. IsTold(row) BY <2>2 DEF IsTold, IsSworn, IsBlank
  <2> HIDE DEF row
  <2> QED BY <1>10, <2>3, <2>4
<1>14. ASSUME NEW t \in Terminals, AttestOwn(t) PROVE WallInv'
  <2>1. errand[t].entry \in DOMAIN sessions /\ ~sessions[errand[t].entry].open
    BY <1>1, <1>14 DEF AttestOwn, AgentInv, HasClaimed
  <2>2. RowsAreTold' BY <1>13, <1>14, <2>1 DEF AttestOwn
  <2>3. /\ Count(t, Unset) /\ walls' \in [Streams -> Ceilings] /\ AtRest.pc # "picked"
        /\ errand' = [errand EXCEPT ![t] = AtRest]
    BY <1>0, <1>14 DEF AttestOwn, Does, AtRest
  <2>4. \A u \in Terminals : errand'[u] = errand[u] \/ errand'[u].pc # "picked" BY <1>9, <2>3
  <2> QED BY <1>8, <2>2, <2>3, <2>4
<1>15. ASSUME NEW t \in Terminals, Dies(t) PROVE WallInv'
  <2>1. /\ Count(Office, Unset) /\ walls' \in [Streams -> Ceilings] /\ AtRest.pc # "picked"
        /\ errand' = [errand EXCEPT ![t] = AtRest] /\ UNCHANGED sessions
    BY <1>0, <1>15 DEF Dies, Does, AtRest, Acts
  <2>2. \A u \in Terminals : errand'[u] = errand[u] \/ errand'[u].pc # "picked" BY <1>9, <2>1
  <2> QED BY <1>8, <1>11, <2>1, <2>2
<1>16. ASSUME NEW i \in DOMAIN sessions, NEW c, AttestOther(i, c) PROVE WallInv'
  <2>1. Count(Office, Unset) /\ walls' \in [Streams -> Ceilings] /\ UNCHANGED errand
    BY <1>0, <1>16 DEF AttestOther, Acts
  <2>2. RowsAreTold' BY <1>13, <1>16 DEF AttestOther
  <2> QED BY <1>8, <2>1, <2>2
<1>17. ASSUME NEW i \in DOMAIN sessions, NEW l, NEW p, NEW b, Amend(i, l, p, b) PROVE WallInv'
  <2>1. Count(Office, Unset) /\ walls' \in [Streams -> Ceilings] /\ UNCHANGED errand
    BY <1>0, <1>17 DEF Amend, Acts
  <2> DEFINE runs == sessions[i].open /\ b
             row == [sessions[i] EXCEPT !.lane = l, !.day = p, !.open = runs]
  <2>2. sessions' = [sessions EXCEPT ![i] = row] BY <1>17 DEF Amend
  <2>3. sessions[i] \in SessionRow /\ IsTold(sessions[i]) BY <1>0 DEF RowsAreTold
  <2>4. /\ row.cost = sessions[i].cost /\ row.sworn = sessions[i].sworn /\ row.claim = sessions[i].claim
        /\ row.open => sessions[i].open
    <3>1. runs => sessions[i].open OBVIOUS
    <3> HIDE DEF runs
    <3> QED BY <2>3, <3>1 DEF SessionRow
  <2>5. IsTold(row) BY <2>3, <2>4 DEF IsTold, IsSworn, IsBlank
  <2> HIDE DEF row, runs
  <2>6. RowsAreTold' BY <1>10, <2>2, <2>5
  <2> QED BY <1>8, <2>1, <2>6
<1>18. ASSUME NewDay \/ \E l \in Streams : (\E w \in Ceilings : SetBudget(l, w)) \/ Archive(l) PROVE WallInv'
  <2>1. Count(Office, Unset) /\ UNCHANGED <<sessions, errand>> BY <1>18 DEF NewDay, SetBudget, Archive, Acts
  <2>2. walls' \in [Streams -> Ceilings] BY <1>0, <1>18 DEF NewDay, SetBudget, Archive, Acts
  <2> QED BY <1>8, <1>11, <2>1, <2>2
<1> QED BY <1>2, <1>3, <1>4, <1>6, <1>7, <1>12, <1>14, <1>15, <1>16, <1>17, <1>18 DEF AgentNext

\* Once an enforced budget is spent, each terminal begins on an offer at most the
\* one session it had been offered before.
THEOREM WallStands == AgentSpec => []WallHolds
<1>1. WallInv => WallHolds BY DEF WallInv, Beyond, WallHolds
<1> QED BY <1>1, WallStarts, WallKeeps, PTL DEF AgentSpec
-----------------------------------------------------------------------------
\* The usage report: what each row puts into a bucket, part by part.

Parts == {"entries", "attested", "reported", "verified", "delta", "unverified"}
Bucket == [entries : Int, attested : Int, reported : Int, verified : Int, delta : Int, unverified : Int]

Worth(row, part) ==
  CASE part = "entries" -> 1
    [] part = "reported" -> Num(row.claim)
    [] part = "attested" -> IF row.sworn THEN 1 ELSE 0
    [] part = "verified" -> IF row.sworn THEN Num(row.cost) ELSE 0
    [] part = "delta" -> IF row.sworn THEN Num(row.cost) - Num(row.claim) ELSE 0
    [] part = "unverified" -> IF row.sworn THEN 0 ELSE Num(row.claim)

LEMMA BucketsAre == /\ DOMAIN EmptyBucket = Parts /\ EmptyBucket \in Bucket /\ \A part \in Parts : EmptyBucket[part] = 0
                    /\ \A b \in Bucket, part \in Parts : b[part] \in Int
BY DEF EmptyBucket, Parts, Bucket

LEMMA NumsAre == \A c \in Amount : Num(c) \in Int
BY DEF Amount, Num

LEMMA TallyAdds ==
  ASSUME NEW b \in Bucket, NEW row \in SessionRow
  PROVE  /\ Tally(b, row) \in Bucket
         /\ \A part \in Parts : Worth(row, part) \in Int /\ Tally(b, row)[part] = b[part] + Worth(row, part)
<1>1. row.claim \in Amount /\ row.cost \in Amount /\ row.sworn \in BOOLEAN BY DEF SessionRow
<1>2. Num(row.claim) \in Int /\ Num(row.cost) \in Int BY <1>1, NumsAre
<1>3. PICK claim \in Int : claim = Num(row.claim) BY <1>2
<1>4. PICK cost \in Int : cost = Num(row.cost) BY <1>2
<1> DEFINE seen == [b EXCEPT !.entries = @ + 1, !.reported = @ + claim]
<1>0. /\ b.entries \in Int /\ b.attested \in Int /\ b.reported \in Int /\ b.verified \in Int
      /\ b.delta \in Int /\ b.unverified \in Int
      /\ b.entries + 1 \in Int /\ b.reported + claim \in Int /\ b.attested + 1 \in Int
      /\ b.verified + cost \in Int /\ b.delta + cost - claim \in Int /\ b.unverified + claim \in Int
  BY DEF Bucket
<1>5. /\ seen \in Bucket /\ seen.entries = b.entries + 1 /\ seen.reported = b.reported + claim
      /\ seen.attested = b.attested /\ seen.verified = b.verified /\ seen.delta = b.delta
      /\ seen.unverified = b.unverified
  <2>1. PICK m \in Int : m = b.reported + claim BY <1>0
  <2>2. PICK k \in Int : k = b.entries + 1 BY <1>0
  <2>3. seen = [b EXCEPT !.entries = k, !.reported = m] BY <2>1, <2>2
  <2> QED BY <2>1, <2>2, <2>3 DEF Bucket
<1>6. Tally(b, row) = IF ~row.sworn THEN [seen EXCEPT !.unverified = @ + claim]
                      ELSE [seen EXCEPT !.attested = @ + 1, !.verified = @ + cost, !.delta = @ + cost - claim]
  BY <1>3, <1>4 DEF Tally
<1> HIDE DEF seen
<1>7. /\ Tally(b, row) \in Bucket
      /\ Tally(b, row).entries = b.entries + 1 /\ Tally(b, row).reported = b.reported + claim
      /\ Tally(b, row).attested = b.attested + (IF row.sworn THEN 1 ELSE 0)
      /\ Tally(b, row).verified = b.verified + (IF row.sworn THEN cost ELSE 0)
      /\ Tally(b, row).delta = b.delta + (IF row.sworn THEN cost - claim ELSE 0)
      /\ Tally(b, row).unverified = b.unverified + (IF row.sworn THEN 0 ELSE claim)
  <2>1. CASE row.sworn
    <3>1. PICK p \in Int : p = b.attested + 1 BY <1>0
    <3>2. PICK q \in Int : q = b.verified + cost BY <1>0
    <3>3. PICK d \in Int : d = b.delta + cost - claim /\ d = b.delta + (cost - claim) BY <1>0
    <3>4. Tally(b, row) = [seen EXCEPT !.attested = p, !.verified = q, !.delta = d]
      BY <1>5, <1>6, <2>1, <3>1, <3>2, <3>3
    <3>5. /\ Tally(b, row) \in Bucket
          /\ Tally(b, row).entries = seen.entries /\ Tally(b, row).reported = seen.reported
          /\ Tally(b, row).attested = p /\ Tally(b, row).verified = q /\ Tally(b, row).delta = d
          /\ Tally(b, row).unverified = seen.unverified
      BY <1>5, <3>4 DEF Bucket
    <3> QED BY <1>0, <1>5, <2>1, <3>1, <3>2, <3>3, <3>5
  <2>2. CASE ~row.sworn BY <1>5, <1>6, <2>2 DEF Bucket
  <2> QED BY <2>1, <2>2
<1>8. PICK c : c = Tally(b, row) OBVIOUS
<1>9. ASSUME NEW part \in Parts
      PROVE  Worth(row, part) \in Int /\ c[part] = b[part] + Worth(row, part)
  BY <1>3, <1>4, <1>7, <1>8, <1>9 DEF Parts, Worth
<1> QED BY <1>7, <1>8, <1>9

\* A part of the buckets of K, added up.
Together(parts, part, K) == SumFunctionOnSet([k \in K |-> parts[k][part]], K)

LEMMA TogetherNone ==
  ASSUME NEW K, IsFiniteSet(K), NEW part \in Parts
  PROVE  Together([k \in K |-> EmptyBucket], part, K) = 0
<1> DEFINE f == [k \in K |-> [j \in K |-> EmptyBucket][k][part]]
<1>1. \A k \in K : f[k] = 0 BY BucketsAre
<1> HIDE DEF f
<1>2. (\A k \in K : f[k] \in Int) /\ {} \in SUBSET K /\ \A k \in K \ {} : f[k] = 0 BY <1>1
<1>3. SumFunctionOnSet(f, {}) = SumFunctionOnSet(f, K) BY <1>2, SumSkips
<1>4. SumFunctionOnSet(f, K) = 0 BY <1>3, SumOfNone
<1> QED BY <1>4 DEF f, Together

LEMMA TogetherAdds ==
  ASSUME NEW K, IsFiniteSet(K), NEW parts \in [K -> Bucket], NEW k \in K, NEW row \in SessionRow,
         NEW more, more = [parts EXCEPT ![k] = Tally(parts[k], row)]
  PROVE  /\ more \in [K -> Bucket]
         /\ \A part \in Parts : Together(more, part, K) = Together(parts, part, K) + Worth(row, part)
<1>1. PICK b \in Bucket : b = Tally(parts[k], row) BY TallyAdds
<1>2. more \in [K -> Bucket] /\ \A j \in K : more[j] = IF j = k THEN b ELSE parts[j] BY <1>1
<1>3. ASSUME NEW part \in Parts PROVE Together(more, part, K) = Together(parts, part, K) + Worth(row, part)
  <2>1. PICK d \in Int : d = Worth(row, part) /\ b[part] = parts[k][part] + d BY <1>1, TallyAdds
  <2>2. PICK f : f = [j \in K |-> parts[j][part]] OBVIOUS
  <2>3. PICK e : e = [j \in K |-> more[j][part]] OBVIOUS
  <2>4. \A j \in K : f[j] \in Int BY <2>2, BucketsAre
  <2>5. \A j \in K : e[j] = IF j = k THEN f[j] + d ELSE f[j] BY <1>2, <2>1, <2>2, <2>3
  <2>6. SumFunctionOnSet(e, K) = SumFunctionOnSet(f, K) + d BY <2>4, <2>5, SumBumps
  <2> QED BY <2>1, <2>2, <2>3, <2>6 DEF Together
<1> QED BY <1>2, <1>3

\* The report as far as it goes: its parts add up, and its difference is theirs.
Report == [totals : Bucket, seats : [Seats -> Bucket], lanes : [Places -> Bucket]]

AddsUp(v) ==
  /\ \A part \in Parts : /\ v.totals[part] = Together(v.seats, part, Seats)
                         /\ v.totals[part] = Together(v.lanes, part, Places)
  /\ v.totals.delta = v.totals.verified - (v.totals.reported - v.totals.unverified)

Filed(v, row) ==
  IF ~IsUsage(row, MonthStart(date), date) THEN v
  ELSE [totals |-> Tally(v.totals, row), seats |-> [v.seats EXCEPT ![row.seat] = Tally(@, row)],
        lanes |-> [v.lanes EXCEPT ![row.lane] = Tally(@, row)]]

LEMMA KeysAreFinite == IsFiniteSet(Seats) /\ IsFiniteSet(Places)
<1>1. IsFiniteSet(Terminals) /\ IsFiniteSet(Streams) BY AgentAssumption
<1>2. IsFiniteSet(Seats)
  <2> DEFINE f == [t \in Terminals |-> SeatOf[t]]
  <2>1. Range(f) = Seats /\ DOMAIN f = Terminals BY DEF Range, Seats
  <2> HIDE DEF f
  <2> QED BY <1>1, <2>1, ImageFinite
<1>3. IsFiniteSet(Places) BY <1>1, FS_AddElement DEF Places
<1> QED BY <1>2, <1>3

LEMMA NothingAddsUp == NoUsage \in Report /\ AddsUp(NoUsage)
<1>1. NoUsage \in Report BY BucketsAre DEF NoUsage, Report
<1>2. \A part \in Parts : /\ NoUsage.totals[part] = 0
                          /\ NoUsage.seats = [k \in Seats |-> EmptyBucket]
                          /\ NoUsage.lanes = [k \in Places |-> EmptyBucket]
  BY BucketsAre DEF NoUsage
<1>3. \A part \in Parts : /\ NoUsage.totals[part] = Together(NoUsage.seats, part, Seats)
                          /\ NoUsage.totals[part] = Together(NoUsage.lanes, part, Places)
  BY <1>2, KeysAreFinite, TogetherNone
<1>4. NoUsage.totals.delta = NoUsage.totals.verified - (NoUsage.totals.reported - NoUsage.totals.unverified)
  BY DEF NoUsage, EmptyBucket
<1> QED BY <1>1, <1>3, <1>4 DEF AddsUp

LEMMA FiledAddsUp ==
  ASSUME NEW v \in Report, NEW row \in SessionRow
  PROVE  /\ Filed(v, row) \in Report
         /\ AddsUp(v) => AddsUp(Filed(v, row))
         /\ \A l \in Places, part \in Parts :
              Filed(v, row).lanes[l][part] =
                v.lanes[l][part] + (IF IsUsage(row, MonthStart(date), date) /\ row.lane = l THEN Worth(row, part) ELSE 0)
<1>1. /\ v.totals \in Bucket /\ v.seats \in [Seats -> Bucket] /\ v.lanes \in [Places -> Bucket]
      /\ row.seat \in Seats /\ row.lane \in Places
  BY DEF Report, SessionRow
<1>0. \A l \in Places, part \in Parts : v.lanes[l][part] \in Int BY <1>1, BucketsAre
<1>2. CASE ~IsUsage(row, MonthStart(date), date)
  <2>1. Filed(v, row) = v BY <1>2 DEF Filed
  <2> QED BY <1>0, <1>2, <2>1
<1>3. CASE IsUsage(row, MonthStart(date), date)
  <2>1. PICK t : t = Tally(v.totals, row) OBVIOUS
  <2>2. PICK s : s = [v.seats EXCEPT ![row.seat] = Tally(v.seats[row.seat], row)] OBVIOUS
  <2>3. PICK n : n = [v.lanes EXCEPT ![row.lane] = Tally(v.lanes[row.lane], row)] OBVIOUS
  <2>4. PICK w : w = Filed(v, row) OBVIOUS
  <2>5. w = [totals |-> t, seats |-> s, lanes |-> n] BY <1>3, <2>1, <2>2, <2>3, <2>4 DEF Filed
  <2>6. t \in Bucket /\ \A part \in Parts : Worth(row, part) \in Int /\ t[part] = v.totals[part] + Worth(row, part)
    BY <1>1, <2>1, TallyAdds
  <2>7. /\ s \in [Seats -> Bucket]
        /\ \A part \in Parts : Together(s, part, Seats) = Together(v.seats, part, Seats) + Worth(row, part)
    BY <1>1, <2>2, KeysAreFinite, TogetherAdds
  <2>8. /\ n \in [Places -> Bucket]
        /\ \A part \in Parts : Together(n, part, Places) = Together(v.lanes, part, Places) + Worth(row, part)
    BY <1>1, <2>3, KeysAreFinite, TogetherAdds
  <2>9. w \in Report /\ w.totals = t /\ w.seats = s /\ w.lanes = n BY <2>5, <2>6, <2>7, <2>8 DEF Report
  <2>10. ASSUME AddsUp(v) PROVE AddsUp(w)
    <3>1. \A part \in Parts : /\ w.totals[part] = Together(w.seats, part, Seats)
                              /\ w.totals[part] = Together(w.lanes, part, Places)
      BY <2>6, <2>7, <2>8, <2>9, <2>10 DEF AddsUp
    <3>2. /\ Worth(row, "delta") = Worth(row, "verified") - (Worth(row, "reported") - Worth(row, "unverified"))
          /\ {"delta", "verified", "reported", "unverified"} \subseteq Parts
      <4>1. /\ Worth(row, "delta") = IF row.sworn THEN Num(row.cost) - Num(row.claim) ELSE 0
            /\ Worth(row, "verified") = IF row.sworn THEN Num(row.cost) ELSE 0
            /\ Worth(row, "reported") = Num(row.claim)
            /\ Worth(row, "unverified") = IF row.sworn THEN 0 ELSE Num(row.claim)
        BY DEF Worth
      <4>2. Num(row.claim) \in Int /\ Num(row.cost) \in Int BY NumsAre DEF SessionRow
      <4> QED BY <4>1, <4>2 DEF Parts
    <3>3. /\ t.delta = v.totals.delta + Worth(row, "delta") /\ t.verified = v.totals.verified + Worth(row, "verified")
          /\ t.reported = v.totals.reported + Worth(row, "reported")
          /\ t.unverified = v.totals.unverified + Worth(row, "unverified")
      BY <2>6, <3>2
    <3>4. /\ Worth(row, "delta") \in Int /\ Worth(row, "verified") \in Int
          /\ Worth(row, "reported") \in Int /\ Worth(row, "unverified") \in Int
      BY <2>6, <3>2
    <3>5. /\ v.totals.delta \in Int /\ v.totals.verified \in Int
          /\ v.totals.reported \in Int /\ v.totals.unverified \in Int
      BY <1>1 DEF Bucket
    <3>6. v.totals.delta = v.totals.verified - (v.totals.reported - v.totals.unverified) BY <2>10 DEF AddsUp
    <3>7. t.delta = t.verified - (t.reported - t.unverified) BY <3>2, <3>3, <3>4, <3>5, <3>6
    <3> QED BY <2>9, <3>1, <3>7 DEF AddsUp
  <2>11. ASSUME NEW l \in Places, NEW part \in Parts
         PROVE  w.lanes[l][part] = v.lanes[l][part] + (IF row.lane = l THEN Worth(row, part) ELSE 0)
    <3>1. n[l] = IF row.lane = l THEN Tally(v.lanes[l], row) ELSE v.lanes[l] BY <1>1, <2>3
    <3>2. Tally(v.lanes[l], row)[part] = v.lanes[l][part] + Worth(row, part) BY <1>1, TallyAdds
    <3> QED BY <1>0, <2>9, <3>1, <3>2
  <2> QED BY <1>3, <2>4, <2>9, <2>10, <2>11
<1> QED BY <1>2, <1>3

\* What the rows of a lane put into one part of its bucket.
FiledAt(lane, part) ==
  [i \in DOMAIN sessions |-> IF IsUsage(sessions[i], MonthStart(date), date) /\ sessions[i].lane = lane THEN Worth(sessions[i], part) ELSE 0]

LEMMA FiledAre ==
  ASSUME AgentInv, NEW lane, NEW part \in Parts
  PROVE  FiledAt(lane, part) \in [DOMAIN sessions -> Int]
<1>1. \A i \in DOMAIN sessions : Worth(sessions[i], part) \in Int
  <2>1. EmptyBucket \in Bucket BY BucketsAre
  <2> QED BY <2>1, RowsAre, TallyAdds
<1> QED BY <1>1 DEF FiledAt

\* The fold of usage.summary, row by row.
LEMMA ReportIs ==
  ASSUME AgentInv
  PROVE  /\ FoldUsage(MonthStart(date), date) \in Report /\ AddsUp(FoldUsage(MonthStart(date), date))
         /\ \A l \in Places, part \in Parts :
              FoldUsage(MonthStart(date), date).lanes[l][part] = SumFunctionOnSet(FiledAt(l, part), DOMAIN sessions)
<1> DEFINE n == Len(sessions)
           Step(sum, row) == IF ~IsUsage(row, MonthStart(date), date) THEN sum
                             ELSE [totals |-> Tally(sum.totals, row),
                                   seats  |-> [sum.seats EXCEPT ![row.seat] = Tally(@, row)],
                                   lanes  |-> [sum.lanes EXCEPT ![row.lane] = Tally(@, row)]]
           P(it) == it = [s \in SUBSET (DOMAIN sessions) |->
                            IF s = {} THEN NoUsage ELSE Step(it[s \ {Max(s)}], sessions[Max(s)])]
           F == [p \in Report \X (1..n) |-> Filed(p[1], sessions[p[2]])]
<1>1. n \in Nat /\ DOMAIN sessions = 1..n /\ \A i \in 1..n : sessions[i] \in SessionRow BY RowsAre
<1>2. \A sum, row : Step(sum, row) = Filed(sum, row) BY DEF Filed
<1>3. \A s \in SUBSET (1..n) : s # {} => Max(s) \in 1..n BY <1>1, GreatestIs
<1>4. NoUsage \in Report /\ AddsUp(NoUsage) BY NothingAddsUp
<1>5. F \in [Report \X (1..n) -> Report]
  <2> HIDE DEF n
  <2>1. ASSUME NEW v \in Report, NEW i \in 1..n PROVE Filed(v, sessions[i]) \in Report
    <3>1. PICK row \in SessionRow : row = sessions[i] BY <1>1
    <3> QED BY <3>1, FiledAddsUp
  <2> QED BY <2>1
<1>6. \A v \in Report, i \in 1..n : F[<<v, i>>] = Filed(v, sessions[i]) OBVIOUS
<1>7. PICK h \in [SUBSET (1..n) -> Report] : FoldsBy(h, n, NoUsage, F)
  <2> HIDE DEF F, n
  <2> QED BY <1>1, <1>4, <1>5, FoldExists
<1>8. P(h)
  <2> HIDE DEF Step, F
  <2>1. \A s \in SUBSET (1..n) : h[s] = IF s = {} THEN NoUsage ELSE Step(h[s \ {Max(s)}], sessions[Max(s)])
    <3>1. ASSUME NEW s \in SUBSET (1..n), s = {} PROVE h[s] = NoUsage BY <1>7, <3>1 DEF FoldsBy
    <3>2. ASSUME NEW s \in SUBSET (1..n), s # {} PROVE h[s] = Step(h[s \ {Max(s)}], sessions[Max(s)])
      <4> HIDE DEF n
      <4>1. Max(s) \in 1..n /\ h[s \ {Max(s)}] \in Report BY <1>3, <3>2
      <4>2. h[s] = F[<<h[s \ {Max(s)}], Max(s)>>] BY <1>7, <3>2 DEF FoldsBy
      <4> QED BY <1>2, <1>6, <4>1, <4>2
    <3> QED BY <3>1, <3>2
  <2> QED BY <1>1, <2>1
<1>9. PICK it : it = (CHOOSE g : P(g)) OBVIOUS
<1>10. P(it)
  <2> HIDE DEF P
  <2> QED BY <1>8, <1>9
<1>11. FoldUsage(MonthStart(date), date) = it[DOMAIN sessions]
  BY <1>9 DEF FoldUsage, FoldLeft, MapThenFoldSet
<1>12. FoldsWithin(Report, n, NoUsage, F, it)
  <2> HIDE DEF Step, F
  <2>1. it[{}] = NoUsage BY <1>10
  <2>2. ASSUME NEW s \in SUBSET (1..n), s # {}, it[s \ {Max(s)}] \in Report
        PROVE  it[s] = F[<<it[s \ {Max(s)}], Max(s)>>]
    <3>1. it[s] = Step(it[s \ {Max(s)}], sessions[Max(s)]) BY <1>1, <1>10, <2>2
    <3>2. Max(s) \in 1..n BY <1>3, <2>2
    <3> HIDE DEF P, n
    <3> QED BY <1>2, <1>6, <2>2, <3>1, <3>2
  <2> HIDE DEF P, n
  <2> QED BY <2>1, <2>2 DEF FoldsWithin
<1> HIDE DEF P, Step
<1>13. PICK chain \in [0..n -> Report] : ChainOf(chain, n, NoUsage, F, it[1..n])
  <2> HIDE DEF F, n
  <2> QED BY <1>1, <1>4, <1>5, <1>12, FoldRuns
<1>14. chain[0] = NoUsage /\ chain[n] = FoldUsage(MonthStart(date), date) BY <1>1, <1>11, <1>13 DEF ChainOf
<1>15. \A k \in 0..(n - 1) : /\ chain[k] \in Report /\ k + 1 \in 1..n
                             /\ chain[k + 1] = Filed(chain[k], sessions[k + 1])
  <2> SUFFICES ASSUME NEW k \in 0..(n - 1)
               PROVE  /\ chain[k] \in Report /\ k + 1 \in 1..n
                      /\ chain[k + 1] = Filed(chain[k], sessions[k + 1])
    OBVIOUS
  <2> HIDE DEF F, n
  <2>1. chain[k] \in Report /\ k + 1 \in 1..n BY <1>1
  <2>2. chain[k + 1] = F[<<chain[k], k + 1>>] BY <1>13 DEF ChainOf
  <2> QED BY <1>6, <2>1, <2>2
<1> HIDE DEF F, n
<1>16. \A k \in 0..n : k \in {j \in 0..n : AddsUp(chain[j])}
  <2> DEFINE S == {j \in 0..n : AddsUp(chain[j])}
  <2>1. 0 \in S BY <1>1, <1>4, <1>14
  <2>2. \A k \in 0..(n - 1) : k \in S => k + 1 \in S
    <3> SUFFICES ASSUME NEW k \in 0..(n - 1), k \in S PROVE k + 1 \in S OBVIOUS
    <3>1. k + 1 \in 0..n /\ sessions[k + 1] \in SessionRow BY <1>1, <1>15
    <3>2. AddsUp(chain[k + 1]) BY <1>15, <3>1, FiledAddsUp
    <3> QED BY <3>1, <3>2
  <2> HIDE DEF S
  <2>3. \A k \in 0..n : k \in S BY <1>1, <2>1, <2>2, CountingTo
  <2> QED BY <2>3 DEF S
<1>17. n \in 0..n BY <1>1
<1>18. ASSUME NEW l \in Places, NEW part \in Parts
       PROVE  chain[n].lanes[l][part] = SumFunctionOnSet(FiledAt(l, part), 1..n)
  <2>1. PICK f : f = FiledAt(l, part) OBVIOUS
  <2>2. \A i \in 1..n : f[i] \in Int BY <1>1, <2>1, FiledAre
  <2> DEFINE c == [k \in 0..n |-> chain[k].lanes[l][part]]
  <2>3. c[0] = 0
    <3>1. NoUsage.lanes[l][part] = 0 BY BucketsAre DEF NoUsage
    <3> QED BY <1>1, <1>14, <3>1
  <2>4. \A k \in 0..(n - 1) : c[k + 1] = c[k] + f[k + 1]
    <3> SUFFICES ASSUME NEW k \in 0..(n - 1) PROVE c[k + 1] = c[k] + f[k + 1] OBVIOUS
    <3>1. PICK v \in Report : v = chain[k] BY <1>15
    <3>2. PICK row \in SessionRow : row = sessions[k + 1] BY <1>1, <1>15
    <3>3. f[k + 1] = IF IsUsage(row, MonthStart(date), date) /\ row.lane = l THEN Worth(row, part) ELSE 0
      BY <1>1, <1>15, <2>1, <3>2 DEF FiledAt
    <3>4. Filed(v, row).lanes[l][part] =
            v.lanes[l][part] + (IF IsUsage(row, MonthStart(date), date) /\ row.lane = l THEN Worth(row, part) ELSE 0)
      BY FiledAddsUp
    <3>5. k \in 0..n /\ k + 1 \in 0..n /\ chain[k + 1] = Filed(v, row) BY <1>1, <1>15, <3>1, <3>2
    <3> QED BY <3>1, <3>3, <3>4, <3>5
  <2>5. c[n] = chain[n].lanes[l][part] BY <1>17
  <2> HIDE DEF c
  <2>6. Running(c, f, n) BY <2>3, <2>4 DEF Running
  <2>7. c[n] = SumFunctionOnSet(f, 1..n)
    <3>1. \A k \in 0..n : c[k] = SumFunctionOnSet(f, 1..k) BY <1>1, <2>2, <2>6, SumRuns
    <3> QED BY <1>17, <3>1
  <2> QED BY <2>1, <2>5, <2>7
<1> QED BY <1>1, <1>14, <1>16, <1>17, <1>18

\* What a lane has spent is in its bucket, but for what was attested without a price
\* and what is dated ahead.
UnpricedAt(lane) ==
  [i \in DOMAIN sessions |->
     IF DueFor(lane, sessions[i]) /\ sessions[i].sworn /\ sessions[i].cost = Unset THEN Num(sessions[i].claim) ELSE 0]

AheadAt(lane) ==
  [i \in DOMAIN sessions |->
     IF CountsFor(lane, sessions[i]) /\ sessions[i].day > date THEN Spending(sessions[i]) ELSE 0]

LEMMA SpentIsFiled ==
  ASSUME AgentInv, RowsAreTold, NEW lane, NEW i \in DOMAIN sessions
  PROVE  /\ SpentAt(lane)[i] = FiledAt(lane, "verified")[i] + FiledAt(lane, "unverified")[i]
                                 + UnpricedAt(lane)[i] + AheadAt(lane)[i]
         /\ UnpricedAt(lane)[i] \in Int /\ AheadAt(lane)[i] \in Int
<1>1. PICK row \in SessionRow : row = sessions[i] BY RowsAre
<1>2. IsTold(row) BY <1>1 DEF RowsAreTold
<1>3. /\ row.claim \in Amount /\ row.cost \in Amount
      /\ row.sworn \in BOOLEAN /\ row.open \in BOOLEAN
  BY DEF SessionRow
<1>4. PICK claim \in Int : claim = Num(row.claim) BY <1>3, NumsAre
<1>5. PICK cost \in Int : cost = Num(row.cost) BY <1>3, NumsAre
<1>6. (row.cost = Unset => cost = 0) /\ (row.claim = Unset => claim = 0) /\ (row.cost # Unset => cost = row.cost)
  BY <1>4, <1>5 DEF Num
<1>7. Spending(row) = IF row.cost # Unset THEN cost ELSE claim BY <1>4, <1>6 DEF Spending
<1>8. row.day \in Nat /\ MonthStart(date) \in Nat /\ date \in Nat BY <1>1, DatesAre
<1>9. PICK due \in BOOLEAN : due <=> DueFor(lane, row) OBVIOUS
<1>10. PICK ahead \in BOOLEAN : ahead <=> CountsFor(lane, row) /\ row.day > date OBVIOUS
<1>11. (CountsFor(lane, row) <=> due \/ ahead) /\ ~(due /\ ahead) BY <1>8, <1>9, <1>10 DEF DueFor
<1>12. SpentAt(lane)[i] = IF due \/ ahead THEN Spending(row) ELSE 0 BY <1>1, <1>11 DEF SpentAt
<1>13. UnpricedAt(lane)[i] = IF due /\ row.sworn /\ row.cost = Unset THEN claim ELSE 0
  BY <1>1, <1>4, <1>9 DEF UnpricedAt
<1>14. AheadAt(lane)[i] = IF ahead THEN Spending(row) ELSE 0 BY <1>1, <1>10 DEF AheadAt
<1>15. /\ Worth(row, "verified") = IF row.sworn THEN cost ELSE 0
       /\ Worth(row, "unverified") = IF row.sworn THEN 0 ELSE claim
  BY <1>4, <1>5 DEF Worth
<1>16. IsUsage(row, MonthStart(date), date) /\ row.lane = lane <=> due /\ ~row.open
  BY <1>8, <1>9 DEF IsUsage, DueFor, CountsFor
<1>17. /\ FiledAt(lane, "verified")[i] = IF due /\ ~row.open /\ row.sworn THEN cost ELSE 0
       /\ FiledAt(lane, "unverified")[i] = IF due /\ ~row.open /\ ~row.sworn THEN claim ELSE 0
  BY <1>1, <1>15, <1>16 DEF FiledAt
<1>18. (row.cost # Unset => row.sworn) /\ (row.open => row.claim = Unset /\ row.cost = Unset)
  BY <1>2 DEF IsTold, IsSworn, IsBlank
<1> QED BY <1>3, <1>6, <1>7, <1>11, <1>12, <1>13, <1>14, <1>17, <1>18

LEMMA ReportAgrees == AgentInv /\ RowsAreTold => DollarsAgree
<1> SUFFICES ASSUME AgentInv, RowsAreTold PROVE DollarsAgree OBVIOUS
<1>1. PICK sum : sum = FoldUsage(MonthStart(date), date) OBVIOUS
<1>2. sum \in Report /\ AddsUp(sum) BY <1>1, ReportIs
<1>3. DOMAIN EmptyBucket = Parts BY BucketsAre
<1>4. ASSUME NEW part \in Parts
      PROVE  /\ sum.totals[part] = SumFunctionOnSet([k \in Seats |-> sum.seats[k][part]], Seats)
             /\ sum.totals[part] = SumFunctionOnSet([k \in Places |-> sum.lanes[k][part]], Places)
  BY <1>2 DEF AddsUp, Together
<1>5. sum.totals.delta = sum.totals.verified - (sum.totals.reported - sum.totals.unverified) BY <1>2 DEF AddsUp
<1> DEFINE Unpriced(l) == {i \in SinceMonthBegan(l) : /\ sessions[i].day <= date
                                                      /\ sessions[i].sworn /\ sessions[i].cost = Unset}
           Ahead(l) == {i \in SinceMonthBegan(l) : sessions[i].day > date}
<1>6. ASSUME NEW l \in Places
      PROVE  MonthToDateSpend(l) =
               sum.lanes[l].verified + sum.lanes[l].unverified
                 + SumOver(LAMBDA row : Num(row.claim), Unpriced(l)) + SumOver(Spending, Ahead(l))
  <2> DEFINE S == Unpriced(l)
             T == Ahead(l)
             o == [i \in S |-> Num(sessions[i].claim)]
             q == [i \in T |-> Spending(sessions[i])]
  <2>1. PICK D : D = DOMAIN sessions OBVIOUS
  <2>2. PICK s : s = SpentAt(l) OBVIOUS
  <2>3. PICK v : v = FiledAt(l, "verified") OBVIOUS
  <2>4. PICK u : u = FiledAt(l, "unverified") OBVIOUS
  <2>5. PICK p : p = UnpricedAt(l) OBVIOUS
  <2>6. PICK a : a = AheadAt(l) OBVIOUS
  <2>7. {"verified", "unverified"} \subseteq Parts BY DEF Parts
  <2>8. v \in [D -> Int] /\ u \in [D -> Int] BY <2>1, <2>3, <2>4, <2>7, FiledAre
  <2>9. \A i \in D : s[i] = v[i] + u[i] + p[i] + a[i] /\ p[i] \in Int /\ a[i] \in Int
    BY <2>1, <2>2, <2>3, <2>4, <2>5, <2>6, SpentIsFiled
  <2>10. p \in [D -> Int] /\ a \in [D -> Int] BY <2>1, <2>5, <2>6, <2>9 DEF UnpricedAt, AheadAt
  <2>11. IsFiniteSet(D) BY <2>1, RowsAre
  <2> DEFINE b == [i \in D |-> v[i] + u[i]]
             c == [i \in D |-> p[i] + a[i]]
  <2>12. \A i \in D : v[i] \in Int /\ u[i] \in Int /\ b[i] = v[i] + u[i] BY <2>8
  <2>13. \A i \in D : p[i] \in Int /\ a[i] \in Int /\ c[i] = p[i] + a[i] BY <2>10
  <2>14. \A i \in D : b[i] \in Int /\ c[i] \in Int /\ s[i] = b[i] + c[i] BY <2>8, <2>9, <2>10
  <2> HIDE DEF b, c
  <2>15. SumFunctionOnSet(b, D) = SumFunctionOnSet(v, D) + SumFunctionOnSet(u, D) BY <2>11, <2>12, SumAdds
  <2>16. SumFunctionOnSet(c, D) = SumFunctionOnSet(p, D) + SumFunctionOnSet(a, D) BY <2>11, <2>13, SumAdds
  <2>17. SumFunctionOnSet(s, D) = SumFunctionOnSet(b, D) + SumFunctionOnSet(c, D) BY <2>11, <2>14, SumAdds
  <2>18. MonthToDateSpend(l) = SumFunctionOnSet(s, D) BY <2>1, <2>2, SpendIs
  <2>19. sum.lanes[l].verified = SumFunctionOnSet(v, D) /\ sum.lanes[l].unverified = SumFunctionOnSet(u, D)
    <3>1. \A part \in Parts : sum.lanes[l][part] = SumFunctionOnSet(FiledAt(l, part), D) BY <1>1, <2>1, ReportIs
    <3> QED BY <2>3, <2>4, <2>7, <3>1
  <2>20. S \in SUBSET D /\ T \in SUBSET D BY <2>1 DEF SinceMonthBegan
  <2>21. SumFunctionOnSet(o, S) = SumFunctionOnSet(p, D)
    <3>1. \A i \in D : i \in S <=> DueFor(l, sessions[i]) /\ sessions[i].sworn /\ sessions[i].cost = Unset
      BY <2>1 DEF SinceMonthBegan, CountsFor, DueFor
    <3>2. \A i \in S : o[i] = Num(sessions[i].claim) OBVIOUS
    <3> HIDE DEF S, o, Unpriced
    <3>3. \A i \in S : o[i] = p[i] BY <2>1, <2>5, <2>20, <3>1, <3>2 DEF UnpricedAt
    <3>4. \A i \in D \ S : p[i] = 0 BY <2>1, <2>5, <3>1 DEF UnpricedAt
    <3> QED BY <2>1, <2>10, <2>20, <3>3, <3>4, SumOverIs
  <2>22. SumFunctionOnSet(q, T) = SumFunctionOnSet(a, D)
    <3>1. \A i \in D : i \in T <=> CountsFor(l, sessions[i]) /\ sessions[i].day > date
      BY <2>1 DEF SinceMonthBegan, CountsFor
    <3>2. \A i \in T : q[i] = Spending(sessions[i]) OBVIOUS
    <3> HIDE DEF T, q, Ahead
    <3>3. \A i \in T : q[i] = a[i] BY <2>1, <2>6, <2>20, <3>1, <3>2 DEF AheadAt
    <3>4. \A i \in D \ T : a[i] = 0 BY <2>1, <2>6, <3>1 DEF AheadAt
    <3> QED BY <2>1, <2>10, <2>20, <3>3, <3>4, SumOverIs
  <2>23. SumOver(LAMBDA row : Num(row.claim), S) = SumFunctionOnSet(o, S) BY DEF SumOver
  <2>24. SumOver(Spending, T) = SumFunctionOnSet(q, T) BY DEF SumOver
  <2> HIDE DEF S, T, o, q
  <2>25. /\ SumFunctionOnSet(v, D) \in Int /\ SumFunctionOnSet(u, D) \in Int
         /\ SumFunctionOnSet(p, D) \in Int /\ SumFunctionOnSet(a, D) \in Int
    BY <2>8, <2>10, <2>11, SumTakes
  <2>26. MonthToDateSpend(l) =
           sum.lanes[l].verified + sum.lanes[l].unverified + SumFunctionOnSet(p, D) + SumFunctionOnSet(a, D)
    BY <2>15, <2>16, <2>17, <2>18, <2>19, <2>25
  <2>27. SumOver(LAMBDA row : Num(row.claim), S) = SumFunctionOnSet(p, D) BY <2>21, <2>23
  <2>28. SumOver(Spending, T) = SumFunctionOnSet(a, D) BY <2>22, <2>24
  <2> QED BY <2>26, <2>27, <2>28 DEF S, T
<1> QED BY <1>1, <1>3, <1>4, <1>5, <1>6 DEF DollarsAgree

\* The wall and the report speak of the same money, and the report adds up.
THEOREM DollarsStand == AgentSpec => []DollarsAgree
<1>1. WallInv => DollarsAgree BY ReportAgrees DEF WallInv
<1> QED BY <1>1, WallStarts, WallKeeps, PTL DEF AgentSpec
-----------------------------------------------------------------------------
\* The invoice as a document (server/invoices/issue.ts, keys.ts, verify.ts).

IsSequence(s) == \E S : s \in Seq(S)
IsSnapshot(n) ==
  n = [kind |-> n.kind, lines |-> n.lines, access |-> n.access, edits |-> n.edits, rate |-> n.rate, totals |-> n.totals]
IsPaper(p) ==
  p = [snapshot |-> p.snapshot, hash |-> p.hash, signature |-> p.signature, key |-> p.key, voided |-> p.voided]
KeyRequest(r) == r = [pc |-> r.pc, snapshot |-> r.snapshot, key |-> r.key]

DocumentTypes ==
  /\ \A r \in sheet : IsRow(r)
  /\ \A q, r \in sheet : q.id = r.id => q = r
  /\ IsSequence(papers) /\ IsSequence(signers) /\ desk = [s \in Desks |-> desk[s]]
  /\ \A a \in altered : a[1] \in DOMAIN papers
  /\ forged \subseteq DOMAIN papers

\* A row is what was sealed of it, or it was lengthened or lost its card since,
\* and then it never is again.
Descends(seal, row) ==
  /\ row.id = seal.id /\ seal.secs \in Int
  /\ EntrySha(row) = seal \/ seal.secs < row.secs \/ (row.task = Absent /\ seal.task # Absent)

\* Each line has its row, of a snapshot and of an invoice;
LinesApart(lines) == \A l, m \in lines : l.id = m.id => l = m
Drawn(n) ==
  /\ IsSnapshot(n) /\ n.edits = 0 /\ LinesApart(n.lines)
  /\ \A l \in n.lines : \E row \in sheet : row.id = l.id /\ Descends(l.seal, row)

LineStands(i, l) ==
  \E row \in sheet : row.id = l.id /\ Descends(l.seal, row) /\ (<<i, l.id>> \in altered <=> EntrySha(row) # l.seal)

\* an invoice is as it was signed until it is edited by hand, and then not.
PaperStands(i) ==
  LET p == papers[i] IN
  /\ IsPaper(p) /\ IsSnapshot(p.snapshot) /\ p.snapshot.edits \in Nat
  /\ i \in forged <=> p.snapshot.edits > 0
  /\ i \notin forged => p.hash = SignedPart(p.snapshot) /\ p.signature = <<p.hash, p.key>>
  /\ p.signature[1].edits = 0 /\ p.key \in DOMAIN signers
  /\ LinesApart(p.snapshot.lines) /\ \A l \in p.snapshot.lines : LineStands(i, l)

DeskKnows(r) ==
  /\ r.pc \in {"read", "found", "wait", "sign"} => Drawn(r.snapshot)
  /\ r.pc \in {"found", "wait", "sign"} => KeyRequest(r)
  /\ r.pc = "found" => r.key = Absent \/ r.key \in DOMAIN signers
  /\ r.pc = "sign" => r.key \in DOMAIN signers

DocumentInv ==
  /\ DocumentTypes
  /\ \A i \in DOMAIN papers : PaperStands(i)
  /\ \A s \in Desks : DeskKnows(desk[s])

LEMMA SequenceGrows ==
  ASSUME NEW s, IsSequence(s), NEW x
  PROVE  /\ IsSequence(Append(s, x)) /\ DOMAIN s = 1..Len(s) /\ Len(s) \in Nat
         /\ DOMAIN Append(s, x) = DOMAIN s \cup {Len(s) + 1} /\ Len(s) + 1 \notin DOMAIN s
         /\ \A i \in DOMAIN s : Append(s, x)[i] = s[i]
         /\ Append(s, x)[Len(s) + 1] = x
<1>1. PICK S : s \in Seq(S) BY DEF IsSequence
<1>2. s \in Seq(S \cup {x}) BY <1>1
<1>3. Append(s, x) \in Seq(S \cup {x}) BY <1>2
<1>4. IsSequence(Append(s, x)) BY <1>3 DEF IsSequence
<1> QED BY <1>2, <1>3, <1>4

LEMMA SequenceChanges ==
  ASSUME NEW s, IsSequence(s), NEW i \in DOMAIN s, NEW x
  PROVE  /\ IsSequence([s EXCEPT ![i] = x]) /\ DOMAIN [s EXCEPT ![i] = x] = DOMAIN s
         /\ \A j \in DOMAIN s : [s EXCEPT ![i] = x][j] = IF j = i THEN x ELSE s[j]
<1>1. PICK S : s \in Seq(S) BY DEF IsSequence
<1>2. s \in Seq(S \cup {x}) BY <1>1
<1>3. [s EXCEPT ![i] = x] \in Seq(S \cup {x}) BY <1>2
<1> QED BY <1>2, <1>3 DEF IsSequence

LEMMA DocumentStarts == DocumentInit => DocumentInv
<1> SUFFICES ASSUME DocumentInit PROVE DocumentInv OBVIOUS
<1>1. IsSequence(papers) /\ IsSequence(signers) BY DEF DocumentInit, IsSequence
<1>2. DocumentTypes BY <1>1, SheetsHoldRows DEF DocumentInit, DocumentTypes
<1>3. \A s \in Desks : DeskKnows(desk[s]) BY DEF DocumentInit, DeskKnows, Unoccupied
<1> QED BY <1>2, <1>3 DEF DocumentInit, DocumentInv

\* What is drawn of the sheet is sealed of its rows, one line for each.
LEMMA LineOfRow ==
  ASSUME NEW r, IsRow(r)
  PROVE  SnapshotLine(r).id = r.id /\ SnapshotLine(r).seal = EntrySha(r) /\ Descends(EntrySha(r), r)
BY DEF IsRow, SnapshotLine, EntrySha, Descends

LEMMA ContractorIsDrawn == ASSUME DocumentTypes, NEW only \in BOOLEAN PROVE Drawn(BuildContractor(sheet, only))
<1> DEFINE n == BuildContractor(sheet, only)
<1>1. n.lines = {SnapshotLine(r) : r \in Included(sheet, only)} BY DEF BuildContractor
<1>2. IsSnapshot(n) /\ n.edits = 0 BY DEF BuildContractor, IsSnapshot
<1> HIDE DEF n
<1>3. ASSUME NEW l \in n.lines PROVE \E r \in sheet : l.id = r.id /\ l = SnapshotLine(r) /\ Descends(l.seal, r)
  <2>1. PICK r \in Included(sheet, only) : l = SnapshotLine(r) BY <1>1
  <2>2. r \in sheet /\ IsRow(r) BY DEF Included, DocumentTypes
  <2> QED BY <2>1, <2>2, LineOfRow
<1>4. LinesApart(n.lines)
  <2>1. SUFFICES ASSUME NEW l \in n.lines, NEW m \in n.lines, l.id = m.id PROVE l = m BY DEF LinesApart
  <2>2. PICK q \in sheet : l.id = q.id /\ l = SnapshotLine(q) BY <1>3
  <2>3. PICK r \in sheet : m.id = r.id /\ m = SnapshotLine(r) BY <1>3
  <2>4. q = r BY <2>1, <2>2, <2>3 DEF DocumentTypes
  <2> QED BY <2>2, <2>3, <2>4
<1>5. \A l \in n.lines : \E row \in sheet : row.id = l.id /\ Descends(l.seal, row) BY <1>3
<1>6. Drawn(n) BY <1>2, <1>4, <1>5 DEF Drawn
<1> QED BY <1>6 DEF n

LEMMA CustomerIsDrawn == ASSUME DocumentTypes PROVE Drawn(BuildCustomer(sheet))
<1> DEFINE n == BuildCustomer(sheet)
           rate(r) == IF r.lane \in DOMAIN prices.lanes THEN prices.lanes[r.lane] ELSE prices.customer
<1>0. Priced(sheet) = {[r EXCEPT !.rate = rate(r)] : r \in sheet} BY DEF Priced
<1> HIDE DEF rate
<1>1. n.lines = {SnapshotLine(r) : r \in Priced(sheet)} BY DEF BuildCustomer
<1>2. IsSnapshot(n) /\ n.edits = 0 BY DEF BuildCustomer, IsSnapshot
<1> HIDE DEF n
<1>3. ASSUME NEW l \in n.lines
      PROVE  \E r \in sheet : l.id = r.id /\ l = SnapshotLine([r EXCEPT !.rate = rate(r)]) /\ Descends(l.seal, r)
  <2>1. PICK q \in Priced(sheet) : l = SnapshotLine(q) BY <1>1
  <2>2. PICK r \in sheet : q = [r EXCEPT !.rate = rate(r)] BY <1>0
  <2>3. IsRow(r) BY DEF DocumentTypes
  <2>4. IsRow(q) /\ q.id = r.id /\ EntrySha(q) = EntrySha(r) BY <2>2, <2>3 DEF IsRow, EntrySha
  <2>5. l.id = r.id /\ l.seal = EntrySha(r) BY <2>1, <2>4, LineOfRow
  <2>6. Descends(l.seal, r) BY <2>3, <2>5, LineOfRow
  <2> QED BY <2>1, <2>2, <2>5, <2>6
<1>4. LinesApart(n.lines)
  <2>1. SUFFICES ASSUME NEW l \in n.lines, NEW m \in n.lines, l.id = m.id PROVE l = m BY DEF LinesApart
  <2>2. PICK q \in sheet : l.id = q.id /\ l = SnapshotLine([q EXCEPT !.rate = rate(q)]) BY <1>3
  <2>3. PICK r \in sheet : m.id = r.id /\ m = SnapshotLine([r EXCEPT !.rate = rate(r)]) BY <1>3
  <2>4. q = r BY <2>1, <2>2, <2>3 DEF DocumentTypes
  <2> QED BY <2>2, <2>3, <2>4
<1>5. \A l \in n.lines : \E row \in sheet : row.id = l.id /\ Descends(l.seal, row) BY <1>3
<1>6. Drawn(n) BY <1>2, <1>4, <1>5 DEF Drawn
<1> QED BY <1>6 DEF n

\* A handler goes on.
LEMMA DeskMoves ==
  ASSUME DocumentInv, NEW s \in Desks, NEW r, desk' = [desk EXCEPT ![s] = r], DeskKnows(r),
         UNCHANGED <<sheet, papers, signers, altered, forged>>
  PROVE  DocumentInv'
<1>1. \A u \in Desks : desk'[u] = IF u = s THEN r ELSE desk[u] BY DEF DocumentInv, DocumentTypes
<1>2. desk' = [u \in Desks |-> desk'[u]] BY DEF DocumentInv, DocumentTypes
<1>3. DocumentTypes' BY <1>2 DEF DocumentInv, DocumentTypes
<1>4. \A i \in DOMAIN papers : PaperStands(i)' BY DEF DocumentInv, PaperStands, LineStands
<1>5. \A u \in Desks : DeskKnows(desk[u])' BY <1>1 DEF DocumentInv, DeskKnows, Drawn
<1> QED BY <1>3, <1>4, <1>5 DEF DocumentInv

LEMMA IssuingKeeps ==
  ASSUME DocumentInv, NEW s \in Desks,
         \/ \E only \in BOOLEAN : Draw(s, BuildContractor(sheet, only))
         \/ Draw(s, BuildCustomer(sheet)) \/ ReadActive(s) \/ UseSigner(s)
  PROVE  DocumentInv'
<1>0. DocumentTypes /\ DeskKnows(desk[s]) BY DEF DocumentInv
<1>1. UNCHANGED <<sheet, papers, signers, altered, forged>> BY DEF Draw, ReadActive, UseSigner
<1>2. ASSUME NEW n, Drawn(n), Draw(s, n) PROVE DocumentInv'
  <2> DEFINE r == [pc |-> "read", snapshot |-> n]
  <2>1. desk' = [desk EXCEPT ![s] = r] BY <1>2 DEF Draw, Sit
  <2>2. DeskKnows(r) BY <1>2 DEF DeskKnows
  <2> HIDE DEF r
  <2> QED BY <1>1, <2>1, <2>2, DeskMoves
<1>3. CASE ReadActive(s)
  <2> DEFINE S == {k \in DOMAIN signers : ~signers[k]}
             r == [pc |-> "found", snapshot |-> desk[s].snapshot, key |-> ActiveSigner]
  <2>1. desk' = [desk EXCEPT ![s] = r] /\ desk[s].pc = "read" BY <1>3 DEF ReadActive, Sit
  <2>2. Len(signers) \in Nat /\ S \in SUBSET (1..Len(signers)) BY <1>0, SequenceGrows DEF DocumentTypes
  <2>3. ActiveSigner = Absent \/ (S # {} /\ ActiveSigner = Max(S)) BY DEF ActiveSigner
  <2> HIDE DEF S
  <2>4. S # {} => Max(S) \in S BY <2>2, GreatestIs
  <2>5. ActiveSigner = Absent \/ ActiveSigner \in DOMAIN signers BY <2>3, <2>4 DEF S
  <2>6. Drawn(desk[s].snapshot) BY <1>0, <2>1 DEF DeskKnows
  <2>7. r.pc = "found" /\ r.snapshot = desk[s].snapshot /\ r.key = ActiveSigner /\ KeyRequest(r) BY DEF KeyRequest
  <2> HIDE DEF r
  <2>8. DeskKnows(r) BY <2>5, <2>6, <2>7 DEF DeskKnows
  <2> QED BY <1>1, <2>1, <2>8, DeskMoves
<1>4. CASE UseSigner(s)
  <2>1. PICK pc \in {"sign", "wait"} :
          desk[s].pc = "found" /\ desk' = [desk EXCEPT ![s] = [desk[s] EXCEPT !.pc = pc]] /\ (pc = "sign" => desk[s].key # Absent)
    BY <1>4 DEF UseSigner, Sit
  <2> DEFINE r == [desk[s] EXCEPT !.pc = pc]
  <2>2. r.pc = pc /\ r.snapshot = desk[s].snapshot /\ r.key = desk[s].key /\ KeyRequest(r)
    BY <1>0, <2>1 DEF DeskKnows, KeyRequest
  <2>3. desk' = [desk EXCEPT ![s] = r] BY <2>1
  <2> HIDE DEF r
  <2>4. DeskKnows(r) BY <1>0, <2>1, <2>2 DEF DeskKnows
  <2> QED BY <1>1, <2>3, <2>4, DeskMoves
<1> QED BY <1>0, <1>2, <1>3, <1>4, ContractorIsDrawn, CustomerIsDrawn

\* A record with a field replaced.
LEMMA PaperReplaced ==
  ASSUME NEW p, IsPaper(p), NEW x
  PROVE  /\ [p EXCEPT !.voided = x] = [snapshot |-> p.snapshot, hash |-> p.hash, signature |-> p.signature,
                                      key |-> p.key, voided |-> x]
         /\ [p EXCEPT !.snapshot = x] = [snapshot |-> x, hash |-> p.hash, signature |-> p.signature,
                                        key |-> p.key, voided |-> p.voided]
         /\ [p EXCEPT !.hash = x] = [snapshot |-> p.snapshot, hash |-> x, signature |-> p.signature,
                                    key |-> p.key, voided |-> p.voided]
BY DEF IsPaper

LEMMA SnapshotReplaced ==
  ASSUME NEW n, IsSnapshot(n), NEW x
  PROVE  /\ [n EXCEPT !.access = x] = [kind |-> n.kind, lines |-> n.lines, access |-> x, edits |-> n.edits,
                                      rate |-> n.rate, totals |-> n.totals]
         /\ [n EXCEPT !.edits = x] = [kind |-> n.kind, lines |-> n.lines, access |-> n.access, edits |-> x,
                                     rate |-> n.rate, totals |-> n.totals]
BY DEF IsSnapshot

LEMMA RequestReplaced ==
  ASSUME NEW r, KeyRequest(r), NEW x
  PROVE  /\ [r EXCEPT !.pc = x] = [pc |-> x, snapshot |-> r.snapshot, key |-> r.key]
         /\ [r EXCEPT !.key = x] = [pc |-> r.pc, snapshot |-> r.snapshot, key |-> x]
BY DEF KeyRequest

\* A new key serves the requests that waited for it.
LEMMA CreateSignerKeeps == DocumentInv /\ CreateSigner => DocumentInv'
<1> SUFFICES ASSUME DocumentInv, CreateSigner PROVE DocumentInv' OBVIOUS
<1> DEFINE new == Len(signers) + 1
<1>1. signers' = Append(signers, FALSE) BY DEF CreateSigner
<1>2. UNCHANGED <<sheet, papers, altered, forged>> BY DEF CreateSigner
<1>3. IsSequence(signers') /\ DOMAIN signers' = DOMAIN signers \cup {new} BY <1>1, SequenceGrows DEF DocumentInv, DocumentTypes
<1> HIDE DEF new
<1>4. desk' = [s \in Desks |-> IF desk[s].pc = "wait" THEN [desk[s] EXCEPT !.pc = "sign", !.key = new] ELSE desk[s]]
  BY DEF CreateSigner, new
<1>5. ASSUME NEW s \in Desks PROVE DeskKnows(desk[s])'
  <2>1. DeskKnows(desk[s]) BY DEF DocumentInv
  <2>2. CASE desk[s].pc # "wait"
    <3>1. desk'[s] = desk[s] BY <1>4, <2>2
    <3> QED BY <1>2, <1>3, <2>1, <3>1 DEF DeskKnows, Drawn
  <2>3. CASE desk[s].pc = "wait"
    <3>0. PICK r : r = [desk[s] EXCEPT !.pc = "sign", !.key = new] OBVIOUS
    <3>1. desk'[s] = r BY <1>4, <2>3, <3>0
    <3>2. r.pc = "sign" /\ r.snapshot = desk[s].snapshot /\ r.key = new /\ KeyRequest(r)
      <4>1. KeyRequest(desk[s]) BY <2>1, <2>3 DEF DeskKnows
      <4>2. PICK q : q = [desk[s] EXCEPT !.pc = "sign"] OBVIOUS
      <4>3. q = [pc |-> "sign", snapshot |-> desk[s].snapshot, key |-> desk[s].key] BY <4>1, <4>2, RequestReplaced
      <4>4. KeyRequest(q) BY <4>3 DEF KeyRequest
      <4>5. r = [q EXCEPT !.key = new] BY <3>0, <4>2
      <4>6. r = [pc |-> "sign", snapshot |-> desk[s].snapshot, key |-> new] BY <4>3, <4>4, <4>5, RequestReplaced
      <4> QED BY <4>6 DEF KeyRequest
    <3>3. Drawn(r.snapshot) BY <2>1, <2>3, <3>2 DEF DeskKnows
    <3>4. DeskKnows(r)'
      <4>1. Drawn(r.snapshot)' BY <1>2, <3>3 DEF Drawn
      <4>2. r.key \in DOMAIN signers' BY <1>3, <3>2
      <4> QED BY <3>2, <4>1, <4>2 DEF DeskKnows
    <3> QED BY <3>1, <3>4
  <2> QED BY <2>2, <2>3
<1>6. desk' = [s \in Desks |-> desk'[s]] BY <1>4
<1>7. DocumentTypes' BY <1>2, <1>3, <1>6 DEF DocumentInv, DocumentTypes
<1>8. \A i \in DOMAIN papers : PaperStands(i)' BY <1>2, <1>3 DEF DocumentInv, PaperStands, LineStands
<1> QED BY <1>2, <1>5, <1>7, <1>8 DEF DocumentInv

\* Keys are retired, rates change and handlers go, and no invoice minds.
LEMMA OthersKeep ==
  ASSUME DocumentInv, StopIssuing \/ Reprice \/ (\E k \in DOMAIN signers : RetireSigner(k)) \/ UNCHANGED documentVars
  PROVE  DocumentInv'
<1>1. UNCHANGED <<sheet, papers, altered, forged>>
  BY DEF StopIssuing, Reprice, RetireSigner, documentVars
<1>2. IsSequence(signers') /\ DOMAIN signers' = DOMAIN signers
  <2>1. IsSequence(signers) BY DEF DocumentInv, DocumentTypes
  <2>2. ASSUME NEW k \in DOMAIN signers, RetireSigner(k) PROVE IsSequence(signers') /\ DOMAIN signers' = DOMAIN signers
    BY <2>1, <2>2, SequenceChanges DEF RetireSigner
  <2> QED BY <2>1, <2>2 DEF StopIssuing, Reprice, documentVars
<1>3. desk' = desk \/ desk' = [s \in Desks |-> Unoccupied]
  BY DEF StopIssuing, Reprice, RetireSigner, documentVars
<1>4. desk' = [s \in Desks |-> desk'[s]] BY <1>3 DEF DocumentInv, DocumentTypes
<1>5. DocumentTypes' BY <1>1, <1>2, <1>4 DEF DocumentInv, DocumentTypes
<1>6. \A i \in DOMAIN papers : PaperStands(i)' BY <1>1, <1>2 DEF DocumentInv, PaperStands, LineStands
<1>7. ASSUME NEW s \in Desks PROVE DeskKnows(desk[s])'
  <2>1. DeskKnows(desk[s]) BY DEF DocumentInv
  <2>2. desk'[s] = desk[s] \/ desk'[s] = Unoccupied BY <1>3
  <2>3. DeskKnows(Unoccupied)' BY DEF DeskKnows, Unoccupied
  <2> QED BY <1>1, <1>2, <2>1, <2>2, <2>3 DEF DeskKnows, Drawn
<1> QED BY <1>1, <1>5, <1>6, <1>7 DEF DocumentInv

\* The record of one invoice is written.
LEMMA PaperWritten ==
  ASSUME DocumentInv, NEW i \in DOMAIN papers, NEW p, papers' = [papers EXCEPT ![i] = p],
         UNCHANGED <<sheet, signers, desk, altered>>, forged' = forged \/ forged' = forged \cup {i},
         IsPaper(p), IsSnapshot(p.snapshot), p.snapshot.edits \in Nat, p.snapshot.lines = papers[i].snapshot.lines,
         i \in forged' <=> p.snapshot.edits > 0,
         i \notin forged' => p.hash = SignedPart(p.snapshot) /\ p.signature = <<p.hash, p.key>>,
         p.signature = papers[i].signature, p.key = papers[i].key
  PROVE  DocumentInv'
<1>1. IsSequence(papers') /\ DOMAIN papers' = DOMAIN papers /\ papers'[i] = p /\ \A j \in DOMAIN papers \ {i} : papers'[j] = papers[j]
  BY SequenceChanges DEF DocumentInv, DocumentTypes
<1>2. DocumentTypes' BY <1>1 DEF DocumentInv, DocumentTypes
<1>3. ASSUME NEW j \in DOMAIN papers, j # i PROVE PaperStands(j)'
  <2>1. PaperStands(j) /\ papers'[j] = papers[j] /\ (j \in forged' <=> j \in forged) BY <1>1, <1>3 DEF DocumentInv
  <2> QED BY <2>1 DEF PaperStands, LineStands
<1>4. PaperStands(i)'
  <2>1. PaperStands(i) /\ papers'[i] = p BY <1>1 DEF DocumentInv
  <2>2. \A l \in p.snapshot.lines : LineStands(i, l)' BY <2>1 DEF PaperStands, LineStands
  <2> QED BY <2>1, <2>2 DEF PaperStands
<1>5. \A s \in Desks : DeskKnows(desk[s])' BY DEF DocumentInv, DeskKnows, Drawn
<1> QED BY <1>1, <1>2, <1>3, <1>4, <1>5 DEF DocumentInv

LEMMA PaperKeeps ==
  ASSUME DocumentInv, NEW i \in DOMAIN papers, ShareDetails(i) \/ VoidPaper(i) \/ EditRecord(i)
  PROVE  DocumentInv'
<1>1. PaperStands(i) BY DEF DocumentInv
<1> DEFINE n == papers[i].snapshot
<1>0. IsPaper(papers[i]) /\ IsSnapshot(n) /\ n.edits \in Nat BY <1>1 DEF PaperStands
<1>2. CASE ShareDetails(i)
  <2> DEFINE m == [n EXCEPT !.access = @ + 1]
             p == [papers[i] EXCEPT !.snapshot = m]
  <2>1. papers' = [papers EXCEPT ![i] = p] /\ UNCHANGED <<sheet, signers, desk, altered, forged>> BY <1>2 DEF ShareDetails
  <2>2. IsSnapshot(m) /\ m.edits = n.edits /\ m.lines = n.lines /\ SignedPart(m) = SignedPart(n)
    <3>1. m = [kind |-> n.kind, lines |-> n.lines, access |-> n.access + 1, edits |-> n.edits, rate |-> n.rate, totals |-> n.totals]
      BY <1>0, SnapshotReplaced
    <3> HIDE DEF m, n
    <3>2. IsSnapshot(m) /\ m.edits = n.edits /\ m.lines = n.lines BY <3>1 DEF IsSnapshot
    <3>3. [m EXCEPT !.access = 0] = [kind |-> m.kind, lines |-> m.lines, access |-> 0, edits |-> m.edits,
                                     rate |-> m.rate, totals |-> m.totals] BY <3>2, SnapshotReplaced
    <3>4. [n EXCEPT !.access = 0] = [kind |-> n.kind, lines |-> n.lines, access |-> 0, edits |-> n.edits,
                                     rate |-> n.rate, totals |-> n.totals] BY <1>0, SnapshotReplaced
    <3>5. SignedPart(m) = SignedPart(n) BY <3>1, <3>3, <3>4 DEF SignedPart
    <3> QED BY <3>2, <3>5
  <2>3. IsPaper(p) /\ p.snapshot = m /\ p.hash = papers[i].hash /\ p.signature = papers[i].signature /\ p.key = papers[i].key
    <3> HIDE DEF m
    <3> QED BY <1>0, PaperReplaced DEF IsPaper
  <2> HIDE DEF m, p
  <2> QED BY <1>1, <2>1, <2>2, <2>3, PaperWritten DEF PaperStands
<1>3. CASE VoidPaper(i)
  <2> DEFINE p == [papers[i] EXCEPT !.voided = TRUE]
  <2>1. papers' = [papers EXCEPT ![i] = p] /\ UNCHANGED <<sheet, signers, desk, altered, forged>> BY <1>3 DEF VoidPaper
  <2>2. IsPaper(p) /\ p.snapshot = n /\ p.hash = papers[i].hash /\ p.signature = papers[i].signature /\ p.key = papers[i].key
    BY <1>0, PaperReplaced DEF IsPaper
  <2> HIDE DEF p
  <2> QED BY <1>1, <2>1, <2>2, PaperWritten DEF PaperStands
<1>4. CASE EditRecord(i)
  <2> DEFINE m == [n EXCEPT !.edits = @ + 1]
  <2>1. PICK hash \in {papers[i].hash, SignedPart(m)} : papers' = [papers EXCEPT ![i].snapshot = m, ![i].hash = hash]
    BY <1>4 DEF EditRecord
  <2> DEFINE p == [[papers[i] EXCEPT !.snapshot = m] EXCEPT !.hash = hash]
  <2>2. papers' = [papers EXCEPT ![i] = p]
    <3>1. papers' = [[papers EXCEPT ![i].snapshot = m] EXCEPT ![i].hash = hash] BY <2>1
    <3>2. papers' = [papers EXCEPT ![i] = [[papers[i] EXCEPT !.snapshot = m] EXCEPT !.hash = hash]] BY <3>1
    <3> QED BY <3>2
  <2>3. UNCHANGED <<sheet, signers, desk, altered>> /\ forged' = forged \cup {i} BY <1>4 DEF EditRecord
  <2>4. IsSnapshot(m) /\ m.edits \in Nat /\ m.edits > 0 /\ m.lines = n.lines BY <1>0, SnapshotReplaced DEF IsSnapshot
  <2>5. IsPaper(p) /\ p.snapshot = m /\ p.signature = papers[i].signature /\ p.key = papers[i].key
    <3> HIDE DEF m
    <3>1. PICK q : q = [papers[i] EXCEPT !.snapshot = m] OBVIOUS
    <3>2. q = [snapshot |-> m, hash |-> papers[i].hash, signature |-> papers[i].signature,
               key |-> papers[i].key, voided |-> papers[i].voided] BY <1>0, <3>1, PaperReplaced
    <3>3. IsPaper(q) BY <3>2 DEF IsPaper
    <3>4. p = [q EXCEPT !.hash = hash] BY <3>1
    <3> HIDE DEF p
    <3>5. p = [snapshot |-> q.snapshot, hash |-> hash, signature |-> q.signature, key |-> q.key, voided |-> q.voided]
      BY <3>3, <3>4, PaperReplaced
    <3>6. q.snapshot = m /\ q.signature = papers[i].signature /\ q.key = papers[i].key BY <3>2
    <3> QED BY <3>5, <3>6 DEF IsPaper
  <2> HIDE DEF m, p
  <2>6. i \in forged' BY <2>3
  <2> QED BY <2>2, <2>3, <2>4, <2>5, <2>6, PaperWritten
<1> QED BY <1>2, <1>3, <1>4

\* An invoice is signed: of its lines those are counted as changed whose row is
\* no longer what was read.
LEMMA CertifyKeeps == ASSUME DocumentInv, NEW s \in Desks, Certify(s) PROVE DocumentInv'
<1>1. PICK r, n, i, hash : r = desk[s] /\ n = r.snapshot /\ i = Len(papers) + 1 /\ hash = SignedPart(n) OBVIOUS
<1>2. /\ r.pc = "sign" /\ desk' = [desk EXCEPT ![s] = Unoccupied] /\ UNCHANGED <<sheet, signers, forged>>
      /\ papers' = Append(papers, [snapshot |-> [n EXCEPT !.access = 1], hash |-> hash, signature |-> <<hash, r.key>>,
                                   key |-> r.key, voided |-> FALSE])
      /\ altered' = altered \cup {<<i, l.id>> : l \in {l \in n.lines : \A row \in sheet : EntrySha(row) # l.seal}}
  BY <1>1 DEF Certify, Sit
<1>3. Drawn(n) /\ r.key \in DOMAIN signers BY <1>1, <1>2 DEF DocumentInv, DeskKnows
<1>4. PICK m : m = [n EXCEPT !.access = 1] OBVIOUS
<1>5. /\ IsSnapshot(n) /\ IsSnapshot(m) /\ m.lines = n.lines /\ m.edits = 0 /\ hash = SignedPart(m) /\ hash.edits = 0
  <2>1. IsSnapshot(n) /\ n.edits = 0 BY <1>3 DEF Drawn
  <2>2. m = [kind |-> n.kind, lines |-> n.lines, access |-> 1, edits |-> n.edits, rate |-> n.rate, totals |-> n.totals]
    BY <1>4, <2>1, SnapshotReplaced
  <2>3. IsSnapshot(m) /\ m.lines = n.lines /\ m.edits = 0 BY <2>1, <2>2 DEF IsSnapshot
  <2>4. [m EXCEPT !.access = 0] = [kind |-> m.kind, lines |-> m.lines, access |-> 0, edits |-> m.edits,
                                   rate |-> m.rate, totals |-> m.totals] BY <2>3, SnapshotReplaced
  <2>5. [n EXCEPT !.access = 0] = [kind |-> n.kind, lines |-> n.lines, access |-> 0, edits |-> n.edits,
                                   rate |-> n.rate, totals |-> n.totals] BY <2>1, SnapshotReplaced
  <2>6. hash = SignedPart(m) /\ hash.edits = 0 BY <1>1, <2>1, <2>2, <2>4, <2>5 DEF SignedPart
  <2> QED BY <2>1, <2>3, <2>6
<1>6. PICK p : p = [snapshot |-> m, hash |-> hash, signature |-> <<hash, r.key>>, key |-> r.key, voided |-> FALSE] OBVIOUS
<1>7. /\ IsPaper(p) /\ p.snapshot = m /\ p.hash = hash /\ p.signature = <<p.hash, p.key>> /\ p.signature[1] = hash
      /\ p.key = r.key BY <1>6 DEF IsPaper
<1>8. papers' = Append(papers, p) BY <1>2, <1>4, <1>6
<1>9. /\ IsSequence(papers') /\ DOMAIN papers' = DOMAIN papers \cup {i} /\ i \notin DOMAIN papers
      /\ papers'[i] = p /\ \A j \in DOMAIN papers : papers'[j] = papers[j]
  BY <1>1, <1>8, SequenceGrows DEF DocumentInv, DocumentTypes
<1>10. DocumentTypes'
  <2>1. desk' = [u \in Desks |-> desk'[u]] BY <1>2 DEF DocumentInv, DocumentTypes
  <2>2. \A a \in altered' : a[1] \in DOMAIN papers' BY <1>2, <1>9 DEF DocumentInv, DocumentTypes
  <2>3. DocumentTypes BY DEF DocumentInv
  <2> QED BY <1>2, <1>9, <2>1, <2>2, <2>3 DEF DocumentTypes
<1>11. ASSUME NEW j \in DOMAIN papers PROVE PaperStands(j)'
  <2>1. PaperStands(j) /\ papers'[j] = papers[j] /\ j # i BY <1>9 DEF DocumentInv
  <2>2. \A id : <<j, id>> \in altered' <=> <<j, id>> \in altered BY <1>2, <2>1
  <2>3. \A l \in papers[j].snapshot.lines : LineStands(j, l)' BY <1>2, <2>1, <2>2 DEF PaperStands, LineStands
  <2> QED BY <1>2, <2>1, <2>3 DEF PaperStands
<1>12. PaperStands(i)'
  <2>1. i \notin forged' BY <1>2, <1>9 DEF DocumentInv, DocumentTypes
  <2>2. LinesApart(m.lines) BY <1>3, <1>5 DEF Drawn
  <2>3. ASSUME NEW l \in m.lines PROVE LineStands(i, l)'
    <3>1. PICK row \in sheet : row.id = l.id /\ Descends(l.seal, row) BY <1>3, <1>5 DEF Drawn
    <3>2. <<i, l.id>> \notin altered BY <1>9 DEF DocumentInv, DocumentTypes
    <3>3. <<i, l.id>> \in altered' <=> \A q \in sheet : EntrySha(q) # l.seal
      BY <1>2, <1>5, <2>2, <3>2 DEF LinesApart
    <3>4. ASSUME NEW q \in sheet, EntrySha(q) = l.seal PROVE q = row
      <4>1. q.id = l.seal.id BY <3>4 DEF EntrySha
      <4>2. row.id = l.seal.id BY <3>1 DEF Descends
      <4> QED BY <4>1, <4>2 DEF DocumentInv, DocumentTypes
    <3>5. <<i, l.id>> \in altered' <=> EntrySha(row) # l.seal BY <3>3, <3>4
    <3> QED BY <1>2, <3>1, <3>5 DEF LineStands
  <2>4. papers'[i] = p /\ IsPaper(p) /\ IsSnapshot(p.snapshot) /\ p.snapshot.edits = 0 /\ p.snapshot.lines = m.lines
    BY <1>5, <1>7, <1>9
  <2>5. p.hash = SignedPart(p.snapshot) /\ p.signature = <<p.hash, p.key>> /\ p.signature[1].edits = 0
    BY <1>5, <1>7
  <2>6. p.key \in DOMAIN signers' BY <1>2, <1>3, <1>7
  <2>7. LinesApart(p.snapshot.lines) /\ \A l \in p.snapshot.lines : LineStands(i, l)' BY <2>2, <2>3, <2>4
  <2>8. ~(0 > 0) /\ 0 \in Nat OBVIOUS
  <2> QED BY <2>1, <2>4, <2>5, <2>6, <2>7, <2>8 DEF PaperStands
<1>13. ASSUME NEW u \in Desks PROVE DeskKnows(desk[u])'
  <2>1. DeskKnows(desk[u]) /\ (desk'[u] = desk[u] \/ desk'[u] = Unoccupied) BY <1>2 DEF DocumentInv, DocumentTypes
  <2>2. DeskKnows(Unoccupied)' BY DEF DeskKnows, Unoccupied
  <2> QED BY <1>2, <2>1, <2>2 DEF DeskKnows, Drawn
<1> QED BY <1>9, <1>10, <1>11, <1>12, <1>13 DEF DocumentInv

\* The rows change, each in its place.
Grown(r, q) ==
  /\ IsRow(q) /\ q.id = r.id /\ q.secs >= r.secs /\ (r.task = Absent => q.task = Absent)
  /\ q = r \/ q.secs > r.secs \/ (q.task = Absent /\ r.task # Absent)

LEMMA DescendantsDescend ==
  ASSUME NEW seal, NEW r, NEW q, IsRow(r), Descends(seal, r), Grown(r, q)
  PROVE  Descends(seal, q) /\ (EntrySha(q) # seal <=> q # r \/ EntrySha(r) # seal)
<1>1. r.secs \in Int /\ q.secs \in Int /\ seal.secs \in Int BY DEF IsRow, Grown, Descends
<1>2. /\ EntrySha(r).secs = r.secs /\ EntrySha(r).task = r.task /\ EntrySha(q).secs = q.secs /\ EntrySha(q).task = q.task
  BY DEF EntrySha
<1>3. CASE EntrySha(r) = seal BY <1>1, <1>2, <1>3 DEF Descends, Grown
<1>4. CASE seal.secs < r.secs BY <1>1, <1>2, <1>4 DEF Descends, Grown
<1>5. CASE r.task = Absent /\ seal.task # Absent BY <1>1, <1>2, <1>5 DEF Descends, Grown
<1> QED BY <1>3, <1>4, <1>5 DEF Descends

LEMMA RowsMove ==
  ASSUME DocumentInv, NEW worked, Becomes(worked), UNCHANGED <<papers, signers, desk, forged>>,
         \A r \in sheet : \E q \in worked : Grown(r, q),
         \A q \in worked : \E r \in sheet : Grown(r, q),
         \A p, q \in worked : p.id = q.id => p = q
  PROVE  DocumentInv'
<1>1. sheet' = worked /\ altered' = altered \cup ((DOMAIN papers) \X {r.id : r \in sheet \ worked}) BY DEF Becomes
<1>2. DocumentTypes' BY <1>1 DEF DocumentInv, DocumentTypes, Grown
<1>3. ASSUME NEW r \in sheet PROVE \E q \in worked : Grown(r, q) /\ (q # r <=> r.id \in {w.id : w \in sheet \ worked})
  <2>1. PICK q \in worked : Grown(r, q) OBVIOUS
  <2>2. q # r <=> r \notin worked BY <2>1 DEF Grown
  <2>3. r \notin worked <=> r.id \in {w.id : w \in sheet \ worked} BY DEF DocumentInv, DocumentTypes
  <2> QED BY <2>1, <2>2, <2>3
<1>4. ASSUME NEW seal, NEW id, \E row \in sheet : row.id = id /\ Descends(seal, row)
      PROVE  \E row \in worked : row.id = id /\ Descends(seal, row)
  <2>1. PICK r \in sheet : r.id = id /\ Descends(seal, r) BY <1>4
  <2>2. PICK q \in worked : Grown(r, q) OBVIOUS
  <2>3. IsRow(r) BY DEF DocumentInv, DocumentTypes
  <2> QED BY <2>1, <2>2, <2>3, DescendantsDescend DEF Grown
<1>5. ASSUME NEW i \in DOMAIN papers PROVE PaperStands(i)'
  <2>1. PaperStands(i) BY DEF DocumentInv
  <2>2. ASSUME NEW l \in papers[i].snapshot.lines PROVE LineStands(i, l)'
    <3>1. PICK r \in sheet : r.id = l.id /\ Descends(l.seal, r) /\ (<<i, l.id>> \in altered <=> EntrySha(r) # l.seal)
      BY <2>1 DEF PaperStands, LineStands
    <3>2. PICK q \in worked : Grown(r, q) /\ (q # r <=> r.id \in {w.id : w \in sheet \ worked}) BY <1>3
    <3>3. IsRow(r) BY DEF DocumentInv, DocumentTypes
    <3>4. Descends(l.seal, q) /\ (EntrySha(q) # l.seal <=> q # r \/ EntrySha(r) # l.seal)
      BY <3>1, <3>2, <3>3, DescendantsDescend
    <3>5. <<i, l.id>> \in altered' <=> <<i, l.id>> \in altered \/ l.id \in {w.id : w \in sheet \ worked} BY <1>1
    <3>6. q.id = l.id BY <3>1, <3>2 DEF Grown
    <3>7. <<i, l.id>> \in altered' <=> EntrySha(q) # l.seal BY <3>1, <3>2, <3>4, <3>5
    <3> QED BY <1>1, <3>4, <3>6, <3>7 DEF LineStands
  <2> QED BY <2>1, <2>2 DEF PaperStands
<1>6. ASSUME NEW n, Drawn(n) PROVE Drawn(n)' BY <1>1, <1>4, <1>6 DEF Drawn
<1>7. \A s \in Desks : DeskKnows(desk[s])'
  <2>1. TAKE s \in Desks
  <2>2. PICK r : r = desk[s] OBVIOUS
  <2>3. DeskKnows(r) BY <2>2 DEF DocumentInv
  <2>4. r.pc \in {"read", "found", "wait", "sign"} => Drawn(r.snapshot)' BY <1>6, <2>3 DEF DeskKnows
  <2>5. DeskKnows(r)' BY <2>3, <2>4 DEF DeskKnows
  <2> QED BY <2>2, <2>5
<1> QED BY <1>2, <1>5, <1>7 DEF DocumentInv

LEMMA WorkKeeps ==
  ASSUME DocumentInv, \/ \E row \in sheet : CorrectWork(row)
                      \/ \E task \in {r.task : r \in sheet} : DeleteTask(task)
  PROVE  DocumentInv'
<1>1. ASSUME NEW row \in sheet, CorrectWork(row) PROVE DocumentInv'
  <2>1. IsRow(row) /\ \A r \in sheet : IsRow(r) BY DEF DocumentInv, DocumentTypes
  <2>2. PICK q : q = [row EXCEPT !.secs = @ + 60] OBVIOUS
  <2>3. IsRow(q) /\ q.id = row.id /\ q.secs = row.secs + 60 /\ q.task = row.task BY <2>1, <2>2 DEF IsRow
  <2>4. Grown(row, q) BY <2>1, <2>3 DEF Grown, IsRow
  <2>5. \A r \in sheet : Grown(r, r) BY <2>1 DEF Grown, IsRow
  <2>6. PICK worked : worked = (sheet \ {row}) \cup {q} OBVIOUS
  <2>7. Becomes(worked) /\ UNCHANGED <<papers, signers, desk, forged>> BY <1>1, <2>2, <2>6 DEF CorrectWork
  <2>8. \A p, w \in worked : p.id = w.id => p = w BY <2>3, <2>6 DEF DocumentInv, DocumentTypes
  <2>9. (\A r \in sheet : \E w \in worked : Grown(r, w)) /\ \A w \in worked : \E r \in sheet : Grown(r, w)
    BY <2>4, <2>5, <2>6
  <2> QED BY <2>7, <2>8, <2>9, RowsMove
<1>2. ASSUME NEW task, DeleteTask(task) PROVE DocumentInv'
  <2> DEFINE less(r) == [r EXCEPT !.task = IF @ = task THEN Absent ELSE @]
  <2>1. \A r \in sheet : IsRow(r) BY DEF DocumentInv, DocumentTypes
  <2>2. task # Absent BY <1>2 DEF DeleteTask
  <2>3. ASSUME NEW r \in sheet PROVE Grown(r, less(r))
    <3>1. IsRow(less(r)) /\ less(r).id = r.id /\ less(r).secs = r.secs /\ less(r).task = (IF r.task = task THEN Absent ELSE r.task)
      BY <2>1 DEF IsRow
    <3>2. r.task # task => less(r) = r BY <2>1 DEF IsRow
    <3> HIDE DEF less
    <3> QED BY <2>1, <2>2, <3>1, <3>2 DEF Grown, IsRow
  <2>4. PICK worked : worked = {less(r) : r \in sheet} OBVIOUS
  <2>5. Becomes(worked) /\ UNCHANGED <<papers, signers, desk, forged>> BY <1>2, <2>4 DEF DeleteTask
  <2> HIDE DEF less
  <2>6. \A p, w \in worked : p.id = w.id => p = w BY <2>3, <2>4 DEF DocumentInv, DocumentTypes, Grown
  <2>7. (\A r \in sheet : \E w \in worked : Grown(r, w)) /\ \A w \in worked : \E r \in sheet : Grown(r, w)
    BY <2>3, <2>4
  <2> QED BY <2>5, <2>6, <2>7, RowsMove
<1> QED BY <1>1, <1>2

LEMMA DocumentKeeps == DocumentInv /\ [DocumentNext]_documentVars => DocumentInv'
<1> SUFFICES ASSUME DocumentInv, [DocumentNext]_documentVars PROVE DocumentInv' OBVIOUS
<1>1. ASSUME NEW s \in Desks, \/ \E only \in BOOLEAN : Draw(s, BuildContractor(sheet, only))
                              \/ Draw(s, BuildCustomer(sheet)) \/ ReadActive(s) \/ UseSigner(s) \/ Certify(s)
      PROVE  DocumentInv' BY <1>1, IssuingKeeps, CertifyKeeps
<1>2. ASSUME NEW i \in DOMAIN papers, ShareDetails(i) \/ VoidPaper(i) \/ EditRecord(i) PROVE DocumentInv' BY <1>2, PaperKeeps
<1> QED BY <1>1, <1>2, CreateSignerKeeps, OthersKeep, WorkKeeps DEF DocumentNext

\* An invoice that stands as signed, with the rows as they were read, verifies;
\* one that was withdrawn, edited, or whose rows changed, does not.
LEMMA VerdictFollows == DocumentInv => VerdictIsExact
<1> SUFFICES ASSUME DocumentInv, NEW i \in DOMAIN papers
             PROVE  Verdict(i) <=> /\ ~papers[i].voided /\ i \notin forged
                                   /\ \A l \in papers[i].snapshot.lines : <<i, l.id>> \notin altered
  BY DEF VerdictIsExact
<1>1. PICK p : p = papers[i] OBVIOUS
<1>2. PaperStands(i) BY DEF DocumentInv
<1>3. SignedPart(p.snapshot).edits = p.snapshot.edits
  <2>1. IsSnapshot(p.snapshot) BY <1>1, <1>2 DEF PaperStands
  <2> QED BY <2>1, SnapshotReplaced DEF SignedPart
<1>4. i \notin forged <=> SignedPart(p.snapshot) = p.hash /\ p.signature = <<p.hash, p.key>>
  <2>1. CASE i \in forged
    <3>1. p.snapshot.edits > 0 /\ p.snapshot.edits \in Nat /\ p.signature[1].edits = 0 BY <1>1, <1>2, <2>1 DEF PaperStands
    <3>2. SignedPart(p.snapshot) = p.hash /\ p.signature = <<p.hash, p.key>> => p.signature[1].edits = p.snapshot.edits
      BY <1>3
    <3> QED BY <2>1, <3>1, <3>2
  <2>2. CASE i \notin forged BY <1>1, <1>2, <2>2 DEF PaperStands
  <2> QED BY <2>1, <2>2
<1>5. ASSUME NEW l \in p.snapshot.lines
      PROVE  <<i, l.id>> \notin altered <=> \E row \in sheet : EntrySha(row) = l.seal
  <2>1. PICK r \in sheet : r.id = l.id /\ Descends(l.seal, r) /\ (<<i, l.id>> \in altered <=> EntrySha(r) # l.seal)
    BY <1>1, <1>2 DEF PaperStands, LineStands
  <2>2. ASSUME NEW q \in sheet, EntrySha(q) = l.seal PROVE q = r
    <3>1. q.id = l.seal.id BY <2>2 DEF EntrySha
    <3>2. r.id = l.seal.id BY <2>1 DEF Descends
    <3> QED BY <3>1, <3>2 DEF DocumentInv, DocumentTypes
  <2> QED BY <2>1, <2>2
<1>6. p.key \in DOMAIN signers BY <1>1, <1>2 DEF PaperStands
<1>7. RowsAsSealed(p.snapshot.lines) <=> \A l \in p.snapshot.lines : <<i, l.id>> \notin altered
  BY <1>5 DEF RowsAsSealed
<1> QED BY <1>1, <1>4, <1>6, <1>7 DEF Verdict

\* What a reader is told about an invoice is true at every moment:
\* it verifies while it stands, its record is untouched and its rows are as read,
\* and from then on never again (verify.ts:20-93).
THEOREM VerdictStands == DocumentSpec => []VerdictIsExact
<1>1. DocumentInit => DocumentInv BY DocumentStarts
<1>2. DocumentInv /\ [DocumentNext]_documentVars => DocumentInv' BY DocumentKeeps
<1>3. DocumentInv => VerdictIsExact BY VerdictFollows
<1> QED BY <1>1, <1>2, <1>3, PTL DEF DocumentSpec
-----------------------------------------------------------------------------
\* What a document adds up to (track/invoice.ts, invoices/contractor.ts).

\* Rounding is off by half a unit at most.
LEMMA RoundedIs ==
  ASSUME NEW n \in Int
  PROVE  /\ Rounded(n, 60) \in Int /\ 60 * Rounded(n, 60) - n <= 30 /\ n - 60 * Rounded(n, 60) <= 30
         /\ Rounded(n, 10) \in Int /\ 10 * Rounded(n, 10) - n <= 5 /\ n - 10 * Rounded(n, 10) <= 5
         /\ Rounded(10 * n, 10) = n
<1>1. \A m \in Int : m \div 120 \in Int /\ 120 * (m \div 120) <= m /\ m < 120 * (m \div 120) + 120 OBVIOUS
<1>2. \A m \in Int : m \div 20 \in Int /\ 20 * (m \div 20) <= m /\ m < 20 * (m \div 20) + 20 OBVIOUS
<1>3. Rounded(n, 60) = (2 * n + 60) \div 120 /\ 2 * n + 60 \in Int BY DEF Rounded
<1>4. Rounded(n, 10) = (2 * n + 10) \div 20 /\ 2 * n + 10 \in Int BY DEF Rounded
<1>5. Rounded(10 * n, 10) = (20 * n + 10) \div 20 /\ 20 * n + 10 \in Int BY DEF Rounded
<1>6. Rounded(n, 60) \in Int /\ 60 * Rounded(n, 60) - n <= 30 /\ n - 60 * Rounded(n, 60) <= 30
  <2>1. PICK q \in Int : q = (2 * n + 60) \div 120 BY <1>1, <1>3
  <2>2. 120 * q <= 2 * n + 60 /\ 2 * n + 60 < 120 * q + 120 BY <1>1, <1>3, <2>1
  <2> QED BY <1>3, <2>1, <2>2
<1>7. Rounded(n, 10) \in Int /\ 10 * Rounded(n, 10) - n <= 5 /\ n - 10 * Rounded(n, 10) <= 5
  <2>1. PICK q \in Int : q = (2 * n + 10) \div 20 BY <1>2, <1>4
  <2>2. 20 * q <= 2 * n + 10 /\ 2 * n + 10 < 20 * q + 20 BY <1>2, <1>4, <2>1
  <2> QED BY <1>4, <2>1, <2>2
<1>8. Rounded(10 * n, 10) = n
  <2>1. PICK q \in Int : q = (20 * n + 10) \div 20 BY <1>2, <1>5
  <2>2. 20 * q <= 20 * n + 10 /\ 20 * n + 10 < 20 * q + 20 BY <1>2, <1>5, <2>1
  <2> QED BY <1>5, <2>1, <2>2
<1> QED BY <1>6, <1>7, <1>8

\* Amounts priced one by one differ from the whole priced at once by half a cent each.
LEMMA PricedNear ==
  ASSUME NEW S, IsFiniteSet(S), NEW m, \A x \in S : m[x] \in Int, NEW rate \in Int,
         NEW c, \A x \in S : c[x] = Rounded(m[x] * rate, 60)
  PROVE  /\ SumFunctionOnSet(c, S) \in Int
         /\ Near(2 * SumFunctionOnSet(c, S), 2 * Rounded(SumFunctionOnSet(m, S) * rate, 60), Cardinality(S) + 1)
<1>1. PICK f : f = [x \in S |-> 60 * c[x]] OBVIOUS
<1>2. PICK e : e = [x \in S |-> rate * m[x]] OBVIOUS
<1>3. \A x \in S : c[x] \in Int /\ 60 * c[x] - rate * m[x] <= 30 /\ rate * m[x] - 60 * c[x] <= 30
  <2> SUFFICES ASSUME NEW x \in S
               PROVE c[x] \in Int /\ 60 * c[x] - rate * m[x] <= 30 /\ rate * m[x] - 60 * c[x] <= 30 OBVIOUS
  <2>1. PICK n \in Int : n = m[x] * rate OBVIOUS
  <2>2. rate * m[x] = n /\ c[x] = Rounded(n, 60) BY <2>1
  <2>3. PICK r \in Int : r = Rounded(n, 60) BY RoundedIs
  <2>4. 60 * r - n <= 30 /\ n - 60 * r <= 30 BY <2>3, RoundedIs
  <2> QED BY <2>2, <2>3, <2>4
<1>4. \A x \in S : rate * m[x] \in Int OBVIOUS
<1>5. \A x \in S : f[x] \in Int /\ e[x] \in Int /\ f[x] - e[x] <= 30 /\ e[x] - f[x] <= 30 BY <1>1, <1>2, <1>3, <1>4
<1>6. \A x \in S : f[x] = 60 * c[x] /\ e[x] = rate * m[x] BY <1>1, <1>2
<1>7. PICK n \in Nat : n = Cardinality(S) BY FS_CardinalityType
<1>8. SumFunctionOnSet(f, S) - SumFunctionOnSet(e, S) <= 30 * n /\ SumFunctionOnSet(e, S) - SumFunctionOnSet(f, S) <= 30 * n
  BY <1>5, <1>7, SumsNear
<1>9. SumFunctionOnSet(f, S) = 60 * SumFunctionOnSet(c, S) BY <1>3, <1>6, SumScales
<1>10. SumFunctionOnSet(e, S) = rate * SumFunctionOnSet(m, S) BY <1>6, SumScales
<1>11. PICK C \in Int, M \in Int : C = SumFunctionOnSet(c, S) /\ M = SumFunctionOnSet(m, S) BY <1>3, SumTakes
<1>12. PICK p \in Int : p = M * rate OBVIOUS
<1>13. rate * M = p BY <1>12
<1>14. PICK A \in Int : A = Rounded(p, 60) BY RoundedIs
<1>15. 60 * A - p <= 30 /\ p - 60 * A <= 30 BY <1>14, RoundedIs
<1>16. 60 * C - p <= 30 * n /\ p - 60 * C <= 30 * n BY <1>8, <1>9, <1>10, <1>11, <1>13
<1>17. 2 * C - 2 * A <= n + 1 /\ 2 * A - 2 * C <= n + 1 BY <1>15, <1>16
<1>18. Near(2 * C, 2 * A, n + 1) BY <1>17 DEF Near
<1> QED BY <1>7, <1>11, <1>12, <1>14, <1>18

\* The rows a customer's document is folded from.
Secs(W) == [r \in W |-> r.secs]
Costs(W) == [r \in W |-> r.cost]
Paid(W) == {r \in W : r.secs > 0}
KeyOf(W) == [r \in W |-> <<r.lane, r.task>>]
LineKeys(W) == {<<r.lane, r.task>> : r \in Paid(W)}
Of(W, k) == {r \in W : <<r.lane, r.task>> = k /\ r.secs > 0}
AgentsOf(W, k) == {r \in Of(W, k) : r.source = "agent"}
Agents(W) == {r \in Paid(W) : r.source = "agent"}
HumanSecs(W, k) == SumFunctionOnSet(Secs(W), Of(W, k) \ AgentsOf(W, k))
AgentSecs(W, k) == SumFunctionOnSet(Secs(W), AgentsOf(W, k))
AgentCost(W, k) == SumFunctionOnSet(Costs(W), AgentsOf(W, k))
Minutes(W, k) == MinutesFrom(HumanSecs(W, k)) + MinutesFrom(AgentSecs(W, k))

\* Rows of one month and customer: one a lane has one rate.
Billed(W) ==
  /\ IsFiniteSet(W) /\ \A r \in W : r.secs \in Nat /\ r.cost \in Int /\ r.rate \in Int \cup {Absent}
  /\ \A q, r \in W : q.lane = r.lane => q.rate = r.rate

LEMMA KeysFinite == ASSUME NEW W, IsFiniteSet(W) PROVE IsFiniteSet(LineKeys(W)) /\ IsFiniteSet(Paid(W)) /\ IsFiniteSet(Agents(W))
<1>1. IsFiniteSet(Paid(W)) /\ IsFiniteSet(Agents(W)) BY FS_Subset DEF Paid, Agents
<1> DEFINE g == [r \in Paid(W) |-> <<r.lane, r.task>>]
<1>2. g \in Surjection(Paid(W), LineKeys(W)) BY DEF Surjection, LineKeys
<1> HIDE DEF g
<1> QED BY <1>1, <1>2, FS_Surjection

LEMMA SumsOfRows ==
  ASSUME NEW W, IsFiniteSet(W), \A r \in W : r.secs \in Nat /\ r.cost \in Int, NEW T \in SUBSET W
  PROVE  /\ Total(LAMBDA r : r.secs, T) = SumFunctionOnSet(Secs(W), T)
         /\ Total(LAMBDA r : r.cost, T) = SumFunctionOnSet(Costs(W), T)
         /\ SumFunctionOnSet(Secs(W), T) \in Int /\ SumFunctionOnSet(Costs(W), T) \in Int
<1>1. IsFiniteSet(T) BY FS_Subset
<1>2. PICK s : s = Secs(W) OBVIOUS
<1>3. PICK c : c = Costs(W) OBVIOUS
<1>4. \A r \in W : s[r] = r.secs /\ c[r] = r.cost BY <1>2, <1>3 DEF Secs, Costs
<1>5. PICK t : t = [r \in T |-> r.secs] OBVIOUS
<1>6. PICK d : d = [r \in T |-> r.cost] OBVIOUS
<1>7. \A r \in T : t[r] \in Int /\ s[r] = t[r] BY <1>4, <1>5
<1>8. \A r \in T : d[r] \in Int /\ c[r] = d[r] BY <1>4, <1>6
<1>9. SumFunctionOnSet(t, T) = SumFunctionOnSet(s, T) /\ SumFunctionOnSet(t, T) \in Int BY <1>1, <1>7, SumSame, SumTakes
<1>10. SumFunctionOnSet(d, T) = SumFunctionOnSet(c, T) /\ SumFunctionOnSet(d, T) \in Int BY <1>1, <1>8, SumSame, SumTakes
<1>11. Total(LAMBDA r : r.secs, T) = SumFunctionOnSet(t, T) BY <1>5 DEF Total
<1>12. Total(LAMBDA r : r.cost, T) = SumFunctionOnSet(d, T) BY <1>6 DEF Total
<1> QED BY <1>2, <1>3, <1>9, <1>10, <1>11, <1>12

\* A line, from the sums over its rows.
LEMMA LineIs ==
  ASSUME NEW W, Billed(W), NEW k \in LineKeys(W)
  PROVE  /\ CustomerLine(W, k).minutes = Minutes(W, k) /\ Minutes(W, k) \in Int
         /\ CustomerLine(W, k).cost = AgentCost(W, k) /\ AgentCost(W, k) \in Int
         /\ CustomerLine(W, k).cents = AmountCentsFor(Minutes(W, k), CustomerLine(W, k).rate)
         /\ CustomerLine(W, k).rate \in Int \cup {Absent}
         /\ \A r \in Of(W, k) : CustomerLine(W, k).rate = r.rate
<1>1. PICK mine : mine = Of(W, k) OBVIOUS
<1>2. mine = {r \in W : <<r.lane, r.task>> = k /\ r.secs > 0} BY <1>1 DEF Of
<1>3. PICK agents : agents = AgentsOf(W, k) OBVIOUS
<1>4. agents = {r \in mine : r.source = "agent"} BY <1>1, <1>3 DEF AgentsOf
<1>5. mine \ agents \in SUBSET W /\ agents \in SUBSET W BY <1>2, <1>4
<1>6. IsFiniteSet(W) /\ \A r \in W : r.secs \in Nat /\ r.cost \in Int BY DEF Billed
<1>7. PICK rest : rest = mine \ agents OBVIOUS
<1>8. /\ Total(LAMBDA r : r.secs, rest) = HumanSecs(W, k) /\ HumanSecs(W, k) \in Int
      /\ Total(LAMBDA r : r.secs, agents) = AgentSecs(W, k) /\ AgentSecs(W, k) \in Int
      /\ Total(LAMBDA r : r.cost, agents) = AgentCost(W, k) /\ AgentCost(W, k) \in Int
  <2>1. HumanSecs(W, k) = SumFunctionOnSet(Secs(W), rest) BY <1>1, <1>3, <1>7 DEF HumanSecs
  <2>2. AgentSecs(W, k) = SumFunctionOnSet(Secs(W), agents) BY <1>3 DEF AgentSecs
  <2>3. AgentCost(W, k) = SumFunctionOnSet(Costs(W), agents) BY <1>3 DEF AgentCost
  <2>4. rest \in SUBSET W BY <1>5, <1>7
  <2> QED BY <1>5, <1>6, <2>1, <2>2, <2>3, <2>4, SumsOfRows
<1>9. PICK human : human = MinutesFrom(HumanSecs(W, k)) OBVIOUS
<1>10. PICK agent : agent = MinutesFrom(AgentSecs(W, k)) OBVIOUS
<1>11. PICK rate : rate = (CHOOSE r \in mine : TRUE).rate OBVIOUS
<1>12. CustomerLine(W, k) = [human |-> human, agent |-> agent, minutes |-> human + agent, rate |-> rate,
                            cost |-> AgentCost(W, k), cents |-> AmountCentsFor(human + agent, rate)]
  <2>1. human = MinutesFrom(Total(LAMBDA r : r.secs, mine \ agents)) BY <1>7, <1>8, <1>9
  <2>2. agent = MinutesFrom(Total(LAMBDA r : r.secs, agents)) BY <1>8, <1>10
  <2>3. AgentCost(W, k) = Total(LAMBDA r : r.cost, agents) BY <1>8
  <2> QED BY <1>2, <1>4, <1>11, <2>1, <2>2, <2>3 DEF CustomerLine
<1>13. human + agent = Minutes(W, k) BY <1>9, <1>10 DEF Minutes
<1>14. human \in Int /\ agent \in Int BY <1>8, <1>9, <1>10, RoundedIs DEF MinutesFrom
<1>15. PICK r \in mine : rate = r.rate
  <2>1. \E r \in mine : TRUE BY <1>2 DEF LineKeys, Paid
  <2> QED BY <1>11, <2>1
<1>16. rate \in Int \cup {Absent} /\ \A q \in mine : rate = q.rate
  <2>1. r \in W /\ r.rate \in Int \cup {Absent} BY <1>2 DEF Billed
  <2>2. \A q \in mine : q.rate = r.rate
    <3> SUFFICES ASSUME NEW q \in mine PROVE q.rate = r.rate OBVIOUS
    <3>1. <<q.lane, q.task>> = <<r.lane, r.task>> /\ q \in W BY <1>2
    <3>2. q.lane = r.lane BY <3>1
    <3> QED BY <2>1, <3>1, <3>2 DEF Billed
  <2> QED BY <1>15, <2>1, <2>2
<1>17. /\ CustomerLine(W, k).minutes = human + agent /\ CustomerLine(W, k).cost = AgentCost(W, k)
       /\ CustomerLine(W, k).rate = rate /\ CustomerLine(W, k).cents = AmountCentsFor(human + agent, rate)
  BY <1>12
<1> QED BY <1>1, <1>8, <1>13, <1>14, <1>16, <1>17

\* The minutes, the costs and the seconds of the document, by keys.
LEMMA LinesAre ==
  ASSUME NEW W, Billed(W)
  PROVE  /\ Carries([k \in LineKeys(W) |-> <<k, CustomerLine(W, k)>>], LineKeys(W), CustomerLines(W))
         /\ IsFiniteSet(LineKeys(W)) /\ IsFiniteSet(CustomerLines(W))
         /\ Cardinality(CustomerLines(W)) = Cardinality(LineKeys(W))
         /\ Total(LAMBDA l : l[2].minutes, CustomerLines(W)) = SumFunctionOnSet([k \in LineKeys(W) |-> Minutes(W, k)], LineKeys(W))
         /\ Total(LAMBDA l : l[2].cost, CustomerLines(W)) = SumFunctionOnSet([k \in LineKeys(W) |-> AgentCost(W, k)], LineKeys(W))
<1>1. PICK K : K = LineKeys(W) OBVIOUS
<1>2. PICK lines : lines = CustomerLines(W) OBVIOUS
<1>3. PICK L : L = [k \in K |-> <<k, CustomerLine(W, k)>>] OBVIOUS
<1>4. Carries(L, K, lines) BY <1>1, <1>2, <1>3 DEF CustomerLines, LineKeys, Paid, Carries
<1>5. IsFiniteSet(K) BY <1>1, KeysFinite DEF Billed
<1>6. PICK m : m = [k \in K |-> Minutes(W, k)] OBVIOUS
<1>7. PICK c : c = [k \in K |-> AgentCost(W, k)] OBVIOUS
<1>8. PICK a : a = [l \in lines |-> l[2].minutes] OBVIOUS
<1>9. PICK b : b = [l \in lines |-> l[2].cost] OBVIOUS
<1>10. ASSUME NEW k \in K PROVE m[k] \in Int /\ a[L[k]] = m[k] /\ c[k] \in Int /\ b[L[k]] = c[k]
  <2>1. PICK l \in lines : l = L[k] BY <1>4 DEF Carries
  <2>2. l[2] = CustomerLine(W, k) BY <1>3, <2>1
  <2>3. CustomerLine(W, k).minutes = Minutes(W, k) /\ Minutes(W, k) \in Int BY <1>1, LineIs
  <2>4. CustomerLine(W, k).cost = AgentCost(W, k) /\ AgentCost(W, k) \in Int BY <1>1, LineIs
  <2>5. a[l] = l[2].minutes /\ b[l] = l[2].cost BY <1>8, <1>9
  <2>6. m[k] = Minutes(W, k) /\ c[k] = AgentCost(W, k) BY <1>6, <1>7
  <2> QED BY <2>1, <2>2, <2>3, <2>4, <2>5, <2>6
<1>11. \A k \in K : m[k] \in Int /\ a[L[k]] = m[k] BY <1>10
<1>12. \A k \in K : c[k] \in Int /\ b[L[k]] = c[k] BY <1>10
<1>13. /\ IsFiniteSet(lines) /\ Cardinality(lines) = Cardinality(K)
       /\ SumFunctionOnSet(a, lines) = SumFunctionOnSet(m, K) BY <1>4, <1>5, <1>11, SumMaps
<1>14. SumFunctionOnSet(b, lines) = SumFunctionOnSet(c, K) BY <1>4, <1>5, <1>12, SumMaps
<1>15. Total(LAMBDA l : l[2].minutes, lines) = SumFunctionOnSet(a, lines) BY <1>8 DEF Total
<1>16. Total(LAMBDA l : l[2].cost, lines) = SumFunctionOnSet(b, lines) BY <1>9 DEF Total
<1> QED BY <1>1, <1>2, <1>3, <1>4, <1>5, <1>6, <1>7, <1>13, <1>14, <1>15, <1>16

\* Every second worked is in one line, and each line's minutes are off by a
\* minute at most.
LEMMA MinutesNear ==
  ASSUME NEW W, Billed(W), NEW m, m = [k \in LineKeys(W) |-> Minutes(W, k)]
  PROVE  /\ SumFunctionOnSet(m, LineKeys(W)) \in Int /\ SumFunctionOnSet(Secs(W), W) \in Int
         /\ Near(60 * SumFunctionOnSet(m, LineKeys(W)), SumFunctionOnSet(Secs(W), W), 60 * Cardinality(LineKeys(W)))
<1>1. PICK K : K = LineKeys(W) OBVIOUS
<1>2. PICK s : s = Secs(W) OBVIOUS
<1>3. IsFiniteSet(W) /\ \A r \in W : r.secs \in Nat /\ r.cost \in Int BY DEF Billed
<1>4. \A r \in W : s[r] = r.secs /\ s[r] \in Int BY <1>2, <1>3 DEF Secs
<1>5. PICK P \in SUBSET W : P = Paid(W) BY DEF Paid
<1>6. IsFiniteSet(K) /\ IsFiniteSet(P) BY <1>1, <1>3, <1>5, KeysFinite
<1>7. SumFunctionOnSet(s, P) = SumFunctionOnSet(s, W)
  <2>1. \A r \in W \ P : s[r] = 0 BY <1>3, <1>4, <1>5 DEF Paid
  <2> QED BY <1>3, <1>4, <2>1, SumSkips
<1>8. PICK part : part = [k \in K |-> Of(W, k)] OBVIOUS
<1>9. PICK key : key = KeyOf(W) OBVIOUS
<1>10. Grouped(part, key, P, K) BY <1>1, <1>5, <1>8, <1>9 DEF Grouped, KeyOf, Of, LineKeys, Paid
<1>11. PICK g : g = [k \in K |-> SumFunctionOnSet(s, part[k])] OBVIOUS
<1>12. SumFunctionOnSet(g, K) = SumFunctionOnSet(s, P)
  <2>1. \A k \in K : g[k] = SumFunctionOnSet(s, part[k]) BY <1>11
  <2>2. \A r \in P : s[r] \in Int BY <1>4
  <2> QED BY <1>6, <1>10, <2>1, <2>2, SumGroups
<1>13. PICK f : f = [k \in K |-> 60 * m[k]] OBVIOUS
<1>14. ASSUME NEW k \in K
       PROVE  m[k] \in Int /\ f[k] = 60 * m[k] /\ g[k] \in Int /\ f[k] - g[k] <= 60 /\ g[k] - f[k] <= 60
  <2>1. PICK O \in SUBSET W : O = Of(W, k) BY DEF Of
  <2>2. PICK A \in SUBSET O : A = AgentsOf(W, k) BY <2>1 DEF AgentsOf
  <2>3. IsFiniteSet(O) /\ \A r \in O : s[r] \in Int BY <1>3, <1>4, FS_Subset
  <2>4. SumFunctionOnSet(s, O) = SumFunctionOnSet(s, A) + SumFunctionOnSet(s, O \ A) BY <2>3, SumSplits
  <2>5. g[k] = SumFunctionOnSet(s, O) BY <1>8, <1>11, <2>1
  <2>6. SumFunctionOnSet(s, A) = AgentSecs(W, k) /\ SumFunctionOnSet(s, O \ A) = HumanSecs(W, k)
    BY <1>2, <2>1, <2>2 DEF AgentSecs, HumanSecs
  <2>7. SumFunctionOnSet(s, A) \in Int /\ SumFunctionOnSet(s, O \ A) \in Int
    <3>1. A \in SUBSET W /\ O \ A \in SUBSET W OBVIOUS
    <3> QED BY <1>2, <1>3, <3>1, SumsOfRows
  <2>8. PICK a \in Int, h \in Int : a = AgentSecs(W, k) /\ h = HumanSecs(W, k) BY <2>6, <2>7
  <2>9. PICK x \in Int, y \in Int : x = MinutesFrom(a) /\ y = MinutesFrom(h) BY RoundedIs DEF MinutesFrom
  <2>10. 60 * x - a <= 30 /\ a - 60 * x <= 30 /\ 60 * y - h <= 30 /\ h - 60 * y <= 30 BY <2>9, RoundedIs DEF MinutesFrom
  <2>11. m[k] = y + x BY <1>1, <2>8, <2>9 DEF Minutes
  <2>12. g[k] = a + h BY <2>4, <2>5, <2>6, <2>8
  <2>13. f[k] = 60 * m[k] BY <1>13
  <2> QED BY <2>10, <2>11, <2>12, <2>13
<1>15. PICK n \in Nat : n = Cardinality(K) BY <1>6, FS_CardinalityType
<1>16. \A k \in K : f[k] \in Int /\ g[k] \in Int /\ f[k] - g[k] <= 60 /\ g[k] - f[k] <= 60 BY <1>14
<1>17. SumFunctionOnSet(f, K) - SumFunctionOnSet(g, K) <= 60 * n /\ SumFunctionOnSet(g, K) - SumFunctionOnSet(f, K) <= 60 * n
  BY <1>6, <1>15, <1>16, SumsNear
<1>18. PICK c \in Int : c = 60 /\ \A k \in K : m[k] \in Int /\ f[k] = c * m[k] BY <1>14
<1>19. SumFunctionOnSet(f, K) = c * SumFunctionOnSet(m, K) BY <1>6, <1>18, SumScales
<1>20. SumFunctionOnSet(m, K) \in Int BY <1>6, <1>18, SumTakes
<1>21. SumFunctionOnSet(s, W) \in Int BY <1>3, <1>4, SumTakes
<1>22. Near(60 * SumFunctionOnSet(m, K), SumFunctionOnSet(s, W), 60 * n) BY <1>7, <1>12, <1>17, <1>18, <1>19 DEF Near
<1> QED BY <1>1, <1>2, <1>15, <1>20, <1>21, <1>22

\* Rows of the table, some of them.
Month(W) == IsFiniteSet(W) /\ (\A r \in W : IsRow(r)) /\ \A q, r \in W : q.id = r.id => q = r

RateOf(r) == IF r.lane \in DOMAIN prices.lanes THEN prices.lanes[r.lane] ELSE prices.customer

\* A month with the rates of a customer on it.
LEMMA PricedIs ==
  ASSUME NEW W, Month(W), prices \in PriceLists
  PROVE  /\ Month(Priced(W)) /\ Billed(Priced(W))
         /\ Carries([r \in W |-> [r EXCEPT !.rate = RateOf(r)]], W, Priced(W))
         /\ SumFunctionOnSet(Secs(Priced(W)), Priced(W)) = SumFunctionOnSet(Secs(W), W)
<1>1. PICK p : p = [r \in W |-> [r EXCEPT !.rate = RateOf(r)]] OBVIOUS
<1>2. PICK P : P = Priced(W) OBVIOUS
<1>3. P = {p[r] : r \in W} BY <1>1, <1>2 DEF Priced, RateOf
<1>4. ASSUME NEW r \in W
      PROVE  /\ p[r].id = r.id /\ p[r].secs = r.secs /\ p[r].cost = r.cost /\ p[r].lane = r.lane
             /\ p[r].rate = RateOf(r) /\ IsRow(p[r]) /\ r.secs \in Nat /\ r.cost \in Int
  <2>1. IsRow(r) BY DEF Month
  <2>2. p[r] = [r EXCEPT !.rate = RateOf(r)] BY <1>1
  <2> QED BY <2>1, <2>2 DEF IsRow
<1>5. Carries(p, W, P)
  <2>1. \A q, r \in W : p[q] = p[r] => q = r BY <1>4 DEF Month
  <2>2. \A r \in W : p[r] \in P BY <1>3
  <2>3. \A y \in P : \E r \in W : y = p[r] BY <1>3
  <2> QED BY <2>1, <2>2, <2>3 DEF Carries
<1>6. IsFiniteSet(W) BY DEF Month
<1>7. PICK s : s = Secs(W) OBVIOUS
<1>8. PICK t : t = Secs(P) OBVIOUS
<1>9. \A r \in W : s[r] \in Int /\ t[p[r]] = s[r]
  <2> SUFFICES ASSUME NEW r \in W PROVE s[r] \in Int /\ t[p[r]] = s[r] OBVIOUS
  <2>1. s[r] = r.secs BY <1>7 DEF Secs
  <2>2. PICK y \in P : y = p[r] BY <1>3
  <2>3. t[y] = y.secs BY <1>8 DEF Secs
  <2> QED BY <1>4, <2>1, <2>2, <2>3
<1>10. IsFiniteSet(P) /\ SumFunctionOnSet(t, P) = SumFunctionOnSet(s, W) BY <1>5, <1>6, <1>9, SumMaps
<1>11. Month(P)
  <2>1. \A y \in P : IsRow(y) BY <1>3, <1>4
  <2>2. ASSUME NEW x \in P, NEW y \in P, x.id = y.id PROVE x = y
    <3>1. PICK q \in W : x = p[q] BY <1>3
    <3>2. PICK r \in W : y = p[r] BY <1>3
    <3>3. q.id = r.id BY <1>4, <2>2, <3>1, <3>2
    <3>4. q = r BY <3>3 DEF Month
    <3> QED BY <3>1, <3>2, <3>4
  <2> QED BY <1>10, <2>1, <2>2 DEF Month
<1>12. Billed(P)
  <2>1. ASSUME NEW y \in P PROVE y.secs \in Nat /\ y.cost \in Int /\ y.rate \in Int \cup {Absent}
    <3>1. PICK r \in W : y = p[r] BY <1>3
    <3>2. RateOf(r) \in Int \cup {Absent} BY RatesAreCents DEF RateOf
    <3> QED BY <1>4, <3>1, <3>2
  <2>2. ASSUME NEW x \in P, NEW y \in P, x.lane = y.lane PROVE x.rate = y.rate
    <3>1. PICK q \in W : x = p[q] BY <1>3
    <3>2. PICK r \in W : y = p[r] BY <1>3
    <3>3. q.lane = r.lane /\ x.rate = RateOf(q) /\ y.rate = RateOf(r) BY <1>4, <2>2, <3>1, <3>2
    <3> QED BY <3>3 DEF RateOf
  <2> QED BY <1>10, <2>1, <2>2 DEF Billed
<1> QED BY <1>1, <1>2, <1>5, <1>7, <1>8, <1>10, <1>11, <1>12

\* The lines of a rate are priced within half a cent each.
LEMMA CentsNear ==
  ASSUME NEW lines, IsFiniteSet(lines), NEW rate \in Int,
         \A l \in lines : l[2].minutes \in Int /\ l[2].cents = Rounded(l[2].minutes * rate, 60)
  PROVE  Near(2 * Total(LAMBDA l : l[2].cents, lines),
              2 * Rounded(Total(LAMBDA l : l[2].minutes, lines) * rate, 60), Cardinality(lines) + 1)
<1>1. PICK m : m = [l \in lines |-> l[2].minutes] OBVIOUS
<1>2. PICK c : c = [l \in lines |-> l[2].cents] OBVIOUS
<1>3. \A l \in lines : m[l] \in Int BY <1>1
<1>4. \A l \in lines : c[l] = Rounded(m[l] * rate, 60) BY <1>1, <1>2
<1>5. Near(2 * SumFunctionOnSet(c, lines), 2 * Rounded(SumFunctionOnSet(m, lines) * rate, 60), Cardinality(lines) + 1)
  BY <1>3, <1>4, PricedNear
<1>6. Total(LAMBDA l : l[2].cents, lines) = SumFunctionOnSet(c, lines) BY <1>2 DEF Total
<1>7. Total(LAMBDA l : l[2].minutes, lines) = SumFunctionOnSet(m, lines) BY <1>1 DEF Total
<1> QED BY <1>5, <1>6, <1>7

LEMMA CustomerAdds ==
  ASSUME NEW W, Month(W), prices \in PriceLists
  PROVE  CustomerAddsUp(W)
<1>1. PICK P : P = Priced(W) OBVIOUS
<1>2. PICK lines : lines = CustomerLines(P) OBVIOUS
<1>3. PICK fold : fold = FoldCustomer(P) OBVIOUS
<1>4. fold.lines = lines /\ fold.minutes = Total(LAMBDA l : l[2].minutes, lines) BY <1>2, <1>3 DEF FoldCustomer
<1>5. Billed(P) /\ SumFunctionOnSet(Secs(P), P) = SumFunctionOnSet(Secs(W), W) BY <1>1, PricedIs
<1>6. PICK m : m = [k \in LineKeys(P) |-> Minutes(P, k)] OBVIOUS
<1>7. /\ Carries([k \in LineKeys(P) |-> <<k, CustomerLine(P, k)>>], LineKeys(P), lines)
      /\ IsFiniteSet(lines) /\ Cardinality(lines) = Cardinality(LineKeys(P))
      /\ Total(LAMBDA l : l[2].minutes, lines) = SumFunctionOnSet(m, LineKeys(P))
  BY <1>2, <1>5, <1>6, LinesAre
<1>8. Near(60 * fold.minutes, Total(LAMBDA r : r.secs, W), 60 * Cardinality(lines))
  <2>1. Near(60 * SumFunctionOnSet(m, LineKeys(P)), SumFunctionOnSet(Secs(P), P), 60 * Cardinality(LineKeys(P)))
    BY <1>5, <1>6, MinutesNear
  <2>2. Total(LAMBDA r : r.secs, W) = SumFunctionOnSet(Secs(W), W)
    <3>1. IsFiniteSet(W) /\ (\A r \in W : r.secs \in Nat /\ r.cost \in Int) /\ W \in SUBSET W BY DEF Month, IsRow
    <3> QED BY <3>1, SumsOfRows
  <2> QED BY <1>4, <1>5, <1>7, <2>1, <2>2
<1>9. ASSUME NEW rate \in {l[2].rate : l \in lines} \ {Absent}, NEW S, S = {l \in lines : l[2].rate = rate}
      PROVE  Near(2 * Total(LAMBDA l : l[2].cents, S),
                  2 * AmountCentsFor(Total(LAMBDA l : l[2].minutes, S), rate), Cardinality(S) + 1)
  <2>1. ASSUME NEW l \in lines
        PROVE  l[2].minutes \in Int /\ l[2].rate \in Int \cup {Absent} /\ l[2].cents = AmountCentsFor(l[2].minutes, l[2].rate)
    <3>1. PICK k \in LineKeys(P) : l = <<k, CustomerLine(P, k)>> BY <1>7 DEF Carries
    <3>2. l[2] = CustomerLine(P, k) BY <3>1
    <3>3. /\ CustomerLine(P, k).minutes = Minutes(P, k) /\ Minutes(P, k) \in Int
          /\ CustomerLine(P, k).cents = AmountCentsFor(Minutes(P, k), CustomerLine(P, k).rate)
          /\ CustomerLine(P, k).rate \in Int \cup {Absent}
      BY <1>5, LineIs
    <3> QED BY <3>2, <3>3
  <2>2. rate \in Int /\ rate # Absent BY <2>1
  <2>3. IsFiniteSet(S) BY <1>7, <1>9, FS_Subset
  <2>4. \A l \in S : l[2].minutes \in Int /\ l[2].cents = Rounded(l[2].minutes * rate, 60)
    BY <1>9, <2>1, <2>2 DEF AmountCentsFor
  <2>5. AmountCentsFor(Total(LAMBDA l : l[2].minutes, S), rate) = Rounded(Total(LAMBDA l : l[2].minutes, S) * rate, 60)
    BY <2>2 DEF AmountCentsFor
  <2> QED BY <2>2, <2>3, <2>4, <2>5, CentsNear
<1>10. \A rate \in {l[2].rate : l \in lines} \ {Absent} :
         Near(2 * Total(LAMBDA l : l[2].cents, {l \in lines : l[2].rate = rate}),
              2 * AmountCentsFor(Total(LAMBDA l : l[2].minutes, {l \in lines : l[2].rate = rate}), rate),
              Cardinality({l \in lines : l[2].rate = rate}) + 1)
  BY <1>9
<1> QED BY <1>1, <1>3, <1>4, <1>8, <1>10 DEF CustomerAddsUp

\* The lines of a member's document, from entries of whole minutes.
DayKey(E) == [e \in E |-> <<e.day, e.lane, e.task>>]
DayKeys(E) == {<<e.day, e.lane, e.task>> : e \in E}
OfDay(E, k) == {e \in E : <<e.day, e.lane, e.task>> = k}
Timed(E) == [e \in E |-> e.minutes]
DayLines(E, rate) == {<<k, ContractorLine(E, k, rate)>> : k \in DayKeys(E)}

\* The minutes of the lines are those of the entries.
LEMMA DaysAre ==
  ASSUME NEW E, IsFiniteSet(E), \A e \in E : e.minutes \in Int /\ e.cost \in Int, NEW rate,
         NEW lines, lines = DayLines(E, rate)
  PROVE  /\ IsFiniteSet(lines)
         /\ Total(LAMBDA l : l[2].minutes, lines) = SumFunctionOnSet(Timed(E), E)
         /\ \A l \in lines : /\ l[2].minutes \in Int /\ l[2].cost \in Int
                             /\ l[2].cents = AmountCentsFor(l[2].minutes, rate)
<1>1. PICK K : K = DayKeys(E) OBVIOUS
<1>2. PICK t : t = Timed(E) OBVIOUS
<1>3. \A e \in E : t[e] \in Int /\ t[e] = e.minutes BY <1>2 DEF Timed
<1>4. PICK key : key = DayKey(E) OBVIOUS
<1>5. PICK part : part = [k \in K |-> OfDay(E, k)] OBVIOUS
<1>6. Grouped(part, key, E, K) BY <1>1, <1>4, <1>5 DEF Grouped, DayKey, DayKeys, OfDay
<1>7. IsFiniteSet(K)
  <2>1. key \in Surjection(E, K) BY <1>1, <1>4 DEF Surjection, DayKey, DayKeys
  <2> QED BY <2>1, FS_Surjection
<1>8. PICK g : g = [k \in K |-> SumFunctionOnSet(t, part[k])] OBVIOUS
<1>9. SumFunctionOnSet(g, K) = SumFunctionOnSet(t, E)
  <2>1. \A k \in K : g[k] = SumFunctionOnSet(t, part[k]) BY <1>8
  <2>2. \A e \in E : t[e] \in Int BY <1>3
  <2> QED BY <1>6, <1>7, <2>1, <2>2, SumGroups
<1>10. ASSUME NEW k \in K
       PROVE  /\ ContractorLine(E, k, rate).minutes = g[k] /\ g[k] \in Int
              /\ ContractorLine(E, k, rate).cost \in Int
              /\ ContractorLine(E, k, rate).cents = AmountCentsFor(g[k], rate)
  <2>1. PICK mine \in SUBSET E : mine = OfDay(E, k) BY DEF OfDay
  <2>2. mine = {e \in E : <<e.day, e.lane, e.task>> = k} BY <2>1 DEF OfDay
  <2>3. PICK u : u = [e \in mine |-> e.minutes] OBVIOUS
  <2>4. IsFiniteSet(mine) BY FS_Subset
  <2>5. \A e \in mine : u[e] \in Int /\ t[e] = u[e] BY <1>3, <2>3
  <2>6. SumFunctionOnSet(u, mine) = SumFunctionOnSet(t, mine) /\ SumFunctionOnSet(u, mine) \in Int
    BY <2>4, <2>5, SumSame, SumTakes
  <2>7. Total(LAMBDA e : e.minutes, mine) = SumFunctionOnSet(u, mine) BY <2>3 DEF Total
  <2>8. g[k] = SumFunctionOnSet(t, mine) BY <1>5, <1>8, <2>1
  <2>9. PICK agents \in SUBSET mine : agents = {e \in mine : e.source = "agent"} OBVIOUS
  <2>10. PICK c : c = [e \in agents |-> e.cost] OBVIOUS
  <2>11. SumFunctionOnSet(c, agents) \in Int
    <3>1. IsFiniteSet(agents) /\ \A e \in agents : c[e] \in Int BY <2>4, <2>10, FS_Subset
    <3> QED BY <3>1, SumTakes
  <2>12. Total(LAMBDA e : e.cost, agents) = SumFunctionOnSet(c, agents) BY <2>10 DEF Total
  <2>13. ContractorLine(E, k, rate) = [minutes |-> g[k], cents |-> AmountCentsFor(g[k], rate),
                                       cost |-> Total(LAMBDA e : e.cost, agents)]
    <3>1. g[k] = Total(LAMBDA e : e.minutes, mine) BY <2>6, <2>7, <2>8
    <3> QED BY <2>2, <2>9, <3>1 DEF ContractorLine
  <2>14. g[k] \in Int BY <2>6, <2>8
  <2>15. ContractorLine(E, k, rate).minutes = g[k] /\ ContractorLine(E, k, rate).cents = AmountCentsFor(g[k], rate)
         /\ ContractorLine(E, k, rate).cost = Total(LAMBDA e : e.cost, agents) BY <2>13
  <2> QED BY <2>11, <2>12, <2>14, <2>15
<1>11. PICK L : L = [k \in K |-> <<k, ContractorLine(E, k, rate)>>] OBVIOUS
<1>12. Carries(L, K, lines) BY <1>1, <1>11 DEF Carries, DayLines
<1>13. PICK a : a = [l \in lines |-> l[2].minutes] OBVIOUS
<1>14. \A k \in K : g[k] \in Int /\ a[L[k]] = g[k]
  <2> SUFFICES ASSUME NEW k \in K PROVE g[k] \in Int /\ a[L[k]] = g[k] OBVIOUS
  <2>1. PICK l \in lines : l = L[k] BY <1>12 DEF Carries
  <2>2. l[2] = ContractorLine(E, k, rate) BY <1>11, <2>1
  <2>3. a[l] = l[2].minutes BY <1>13
  <2> QED BY <1>10, <2>1, <2>2, <2>3
<1>15. IsFiniteSet(lines) /\ SumFunctionOnSet(a, lines) = SumFunctionOnSet(g, K) BY <1>7, <1>12, <1>14, SumMaps
<1>16. Total(LAMBDA l : l[2].minutes, lines) = SumFunctionOnSet(a, lines) BY <1>13 DEF Total
<1>17. ASSUME NEW l \in lines
       PROVE  l[2].minutes \in Int /\ l[2].cost \in Int /\ l[2].cents = AmountCentsFor(l[2].minutes, rate)
  <2>1. PICK k \in K : l = <<k, ContractorLine(E, k, rate)>> BY <1>1 DEF DayLines
  <2>2. l[2] = ContractorLine(E, k, rate) BY <2>1
  <2> QED BY <1>10, <2>2
<1> QED BY <1>2, <1>9, <1>15, <1>16, <1>17

\* Rows as an invoice keeps them, one line a row.
LEMMA LinesOfRows ==
  ASSUME NEW W, Month(W), NEW E, E = {SnapshotLine(r) : r \in W}
  PROVE  /\ Carries([r \in W |-> SnapshotLine(r)], W, E) /\ IsFiniteSet(E) /\ Cardinality(E) = Cardinality(W)
         /\ \A e \in E : e.minutes \in Int /\ e.cost \in Int
<1>1. PICK s : s = [r \in W |-> SnapshotLine(r)] OBVIOUS
<1>2. ASSUME NEW r \in W PROVE s[r] = SnapshotLine(r) /\ s[r].id = r.id /\ s[r].minutes \in Int /\ s[r].cost \in Int
  <2>1. IsRow(r) /\ s[r] = SnapshotLine(r) BY <1>1 DEF Month
  <2>2. s[r].id = r.id /\ s[r].minutes = MinutesFrom(r.secs) /\ s[r].cost = Usd(r.cost) BY <2>1 DEF SnapshotLine
  <2>3. r.secs \in Int /\ r.cost \in Int BY <2>1 DEF IsRow
  <2>4. MinutesFrom(r.secs) \in Int /\ Usd(r.cost) \in Int BY <2>3, RoundedIs DEF MinutesFrom, Usd
  <2> QED BY <2>1, <2>2, <2>4
<1>3. \A q, r \in W : s[q] = s[r] => q = r BY <1>2 DEF Month
<1>4. Carries(s, W, E)
  <2>1. \A r \in W : s[r] \in E BY <1>2
  <2>2. \A e \in E : \E r \in W : e = s[r] BY <1>2
  <2> QED BY <1>3, <2>1, <2>2 DEF Carries
<1>5. IsFiniteSet(W) BY DEF Month
<1>6. PICK z : z = [r \in W |-> 0] OBVIOUS
<1>7. PICK y : y = [e \in E |-> 0] OBVIOUS
<1>8. \A r \in W : z[r] \in Int /\ y[s[r]] = z[r]
  <2>1. \A r \in W : s[r] \in E BY <1>2
  <2> QED BY <1>6, <1>7, <2>1
<1>9. IsFiniteSet(E) /\ Cardinality(E) = Cardinality(W) BY <1>4, <1>5, <1>8, SumMaps
<1>10. \A e \in E : e.minutes \in Int /\ e.cost \in Int BY <1>2
<1> QED BY <1>1, <1>4, <1>9, <1>10

\* Rounded minutes of the rows of a month.
Told60(W) == [r \in W |-> MinutesFrom(r.secs)]

LEMMA RoundedSums ==
  ASSUME NEW W, Month(W), NEW T \in SUBSET W
  PROVE  /\ Total(LAMBDA r : MinutesFrom(r.secs), T) = SumFunctionOnSet(Told60(W), T)
         /\ SumFunctionOnSet(Told60(W), T) \in Int
<1>1. PICK t : t = Told60(W) OBVIOUS
<1>2. PICK u : u = [r \in T |-> MinutesFrom(r.secs)] OBVIOUS
<1>3. \A r \in T : u[r] \in Int /\ t[r] = u[r]
  <2> SUFFICES ASSUME NEW r \in T PROVE u[r] \in Int /\ t[r] = u[r] OBVIOUS
  <2>1. r.secs \in Int BY DEF Month, IsRow
  <2>2. u[r] = MinutesFrom(r.secs) /\ t[r] = MinutesFrom(r.secs) BY <1>1, <1>2 DEF Told60
  <2> QED BY <2>1, <2>2, RoundedIs DEF MinutesFrom
<1>4. IsFiniteSet(T) BY FS_Subset DEF Month
<1>5. SumFunctionOnSet(u, T) = SumFunctionOnSet(t, T) /\ SumFunctionOnSet(u, T) \in Int BY <1>3, <1>4, SumSame, SumTakes
<1>6. Total(LAMBDA r : MinutesFrom(r.secs), T) = SumFunctionOnSet(u, T) BY <1>2 DEF Total
<1> QED BY <1>1, <1>5, <1>6

\* What is billed and what is reported as left out is all there is.
LEMMA NothingUnreported ==
  ASSUME NEW W, Month(W), NEW only \in BOOLEAN, NEW t, t = Told60(W), NEW I, I = Included(W, only)
  PROVE  SumFunctionOnSet(t, I) + ExcludedMinutes(W, only, "pending") + ExcludedMinutes(W, only, "rejected")
           + ExcludedMinutes(W, only, "none") = SumFunctionOnSet(t, W)
<1>1. I \in SUBSET W BY DEF Included
<1>2. PICK X \in SUBSET W : X = W \ I OBVIOUS
<1>3. PICK P \in SUBSET X : P = {r \in X : r.approval = "pending"} OBVIOUS
<1>4. PICK R \in SUBSET X : R = {r \in X : r.approval = "rejected"} OBVIOUS
<1>5. PICK N \in SUBSET X : N = {r \in X : r.approval = "none"} OBVIOUS
<1>6. /\ ExcludedMinutes(W, only, "pending") = SumFunctionOnSet(t, P)
      /\ ExcludedMinutes(W, only, "rejected") = SumFunctionOnSet(t, R)
      /\ ExcludedMinutes(W, only, "none") = SumFunctionOnSet(t, N)
  <2>1. P \in SUBSET W /\ R \in SUBSET W /\ N \in SUBSET W OBVIOUS
  <2>2. /\ Total(LAMBDA r : MinutesFrom(r.secs), P) = SumFunctionOnSet(t, P)
        /\ Total(LAMBDA r : MinutesFrom(r.secs), R) = SumFunctionOnSet(t, R)
        /\ Total(LAMBDA r : MinutesFrom(r.secs), N) = SumFunctionOnSet(t, N)
    BY <2>1, RoundedSums
  <2> QED BY <1>2, <1>3, <1>4, <1>5, <2>2 DEF ExcludedMinutes
<1>7. \A T \in SUBSET W : IsFiniteSet(T) /\ (\A r \in T : t[r] \in Int) /\ SumFunctionOnSet(t, T) \in Int
  <2> SUFFICES ASSUME NEW T \in SUBSET W
               PROVE IsFiniteSet(T) /\ (\A r \in T : t[r] \in Int) /\ SumFunctionOnSet(t, T) \in Int OBVIOUS
  <2>1. IsFiniteSet(T) BY FS_Subset DEF Month
  <2>2. ASSUME NEW r \in T PROVE t[r] \in Int
    <3>1. r \in W /\ r.secs \in Int BY DEF Month, IsRow
    <3>2. t[r] = MinutesFrom(r.secs) BY <3>1 DEF Told60
    <3> QED BY <3>1, <3>2, RoundedIs DEF MinutesFrom
  <2> QED BY <2>1, <2>2, SumTakes
<1>8. SumFunctionOnSet(t, W) = SumFunctionOnSet(t, I) + SumFunctionOnSet(t, X)
  <2>1. IsFiniteSet(W) /\ \A r \in W : t[r] \in Int BY <1>7
  <2> QED BY <1>1, <1>2, <2>1, SumSplits
<1>9. PICK Y \in SUBSET X : Y = X \ P OBVIOUS
<1>10. SumFunctionOnSet(t, X) = SumFunctionOnSet(t, P) + SumFunctionOnSet(t, Y)
  <2>1. IsFiniteSet(X) /\ \A r \in X : t[r] \in Int BY <1>7
  <2> QED BY <1>9, <2>1, SumSplits
<1>11. \A r \in X : r.approval \in {"pending", "rejected", "none"}
  <2> SUFFICES ASSUME NEW r \in X PROVE r.approval \in {"pending", "rejected", "none"} OBVIOUS
  <2>1. IsRow(r) BY DEF Month
  <2>2. only => r.approval # "approved" BY <1>2 DEF Included
  <2>3. ~only => r.approval = "rejected" BY <1>2 DEF Included
  <2> QED BY <2>1, <2>2, <2>3 DEF IsRow
<1>12. R \in SUBSET Y /\ Y \ R = N BY <1>3, <1>4, <1>5, <1>9, <1>11
<1>13. SumFunctionOnSet(t, Y) = SumFunctionOnSet(t, R) + SumFunctionOnSet(t, N)
  <2>1. Y \in SUBSET W OBVIOUS
  <2>2. IsFiniteSet(Y) /\ \A r \in Y : t[r] \in Int BY <1>7, <2>1
  <2>3. SumFunctionOnSet(t, Y) = SumFunctionOnSet(t, R) + SumFunctionOnSet(t, Y \ R) BY <1>12, <2>2, SumSplits
  <2> QED BY <1>12, <2>3
<1>14. /\ SumFunctionOnSet(t, I) \in Int /\ SumFunctionOnSet(t, P) \in Int /\ SumFunctionOnSet(t, R) \in Int
       /\ SumFunctionOnSet(t, N) \in Int BY <1>1, <1>7
<1> QED BY <1>6, <1>8, <1>10, <1>13, <1>14

LEMMA ContractorAdds ==
  ASSUME NEW W, Month(W), prices \in PriceLists
  PROVE  ContractorAddsUp(W)
<1> SUFFICES ASSUME NEW only \in BOOLEAN, NEW fold,
                    fold = FoldContractor({SnapshotLine(r) : r \in Included(W, only)}, prices.member)
             PROVE  /\ fold.minutes = Total(LAMBDA l : l[2].minutes, fold.lines)
                    /\ prices.member # Absent =>
                         Near(2 * Total(LAMBDA l : l[2].cents, fold.lines), 2 * fold.cents, Cardinality(fold.lines) + 1)
                    /\ fold.minutes + ExcludedMinutes(W, only, "pending") + ExcludedMinutes(W, only, "rejected")
                         + ExcludedMinutes(W, only, "none") = Total(LAMBDA r : MinutesFrom(r.secs), W)
  BY DEF ContractorAddsUp
<1>1. PICK I : I = Included(W, only) OBVIOUS
<1>2. I \in SUBSET W BY <1>1 DEF Included
<1>3. Month(I) BY <1>2, FS_Subset DEF Month
<1>4. PICK E : E = {SnapshotLine(r) : r \in I} OBVIOUS
<1>5. PICK s : s = [r \in I |-> SnapshotLine(r)] OBVIOUS
<1>6. Carries(s, I, E) /\ IsFiniteSet(E) /\ \A e \in E : e.minutes \in Int /\ e.cost \in Int BY <1>3, <1>4, <1>5, LinesOfRows
<1>7. PICK rate : rate = prices.member OBVIOUS
<1>8. PICK lines : lines = DayLines(E, rate) OBVIOUS
<1>9. PICK minutes : minutes = Total(LAMBDA e : e.minutes, E) OBVIOUS
<1>10. fold.lines = lines /\ fold.minutes = minutes /\ fold.cents = AmountCentsFor(minutes, rate)
  <2>1. fold = FoldContractor(E, rate) BY <1>1, <1>4, <1>7
  <2>2. lines = {<<k, ContractorLine(E, k, rate)>> : k \in {<<e.day, e.lane, e.task>> : e \in E}} BY <1>8 DEF DayLines, DayKeys
  <2>3. FoldContractor(E, rate) = [lines |-> lines, minutes |-> minutes, cents |-> AmountCentsFor(minutes, rate),
                                   cost |-> Total(LAMBDA l : l[2].cost, lines)]
    BY <1>9, <2>2 DEF FoldContractor
  <2> QED BY <2>1, <2>3
<1>11. /\ IsFiniteSet(lines) /\ Total(LAMBDA l : l[2].minutes, lines) = SumFunctionOnSet(Timed(E), E)
       /\ \A l \in lines : l[2].minutes \in Int /\ l[2].cents = AmountCentsFor(l[2].minutes, rate)
  BY <1>6, <1>8, DaysAre
<1>12. minutes = SumFunctionOnSet(Timed(E), E) BY <1>9 DEF Total, Timed
<1>13. PICK t : t = Told60(W) OBVIOUS
<1>14. SumFunctionOnSet(Timed(E), E) = SumFunctionOnSet(t, I)
  <2>1. PICK a : a = Timed(E) OBVIOUS
  <2>2. \A r \in I : t[r] \in Int /\ a[s[r]] = t[r]
    <3> SUFFICES ASSUME NEW r \in I PROVE t[r] \in Int /\ a[s[r]] = t[r] OBVIOUS
    <3>1. PICK e \in E : e = s[r] BY <1>6 DEF Carries
    <3>2. e = SnapshotLine(r) /\ a[e] = e.minutes BY <1>5, <2>1, <3>1 DEF Timed
    <3>3. e.minutes = MinutesFrom(r.secs) BY <3>2 DEF SnapshotLine
    <3>4. r \in W /\ t[r] = MinutesFrom(r.secs) BY <1>2, <1>13 DEF Told60
    <3> QED BY <1>6, <3>1, <3>2, <3>3, <3>4
  <2>3. IsFiniteSet(I) BY <1>3 DEF Month
  <2> QED BY <1>6, <2>1, <2>2, <2>3, SumMaps
<1>15. fold.minutes = Total(LAMBDA l : l[2].minutes, fold.lines) BY <1>10, <1>11, <1>12
<1>16. ASSUME rate # Absent
       PROVE  Near(2 * Total(LAMBDA l : l[2].cents, lines), 2 * fold.cents, Cardinality(lines) + 1)
  <2>1. rate \in Int BY <1>7, <1>16, RatesAreCents
  <2>2. \A l \in lines : l[2].minutes \in Int /\ l[2].cents = Rounded(l[2].minutes * rate, 60)
    BY <1>11, <1>16 DEF AmountCentsFor
  <2>3. fold.cents = Rounded(Total(LAMBDA l : l[2].minutes, lines) * rate, 60)
    BY <1>10, <1>11, <1>12, <1>16 DEF AmountCentsFor
  <2> QED BY <1>11, <2>1, <2>2, <2>3, CentsNear
<1>17. Total(LAMBDA r : MinutesFrom(r.secs), W) = SumFunctionOnSet(t, W)
  <2>1. W \in SUBSET W OBVIOUS
  <2> QED BY <1>13, <2>1, RoundedSums
<1>18. fold.minutes = SumFunctionOnSet(t, I) BY <1>10, <1>12, <1>14
<1>19. SumFunctionOnSet(t, I) + ExcludedMinutes(W, only, "pending") + ExcludedMinutes(W, only, "rejected")
         + ExcludedMinutes(W, only, "none") = SumFunctionOnSet(t, W)
  BY <1>1, <1>13, NothingUnreported
<1> QED BY <1>7, <1>10, <1>15, <1>16, <1>17, <1>18, <1>19

\* The same rows drawn again from what was sealed of them: only the cost was cut.
Resealed(d, P, R) ==
  /\ Carries(d, P, R)
  /\ \A r \in P : /\ d[r].lane = r.lane /\ d[r].task = r.task /\ d[r].source = r.source
                  /\ d[r].secs = r.secs /\ d[r].rate = r.rate /\ d[r].cost = 10 * Usd(r.cost)

LEMMA PartCarries ==
  ASSUME NEW d, NEW P, NEW R, Carries(d, P, R), NEW T \in SUBSET P, NEW U \in SUBSET R,
         \A r \in P : r \in T <=> d[r] \in U
  PROVE  Carries(d, T, U)
BY DEF Carries

\* Whatever part of the rows is added up, the seconds are the same.
LEMMA SecsAgain ==
  ASSUME NEW d, NEW P, NEW R, Billed(P), Billed(R), Resealed(d, P, R), NEW T \in SUBSET P, NEW U \in SUBSET R,
         \A r \in P : r \in T <=> d[r] \in U
  PROVE  SumFunctionOnSet(Secs(R), U) = SumFunctionOnSet(Secs(P), T)
<1>1. Carries(d, T, U) BY PartCarries DEF Resealed
<1>2. PICK s : s = Secs(P) OBVIOUS
<1>3. PICK t : t = Secs(R) OBVIOUS
<1>4. \A r \in T : s[r] \in Int /\ t[d[r]] = s[r]
  <2> SUFFICES ASSUME NEW r \in T PROVE s[r] \in Int /\ t[d[r]] = s[r] OBVIOUS
  <2>1. PICK y \in U : y = d[r] OBVIOUS
  <2>2. s[r] = r.secs /\ t[y] = y.secs BY <1>2, <1>3 DEF Secs
  <2>3. y.secs = r.secs /\ r.secs \in Int BY <2>1 DEF Resealed, Billed
  <2> QED BY <2>1, <2>2, <2>3
<1>5. IsFiniteSet(T) BY FS_Subset DEF Billed
<1> QED BY <1>1, <1>2, <1>3, <1>4, <1>5, SumMaps

\* So the lines say the same minutes at the same rate.
LEMMA LinesAgain ==
  ASSUME NEW d, NEW P, NEW R, Billed(P), Billed(R), Resealed(d, P, R)
  PROVE  /\ LineKeys(R) = LineKeys(P)
         /\ \A k \in LineKeys(P) : /\ Minutes(R, k) = Minutes(P, k)
                               /\ CustomerLine(R, k).minutes = CustomerLine(P, k).minutes
                               /\ CustomerLine(R, k).cents = CustomerLine(P, k).cents
<1>0. \A r \in P : d[r] \in R BY DEF Resealed, Carries
<1>1. LineKeys(R) = LineKeys(P)
  <2>1. ASSUME NEW k \in LineKeys(P) PROVE k \in LineKeys(R)
    <3>1. PICK r \in P : r.secs > 0 /\ k = <<r.lane, r.task>> BY DEF LineKeys, Paid
    <3>2. PICK y \in R : y = d[r] BY <1>0
    <3>3. y.secs > 0 /\ k = <<y.lane, y.task>> BY <3>1, <3>2 DEF Resealed
    <3> QED BY <3>3 DEF LineKeys, Paid
  <2>2. ASSUME NEW k \in LineKeys(R) PROVE k \in LineKeys(P)
    <3>1. PICK y \in R : y.secs > 0 /\ k = <<y.lane, y.task>> BY DEF LineKeys, Paid
    <3>2. PICK r \in P : y = d[r] BY DEF Resealed, Carries
    <3>3. r.secs > 0 /\ k = <<r.lane, r.task>> BY <3>1, <3>2 DEF Resealed
    <3> QED BY <3>3 DEF LineKeys, Paid
  <2> QED BY <2>1, <2>2
<1>2. ASSUME NEW k \in LineKeys(P)
      PROVE  /\ Minutes(R, k) = Minutes(P, k)
             /\ CustomerLine(R, k).minutes = CustomerLine(P, k).minutes
             /\ CustomerLine(R, k).cents = CustomerLine(P, k).cents
  <2>1. \A r \in P : r \in Of(P, k) <=> d[r] \in Of(R, k) BY <1>0 DEF Of, Resealed
  <2>2. \A r \in P : r \in AgentsOf(P, k) <=> d[r] \in AgentsOf(R, k) BY <1>0, <2>1 DEF AgentsOf, Of, Resealed
  <2>3. PICK A \in SUBSET P, B \in SUBSET R : A = AgentsOf(P, k) /\ B = AgentsOf(R, k) BY DEF AgentsOf, Of
  <2>4. PICK X \in SUBSET P, Y \in SUBSET R : X = Of(P, k) \ AgentsOf(P, k) /\ Y = Of(R, k) \ AgentsOf(R, k) BY DEF Of
  <2>5. \A r \in P : r \in A <=> d[r] \in B BY <2>2, <2>3
  <2>6. \A r \in P : r \in X <=> d[r] \in Y BY <2>1, <2>2, <2>4
  <2>7. AgentSecs(R, k) = AgentSecs(P, k)
    <3>1. SumFunctionOnSet(Secs(R), B) = SumFunctionOnSet(Secs(P), A) BY <2>5, SecsAgain
    <3> QED BY <2>3, <3>1 DEF AgentSecs
  <2>8. HumanSecs(R, k) = HumanSecs(P, k)
    <3>1. SumFunctionOnSet(Secs(R), Y) = SumFunctionOnSet(Secs(P), X) BY <2>6, SecsAgain
    <3> QED BY <2>4, <3>1 DEF HumanSecs
  <2>9. Minutes(R, k) = Minutes(P, k) BY <2>7, <2>8 DEF Minutes
  <2>10. PICK r \in Of(P, k) : TRUE BY DEF LineKeys, Paid, Of
  <2>11. r \in P /\ d[r] \in Of(R, k) BY <2>1, <2>10 DEF Of
  <2>12. CustomerLine(P, k).rate = r.rate BY <2>10, LineIs
  <2>13. CustomerLine(R, k).rate = d[r].rate BY <1>1, <2>11, LineIs
  <2>14. d[r].rate = r.rate BY <2>11 DEF Resealed
  <2>15. CustomerLine(P, k).minutes = Minutes(P, k) /\ CustomerLine(P, k).cents = AmountCentsFor(Minutes(P, k), CustomerLine(P, k).rate)
    BY LineIs
  <2>16. CustomerLine(R, k).minutes = Minutes(R, k) /\ CustomerLine(R, k).cents = AmountCentsFor(Minutes(R, k), CustomerLine(R, k).rate)
    BY <1>1, LineIs
  <2> QED BY <2>9, <2>12, <2>13, <2>14, <2>15, <2>16
<1> QED BY <1>1, <1>2

\* A sum of cents, where there is one, is a sum over the priced lines.
LEMMA CentsAgain ==
  ASSUME NEW d, NEW P, NEW R, Billed(P), Billed(R), Resealed(d, P, R)
  PROVE  PricedSum(CustomerLines(R)) = PricedSum(CustomerLines(P))
<1>1. LineKeys(R) = LineKeys(P) /\ \A k \in LineKeys(P) : CustomerLine(R, k).cents = CustomerLine(P, k).cents BY LinesAgain
<1>2. PICK K : K = LineKeys(P) OBVIOUS
<1>3. PICK A : A = {l \in CustomerLines(P) : l[2].cents # Absent} OBVIOUS
<1>4. PICK B : B = {l \in CustomerLines(R) : l[2].cents # Absent} OBVIOUS
<1>5. CustomerLines(P) = {<<k, CustomerLine(P, k)>> : k \in K} BY <1>2 DEF CustomerLines, LineKeys, Paid
<1>6. CustomerLines(R) = {<<k, CustomerLine(R, k)>> : k \in K} BY <1>1, <1>2 DEF CustomerLines, LineKeys, Paid
<1>7. PICK m : m = [l \in A |-> <<l[1], CustomerLine(R, l[1])>>] OBVIOUS
<1>8. ASSUME NEW l \in A
      PROVE  /\ l[1] \in K /\ l = <<l[1], CustomerLine(P, l[1])>> /\ m[l] \in B
             /\ m[l] = <<l[1], CustomerLine(R, l[1])>> /\ m[l][1] = l[1] /\ m[l][2].cents = l[2].cents
             /\ l[2].cents \in Int
  <2>1. PICK k \in K : l = <<k, CustomerLine(P, k)>> BY <1>3, <1>5
  <2>2. l[1] = k /\ l[2] = CustomerLine(P, k) BY <2>1
  <2>3. m[l] = <<k, CustomerLine(R, k)>> BY <1>7, <2>2
  <2>4. m[l] \in CustomerLines(R) BY <1>6, <2>3
  <2>5. m[l][1] = k /\ m[l][2] = CustomerLine(R, k) BY <2>3
  <2>6. m[l][2].cents = l[2].cents BY <1>1, <1>2, <2>2, <2>5
  <2>7. m[l] \in B BY <1>3, <1>4, <2>4, <2>6
  <2>8. l[2].cents \in Int
    <3>1. /\ CustomerLine(P, k).cents = AmountCentsFor(Minutes(P, k), CustomerLine(P, k).rate)
          /\ CustomerLine(P, k).rate \in Int \cup {Absent} /\ Minutes(P, k) \in Int BY <1>2, LineIs
    <3>2. l[2].cents # Absent BY <1>3
    <3>3. CustomerLine(P, k).rate # Absent BY <2>2, <3>1, <3>2 DEF AmountCentsFor
    <3>4. PICK rate \in Int : rate = CustomerLine(P, k).rate BY <3>1, <3>3
    <3>5. PICK x \in Int : x = Minutes(P, k) * rate BY <3>1
    <3>6. l[2].cents = Rounded(x, 60) BY <2>2, <3>1, <3>3, <3>4, <3>5 DEF AmountCentsFor
    <3> QED BY <3>6, RoundedIs
  <2> QED BY <2>1, <2>2, <2>3, <2>5, <2>6, <2>7, <2>8
<1>9. Carries(m, A, B)
  <2>1. ASSUME NEW y \in B PROVE \E l \in A : y = m[l]
    <3>1. PICK k \in K : y = <<k, CustomerLine(R, k)>> BY <1>4, <1>6
    <3>2. PICK l : l = <<k, CustomerLine(P, k)>> OBVIOUS
    <3>3. l[1] = k /\ l[2] = CustomerLine(P, k) /\ y[2] = CustomerLine(R, k) BY <3>1, <3>2
    <3>4. l[2].cents # Absent BY <1>1, <1>2, <1>4, <3>3
    <3>5. l \in A BY <1>3, <1>5, <3>2, <3>4
    <3>6. y = m[l] BY <1>7, <3>1, <3>3, <3>5
    <3> QED BY <3>5, <3>6
  <2>2. ASSUME NEW l \in A, NEW n \in A, m[l] = m[n] PROVE l = n
    <3>1. l[1] = n[1] BY <1>8, <2>2
    <3> QED BY <1>8, <3>1
  <2>3. \A l \in A : m[l] \in B BY <1>8
  <2> QED BY <2>1, <2>2, <2>3 DEF Carries
<1>10. PICK a : a = [l \in A |-> l[2].cents] OBVIOUS
<1>11. PICK b : b = [l \in B |-> l[2].cents] OBVIOUS
<1>12. \A l \in A : a[l] \in Int /\ b[m[l]] = a[l]
  <2> SUFFICES ASSUME NEW l \in A PROVE a[l] \in Int /\ b[m[l]] = a[l] OBVIOUS
  <2>1. PICK y \in B : y = m[l] BY <1>8
  <2>2. a[l] = l[2].cents /\ b[y] = y[2].cents BY <1>10, <1>11
  <2> QED BY <1>8, <2>1, <2>2
<1>13. IsFiniteSet(A)
  <2>1. IsFiniteSet(CustomerLines(P)) BY LinesAre
  <2> QED BY <1>3, <2>1, FS_Subset
<1>14. SumFunctionOnSet(b, B) = SumFunctionOnSet(a, A) BY <1>9, <1>12, <1>13, SumMaps
<1>15. A = {} <=> B = {} BY <1>9 DEF Carries
<1>16. PricedSum(CustomerLines(P)) = IF A = {} THEN Absent ELSE SumFunctionOnSet(a, A)
  <2>1. Total(LAMBDA l : l[2].cents, A) = SumFunctionOnSet(a, A) BY <1>10 DEF Total
  <2> QED BY <1>3, <2>1 DEF PricedSum
<1>17. PricedSum(CustomerLines(R)) = IF B = {} THEN Absent ELSE SumFunctionOnSet(b, B)
  <2>1. Total(LAMBDA l : l[2].cents, B) = SumFunctionOnSet(b, B) BY <1>11 DEF Total
  <2> QED BY <1>4, <2>1 DEF PricedSum
<1> QED BY <1>14, <1>15, <1>16, <1>17

\* The cost of the lines is that of the agents' rows.
LEMMA CostIs ==
  ASSUME NEW W, Billed(W), NEW lines, lines = CustomerLines(W)
  PROVE  Total(LAMBDA l : l[2].cost, lines) = SumFunctionOnSet(Costs(W), Agents(W))
<1>1. PICK K : K = LineKeys(W) OBVIOUS
<1>2. PICK c : c = Costs(W) OBVIOUS
<1>3. PICK A \in SUBSET W : A = Agents(W) BY DEF Agents, Paid
<1>4. IsFiniteSet(K) /\ IsFiniteSet(A) BY <1>1, <1>3, KeysFinite DEF Billed
<1>5. \A r \in A : c[r] \in Int
  <2> SUFFICES ASSUME NEW r \in A PROVE c[r] \in Int OBVIOUS
  <2>1. r \in W /\ r.cost \in Int BY DEF Billed
  <2>2. c[r] = r.cost BY <1>2 DEF Costs
  <2> QED BY <2>1, <2>2
<1>6. PICK part : part = [k \in K |-> AgentsOf(W, k)] OBVIOUS
<1>7. PICK key : key = KeyOf(W) OBVIOUS
<1>8. Grouped(part, key, A, K) BY <1>1, <1>3, <1>6, <1>7 DEF Grouped, KeyOf, AgentsOf, Agents, Of, LineKeys, Paid
<1>9. PICK g : g = [k \in K |-> AgentCost(W, k)] OBVIOUS
<1>10. \A k \in K : g[k] = SumFunctionOnSet(c, part[k]) BY <1>2, <1>6, <1>9 DEF AgentCost
<1>11. SumFunctionOnSet(g, K) = SumFunctionOnSet(c, A) BY <1>4, <1>5, <1>8, <1>10, SumGroups
<1>12. Total(LAMBDA l : l[2].cost, lines) = SumFunctionOnSet(g, K) BY <1>1, <1>9, LinesAre
<1> QED BY <1>2, <1>3, <1>11, <1>12

LEMMA CostAgain ==
  ASSUME NEW d, NEW P, NEW R, Billed(P), Billed(R), Resealed(d, P, R)
  PROVE  Near(2 * Usd(Total(LAMBDA l : l[2].cost, CustomerLines(R))),
              2 * Usd(Total(LAMBDA l : l[2].cost, CustomerLines(P))), Cardinality(P) + 1)
<1>1. PICK A \in SUBSET P, B \in SUBSET R : A = Agents(P) /\ B = Agents(R) BY DEF Agents, Paid
<1>2. \A r \in P : d[r] \in R BY DEF Resealed, Carries
<1>3. \A r \in P : r \in A <=> d[r] \in B BY <1>1, <1>2 DEF Agents, Paid, Resealed
<1>4. Carries(d, A, B) BY <1>3, PartCarries DEF Resealed
<1>5. IsFiniteSet(A) /\ IsFiniteSet(P) BY FS_Subset DEF Billed
<1>6. PICK c : c = Costs(P) OBVIOUS
<1>7. PICK b : b = Costs(R) OBVIOUS
<1>8. PICK u : u = [r \in A |-> Usd(r.cost)] OBVIOUS
<1>9. PICK e : e = [r \in A |-> 10 * u[r]] OBVIOUS
<1>10. ASSUME NEW r \in A
       PROVE  /\ c[r] \in Int /\ u[r] \in Int /\ e[r] = 10 * u[r] /\ e[r] \in Int /\ b[d[r]] = e[r]
              /\ e[r] - c[r] <= 5 /\ c[r] - e[r] <= 5
  <2>1. r \in P /\ r.cost \in Int BY DEF Billed
  <2>2. PICK n \in Int : n = r.cost BY <2>1
  <2>3. c[r] = n BY <1>6, <2>1, <2>2 DEF Costs
  <2>4. u[r] = Rounded(n, 10) BY <1>8, <2>2 DEF Usd
  <2>5. PICK v \in Int : v = Rounded(n, 10) BY RoundedIs
  <2>6. 10 * v - n <= 5 /\ n - 10 * v <= 5 BY <2>5, RoundedIs
  <2>7. e[r] = 10 * u[r] BY <1>9
  <2>8. b[d[r]] = 10 * Usd(r.cost)
    <3>1. PICK y \in R : y = d[r] BY <1>2
    <3>2. b[y] = y.cost BY <1>7 DEF Costs
    <3> QED BY <2>1, <3>1, <3>2 DEF Resealed
  <2>9. Usd(r.cost) = v BY <2>2, <2>5 DEF Usd
  <2> QED BY <2>3, <2>4, <2>5, <2>6, <2>7, <2>8, <2>9
<1>11. \A r \in A : c[r] \in Int BY <1>10
<1>12. \A r \in A : e[r] \in Int /\ b[d[r]] = e[r] BY <1>10
<1>13. PICK t \in Int : t = 10 /\ \A r \in A : u[r] \in Int /\ e[r] = t * u[r] BY <1>10
<1>14. \A r \in A : e[r] \in Int /\ c[r] \in Int /\ e[r] - c[r] <= 5 /\ c[r] - e[r] <= 5 BY <1>10
<1>15. PICK n \in Nat : n = Cardinality(A) BY <1>5, FS_CardinalityType
<1>16. SumFunctionOnSet(e, A) - SumFunctionOnSet(c, A) <= 5 * n /\ SumFunctionOnSet(c, A) - SumFunctionOnSet(e, A) <= 5 * n
  BY <1>5, <1>14, <1>15, SumsNear
<1>17. SumFunctionOnSet(e, A) = t * SumFunctionOnSet(u, A) BY <1>5, <1>13, SumScales
<1>18. SumFunctionOnSet(b, B) = SumFunctionOnSet(e, A) BY <1>4, <1>5, <1>12, SumMaps
<1>19. PICK U \in Int, C \in Int : U = SumFunctionOnSet(u, A) /\ C = SumFunctionOnSet(c, A) BY <1>5, <1>11, <1>13, SumTakes
<1>20. Total(LAMBDA l : l[2].cost, CustomerLines(R)) = 10 * U BY <1>1, <1>7, <1>13, <1>17, <1>18, <1>19, CostIs
<1>21. Total(LAMBDA l : l[2].cost, CustomerLines(P)) = C BY <1>1, <1>6, <1>19, CostIs
<1>22. Usd(10 * U) = U BY RoundedIs DEF Usd
<1>23. PICK v \in Int : v = Usd(C) BY RoundedIs DEF Usd
<1>24. 10 * v - C <= 5 /\ C - 10 * v <= 5 BY <1>23, RoundedIs DEF Usd
<1>25. 10 * U - C <= 5 * n /\ C - 10 * U <= 5 * n BY <1>13, <1>16, <1>17, <1>19
<1>26. n <= Cardinality(P) /\ Cardinality(P) \in Nat BY <1>5, <1>15, FS_Subset, FS_CardinalityType
<1>27. 2 * U - 2 * v <= Cardinality(P) + 1 /\ 2 * v - 2 * U <= Cardinality(P) + 1 BY <1>24, <1>25, <1>26
<1>28. Near(2 * U, 2 * v, Cardinality(P) + 1) BY <1>27 DEF Near
<1> QED BY <1>20, <1>21, <1>22, <1>23, <1>28

\* A record says what was signed of it.
RedrawsTrue(n) ==
  LET drawn == Redrawn(n)
  IN /\ drawn.minutes = n.totals.minutes /\ drawn.cents = n.totals.cents
     /\ Near(2 * drawn.cost, 2 * n.totals.cost, Cardinality(n.lines) + 1)

LEMMA ContractorRedraws ==
  ASSUME Month(sheet), prices \in PriceLists, NEW only \in BOOLEAN
  PROVE  RedrawsTrue(BuildContractor(sheet, only))
<1>1. PICK I \in SUBSET sheet : I = Included(sheet, only) BY DEF Included
<1>2. Month(I) BY FS_Subset DEF Month
<1>3. PICK E : E = {SnapshotLine(r) : r \in I} OBVIOUS
<1>4. IsFiniteSet(E) /\ \A e \in E : e.minutes \in Int /\ e.cost \in Int BY <1>2, <1>3, LinesOfRows
<1>5. PICK rate : rate = prices.member OBVIOUS
<1>6. PICK lines : lines = DayLines(E, rate) OBVIOUS
<1>7. PICK fold : fold = FoldContractor(E, rate) OBVIOUS
<1>8. PICK c : c = [l \in lines |-> l[2].cost] OBVIOUS
<1>9. fold.cost = SumFunctionOnSet(c, lines)
  <2>1. lines = {<<k, ContractorLine(E, k, rate)>> : k \in {<<e.day, e.lane, e.task>> : e \in E}} BY <1>6 DEF DayLines, DayKeys
  <2>2. fold.cost = Total(LAMBDA l : l[2].cost, lines) BY <1>7, <2>1 DEF FoldContractor
  <2> QED BY <1>8, <2>2 DEF Total
<1>10. fold.cost \in Int
  <2>1. IsFiniteSet(lines) /\ \A l \in lines : l[2].cost \in Int BY <1>4, <1>6, DaysAre
  <2>2. \A l \in lines : c[l] \in Int BY <1>8, <2>1
  <2> QED BY <1>9, <2>1, <2>2, SumTakes
<1>11. PICK n : n = BuildContractor(sheet, only) OBVIOUS
<1>12. /\ n.kind = "contractor" /\ n.lines = E /\ n.rate = rate /\ n.totals.minutes = fold.minutes
       /\ n.totals.cents = fold.cents /\ n.totals.cost = fold.cost
  BY <1>1, <1>3, <1>5, <1>7, <1>11 DEF BuildContractor
<1>13. Redrawn(n) = fold BY <1>7, <1>12 DEF Redrawn
<1>14. PICK x \in Int, k \in Nat : x = fold.cost /\ k = Cardinality(E) BY <1>4, <1>10, FS_CardinalityType
<1>15. Near(2 * x, 2 * x, k + 1) BY DEF Near
<1> QED BY <1>11, <1>12, <1>13, <1>14, <1>15 DEF RedrawsTrue

\* A row as a record keeps it, with the cost as the fold reads it.
LEMMA ResealedIs ==
  ASSUME NEW P, Month(P), Billed(P), NEW N, N = {SnapshotLine(r) : r \in P},
         NEW R, R = {[l EXCEPT !.cost = 10 * @] : l \in N}
  PROVE  Billed(R) /\ \E d : Resealed(d, P, R)
<1>1. PICK d : d = [r \in P |-> [SnapshotLine(r) EXCEPT !.cost = 10 * @]] OBVIOUS
<1>2. R = {d[r] : r \in P}
  <2>1. \A r \in P : SnapshotLine(r) \in N /\ d[r] = [SnapshotLine(r) EXCEPT !.cost = 10 * @] BY <1>1
  <2>2. \A l \in N : \E r \in P : l = SnapshotLine(r) OBVIOUS
  <2>3. ASSUME NEW y \in R PROVE y \in {d[r] : r \in P}
    <3>1. PICK l \in N : y = [l EXCEPT !.cost = 10 * @] OBVIOUS
    <3>2. PICK r \in P : l = SnapshotLine(r) BY <2>2
    <3> QED BY <2>1, <3>1, <3>2
  <2>4. ASSUME NEW y \in {d[r] : r \in P} PROVE y \in R
    <3>1. PICK r \in P : y = d[r] OBVIOUS
    <3>2. PICK l \in N : l = SnapshotLine(r) BY <2>1
    <3> QED BY <2>1, <3>1, <3>2
  <2> QED BY <2>3, <2>4
<1>3. ASSUME NEW r \in P
      PROVE  /\ d[r].id = r.id /\ d[r].lane = r.lane /\ d[r].task = r.task /\ d[r].source = r.source
             /\ d[r].secs = r.secs /\ d[r].rate = r.rate /\ d[r].cost = 10 * Usd(r.cost) /\ Usd(r.cost) \in Int
  <2>1. PICK l : l = SnapshotLine(r) OBVIOUS
  <2>2. d[r] = [l EXCEPT !.cost = 10 * @] BY <1>1, <2>1
  <2>3. l = [id |-> r.id, day |-> r.day, lane |-> r.lane, task |-> r.task, source |-> r.source,
             secs |-> r.secs, minutes |-> MinutesFrom(r.secs), cost |-> Usd(r.cost), rate |-> r.rate,
             approval |-> r.approval, seal |-> EntrySha(r)] BY <2>1 DEF SnapshotLine
  <2>4. d[r].id = r.id /\ d[r].lane = r.lane /\ d[r].task = r.task /\ d[r].source = r.source
        /\ d[r].secs = r.secs /\ d[r].rate = r.rate /\ d[r].cost = 10 * Usd(r.cost) BY <2>2, <2>3
  <2>5. r.cost \in Int BY DEF Billed
  <2> QED BY <2>4, <2>5, RoundedIs DEF Usd
<1>4. Carries(d, P, R)
  <2>1. \A q, r \in P : d[q] = d[r] => q = r BY <1>3 DEF Month
  <2>2. (\A r \in P : d[r] \in R) /\ \A y \in R : \E r \in P : y = d[r] BY <1>2
  <2> QED BY <2>1, <2>2 DEF Carries
<1>5. Resealed(d, P, R) BY <1>3, <1>4 DEF Resealed
<1>6. IsFiniteSet(R)
  <2>1. PICK z : z = [r \in P |-> 0] OBVIOUS
  <2>2. PICK y : y = [e \in R |-> 0] OBVIOUS
  <2>3. \A r \in P : d[r] \in R BY <1>2
  <2>4. ASSUME NEW r \in P PROVE z[r] \in Int /\ y[d[r]] = z[r]
    <3>1. PICK e \in R : e = d[r] BY <2>3
    <3>2. z[r] = 0 /\ y[e] = 0 BY <2>1, <2>2
    <3> QED BY <3>1, <3>2
  <2>5. IsFiniteSet(P) BY DEF Month
  <2> QED BY <1>4, <2>4, <2>5, SumMaps
<1>7. Billed(R)
  <2>1. ASSUME NEW y \in R PROVE y.secs \in Nat /\ y.cost \in Int /\ y.rate \in Int \cup {Absent}
    <3>1. PICK r \in P : y = d[r] BY <1>2
    <3>2. r.secs \in Nat /\ r.rate \in Int \cup {Absent} BY DEF Billed
    <3>3. PICK u \in Int : u = Usd(r.cost) BY <1>3
    <3>4. y.cost = 10 * u BY <1>3, <3>1, <3>3
    <3> QED BY <1>3, <3>1, <3>2, <3>4
  <2>2. ASSUME NEW x \in R, NEW y \in R, x.lane = y.lane PROVE x.rate = y.rate
    <3>1. PICK q \in P : x = d[q] BY <1>2
    <3>2. PICK r \in P : y = d[r] BY <1>2
    <3>3. q.lane = r.lane BY <1>3, <2>2, <3>1, <3>2
    <3>4. q.rate = r.rate BY <3>3 DEF Billed
    <3> QED BY <1>3, <3>1, <3>2, <3>4
  <2> QED BY <1>6, <2>1, <2>2 DEF Billed
<1> QED BY <1>5, <1>7

LEMMA CustomerRedraws ==
  ASSUME Month(sheet), prices \in PriceLists
  PROVE  RedrawsTrue(BuildCustomer(sheet))
<1>1. PICK P : P = Priced(sheet) OBVIOUS
<1>2. Month(P) /\ Billed(P) BY <1>1, PricedIs
<1>3. PICK N : N = {SnapshotLine(r) : r \in P} OBVIOUS
<1>4. PICK R : R = {[l EXCEPT !.cost = 10 * @] : l \in N} OBVIOUS
<1>5. Billed(R) /\ \E d : Resealed(d, P, R) BY <1>2, <1>3, <1>4, ResealedIs
<1>6. PICK d : Resealed(d, P, R) BY <1>5
<1>7. PICK n : n = BuildCustomer(sheet) OBVIOUS
<1>8. PICK fold : fold = FoldCustomer(P) OBVIOUS
<1>9. /\ n.kind = "customer" /\ n.lines = N /\ n.totals.minutes = fold.minutes
      /\ n.totals.cents = fold.cents /\ n.totals.cost = fold.cost
  BY <1>1, <1>3, <1>7, <1>8 DEF BuildCustomer
<1>10. PICK drawn : drawn = FoldCustomer(R) OBVIOUS
<1>11. Redrawn(n) = drawn BY <1>4, <1>9, <1>10 DEF Redrawn
<1>12. PICK L, M : L = CustomerLines(P) /\ M = CustomerLines(R) OBVIOUS
<1>13. /\ fold.minutes = Total(LAMBDA l : l[2].minutes, L) /\ fold.cents = PricedSum(L)
       /\ fold.cost = Usd(Total(LAMBDA l : l[2].cost, L)) BY <1>8, <1>12 DEF FoldCustomer
<1>14. /\ drawn.minutes = Total(LAMBDA l : l[2].minutes, M) /\ drawn.cents = PricedSum(M)
       /\ drawn.cost = Usd(Total(LAMBDA l : l[2].cost, M)) BY <1>10, <1>12 DEF FoldCustomer
<1>15. drawn.cents = fold.cents BY <1>2, <1>5, <1>6, <1>12, <1>13, <1>14, CentsAgain
<1>16. drawn.minutes = fold.minutes
  <2>1. PICK K : K = LineKeys(P) OBVIOUS
  <2>2. LineKeys(R) = K /\ \A k \in K : Minutes(R, k) = Minutes(P, k) BY <1>2, <1>5, <1>6, <2>1, LinesAgain
  <2>3. PICK m : m = [k \in K |-> Minutes(P, k)] OBVIOUS
  <2>4. [k \in K |-> Minutes(R, k)] = m BY <2>2, <2>3
  <2>5. Total(LAMBDA l : l[2].minutes, L) = SumFunctionOnSet(m, K) BY <1>2, <1>12, <2>1, <2>3, LinesAre
  <2>6. Total(LAMBDA l : l[2].minutes, M) = SumFunctionOnSet([k \in LineKeys(R) |-> Minutes(R, k)], LineKeys(R))
    BY <1>5, <1>12, LinesAre
  <2> QED BY <1>13, <1>14, <2>2, <2>4, <2>5, <2>6
<1>17. Near(2 * drawn.cost, 2 * fold.cost, Cardinality(P) + 1)
  BY <1>2, <1>5, <1>6, <1>12, <1>13, <1>14, CostAgain
<1>18. Cardinality(N) = Cardinality(P) BY <1>2, <1>3, LinesOfRows
<1> QED BY <1>7, <1>9, <1>11, <1>15, <1>16, <1>17, <1>18 DEF RedrawsTrue

\* It reads the lines, the rate and the totals only.
LEMMA SameRedraws ==
  ASSUME NEW n, NEW m, m.kind = n.kind, m.lines = n.lines, m.rate = n.rate, m.totals = n.totals
  PROVE  RedrawsTrue(m) <=> RedrawsTrue(n)
BY DEF RedrawsTrue, Redrawn

AgreeInv ==
  /\ DocumentInv /\ IsFiniteSet(sheet) /\ prices \in PriceLists
  /\ \A i \in DOMAIN papers : RedrawsTrue(papers[i].snapshot)
  /\ \A s \in Desks : desk[s].pc \in {"read", "found", "wait", "sign"} => RedrawsTrue(desk[s].snapshot)

LEMMA AgreeStarts == DocumentInit => AgreeInv
<1> SUFFICES ASSUME DocumentInit PROVE AgreeInv OBVIOUS
<1>1. IsFiniteSet(sheet) /\ prices \in PriceLists BY SheetsHoldRows DEF DocumentInit
<1>2. \A s \in Desks : desk[s].pc = "free" BY DEF DocumentInit, Unoccupied
<1>3. DOMAIN papers = {} BY DEF DocumentInit
<1> QED BY <1>1, <1>2, <1>3, DocumentStarts DEF AgreeInv

\* The month stays a finite one.
LEMMA SheetFinite == AgreeInv /\ [DocumentNext]_documentVars => IsFiniteSet(sheet') /\ prices' \in PriceLists
<1> SUFFICES ASSUME AgreeInv, [DocumentNext]_documentVars PROVE IsFiniteSet(sheet') /\ prices' \in PriceLists OBVIOUS
<1>1. IsFiniteSet(sheet) /\ prices \in PriceLists BY DEF AgreeInv
<1>2. ASSUME NEW row \in sheet, CorrectWork(row) PROVE IsFiniteSet(sheet') /\ prices' = prices
  <2>1. PICK q : q = [row EXCEPT !.secs = @ + 60] OBVIOUS
  <2>2. sheet' = (sheet \ {row}) \cup {q} /\ prices' = prices BY <1>2, <2>1 DEF CorrectWork, Becomes
  <2>3. IsFiniteSet(sheet \ {row}) BY <1>1, FS_Subset
  <2> QED BY <2>2, <2>3, FS_AddElement
<1>3. ASSUME NEW task, DeleteTask(task) PROVE IsFiniteSet(sheet') /\ prices' = prices
  <2> DEFINE less == [r \in sheet |-> [r EXCEPT !.task = IF @ = task THEN Absent ELSE @]]
  <2>1. sheet' = {less[r] : r \in sheet} /\ prices' = prices BY <1>3 DEF DeleteTask, Becomes
  <2>2. less \in Surjection(sheet, sheet')
    <3>1. \A r \in sheet : less[r] \in sheet' BY <2>1
    <3>2. \A q \in sheet' : \E r \in sheet : less[r] = q BY <2>1
    <3>3. less = [r \in sheet |-> less[r]] OBVIOUS
    <3> HIDE DEF less
    <3> QED BY <3>1, <3>2, <3>3 DEF Surjection
  <2> HIDE DEF less
  <2> QED BY <1>1, <2>1, <2>2, FS_Surjection
<1>4. CASE Reprice BY <1>1, <1>4 DEF Reprice
<1>5. CASE UNCHANGED <<sheet, prices>> BY <1>1, <1>5
<1>6. UNCHANGED <<sheet, prices>> \/ Reprice \/ (\E row \in sheet : CorrectWork(row))
      \/ \E task \in {r.task : r \in sheet} : DeleteTask(task)
  <2>1. ASSUME NEW s \in Desks, \/ \E only \in BOOLEAN : Draw(s, BuildContractor(sheet, only))
                                \/ Draw(s, BuildCustomer(sheet)) \/ ReadActive(s) \/ UseSigner(s) \/ Certify(s)
        PROVE UNCHANGED <<sheet, prices>> BY <2>1 DEF Draw, ReadActive, UseSigner, Certify
  <2>2. ASSUME NEW i, ShareDetails(i) \/ VoidPaper(i) \/ EditRecord(i) PROVE UNCHANGED <<sheet, prices>>
    BY <2>2 DEF ShareDetails, VoidPaper, EditRecord
  <2>3. CreateSigner \/ StopIssuing \/ (\E k \in DOMAIN signers : RetireSigner(k)) \/ UNCHANGED documentVars
        => UNCHANGED <<sheet, prices>>
    BY DEF CreateSigner, StopIssuing, RetireSigner, documentVars
  <2> QED BY <2>1, <2>2, <2>3 DEF DocumentNext
<1> QED BY <1>1, <1>2, <1>3, <1>4, <1>5, <1>6

\* Whatever was signed, its record says so still.
LEMMA PapersKeep ==
  AgreeInv /\ [DocumentNext]_documentVars => \A i \in DOMAIN papers' : RedrawsTrue(papers'[i].snapshot)
<1> SUFFICES ASSUME AgreeInv, [DocumentNext]_documentVars, NEW i \in DOMAIN papers' PROVE RedrawsTrue(papers'[i].snapshot)
  OBVIOUS
<1>1. IsSequence(papers) /\ \A j \in DOMAIN papers : RedrawsTrue(papers[j].snapshot) /\ PaperStands(j)
  BY DEF AgreeInv, DocumentInv, DocumentTypes
<1>2. CASE papers' = papers BY <1>1, <1>2
<1>3. ASSUME NEW s \in Desks, Certify(s) PROVE RedrawsTrue(papers'[i].snapshot)
  <2>1. PICK n : n = desk[s].snapshot OBVIOUS
  <2>2. desk[s].pc = "sign" BY <1>3 DEF Certify
  <2>3. RedrawsTrue(n) BY <2>1, <2>2 DEF AgreeInv
  <2>4. IsSnapshot(n) BY <2>1, <2>2 DEF AgreeInv, DocumentInv, DeskKnows, Drawn
  <2>5. PICK m : m = [n EXCEPT !.access = 1] OBVIOUS
  <2>6. m.kind = n.kind /\ m.lines = n.lines /\ m.rate = n.rate /\ m.totals = n.totals BY <2>4, <2>5, SnapshotReplaced
  <2>7. RedrawsTrue(m) BY <2>3, <2>6, SameRedraws
  <2>8. PICK p : papers' = Append(papers, p) /\ p.snapshot = m BY <1>3, <2>1, <2>5 DEF Certify
  <2>9. (i \in DOMAIN papers /\ papers'[i] = papers[i]) \/ papers'[i] = p BY <1>1, <2>8, SequenceGrows
  <2> QED BY <1>1, <2>7, <2>8, <2>9
<1>4. ASSUME NEW j \in DOMAIN papers, NEW m, NEW p, papers' = [papers EXCEPT ![j] = p], p.snapshot = m,
             m.kind = papers[j].snapshot.kind, m.lines = papers[j].snapshot.lines, m.rate = papers[j].snapshot.rate,
             m.totals = papers[j].snapshot.totals
      PROVE  RedrawsTrue(papers'[i].snapshot)
  <2>1. RedrawsTrue(m)
    <3>1. PICK n : n = papers[j].snapshot OBVIOUS
    <3>2. RedrawsTrue(n) BY <1>1, <3>1
    <3> QED BY <1>4, <3>1, <3>2, SameRedraws
  <2>2. i \in DOMAIN papers /\ papers'[i] = IF i = j THEN p ELSE papers[i] BY <1>1, <1>4, SequenceChanges
  <2> QED BY <1>1, <1>4, <2>1, <2>2
<1>5. ASSUME NEW j \in DOMAIN papers, ShareDetails(j) \/ VoidPaper(j) \/ EditRecord(j) PROVE RedrawsTrue(papers'[i].snapshot)
  <2>1. PICK n : n = papers[j].snapshot OBVIOUS
  <2>2. IsPaper(papers[j]) /\ IsSnapshot(n) BY <1>1, <2>1 DEF PaperStands
  <2>3. CASE ShareDetails(j)
    <3>1. PICK m : m = [n EXCEPT !.access = @ + 1] OBVIOUS
    <3>2. m.kind = n.kind /\ m.lines = n.lines /\ m.rate = n.rate /\ m.totals = n.totals BY <2>2, <3>1, SnapshotReplaced
    <3>3. PICK p : p = [papers[j] EXCEPT !.snapshot = m] OBVIOUS
    <3>4. papers' = [papers EXCEPT ![j] = p] BY <2>1, <2>3, <3>1, <3>3 DEF ShareDetails
    <3>5. p.snapshot = m BY <2>2, <3>3, PaperReplaced
    <3> QED BY <1>4, <2>1, <3>2, <3>4, <3>5
  <2>4. CASE VoidPaper(j)
    <3>1. PICK p : p = [papers[j] EXCEPT !.voided = TRUE] OBVIOUS
    <3>2. papers' = [papers EXCEPT ![j] = p] BY <2>4, <3>1 DEF VoidPaper
    <3>3. p.snapshot = n BY <2>1, <2>2, <3>1, PaperReplaced
    <3> QED BY <1>4, <2>1, <3>2, <3>3
  <2>5. CASE EditRecord(j)
    <3>1. PICK m : m = [n EXCEPT !.edits = @ + 1] OBVIOUS
    <3>2. m.kind = n.kind /\ m.lines = n.lines /\ m.rate = n.rate /\ m.totals = n.totals BY <2>2, <3>1, SnapshotReplaced
    <3>3. PICK hash : papers' = [papers EXCEPT ![j].snapshot = m, ![j].hash = hash] BY <2>1, <2>5, <3>1 DEF EditRecord
    <3>4. PICK q : q = [papers[j] EXCEPT !.snapshot = m] OBVIOUS
    <3>5. PICK p : p = [q EXCEPT !.hash = hash] OBVIOUS
    <3>6. papers' = [papers EXCEPT ![j] = p]
      <4>1. papers' = [papers EXCEPT ![j] = [[papers[j] EXCEPT !.snapshot = m] EXCEPT !.hash = hash]] BY <3>3
      <4> QED BY <3>4, <3>5, <4>1
    <3>7. p.snapshot = m
      <4>1. q = [snapshot |-> m, hash |-> papers[j].hash, signature |-> papers[j].signature,
                 key |-> papers[j].key, voided |-> papers[j].voided] BY <2>2, <3>4, PaperReplaced
      <4>2. IsPaper(q) /\ q.snapshot = m BY <4>1 DEF IsPaper
      <4> QED BY <3>5, <4>2, PaperReplaced
    <3> QED BY <1>4, <2>1, <3>2, <3>6, <3>7
  <2> QED BY <1>5, <2>3, <2>4, <2>5
<1>6. papers' = papers \/ (\E s \in Desks : Certify(s))
      \/ \E j \in DOMAIN papers : ShareDetails(j) \/ VoidPaper(j) \/ EditRecord(j)
  <2>1. ASSUME NEW s \in Desks, \/ \E only \in BOOLEAN : Draw(s, BuildContractor(sheet, only))
                                \/ Draw(s, BuildCustomer(sheet)) \/ ReadActive(s) \/ UseSigner(s)
        PROVE papers' = papers BY <2>1 DEF Draw, ReadActive, UseSigner
  <2>2. ASSUME CreateSigner \/ StopIssuing \/ Reprice \/ (\E k \in DOMAIN signers : RetireSigner(k)) \/ UNCHANGED documentVars
        PROVE papers' = papers BY <2>2 DEF CreateSigner, StopIssuing, Reprice, RetireSigner, documentVars
  <2>3. ASSUME (\E row \in sheet : CorrectWork(row)) \/ \E task \in {r.task : r \in sheet} : DeleteTask(task)
        PROVE papers' = papers BY <2>3 DEF CorrectWork, DeleteTask
  <2> QED BY <2>1, <2>2, <2>3 DEF DocumentNext
<1> QED BY <1>2, <1>3, <1>5, <1>6

\* So does what is about to be signed.
LEMMA DesksKeep ==
  AgreeInv /\ [DocumentNext]_documentVars =>
    \A s \in Desks : desk'[s].pc \in {"read", "found", "wait", "sign"} => RedrawsTrue(desk'[s].snapshot)
<1> DEFINE Says(r) == r.pc \in {"read", "found", "wait", "sign"} => RedrawsTrue(r.snapshot)
<1> SUFFICES ASSUME AgreeInv, [DocumentNext]_documentVars, NEW s \in Desks PROVE Says(desk'[s]) OBVIOUS
<1>1. desk = [u \in Desks |-> desk[u]] /\ \A u \in Desks : Says(desk[u]) /\ DeskKnows(desk[u])
  BY DEF AgreeInv, DocumentInv, DocumentTypes
<1>2. Month(sheet) /\ prices \in PriceLists BY DEF AgreeInv, DocumentInv, DocumentTypes, Month
<1>3. Says(Unoccupied) BY DEF Unoccupied
<1>4. ASSUME NEW u \in Desks, NEW r, desk' = [desk EXCEPT ![u] = r], Says(r) PROVE Says(desk'[s])
  <2>1. desk'[s] = desk[s] \/ desk'[s] = r BY <1>1, <1>4
  <2> QED BY <1>1, <1>4, <2>1
<1>5. ASSUME NEW u \in Desks, NEW n, RedrawsTrue(n), Draw(u, n) PROVE Says(desk'[s])
  <2>1. PICK r : r = [pc |-> "read", snapshot |-> n] OBVIOUS
  <2>2. desk' = [desk EXCEPT ![u] = r] /\ Says(r) BY <1>5, <2>1 DEF Draw, Sit
  <2> HIDE DEF Says
  <2> QED BY <1>4, <2>2
<1>6. ASSUME NEW u \in Desks, ReadActive(u) PROVE Says(desk'[s])
  <2>1. PICK r : r = [pc |-> "found", snapshot |-> desk[u].snapshot, key |-> ActiveSigner] OBVIOUS
  <2>2. desk' = [desk EXCEPT ![u] = r] /\ desk[u].pc = "read" BY <1>6, <2>1 DEF ReadActive, Sit
  <2>3. Says(r) BY <1>1, <2>1, <2>2
  <2> HIDE DEF Says
  <2> QED BY <1>4, <2>2, <2>3
<1>7. ASSUME NEW u \in Desks, UseSigner(u) PROVE Says(desk'[s])
  <2>1. PICK pc : desk[u].pc = "found" /\ desk' = [desk EXCEPT ![u] = [desk[u] EXCEPT !.pc = pc]]
    BY <1>7 DEF UseSigner, Sit
  <2>2. PICK r : r = [desk[u] EXCEPT !.pc = pc] OBVIOUS
  <2>3. KeyRequest(desk[u]) /\ RedrawsTrue(desk[u].snapshot) BY <1>1, <2>1 DEF DeskKnows
  <2>4. r.snapshot = desk[u].snapshot BY <2>2, <2>3, RequestReplaced
  <2>5. Says(r) BY <2>3, <2>4
  <2> HIDE DEF Says
  <2> QED BY <1>4, <2>1, <2>2, <2>5
<1>8. ASSUME NEW u \in Desks, Certify(u) PROVE Says(desk'[s])
  <2>1. desk' = [desk EXCEPT ![u] = Unoccupied] BY <1>8 DEF Certify, Sit
  <2> HIDE DEF Says
  <2> QED BY <1>3, <1>4, <2>1
<1>9. CASE CreateSigner
  <2>1. PICK new : desk' = [u \in Desks |-> IF desk[u].pc = "wait" THEN [desk[u] EXCEPT !.pc = "sign", !.key = new] ELSE desk[u]]
    BY <1>9 DEF CreateSigner
  <2>2. CASE desk[s].pc # "wait" BY <1>1, <2>1, <2>2
  <2>3. CASE desk[s].pc = "wait"
    <3>1. KeyRequest(desk[s]) /\ RedrawsTrue(desk[s].snapshot) BY <1>1, <2>3 DEF DeskKnows
    <3>2. PICK q : q = [desk[s] EXCEPT !.pc = "sign"] OBVIOUS
    <3>3. q = [pc |-> "sign", snapshot |-> desk[s].snapshot, key |-> desk[s].key] BY <3>1, <3>2, RequestReplaced
    <3>4. KeyRequest(q) /\ q.snapshot = desk[s].snapshot BY <3>3 DEF KeyRequest
    <3>5. desk'[s] = [q EXCEPT !.key = new] BY <2>1, <2>3, <3>2
    <3>6. desk'[s].snapshot = desk[s].snapshot BY <3>4, <3>5, RequestReplaced
    <3> QED BY <3>1, <3>6
  <2> QED BY <2>2, <2>3
<1>10. CASE desk' = desk \/ desk' = [u \in Desks |-> Unoccupied] BY <1>1, <1>3, <1>10
<1>11. ASSUME NEW i, ShareDetails(i) \/ VoidPaper(i) \/ EditRecord(i) PROVE desk' = desk
  BY <1>11 DEF ShareDetails, VoidPaper, EditRecord
<1>12. ASSUME Reprice \/ StopIssuing \/ (\E k \in DOMAIN signers : RetireSigner(k)) \/ UNCHANGED documentVars
       PROVE  desk' = desk \/ desk' = [u \in Desks |-> Unoccupied]
  BY <1>12 DEF Reprice, StopIssuing, RetireSigner, documentVars
<1>13. ASSUME (\E row \in sheet : CorrectWork(row)) \/ \E task \in {r.task : r \in sheet} : DeleteTask(task)
       PROVE  desk' = desk BY <1>13 DEF CorrectWork, DeleteTask
<1>14. ASSUME NEW u \in Desks, \/ \E only \in BOOLEAN : Draw(u, BuildContractor(sheet, only))
                               \/ Draw(u, BuildCustomer(sheet))
       PROVE  Says(desk'[s])
  <2> HIDE DEF Says
  <2> QED BY <1>2, <1>5, <1>14, ContractorRedraws, CustomerRedraws
<1> HIDE DEF Says
<1> QED BY <1>6, <1>7, <1>8, <1>9, <1>10, <1>11, <1>12, <1>13, <1>14 DEF DocumentNext

LEMMA AgreeKeeps == AgreeInv /\ [DocumentNext]_documentVars => AgreeInv'
<1> SUFFICES ASSUME AgreeInv, [DocumentNext]_documentVars PROVE AgreeInv' OBVIOUS
<1>1. DocumentInv' BY DocumentKeeps DEF AgreeInv
<1>2. IsFiniteSet(sheet') /\ prices' \in PriceLists BY SheetFinite
<1>3. \A i \in DOMAIN papers' : RedrawsTrue(papers'[i].snapshot) BY PapersKeep
<1>4. \A s \in Desks : desk'[s].pc \in {"read", "found", "wait", "sign"} => RedrawsTrue(desk'[s].snapshot) BY DesksKeep
<1>5. \A n : RedrawsTrue(n)' <=> RedrawsTrue(n) BY DEF RedrawsTrue, Redrawn
<1> QED BY <1>1, <1>2, <1>3, <1>4 DEF AgreeInv

LEMMA AgreeFollows == AgreeInv => DocumentsAgree
<1> SUFFICES ASSUME AgreeInv PROVE DocumentsAgree OBVIOUS
<1>1. RedrawnIsSigned BY DEF AgreeInv, RedrawnIsSigned, RedrawsTrue
<1>2. ASSUME NEW worked \in SUBSET Work PROVE CustomerAddsUp(worked) /\ ContractorAddsUp(worked)
  <2>1. Month(worked) BY SheetsHoldRows, FS_Subset DEF Month
  <2>2. prices \in PriceLists BY DEF AgreeInv
  <2> QED BY <2>1, <2>2, CustomerAdds, ContractorAdds
<1>3. DocumentsAddUp BY <1>2 DEF DocumentsAddUp
<1> QED BY <1>1, <1>3 DEF DocumentsAgree

\* Every document adds up, and is drawn again from its record as it was signed,
\* whatever became of the rates, the keys, the cards and the rows.
THEOREM AgreementStands == DocumentSpec => []DocumentsAgree
<1>1. DocumentInit => AgreeInv BY AgreeStarts
<1>2. AgreeInv /\ [DocumentNext]_documentVars => AgreeInv' BY AgreeKeeps
<1>3. AgreeInv => DocumentsAgree BY AgreeFollows
<1> QED BY <1>1, <1>2, <1>3, PTL DEF DocumentSpec
-----------------------------------------------------------------------------
\* Who may read a certified invoice (server/invoices/access.ts).

AccessCode == [who : Addresses, code : 1..MaxCodes, until : Int, attempts : Nat]
AccessColumn == [recipients : SUBSET Addresses, codes : SUBSET AccessCode]
Why == [result : {"none", "mail", "right", "wrong", "dead"}, code : 0..MaxCodes, at : Int]
AccessWrite ==
  [pc : {"write"}, op : {"request", "redeem", "share", "unshare"}, who : Addresses, why : Why,
   read : AccessColumn, next : AccessColumn]
Opening == [code : 1..MaxCodes, who : Addresses, at : Int, newest : BOOLEAN, guessed : Nat, named : BOOLEAN]

SharingTypes ==
  /\ column \in AccessColumn /\ moment \in Int /\ codesMade \in 0..MaxCodes
  /\ mailed \in SUBSET AccessCode /\ latest \in [Addresses -> Nat] /\ guesses \in [1..MaxCodes -> Nat]
  /\ opened \in Seq(Opening) /\ reading \in [ReadSlots -> {NoReader} \cup AccessWrite]

WasMailed(c) == \E m \in mailed : m.code = c.code /\ m.who = c.who /\ m.until = c.until
NotSpent(n) == \A i \in DOMAIN opened : opened[i].code # n
OneEach(codes) == \A c, d \in codes : c.who = d.who => c = d

\* A column that was written holds mailed codes, one for each address.
Written(col) == OneEach(col.codes) /\ \A c \in col.codes : WasMailed(c)

\* A handler writes back what it read, but for the code it mails or guessed against
\* and the address it is about.
Guessed(r, c) == \E e \in r.read.codes : e.code = r.why.code /\ e.code = c.code /\ e.who = c.who /\ e.until = c.until
Draws(r) ==
  /\ OneEach(r.next.codes)
  /\ \A c \in r.next.codes :
       \/ c \in r.read.codes
       \/ r.why.result = "mail" /\ c.code = r.why.code /\ c.who = r.who
       \/ r.why.result = "wrong" /\ Guessed(r, c)
  /\ \A a \in r.next.recipients : a \in r.read.recipients \/ (r.op = "share" /\ a = r.who)

Mails(r) ==
  r.why.result = "mail" =>
    /\ r.op = "request" /\ r.why.code \in 1..codesMade
    /\ r.who \in r.read.recipients \cup Standing
    /\ \A c \in r.next.codes : c.who = r.who => c.code = r.why.code
Guesses(r) ==
  r.why.result \in {"right", "wrong"} =>
    /\ r.op = "redeem"
    /\ \E e \in r.read.codes :
         /\ e.code = r.why.code /\ e.who = r.who /\ e.attempts < MaxAttempts /\ r.why.at < e.until
         /\ r.why.result = "wrong" => \A c \in r.next.codes : c.code = e.code => c.attempts = e.attempts + 1
    /\ r.why.result = "right" => \A c \in r.next.codes : c.who # r.who
Strikes(r) == r.op = "unshare" => r.who \notin r.next.recipients /\ \A c \in r.next.codes : c.who # r.who

Handles(r) == r.pc = "write" => Written(r.read) /\ Draws(r) /\ Mails(r) /\ Guesses(r) /\ Strikes(r)
ToMail(r) == r.pc = "write" /\ r.why.result = "mail"

\* Codes are mailed once, and nothing has happened to one that is still to be mailed.
Numbered ==
  /\ \A m \in mailed : m.code <= codesMade
  /\ \A m, n \in mailed : m.code = n.code => m.who = n.who
  /\ \A n \in 1..MaxCodes : (\A m \in mailed : m.code # n) => NotSpent(n) /\ guesses[n] = 0
  /\ \A s \in ReadSlots : ToMail(reading[s]) => \A m \in mailed : m.code # reading[s].why.code
  /\ \A s, t \in ReadSlots :
       ToMail(reading[s]) /\ ToMail(reading[t]) /\ reading[s].why.code = reading[t].why.code => s = t

\* A code that no write has lost is unspent, the last one mailed to its address and
\* counts every guess against it, and its address was not taken off the list.
StillGood(c) ==
  /\ NotSpent(c.code) /\ latest[c.who] = c.code /\ guesses[c.code] <= c.attempts
  /\ c.who \in Standing \cup lost.people \/ c.who \notin withdrawn
Sound ==
  /\ \A c \in column.codes : c.code \notin lost.codes => StillGood(c)
  /\ \A a \in column.recipients : a \in lost.people \/ a \notin withdrawn

SharingInv ==
  /\ SharingTypes /\ Written(column) /\ Numbered /\ Sound /\ DetailsAreEarned
  /\ \A s \in ReadSlots : Handles(reading[s])

LEMMA SharingStarts == SharingInit => SharingInv
<1> SUFFICES ASSUME SharingInit PROVE SharingInv OBVIOUS
<1>1. SharingTypes BY SharingAssumption DEF SharingInit, SharingTypes, AccessColumn
<1>2. \A s \in ReadSlots : reading[s].pc = "none" BY DEF SharingInit, NoReader
<1>3. Written(column) /\ Numbered /\ Sound
  BY <1>2 DEF SharingInit, Written, OneEach, Numbered, Sound, NotSpent, ToMail
<1>4. DetailsAreEarned BY DEF SharingInit, DetailsAreEarned
<1> QED BY <1>1, <1>2, <1>3, <1>4 DEF SharingInv, Handles

\* A request has read the column.
LEMMA RequestOpens ==
  ASSUME SharingInv, NEW s \in ReadSlots, NEW op, NEW who, NEW why, NEW next,
         Open(s, op, who, why, next),
         op \in {"request", "redeem", "share", "unshare"}, who \in Addresses, why \in Why, next \in AccessColumn,
         codesMade' \in 0..MaxCodes, codesMade <= codesMade',
         why.result = "mail" => why.code = codesMade + 1,
         \A r : /\ r.op = op /\ r.who = who /\ r.why = why /\ r.read = column /\ r.next = next
                => Draws(r) /\ Mails(r)' /\ Guesses(r) /\ Strikes(r)
  PROVE  SharingInv'
<1>1. PICK r : r = [pc |-> "write", op |-> op, who |-> who, why |-> why, read |-> column, next |-> next] OBVIOUS
<1>0. SharingTypes /\ Written(column) /\ Numbered /\ Sound /\ DetailsAreEarned /\ \A t \in ReadSlots : Handles(reading[t])
  BY DEF SharingInv
<1>2. /\ reading' = [reading EXCEPT ![s] = r] /\ UNCHANGED <<column, moment, mailed, latest, guesses, opened, withdrawn, lost>>
  BY <1>1 DEF Open, Reader, histories
<1>3. r \in AccessWrite BY <1>0, <1>1 DEF AccessWrite, SharingTypes
<1>4. r.pc = "write" /\ r.op = op /\ r.who = who /\ r.why = why /\ r.read = column /\ r.next = next BY <1>1
<1>5. \A t \in ReadSlots : reading'[t] = IF t = s THEN r ELSE reading[t] BY <1>0, <1>2 DEF SharingTypes
<1>6. SharingTypes' BY <1>0, <1>2, <1>3 DEF SharingTypes
<1>7. Written(column)' /\ Sound' /\ DetailsAreEarned'
  BY <1>0, <1>2 DEF Written, WasMailed, Sound, StillGood, NotSpent, DetailsAreEarned
<1>8. Numbered'
  <2>1. \A t \in ReadSlots : ToMail(reading[t]) => reading[t].why.code \in 1..codesMade BY <1>0 DEF Handles, Mails, ToMail
  <2>2. codesMade \in Nat /\ codesMade' \in Nat /\ \A m \in mailed : m.code \in Nat BY <1>0 DEF SharingTypes, AccessCode
  <2>3. ToMail(r) => r.why.code = codesMade + 1 BY <1>4 DEF ToMail
  <2>4. \A m \in mailed : m.code <= codesMade' /\ m.code # codesMade + 1 BY <1>0, <2>2 DEF Numbered
  <2>5. \A t \in ReadSlots : ToMail(reading[t]) => reading[t].why.code # codesMade + 1 BY <2>1, <2>2
  <2>6. \A t \in ReadSlots : ToMail(reading'[t]) => \A m \in mailed : m.code # reading'[t].why.code
    BY <1>0, <1>5, <2>3, <2>4 DEF Numbered
  <2>7. \A t, u \in ReadSlots :
          ToMail(reading'[t]) /\ ToMail(reading'[u]) /\ reading'[t].why.code = reading'[u].why.code => t = u
    BY <1>0, <1>5, <2>3, <2>5 DEF Numbered
  <2> QED BY <1>0, <1>2, <2>4, <2>6, <2>7 DEF Numbered, NotSpent, ToMail
<1>9. ASSUME NEW t \in ReadSlots PROVE Handles(reading[t])'
  <2>1. CASE t = s
    <3>1. Draws(r) /\ Mails(r)' /\ Guesses(r) /\ Strikes(r) BY <1>4
    <3>2. Written(r.read)' BY <1>0, <1>2, <1>4 DEF Written, WasMailed
    <3> QED BY <1>5, <2>1, <3>1, <3>2 DEF Handles, Draws, Mails, Guesses, Strikes, Guessed
  <2>2. CASE t # s
    <3>1. reading'[t] = reading[t] /\ Handles(reading[t]) BY <1>0, <1>5, <2>2
    <3>2. codesMade \in Nat /\ codesMade' \in Nat BY <1>0 DEF SharingTypes
    <3>3. \A n \in 1..codesMade : n \in 1..codesMade' BY <3>2
    <3> QED BY <1>2, <3>1, <3>3 DEF Handles, Written, WasMailed, Draws, Mails, Guesses, Strikes, Guessed
  <2> QED BY <2>1, <2>2
<1> QED BY <1>6, <1>7, <1>8, <1>9 DEF SharingInv

LEMMA RequestCodeKeeps == ASSUME SharingInv, NEW s \in ReadSlots, NEW who \in Addresses, RequestCode(s, who) PROVE SharingInv'
<1> DEFINE code == [who |-> who, code |-> codesMade + 1, until |-> moment + CodeLife, attempts |-> 0]
           kept == {c \in CodesBut(who) : c.until > moment}
           next == [column EXCEPT !.codes = LastFew(kept \cup {code})]
           why == [result |-> "mail", code |-> codesMade + 1, at |-> moment]
<1>0. SharingTypes /\ Written(column) BY DEF SharingInv
<1>1. /\ Open(s, "request", who, why, next) /\ who \in column.recipients \cup Standing
      /\ codesMade < MaxCodes /\ codesMade' = codesMade + 1
  BY DEF RequestCode
<1>2. codesMade + 1 \in 1..MaxCodes /\ codesMade' \in 0..MaxCodes /\ codesMade <= codesMade' /\ codesMade + 1 \in 1..codesMade'
  BY <1>0, <1>1, SharingAssumption DEF SharingTypes
<1>3. code \in AccessCode /\ code.who = who /\ code.code = codesMade + 1
  BY <1>0, <1>2, SharingAssumption DEF SharingTypes, AccessCode
<1> HIDE DEF code
<1>4. LastFew(kept \cup {code}) \subseteq {c \in column.codes : c.who # who} \cup {code} BY DEF LastFew, CodesBut
<1>5. /\ next \in AccessColumn /\ next.recipients = column.recipients
      /\ next.codes \subseteq {c \in column.codes : c.who # who} \cup {code}
  BY <1>0, <1>3, <1>4 DEF SharingTypes, AccessColumn
<1>6. why \in Why /\ why.result = "mail" /\ why.code = codesMade + 1 BY <1>0, <1>2 DEF Why, SharingTypes
<1> HIDE DEF next, why
<1>7. OneEach(next.codes) BY <1>0, <1>3, <1>5 DEF Written, OneEach
<1>8. ASSUME NEW r, r.op = "request" /\ r.who = who /\ r.why = why /\ r.read = column /\ r.next = next
      PROVE  Draws(r) /\ Mails(r)' /\ Guesses(r) /\ Strikes(r)
  <2>1. Draws(r) BY <1>3, <1>5, <1>6, <1>7, <1>8 DEF Draws
  <2>2. Mails(r)' BY <1>1, <1>2, <1>3, <1>5, <1>6, <1>8 DEF Mails
  <2> QED BY <1>6, <1>8, <2>1, <2>2 DEF Guesses, Strikes
<1> QED BY <1>1, <1>2, <1>5, <1>6, <1>8, RequestOpens

LEMMA RedeemCodeKeeps ==
  ASSUME SharingInv, NEW s \in ReadSlots, NEW who \in Addresses, NEW typed \in 1..MaxCodes, RedeemCode(s, who, typed)
  PROVE  SharingInv'
<1>0. SharingTypes /\ Written(column) BY DEF SharingInv
<1>1. PICK entry \in {c \in column.codes : c.who = who} :
        LET verdict == AnswerTo(entry, typed) IN
        /\ Open(s, "redeem", who, [result |-> verdict, code |-> entry.code, at |-> moment],
                [column EXCEPT !.codes = IF verdict = "wrong" THEN Wrong(entry) ELSE CodesBut(who)])
        /\ UNCHANGED codesMade
  BY DEF RedeemCode
<1>2. PICK verdict : verdict = AnswerTo(entry, typed) OBVIOUS
<1> DEFINE codes == IF verdict = "wrong" THEN Wrong(entry) ELSE CodesBut(who)
           next == [column EXCEPT !.codes = codes]
           why == [result |-> verdict, code |-> entry.code, at |-> moment]
           tried == [entry EXCEPT !.attempts = @ + 1]
<1>3. Open(s, "redeem", who, why, next) /\ UNCHANGED codesMade BY <1>1, <1>2
<1>4. entry \in AccessCode /\ entry \in column.codes /\ entry.who = who BY <1>0 DEF SharingTypes, AccessColumn
<1>5. /\ tried \in AccessCode /\ tried.who = who /\ tried.code = entry.code /\ tried.until = entry.until
      /\ tried.attempts = entry.attempts + 1
  BY <1>4 DEF AccessCode
<1> HIDE DEF tried
<1>6. /\ verdict # "wrong" => codes = CodesBut(who)
      /\ verdict = "wrong" => codes = CodesBut(who) \/ codes = (column.codes \ {entry}) \cup {tried}
  BY <1>4 DEF Wrong, tried
<1>7. /\ verdict \in {"right", "wrong", "dead"}
      /\ verdict \in {"right", "wrong"} => moment < entry.until /\ entry.attempts < MaxAttempts
  <2>1. entry.until \in Int /\ moment \in Int /\ entry.attempts \in Nat /\ MaxAttempts \in Nat
    BY <1>0, <1>4, SharingAssumption DEF SharingTypes, AccessCode
  <2> QED BY <1>2, <2>1 DEF AnswerTo
<1>8. why \in Why /\ why.result = verdict /\ why.code = entry.code /\ why.at = moment
  BY <1>0, <1>4, <1>7, SharingAssumption DEF Why, SharingTypes, AccessCode
<1>9. CodesBut(who) = {c \in column.codes : c.who # who} BY DEF CodesBut
<1>10. codes \subseteq column.codes \cup {tried} /\ codes \subseteq AccessCode BY <1>0, <1>5, <1>6, <1>9 DEF SharingTypes, AccessColumn
<1> HIDE DEF codes, why
<1>11. next \in AccessColumn /\ next.codes = codes /\ next.recipients = column.recipients
  BY <1>0, <1>10 DEF SharingTypes, AccessColumn
<1> HIDE DEF next
<1>12. \A c \in column.codes : c.who = who => c = entry BY <1>0, <1>4 DEF Written, OneEach
<1>13. OneEach(codes) BY <1>0, <1>5, <1>6, <1>9, <1>12 DEF Written, OneEach
<1>14. ASSUME NEW c \in codes, verdict = "wrong", c.code = entry.code PROVE c.attempts = entry.attempts + 1
  <2>1. CASE c = tried BY <1>5, <2>1
  <2>2. CASE c \in column.codes /\ c.who # who
    <3>1. PICK m \in mailed : m.code = c.code /\ m.who = c.who BY <1>0, <2>2 DEF Written, WasMailed
    <3>2. PICK n \in mailed : n.code = entry.code /\ n.who = entry.who BY <1>0, <1>4 DEF Written, WasMailed
    <3> QED BY <1>4, <1>14, <2>2, <3>1, <3>2 DEF SharingInv, Numbered
  <2> QED BY <1>6, <1>9, <1>12, <1>14, <2>1, <2>2
<1>15. ASSUME NEW r, r.op = "redeem" /\ r.who = who /\ r.why = why /\ r.read = column /\ r.next = next
       PROVE  Draws(r) /\ Mails(r)' /\ Guesses(r) /\ Strikes(r)
  <2>1. \A c \in codes : c \in column.codes \/ (verdict = "wrong" /\ c = tried) BY <1>6, <1>9
  <2>2. Draws(r) BY <1>4, <1>5, <1>8, <1>11, <1>13, <1>15, <2>1 DEF Draws, Guessed
  <2>3. Guesses(r) BY <1>4, <1>6, <1>7, <1>8, <1>9, <1>11, <1>14, <1>15 DEF Guesses
  <2> QED BY <1>7, <1>8, <1>15, <2>2, <2>3 DEF Mails, Strikes
<1>16. codesMade' \in 0..MaxCodes /\ codesMade <= codesMade' BY <1>0, <1>3 DEF SharingTypes
<1> QED BY <1>3, <1>7, <1>8, <1>11, <1>15, <1>16, RequestOpens

LEMMA ListKeeps == ASSUME SharingInv, NEW s \in ReadSlots, NEW who \in Addresses, Share(s, who) \/ Unshare(s, who) PROVE SharingInv'
<1>0. SharingTypes /\ Written(column) BY DEF SharingInv
<1>1. Plain \in Why /\ Plain.result = "none" BY SharingAssumption DEF Plain, Why
<1>2. UNCHANGED codesMade => codesMade' \in 0..MaxCodes /\ codesMade <= codesMade' BY <1>0 DEF SharingTypes
<1>3. CASE Share(s, who)
  <2> DEFINE list == IF Cardinality(column.recipients) < MaxRecipients THEN column.recipients \cup {who} ELSE column.recipients
             next == [column EXCEPT !.recipients = list]
  <2>1. list \subseteq Addresses /\ \A a \in list : a \in column.recipients \/ a = who
    BY <1>0 DEF SharingTypes, AccessColumn
  <2>2. Open(s, "share", who, Plain, next) /\ UNCHANGED codesMade BY <1>3 DEF Share
  <2> HIDE DEF list
  <2>3. next \in AccessColumn /\ next.codes = column.codes /\ next.recipients = list
    BY <1>0, <2>1 DEF SharingTypes, AccessColumn
  <2> HIDE DEF next
  <2>4. ASSUME NEW r, r.op = "share" /\ r.who = who /\ r.why = Plain /\ r.read = column /\ r.next = next
        PROVE  Draws(r) /\ Mails(r)' /\ Guesses(r) /\ Strikes(r)
    BY <1>0, <1>1, <2>1, <2>3, <2>4 DEF Draws, Mails, Guesses, Strikes, Written
  <2> QED BY <1>1, <1>2, <2>2, <2>3, <2>4, RequestOpens
<1>4. CASE Unshare(s, who)
  <2> DEFINE next == [column EXCEPT !.recipients = @ \ {who}, !.codes = CodesBut(who)]
  <2>1. Open(s, "unshare", who, Plain, next) /\ UNCHANGED codesMade BY <1>4 DEF Unshare
  <2>2. next \in AccessColumn /\ next.codes = {c \in column.codes : c.who # who} /\ next.recipients = column.recipients \ {who}
    BY <1>0 DEF SharingTypes, AccessColumn, CodesBut
  <2> HIDE DEF next
  <2>3. ASSUME NEW r, r.op = "unshare" /\ r.who = who /\ r.why = Plain /\ r.read = column /\ r.next = next
        PROVE  Draws(r) /\ Mails(r)' /\ Guesses(r) /\ Strikes(r)
    BY <1>0, <1>1, <2>2, <2>3 DEF Draws, Mails, Guesses, Strikes, Written, OneEach
  <2> QED BY <1>1, <1>2, <2>1, <2>2, <2>3, RequestOpens
<1> QED BY <1>3, <1>4

LEMMA WriteAccessKeeps == ASSUME SharingInv, NEW s \in ReadSlots, WriteAccess(s) PROVE SharingInv'
<1>0. SharingTypes /\ Written(column) /\ Numbered /\ Sound /\ DetailsAreEarned /\ \A t \in ReadSlots : Handles(reading[t])
  BY DEF SharingInv
<1>1. PICK r : r = reading[s] OBVIOUS
<1>2. PICK o : o = [code |-> r.why.code, who |-> r.who, at |-> r.why.at, newest |-> latest[r.who] = r.why.code,
                    guessed |-> guesses[r.why.code], named |-> r.who \notin withdrawn]
  OBVIOUS
<1>3. /\ r.pc = "write" /\ column' = r.next /\ reading' = [reading EXCEPT ![s] = NoReader]
      /\ UNCHANGED <<moment, codesMade>>
      /\ lost' = [codes |-> lost.codes \cup Loses(r).codes, people |-> lost.people \cup Loses(r).people]
      /\ mailed' = IF r.why.result = "mail" THEN mailed \cup {c \in r.next.codes : c.code = r.why.code} ELSE mailed
      /\ latest' = IF r.why.result = "mail" THEN [latest EXCEPT ![r.who] = r.why.code] ELSE latest
      /\ guesses' = IF r.why.result = "wrong" THEN [guesses EXCEPT ![r.why.code] = @ + 1] ELSE guesses
      /\ opened' = IF r.why.result # "right" THEN opened ELSE Append(opened, o)
      /\ withdrawn' = CASE r.op = "unshare" -> withdrawn \cup {r.who}
                        [] r.op = "share" /\ r.who \in r.next.recipients -> withdrawn \ {r.who}
                        [] OTHER -> withdrawn
  BY <1>1, <1>2 DEF WriteAccess, Reader
<1>4. r \in AccessWrite /\ Handles(r)
  <2>1. r \in {NoReader} \cup AccessWrite /\ Handles(r) BY <1>0, <1>1 DEF SharingTypes
  <2>2. NoReader.pc # "write" BY DEF NoReader
  <2> QED BY <1>3, <2>1, <2>2
<1>5. /\ r.next \in AccessColumn /\ r.read \in AccessColumn /\ r.who \in Addresses /\ r.why \in Why
      /\ r.op \in {"request", "redeem", "share", "unshare"}
      /\ Written(r.read) /\ Draws(r) /\ Mails(r) /\ Guesses(r) /\ Strikes(r)
  BY <1>3, <1>4 DEF AccessWrite, Handles
<1>6. \A t \in ReadSlots : reading'[t] = IF t = s THEN NoReader ELSE reading[t] BY <1>0, <1>3 DEF SharingTypes
<1>7. NoReader.pc = "none" BY DEF NoReader
\* What was not lost is as it was read.
<1>8. /\ lost.codes \subseteq lost'.codes /\ lost.people \subseteq lost'.people
      /\ \A c : c.code \notin lost'.codes => (c \in r.read.codes <=> c \in column.codes)
      /\ \A a : a \notin lost'.people => (a \in r.read.recipients <=> a \in column.recipients)
  <2>1. /\ lost'.codes = lost.codes \cup {c.code : c \in Differ(r.read.codes, column.codes)}
        /\ lost'.people = lost.people \cup Differ(r.read.recipients, column.recipients)
    BY <1>3 DEF Loses
  <2> QED BY <2>1 DEF Differ
<1>9. \A c \in mailed : c \in mailed' BY <1>3
<1>10. r.why.result = "mail" => \A m \in mailed : m.code # r.why.code
  BY <1>0, <1>1, <1>3 DEF Numbered, ToMail
<1>11. \A c : WasMailed(c) => WasMailed(c)' BY <1>9 DEF WasMailed
<1>12. \A c, d : WasMailed(c) /\ WasMailed(d) /\ c.code = d.code => c.who = d.who BY <1>0 DEF WasMailed, Numbered
<1>13. \A c \in r.next.codes : c.code = r.why.code /\ r.why.result = "mail" => c.who = r.who
  BY <1>5, <1>10 DEF Draws, Written, WasMailed
<1>14. SharingTypes'
  <2>1. r.why.code \in 0..MaxCodes /\ r.why.at \in Int BY <1>5 DEF Why
  <2>2. r.why.result \in {"right", "wrong"} => r.why.code \in 1..MaxCodes
    BY <1>5 DEF Guesses, AccessColumn, AccessCode
  <2>3. mailed' \in SUBSET AccessCode BY <1>0, <1>3, <1>5 DEF SharingTypes, AccessColumn
  <2>4. latest' \in [Addresses -> Nat]
    <3>1. r.why.code \in Nat BY <2>1, SharingAssumption
    <3> QED BY <1>0, <1>3, <3>1 DEF SharingTypes
  <2>5. guesses' \in [1..MaxCodes -> Nat]
    <3>1. r.why.result = "wrong" => guesses[r.why.code] + 1 \in Nat BY <1>0, <2>2 DEF SharingTypes
    <3> QED BY <1>0, <1>3, <3>1 DEF SharingTypes
  <2>6. r.why.result = "right" => o \in Opening BY <1>0, <1>2, <1>5, <2>1, <2>2 DEF SharingTypes, Opening
  <2>7. opened' \in Seq(Opening) BY <1>0, <1>3, <2>6 DEF SharingTypes
  <2>8. reading' \in [ReadSlots -> {NoReader} \cup AccessWrite] BY <1>0, <1>3 DEF SharingTypes
  <2> QED BY <1>0, <1>3, <1>5, <2>3, <2>4, <2>5, <2>7, <2>8 DEF SharingTypes
<1>15. /\ r.why.result # "right" => opened' = opened
       /\ r.why.result = "right" =>
            /\ DOMAIN opened' = DOMAIN opened \cup {Len(opened) + 1} /\ opened'[Len(opened) + 1] = o
            /\ Len(opened) + 1 \notin DOMAIN opened /\ \A i \in DOMAIN opened : opened'[i] = opened[i]
  BY <1>0, <1>3 DEF SharingTypes
<1>16. \A n : NotSpent(n) /\ ~(r.why.result = "right" /\ r.why.code = n) => NotSpent(n)'
  BY <1>2, <1>15 DEF NotSpent
<1>17. Written(column)'
  <2>1. ASSUME NEW c \in r.next.codes PROVE WasMailed(c)'
    <3>1. CASE c \in r.read.codes BY <1>5, <1>11, <3>1 DEF Written
    <3>2. CASE r.why.result = "mail" /\ c.code = r.why.code BY <1>3, <3>2 DEF WasMailed
    <3>3. CASE Guessed(r, c)
      <4>1. PICK e \in r.read.codes : e.code = c.code /\ e.who = c.who /\ e.until = c.until BY <3>3 DEF Guessed
      <4>2. WasMailed(e)' BY <1>5, <1>11 DEF Written
      <4> QED BY <4>1, <4>2 DEF WasMailed
    <3> QED BY <1>5, <3>1, <3>2, <3>3 DEF Draws
  <2> QED BY <1>3, <1>5, <2>1 DEF Written, Draws
\* The entry a guess is answered by, when no write has come between.
<1>18. r.why.result \in {"right", "wrong"} =>
         \E e \in r.read.codes :
           /\ e.code = r.why.code /\ e.who = r.who /\ e.attempts < MaxAttempts /\ r.why.at < e.until
           /\ r.why.result = "wrong" => \A c \in r.next.codes : c.code = e.code => c.attempts = e.attempts + 1
           /\ WasMailed(e)
           /\ e.code \notin lost'.codes => StillGood(e)
  <2>1. ASSUME NEW e \in r.read.codes, e.code \notin lost'.codes PROVE StillGood(e) BY <1>0, <1>8, <2>1 DEF Sound
  <2> QED BY <1>5, <2>1 DEF Guesses, Written
<1>19. Numbered'
  <2>1. codesMade \in Nat /\ (r.why.result = "mail" => r.why.code \in 1..codesMade)
    BY <1>0, <1>5 DEF SharingTypes, Mails
  <2>2. \A m \in mailed' : m.code <= codesMade BY <1>0, <1>3, <2>1 DEF Numbered
  <2>3. \A m, n \in mailed' : m.code = n.code => m.who = n.who BY <1>0, <1>3, <1>10, <1>13 DEF Numbered
  <2>4. ASSUME NEW n \in 1..MaxCodes, \A m \in mailed' : m.code # n PROVE NotSpent(n)' /\ guesses'[n] = 0
    <3>1. NotSpent(n) /\ guesses[n] = 0 BY <1>0, <1>9, <2>4 DEF Numbered
    <3>2. r.why.result \in {"right", "wrong"} => r.why.code # n BY <1>9, <1>18, <2>4 DEF WasMailed
    <3> QED BY <1>0, <1>3, <1>16, <3>1, <3>2 DEF SharingTypes
  <2>5. ASSUME NEW t \in ReadSlots, ToMail(reading[t])', NEW m \in mailed' PROVE m.code # reading'[t].why.code
    <3>1. t # s /\ reading'[t] = reading[t] /\ ToMail(reading[t]) BY <1>6, <1>7, <2>5 DEF ToMail
    <3>2. ToMail(r) => r.why.code # reading[t].why.code BY <1>0, <1>1, <3>1 DEF Numbered
    <3> QED BY <1>0, <1>3, <3>1, <3>2 DEF Numbered, ToMail
  <2>6. \A t, u \in ReadSlots :
          ToMail(reading[t])' /\ ToMail(reading[u])' /\ reading'[t].why.code = reading'[u].why.code => t = u
    BY <1>0, <1>6, <1>7 DEF Numbered, ToMail
  <2> QED BY <1>3, <2>2, <2>3, <2>4, <2>5, <2>6 DEF Numbered
<1>20. Sound'
  <2>1. ASSUME NEW a \in r.next.recipients, a \notin lost'.people PROVE a \notin withdrawn'
    <3>1. CASE a \in r.read.recipients
      <4>1. a \notin withdrawn BY <1>0, <1>8, <2>1, <3>1 DEF Sound
      <4> QED BY <1>3, <1>5, <4>1 DEF Strikes
    <3>2. CASE r.op = "share" /\ a = r.who BY <1>3, <3>2
    <3> QED BY <1>5, <3>1, <3>2 DEF Draws
  <2>2. ASSUME NEW c \in r.next.codes, c.code \notin lost'.codes PROVE StillGood(c)'
    <3>0. c \in AccessCode /\ (r.op # "unshare" => withdrawn' \subseteq withdrawn) BY <1>3, <1>5 DEF AccessColumn
    <3>1. CASE c \in r.read.codes
      <4>1. StillGood(c) /\ WasMailed(c) BY <1>0, <1>5, <1>8, <2>2, <3>1 DEF Sound, Written
      <4>2. NotSpent(c.code)'
        <5>1. r.why.result = "right" => r.why.code # c.code BY <1>5, <1>12, <1>18, <4>1 DEF Guesses
        <5> QED BY <1>16, <4>1, <5>1 DEF StillGood
      <4>3. latest'[c.who] = c.code BY <1>0, <1>3, <1>5, <3>0, <4>1 DEF StillGood, SharingTypes, Mails
      <4>4. guesses'[c.code] <= c.attempts
        <5>1. CASE r.why.result = "wrong" /\ r.why.code = c.code
          <6>1. PICK e \in r.read.codes :
                  /\ e.code = r.why.code /\ (e.code \notin lost'.codes => StillGood(e))
                  /\ \A d \in r.next.codes : d.code = e.code => d.attempts = e.attempts + 1
            BY <1>18, <5>1
          <6>2. guesses[c.code] <= e.attempts /\ c.attempts = e.attempts + 1 BY <2>2, <5>1, <6>1 DEF StillGood
          <6>3. guesses[c.code] \in Nat /\ e.attempts \in Nat /\ guesses'[c.code] = guesses[c.code] + 1
            BY <1>0, <1>3, <1>5, <3>0, <5>1 DEF SharingTypes, AccessColumn, AccessCode
          <6> QED BY <6>2, <6>3
        <5>2. CASE ~(r.why.result = "wrong" /\ r.why.code = c.code)
          BY <1>0, <1>3, <3>0, <4>1, <5>2 DEF StillGood, SharingTypes, AccessCode
        <5> QED BY <5>1, <5>2
      <4>5. c.who \in Standing \cup lost'.people \/ c.who \notin withdrawn'
        BY <1>3, <1>5, <1>8, <3>0, <4>1 DEF StillGood, Strikes
      <4> QED BY <4>2, <4>3, <4>4, <4>5 DEF StillGood
    <3>2. CASE r.why.result = "mail" /\ c.code = r.why.code /\ c.who = r.who
      <4>1. NotSpent(c.code) /\ guesses[c.code] = 0 BY <1>0, <1>10, <3>0, <3>2 DEF Numbered, AccessCode
      <4>2. NotSpent(c.code)' /\ guesses'[c.code] <= c.attempts BY <1>3, <1>16, <3>0, <3>2, <4>1 DEF AccessCode
      <4>3. latest'[c.who] = c.code BY <1>0, <1>3, <1>5, <3>2 DEF SharingTypes
      <4>4. c.who \in Standing \cup lost'.people \/ c.who \notin withdrawn'
        <5>1. r.op = "request" /\ r.who \in r.read.recipients \cup Standing BY <1>5, <3>2 DEF Mails
        <5>2. CASE r.who \in r.read.recipients /\ r.who \notin lost'.people
          <6>1. r.who \notin withdrawn BY <1>0, <1>8, <5>2 DEF Sound
          <6> QED BY <3>0, <3>2, <5>1, <6>1
        <5> QED BY <3>2, <5>1, <5>2
      <4> QED BY <4>2, <4>3, <4>4 DEF StillGood
    <3>3. CASE r.why.result = "wrong" /\ Guessed(r, c)
      <4>1. c.code = r.why.code BY <3>3 DEF Guessed
      <4>2. PICK e \in r.read.codes :
              /\ e.code = r.why.code /\ (e.code \notin lost'.codes => StillGood(e))
              /\ e.who = r.who /\ WasMailed(e)
              /\ \A d \in r.next.codes : d.code = e.code => d.attempts = e.attempts + 1
        BY <1>18, <3>3
      <4>3. StillGood(e) /\ c.attempts = e.attempts + 1 BY <2>2, <4>1, <4>2
      <4>4. c.who = e.who
        <5>1. PICK d \in r.read.codes : d.code = c.code /\ d.who = c.who BY <3>3 DEF Guessed
        <5>2. WasMailed(d) BY <1>5 DEF Written
        <5> QED BY <1>12, <4>1, <4>2, <5>1, <5>2
      <4>5. guesses[c.code] \in Nat /\ e.attempts \in Nat /\ guesses'[c.code] = guesses[c.code] + 1
        BY <1>0, <1>3, <1>5, <3>0, <3>3, <4>1 DEF SharingTypes, AccessColumn, AccessCode
      <4>6. guesses'[c.code] <= c.attempts BY <4>1, <4>2, <4>3, <4>5 DEF StillGood
      <4>7. NotSpent(c.code)' /\ latest'[c.who] = c.code BY <1>3, <1>16, <3>3, <4>1, <4>2, <4>3, <4>4 DEF StillGood
      <4>8. r.op = "redeem" BY <1>5, <3>3 DEF Guesses
      <4>9. c.who \in Standing \cup lost'.people \/ c.who \notin withdrawn'
        BY <1>8, <3>0, <4>3, <4>4, <4>8 DEF StillGood
      <4> QED BY <4>6, <4>7, <4>9 DEF StillGood
    <3> QED BY <1>5, <3>1, <3>2, <3>3 DEF Draws
  <2> QED BY <1>3, <2>1, <2>2 DEF Sound
<1>21. DetailsAreEarned'
  <2>1. ASSUME NEW i \in DOMAIN opened
        PROVE  /\ \E m \in mailed' : m.code = opened[i].code /\ m.who = opened[i].who /\ opened[i].at < m.until
               /\ opened[i].code \notin lost'.codes =>
                    /\ \A j \in DOMAIN opened : opened[j].code = opened[i].code => j = i
                    /\ opened[i].newest /\ opened[i].guessed < MaxAttempts
                    /\ opened[i].named \/ opened[i].who \in Standing \cup lost'.people
    BY <1>0, <1>8, <1>9 DEF DetailsAreEarned
  <2>2. CASE r.why.result # "right" BY <1>3, <1>15, <2>1, <2>2 DEF DetailsAreEarned
  <2>3. CASE r.why.result = "right"
    <3>1. PICK e \in r.read.codes :
            /\ e.code = r.why.code /\ e.who = r.who /\ e.attempts < MaxAttempts /\ r.why.at < e.until
            /\ WasMailed(e) /\ (e.code \notin lost'.codes => StillGood(e))
      BY <1>18, <2>3
    <3>2. \E m \in mailed' : m.code = o.code /\ m.who = o.who /\ o.at < m.until
      BY <1>2, <1>11, <3>1 DEF WasMailed
    <3>3. ASSUME o.code \notin lost'.codes
          PROVE  /\ NotSpent(o.code) /\ o.newest /\ o.guessed < MaxAttempts
                 /\ o.named \/ o.who \in Standing \cup lost'.people
      <4>1. o.code = e.code /\ o.who = e.who /\ StillGood(e) BY <1>2, <3>1, <3>3
      <4>2. guesses[e.code] <= e.attempts /\ e.attempts < MaxAttempts /\ o.guessed = guesses[e.code]
        BY <1>2, <3>1, <4>1 DEF StillGood
      <4>3. guesses[e.code] \in Nat /\ e.attempts \in Nat /\ MaxAttempts \in Nat
        BY <1>0, <1>5, SharingAssumption DEF SharingTypes, AccessColumn, AccessCode
      <4>4. o.guessed < MaxAttempts BY <4>2, <4>3
      <4>5. o.newest /\ (o.named <=> e.who \notin withdrawn) BY <1>2, <3>1, <4>1 DEF StillGood
      <4> QED BY <1>8, <4>1, <4>4, <4>5 DEF StillGood
    <3>4. \A j \in DOMAIN opened : opened[j].code = o.code => o.code \in lost'.codes BY <3>3 DEF NotSpent
    <3>5. ASSUME NEW i \in DOMAIN opened'
          PROVE  /\ \E m \in mailed' : m.code = opened'[i].code /\ m.who = opened'[i].who /\ opened'[i].at < m.until
                 /\ opened'[i].code \notin lost'.codes =>
                      /\ \A j \in DOMAIN opened' : opened'[j].code = opened'[i].code => j = i
                      /\ opened'[i].newest /\ opened'[i].guessed < MaxAttempts
                      /\ opened'[i].named \/ opened'[i].who \in Standing \cup lost'.people
      <4>1. CASE i \in DOMAIN opened
        <5>1. opened'[i] = opened[i] BY <1>15, <2>3, <4>1
        <5>2. opened[i].code \notin lost'.codes => \A j \in DOMAIN opened' : opened'[j].code = opened[i].code => j = i
          BY <1>15, <2>1, <2>3, <3>4, <4>1
        <5> QED BY <2>1, <4>1, <5>1, <5>2
      <4>2. CASE i = Len(opened) + 1
        <5>1. opened'[i] = o BY <1>15, <2>3, <4>2
        <5>2. o.code \notin lost'.codes => \A j \in DOMAIN opened' : opened'[j].code = o.code => j = i
          BY <1>15, <2>3, <3>4, <4>2
        <5> QED BY <3>2, <3>3, <5>1, <5>2
      <4> QED BY <1>15, <2>3, <4>1, <4>2
    <3> QED BY <3>5 DEF DetailsAreEarned
  <2> QED BY <2>2, <2>3
<1>22. ASSUME NEW t \in ReadSlots PROVE Handles(reading[t])'
  <2>1. CASE t = s BY <1>6, <1>7, <2>1 DEF Handles
  <2>2. CASE t # s
    <3>1. reading'[t] = reading[t] /\ Handles(reading[t]) BY <1>0, <1>6, <2>2
    <3>2. Written(reading[t].read) => Written(reading[t].read)' BY <1>11, <3>1 DEF Written
    <3> QED BY <1>3, <3>1, <3>2 DEF Handles, Draws, Mails, Guesses, Strikes, Guessed
  <2> QED BY <2>1, <2>2
<1> QED BY <1>14, <1>17, <1>19, <1>20, <1>21, <1>22 DEF SharingInv

LEMMA SharingSteps == SharingInv /\ [SharingNext]_sharingVars => SharingInv'
<1> SUFFICES ASSUME SharingInv, [SharingNext]_sharingVars PROVE SharingInv' OBVIOUS
<1>0. SharingTypes /\ Numbered /\ \A s \in ReadSlots : Handles(reading[s]) BY DEF SharingInv
<1>1. ASSUME UNCHANGED <<column, codesMade, mailed, latest, guesses, opened, withdrawn, lost>>, SharingTypes', Numbered',
             \A s \in ReadSlots : Handles(reading[s])'
      PROVE  SharingInv'
  BY <1>1 DEF SharingInv, Written, WasMailed, Sound, StillGood, NotSpent, DetailsAreEarned
<1>2. CASE UNCHANGED sharingVars \/ TimePasses
  <2>1. UNCHANGED <<column, codesMade, mailed, latest, guesses, opened, withdrawn, lost, reading>> /\ moment' \in Int
    BY <1>0, <1>2 DEF sharingVars, histories, TimePasses, SharingTypes
  <2>2. Numbered' BY <1>0, <2>1 DEF Numbered, NotSpent, ToMail
  <2>3. \A s \in ReadSlots : Handles(reading[s])'
    BY <1>0, <2>1 DEF Handles, Written, WasMailed, Draws, Mails, Guesses, Strikes, Guessed
  <2> QED BY <1>0, <1>1, <2>1, <2>2, <2>3 DEF SharingTypes
<1>3. CASE StopReading
  <2>1. UNCHANGED <<column, moment, codesMade, mailed, latest, guesses, opened, withdrawn, lost>>
    BY <1>3 DEF StopReading, histories
  <2>2. reading' \in [ReadSlots -> {NoReader} \cup AccessWrite] /\ \A s \in ReadSlots : reading'[s].pc = "none"
    BY <1>3 DEF StopReading, NoReader
  <2>3. Numbered' BY <1>0, <2>1, <2>2 DEF Numbered, NotSpent, ToMail
  <2>4. \A s \in ReadSlots : Handles(reading[s])' BY <2>2 DEF Handles
  <2> QED BY <1>0, <1>1, <2>1, <2>2, <2>3, <2>4 DEF SharingTypes
<1> QED BY <1>2, <1>3, RequestCodeKeeps, RedeemCodeKeeps, ListKeeps, WriteAccessKeeps DEF SharingNext

\* The details open for a code that was mailed to that address and has not expired;
\* unless a write has overwritten a change made to the code or to the address, once
\* for each code, for the newest one, within the allowed guesses, and to nobody who
\* was taken off the list.
THEOREM DetailsStayEarned == SharingSpec => []DetailsAreEarned
<1>1. SharingInv => DetailsAreEarned BY DEF SharingInv
<1> QED BY <1>1, SharingStarts, SharingSteps, PTL DEF SharingSpec
-----------------------------------------------------------------------------
\* Imports (server/importers/apply.ts).

\* How often an element stands in a sequence.
LEMMA RepeatsGrow ==
  ASSUME NEW S, NEW s \in Seq(S), NEW k
  PROVE  /\ Repeats(<<>>, k) = 0 /\ Repeats(s, k) \in Nat
         /\ \A x \in S : Repeats(Append(s, x), k) = IF x = k THEN Repeats(s, k) + 1 ELSE Repeats(s, k)
<1> DEFINE At(t) == {i \in DOMAIN t : t[i] = k}
<1>1. \A t \in Seq(S) : IsFiniteSet(At(t))
  <2> SUFFICES ASSUME NEW t \in Seq(S) PROVE IsFiniteSet(At(t)) OBVIOUS
  <2>1. IsFiniteSet(1..Len(t)) BY FS_Interval
  <2>2. At(t) \in SUBSET (1..Len(t)) OBVIOUS
  <2> HIDE DEF At
  <2> QED BY <2>1, <2>2, FS_Subset
<1>2. Repeats(<<>>, k) = 0
  <2>1. {i \in DOMAIN <<>> : <<>>[i] = k} = {} OBVIOUS
  <2> QED BY <2>1, FS_EmptySet DEF Repeats
<1>3. Repeats(s, k) \in Nat BY <1>1, FS_CardinalityType DEF Repeats
<1>4. ASSUME NEW x \in S PROVE Repeats(Append(s, x), k) = IF x = k THEN Repeats(s, k) + 1 ELSE Repeats(s, k)
  <2>1. CASE x = k
    <3>1. At(Append(s, x)) = At(s) \cup {Len(s) + 1} /\ Len(s) + 1 \notin At(s) BY <2>1
    <3>2. Cardinality(At(s) \cup {Len(s) + 1}) = Cardinality(At(s)) + 1
      <4> HIDE DEF At
      <4> QED BY <1>1, <3>1, FS_AddElement
    <3> QED BY <2>1, <3>1, <3>2 DEF Repeats
  <2>2. CASE x # k
    <3>1. At(Append(s, x)) = At(s) BY <2>2
    <3> QED BY <2>2, <3>1 DEF Repeats
  <2> QED BY <2>1, <2>2
<1> QED BY <1>2, <1>3, <1>4

\* and in the two parts of one that was cut.
LEMMA RepeatsSplit ==
  ASSUME NEW S, NEW s \in Seq(S), NEW m \in 0..Len(s), NEW k
  PROVE  /\ SubSeq(s, 1, m) \in Seq(S) /\ SubSeq(s, m + 1, Len(s)) \in Seq(S)
         /\ Len(SubSeq(s, 1, m)) = m /\ Len(SubSeq(s, m + 1, Len(s))) = Len(s) - m
         /\ Repeats(s, k) = Repeats(SubSeq(s, 1, m), k) + Repeats(SubSeq(s, m + 1, Len(s)), k)
<1> DEFINE n == Len(s)
           h == SubSeq(s, 1, m)
           t == SubSeq(s, m + 1, n)
           A == {i \in 1..m : s[i] = k}
           B == {i \in (m + 1)..n : s[i] = k}
           T == {i \in 1..(n - m) : t[i] = k}
<1>1. n \in Nat /\ m \in Nat /\ m <= n /\ DOMAIN s = 1..n OBVIOUS
<1>2. h \in Seq(S) /\ Len(h) = m /\ \A i \in 1..m : h[i] = s[i] OBVIOUS
<1>3. t \in Seq(S) /\ Len(t) = n - m /\ \A i \in 1..(n - m) : t[i] = s[m + i] OBVIOUS
<1>4. Repeats(h, k) = Cardinality(A)
  <2>1. {i \in DOMAIN h : h[i] = k} = A
    <3> HIDE DEF h
    <3> QED BY <1>1, <1>2
  <2> QED BY <2>1 DEF Repeats
<1>5. Repeats(t, k) = Cardinality(T)
  <2>1. {i \in DOMAIN t : t[i] = k} = T
    <3> HIDE DEF t
    <3> QED BY <1>1, <1>3
  <2> QED BY <2>1 DEF Repeats
<1>6. Repeats(s, k) = Cardinality(A \cup B)
  <2>1. {i \in DOMAIN s : s[i] = k} = A \cup B BY <1>1
  <2> QED BY <2>1 DEF Repeats
<1>7. IsFiniteSet(A) /\ IsFiniteSet(B)
  <2>1. IsFiniteSet(1..n) BY <1>1, FS_Interval
  <2>2. A \in SUBSET (1..n) /\ B \in SUBSET (1..n) BY <1>1
  <2> HIDE DEF A, B
  <2> QED BY <2>1, <2>2, FS_Subset
<1>8. Cardinality(T) = Cardinality(B)
  <2> DEFINE f == [i \in B |-> i - m]
  <2>1. \A i \in B : i - m \in T
    <3> SUFFICES ASSUME NEW i \in B PROVE i - m \in T OBVIOUS
    <3>1. i - m \in 1..(n - m) /\ m + (i - m) = i BY <1>1
    <3> HIDE DEF t
    <3>2. t[i - m] = s[i] BY <1>3, <3>1
    <3> QED BY <3>1, <3>2
  <2>2. \A j \in T : m + j \in B /\ (m + j) - m = j
    <3> HIDE DEF t
    <3> SUFFICES ASSUME NEW j \in T PROVE m + j \in B /\ (m + j) - m = j OBVIOUS
    <3>1. j \in 1..(n - m) /\ t[j] = k OBVIOUS
    <3>2. s[m + j] = k /\ m + j \in (m + 1)..n BY <1>1, <1>3, <3>1
    <3> QED BY <1>1, <3>1, <3>2
  <2>3. f \in Bijection(B, T)
    <3>1. f \in [B -> T] BY <2>1
    <3>2. \A i, j \in B : f[i] = f[j] => i = j BY <1>1
    <3>3. \A j \in T : f[m + j] = j BY <2>2
    <3>4. \A j \in T : \E i \in B : f[i] = j BY <2>2, <3>3
    <3> HIDE DEF f, B, T
    <3> QED BY <3>1, <3>2, <3>4 DEF Bijection, Injection, Surjection, IsInjective
  <2>4. ExistsBijection(B, T) BY <2>3 DEF ExistsBijection
  <2> HIDE DEF B, T
  <2> QED BY <1>7, <2>4, FS_Bijection
<1>9. Cardinality(A \cup B) = Cardinality(A) + Cardinality(B)
  <2>1. A \cap B = {} BY <1>1
  <2> HIDE DEF A, B
  <2>2. Cardinality(A \cup B) = Cardinality(A) + Cardinality(B) - Cardinality({}) BY <1>7, <2>1, FS_Union
  <2>3. Cardinality({}) = 0 BY FS_EmptySet
  <2>4. Cardinality(A) \in Nat /\ Cardinality(B) \in Nat BY <1>7, FS_CardinalityType
  <2> QED BY <2>2, <2>3, <2>4
<1> QED BY <1>2, <1>3, <1>4, <1>5, <1>6, <1>8, <1>9

\* A chunk is cut from the front of what is to be inserted.
LEMMA ChunkIs ==
  ASSUME NEW S, commit.inserts \in Seq(S), commit.inserts # <<>>
  PROVE  /\ FirstChunk \in Seq(S) /\ RestOfInserts \in Seq(S)
         /\ Len(FirstChunk) \in Nat /\ Len(FirstChunk) + Len(RestOfInserts) = Len(commit.inserts)
         /\ \A k : Repeats(commit.inserts, k) = Repeats(FirstChunk, k) + Repeats(RestOfInserts, k)
<1>1. PICK s \in Seq(S) : s = commit.inserts OBVIOUS
<1>2. PICK n \in Nat : n = Len(s) BY <1>1
<1>3. PICK m : m = Min({Chunk, n}) OBVIOUS
<1>4. m \in 0..n
  <2>1. {Chunk, n} \in SUBSET Nat /\ {Chunk, n} # {} BY ImportAssumption
  <2>2. m \in {Chunk, n} /\ m <= n BY <1>3, <2>1, LeastIs
  <2> QED BY <2>1, <2>2
<1>5. FirstChunk = SubSeq(s, 1, m) BY <1>1, <1>2, <1>3 DEF FirstChunk
<1>6. Len(FirstChunk) = m BY <1>2, <1>4, <1>5, RepeatsSplit
<1>7. RestOfInserts = SubSeq(s, m + 1, n) BY <1>1, <1>2, <1>6 DEF RestOfInserts
<1>8. \A k : Repeats(s, k) = Repeats(FirstChunk, k) + Repeats(RestOfInserts, k)
  <2> SUFFICES ASSUME NEW k PROVE Repeats(s, k) = Repeats(FirstChunk, k) + Repeats(RestOfInserts, k) OBVIOUS
  <2> QED BY <1>2, <1>4, <1>5, <1>7, RepeatsSplit
<1>9. /\ FirstChunk \in Seq(S) /\ RestOfInserts \in Seq(S)
      /\ Len(FirstChunk) = m /\ Len(RestOfInserts) = n - m
  BY <1>2, <1>4, <1>5, <1>7, RepeatsSplit
<1> QED BY <1>1, <1>2, <1>4, <1>8, <1>9

\* What a preview has told so far, and what a commit knows and counts.
Telling == [create : Nat, update : Nat, skip : Nat, lanes : SUBSET LaneNames, clients : SUBSET Clients,
         seen : SUBSET Intervals]
Known == [keys : SUBSET Keys, lanes : SUBSET KeysOf(LaneNames), clients : SUBSET KeysOf(Clients),
          seen : SUBSET Intervals]
Outcome == [create : Nat, update : Nat, skip : Nat, lanes : SUBSET LaneNames, clients : SUBSET Clients]

InFlight ==
  [pc : {"rows", "write", "answer"}, file : Files, row : Nat, index : Known, inserts : Seq(Keys \cup Intervals),
   updates : Seq(Keys), result : Outcome, whole : BOOLEAN]

\* The rows of a file.
RowOf(file, row) ==
  IF file.kind = "task"
  THEN row.key \in Keys /\ row.lane \in LaneNames \cup {Nameless}
  ELSE row.interval \in Intervals /\ row.lane \in LaneNames \cup {Nameless} /\ row.client \in Clients \cup {Nameless}

LEMMA FilesAre ==
  ASSUME NEW file \in Files
  PROVE  /\ Len(file.rows) \in Nat /\ DOMAIN file.rows = 1..Len(file.rows) /\ file.kind \in {"task", "time"}
         /\ \A i \in 1..Len(file.rows) : file.rows[i] # Refused => RowOf(file, file.rows[i])
<1>1. CASE file \in [kind : {"task"}, rows : Seq(TaskRows \cup {Refused})]
  <2>1. \A row \in TaskRows : row.key \in Keys /\ row.lane \in LaneNames \cup {Nameless} BY DEF TaskRows
  <2>2. file.kind = "task" /\ file.rows \in Seq(TaskRows \cup {Refused}) BY <1>1
  <2>3. \A i \in 1..Len(file.rows) : file.rows[i] # Refused => file.rows[i] \in TaskRows BY <2>2
  <2> QED BY <2>1, <2>2, <2>3 DEF RowOf
<1>2. CASE file \in [kind : {"time"}, rows : Seq(EntryRows \cup {Refused})]
  <2>1. \A row \in EntryRows : /\ row.interval \in Intervals /\ row.lane \in LaneNames \cup {Nameless}
                               /\ row.client \in Clients \cup {Nameless} BY DEF EntryRows
  <2>2. file.kind = "time" /\ file.rows \in Seq(EntryRows \cup {Refused}) BY <1>2
  <2>3. \A i \in 1..Len(file.rows) : file.rows[i] # Refused => file.rows[i] \in EntryRows BY <2>2
  <2> QED BY <2>1, <2>2, <2>3 DEF RowOf
<1> QED BY <1>1, <1>2, ImportAssumption

LEMMA WantedIs ==
  \A known : /\ \A l \in LaneNames \cup {Nameless} : Wanted(l, known) \in SUBSET LaneNames
             /\ \A l \in Clients \cup {Nameless} : Wanted(l, known) \in SUBSET Clients
BY DEF Wanted

\* What a row adds to a preview.
RowAdds(file, known, told, row, next) ==
  /\ row = Refused => next = [told EXCEPT !.skip = @ + 1]
  /\ row # Refused /\ file.kind = "task" =>
       /\ next.create = IF row.key \in known.keys THEN told.create ELSE told.create + 1
       /\ next.update = IF row.key \in known.keys THEN told.update + 1 ELSE told.update
       /\ next.lanes = told.lanes \cup Wanted(row.lane, known.lanes)
       /\ next.skip = told.skip /\ next.clients = told.clients /\ next.seen = told.seen
  /\ row # Refused /\ file.kind = "time" =>
       /\ next.create = IF row.interval \in told.seen THEN told.create ELSE told.create + 1
       /\ next.skip = IF row.interval \in told.seen THEN told.skip + 1 ELSE told.skip
       /\ next.lanes = told.lanes \cup Wanted(row.lane, known.lanes)
       /\ next.clients = told.clients \cup Wanted(row.client, known.clients)
       /\ next.seen = told.seen \cup {row.interval} /\ next.update = told.update

LEMMA RowIsTold ==
  ASSUME NEW file \in Files, NEW known \in Known, NEW told \in Telling, NEW row, row # Refused => RowOf(file, row)
  PROVE  /\ RowAdds(file, known, told, row, PreviewRow(file.kind, known, told, row))
         /\ PreviewRow(file.kind, known, told, row) \in Telling
<1>1. CASE row = Refused
  <2>1. PreviewRow(file.kind, known, told, row) = [told EXCEPT !.skip = @ + 1]
    BY <1>1 DEF PreviewRow, PreviewTask, PreviewEntry
  <2>2. [told EXCEPT !.skip = @ + 1] \in Telling BY DEF Telling
  <2> QED BY <1>1, <2>1, <2>2 DEF RowAdds
<1>2. CASE row # Refused /\ file.kind = "task"
  <2>1. row.key \in Keys /\ row.lane \in LaneNames \cup {Nameless} BY <1>2 DEF RowOf
  <2>2. PICK w \in SUBSET LaneNames : w = Wanted(row.lane, known.lanes) BY <2>1, WantedIs DEF Known
  <2>3. PICK u \in SUBSET LaneNames : u = told.lanes \cup w BY DEF Telling
  <2>4. CASE row.key \in known.keys
    <3>1. PICK n \in Nat : n = told.update + 1 BY DEF Telling
    <3>2. PreviewRow(file.kind, known, told, row) = [told EXCEPT !.update = n, !.lanes = u]
      BY <1>2, <2>2, <2>3, <2>4, <3>1 DEF PreviewRow, PreviewTask
    <3>3. LET next == [told EXCEPT !.update = n, !.lanes = u]
          IN /\ next.create = told.create /\ next.update = n /\ next.skip = told.skip
             /\ next.lanes = u /\ next.clients = told.clients /\ next.seen = told.seen BY DEF Telling
    <3>4. [told EXCEPT !.update = n, !.lanes = u] \in Telling BY <3>1 DEF Telling
    <3> QED BY <1>2, <2>2, <2>3, <2>4, <3>1, <3>2, <3>3, <3>4 DEF RowAdds
  <2>5. CASE row.key \notin known.keys
    <3>1. PICK n \in Nat : n = told.create + 1 BY DEF Telling
    <3>2. PreviewRow(file.kind, known, told, row) = [told EXCEPT !.create = n, !.lanes = u]
      BY <1>2, <2>2, <2>3, <2>5, <3>1 DEF PreviewRow, PreviewTask
    <3>3. LET next == [told EXCEPT !.create = n, !.lanes = u]
          IN /\ next.create = n /\ next.update = told.update /\ next.skip = told.skip
             /\ next.lanes = u /\ next.clients = told.clients /\ next.seen = told.seen BY DEF Telling
    <3>4. [told EXCEPT !.create = n, !.lanes = u] \in Telling BY <3>1 DEF Telling
    <3> QED BY <1>2, <2>2, <2>3, <2>5, <3>1, <3>2, <3>3, <3>4 DEF RowAdds
  <2> QED BY <2>4, <2>5
<1>3. CASE row # Refused /\ file.kind = "time"
  <2>1. row.interval \in Intervals /\ row.lane \in LaneNames \cup {Nameless} /\ row.client \in Clients \cup {Nameless}
    BY <1>3 DEF RowOf
  <2>2. PICK w \in SUBSET LaneNames : w = Wanted(row.lane, known.lanes) BY <2>1, WantedIs DEF Known
  <2>3. PICK v \in SUBSET Clients : v = Wanted(row.client, known.clients) BY <2>1, WantedIs DEF Known
  <2>4. PICK u \in SUBSET LaneNames, c \in SUBSET Clients, e \in SUBSET Intervals :
              u = told.lanes \cup w /\ c = told.clients \cup v /\ e = told.seen \cup {row.interval}
    BY <2>1 DEF Telling
  <2>5. CASE row.interval \in told.seen
    <3>1. PICK n \in Nat : n = told.skip + 1 BY DEF Telling
    <3>2. PreviewRow(file.kind, known, told, row) = [told EXCEPT !.skip = n, !.seen = e, !.lanes = u, !.clients = c]
      BY <1>3, <2>2, <2>3, <2>4, <2>5, <3>1 DEF PreviewRow, PreviewEntry
    <3>3. LET next == [told EXCEPT !.skip = n, !.seen = e, !.lanes = u, !.clients = c]
          IN /\ next.create = told.create /\ next.update = told.update /\ next.skip = n
             /\ next.lanes = u /\ next.clients = c /\ next.seen = e BY DEF Telling
    <3>4. [told EXCEPT !.skip = n, !.seen = e, !.lanes = u, !.clients = c] \in Telling BY <2>4, <3>1 DEF Telling
    <3> QED BY <1>3, <2>2, <2>3, <2>4, <2>5, <3>1, <3>2, <3>3, <3>4 DEF RowAdds
  <2>6. CASE row.interval \notin told.seen
    <3>1. PICK n \in Nat : n = told.create + 1 BY DEF Telling
    <3>2. PreviewRow(file.kind, known, told, row) = [told EXCEPT !.create = n, !.seen = e, !.lanes = u, !.clients = c]
      BY <1>3, <2>2, <2>3, <2>4, <2>6, <3>1 DEF PreviewRow, PreviewEntry
    <3>3. LET next == [told EXCEPT !.create = n, !.seen = e, !.lanes = u, !.clients = c]
          IN /\ next.create = n /\ next.update = told.update /\ next.skip = told.skip
             /\ next.lanes = u /\ next.clients = c /\ next.seen = e BY DEF Telling
    <3>4. [told EXCEPT !.create = n, !.seen = e, !.lanes = u, !.clients = c] \in Telling BY <2>4, <3>1 DEF Telling
    <3> QED BY <1>3, <2>2, <2>3, <2>4, <2>6, <3>1, <3>2, <3>3, <3>4 DEF RowAdds
  <2> QED BY <2>5, <2>6
<1> QED BY <1>1, <1>2, <1>3, FilesAre

\* The preview of a file, row by row.
ToldBy(file, known, chain) ==
  /\ chain \in [0..Len(file.rows) -> Telling] /\ chain[0] = Unread(known)
  /\ \A k \in 0..(Len(file.rows) - 1) : RowAdds(file, known, chain[k], file.rows[k + 1], chain[k + 1])

Summary(told) == [f \in DOMAIN Counts |-> told[f]]

LEMMA PreviewRuns ==
  ASSUME NEW file \in Files, OrgIndex \in Known
  PROVE  \E chain : ToldBy(file, OrgIndex, chain) /\ Preview(file) = Summary(chain[Len(file.rows)])
<1>1. PICK known \in Known : known = OrgIndex OBVIOUS
<1>2. PICK rows : rows = file.rows OBVIOUS
<1> DEFINE n == Len(rows)
           Step(sum, row) == PreviewRow(file.kind, known, sum, row)
           P(it) == it = [s \in SUBSET (DOMAIN rows) |->
                            IF s = {} THEN Unread(known) ELSE Step(it[s \ {Max(s)}], rows[Max(s)])]
           F == [p \in Telling \X (1..n) |-> Step(p[1], rows[p[2]])]
<1>3. n \in Nat /\ DOMAIN rows = 1..n /\ \A i \in 1..n : rows[i] # Refused => RowOf(file, rows[i])
  BY <1>2, FilesAre
<1>4. \A s \in SUBSET (1..n) : s # {} => Max(s) \in 1..n BY <1>3, GreatestIs
<1>5. Unread(known) \in Telling BY DEF Unread, Telling, Known
<1>6. F \in [Telling \X (1..n) -> Telling]
  <2> HIDE DEF n
  <2>1. ASSUME NEW v \in Telling, NEW i \in 1..n PROVE Step(v, rows[i]) \in Telling BY <1>3, RowIsTold
  <2> HIDE DEF Step
  <2> QED BY <2>1
<1>7. \A v \in Telling, i \in 1..n : F[<<v, i>>] = Step(v, rows[i])
  <2> HIDE DEF Step
  <2> QED OBVIOUS
<1>8. PICK h \in [SUBSET (1..n) -> Telling] : FoldsBy(h, n, Unread(known), F)
  <2> HIDE DEF F, n
  <2> QED BY <1>3, <1>5, <1>6, FoldExists
<1>9. P(h)
  <2> HIDE DEF Step, F
  <2>1. \A s \in SUBSET (1..n) : h[s] = IF s = {} THEN Unread(known) ELSE Step(h[s \ {Max(s)}], rows[Max(s)])
    <3>1. ASSUME NEW s \in SUBSET (1..n), s = {} PROVE h[s] = Unread(known) BY <1>8, <3>1 DEF FoldsBy
    <3>2. ASSUME NEW s \in SUBSET (1..n), s # {} PROVE h[s] = Step(h[s \ {Max(s)}], rows[Max(s)])
      <4> HIDE DEF n
      <4>1. Max(s) \in 1..n /\ h[s \ {Max(s)}] \in Telling BY <1>4, <3>2
      <4>2. h[s] = F[<<h[s \ {Max(s)}], Max(s)>>] BY <1>8, <3>2 DEF FoldsBy
      <4> QED BY <1>7, <4>1, <4>2
    <3> QED BY <3>1, <3>2
  <2> QED BY <1>3, <2>1
<1>10. PICK it : it = (CHOOSE g : P(g)) OBVIOUS
<1>11. P(it)
  <2> HIDE DEF P
  <2> QED BY <1>9, <1>10
<1>12. Preview(file) = Summary(it[DOMAIN rows])
  BY <1>1, <1>2, <1>10 DEF Preview, Summary, FoldLeft, MapThenFoldSet
<1>13. FoldsWithin(Telling, n, Unread(known), F, it)
  <2> HIDE DEF Step, F
  <2>1. it[{}] = Unread(known) BY <1>11
  <2>2. ASSUME NEW s \in SUBSET (1..n), s # {}, it[s \ {Max(s)}] \in Telling
        PROVE  it[s] = F[<<it[s \ {Max(s)}], Max(s)>>]
    <3>1. it[s] = Step(it[s \ {Max(s)}], rows[Max(s)]) BY <1>3, <1>11, <2>2
    <3>2. Max(s) \in 1..n BY <1>4, <2>2
    <3> HIDE DEF P, n
    <3> QED BY <1>7, <2>2, <3>1, <3>2
  <2> HIDE DEF P, n
  <2> QED BY <2>1, <2>2 DEF FoldsWithin
<1> HIDE DEF P
<1>14. PICK chain \in [0..n -> Telling] : ChainOf(chain, n, Unread(known), F, it[1..n])
  <2> HIDE DEF F, n
  <2> QED BY <1>3, <1>5, <1>6, <1>13, FoldRuns
<1>15. \A k \in 0..(n - 1) : RowAdds(file, known, chain[k], rows[k + 1], chain[k + 1])
  <2> SUFFICES ASSUME NEW k \in 0..(n - 1) PROVE RowAdds(file, known, chain[k], rows[k + 1], chain[k + 1]) OBVIOUS
  <2> HIDE DEF F, n
  <2>1. k \in 0..n /\ k + 1 \in 1..n BY <1>3
  <2>2. PICK v \in Telling : v = chain[k] BY <2>1
  <2>3. chain[k + 1] = Step(v, rows[k + 1])
    <3> HIDE DEF Step
    <3> QED BY <1>7, <1>14, <2>1, <2>2 DEF ChainOf
  <2>4. RowAdds(file, known, v, rows[k + 1], Step(v, rows[k + 1])) BY <1>3, <2>1, RowIsTold
  <2> QED BY <2>2, <2>3, <2>4
<1>16. chain[0] = Unread(known) /\ chain[n] = it[DOMAIN rows] BY <1>3, <1>14 DEF ChainOf
<1> HIDE DEF F, Step
<1>17. ToldBy(file, known, chain) BY <1>2, <1>3, <1>15, <1>16 DEF ToldBy
<1> QED BY <1>1, <1>2, <1>12, <1>16, <1>17

ImportTypes ==
  /\ keyed \in [Keys -> Nat] /\ lanes \in [LaneNames -> Nat] /\ clients \in [Clients -> Nat]
  /\ logged \in [Intervals -> Nat] /\ commit \in InFlight \cup {NoCommit}
  /\ IsFiniteSet(committed) /\ \A c \in committed : c[2] \in Files
  /\ commit.pc # "none" => commit.row \in 1..(Len(commit.file.rows) + 1)
  /\ commit.pc # "rows" /\ commit.pc # "none" => commit.row = Len(commit.file.rows) + 1

LEMMA NoneIsNone == \A c \in InFlight : c.pc # "none" /\ c # NoCommit /\ NoCommit.pc = "none"
BY DEF InFlight, NoCommit

\* A commit as it begins, and as each of its steps leaves it.
LEMMA IndexIsKnown == ASSUME ImportTypes PROVE OrgIndex \in Known
BY DEF ImportTypes, OrgIndex, Known, Present, KeysOf

LEMMA CommitBegins ==
  ASSUME ImportTypes, NEW file \in Files, Commit(file)
  PROVE  /\ commit' = [pc |-> "rows", file |-> file, row |-> 1, index |-> OrgIndex, inserts |-> <<>>,
                       updates |-> <<>>, result |-> Counts, whole |-> TRUE]
         /\ commit' \in InFlight /\ ImportTypes'
<1>1. OrgIndex \in Known BY IndexIsKnown
<1>2. Counts \in Outcome BY DEF Counts, Outcome
<1>3. <<>> \in Seq(Keys \cup Intervals) /\ <<>> \in Seq(Keys) OBVIOUS
<1>4. commit' = [pc |-> "rows", file |-> file, row |-> 1, index |-> OrgIndex, inserts |-> <<>>,
                 updates |-> <<>>, result |-> Counts, whole |-> TRUE] BY DEF Commit
<1>5. commit' \in InFlight BY <1>1, <1>2, <1>3, <1>4 DEF InFlight
<1>6. IsFiniteSet(committed')
  <2>1. committed' = committed \cup {<<Cardinality(committed) + 1, file>>} BY DEF Commit
  <2> QED BY <2>1, FS_AddElement DEF ImportTypes
<1>7. \A c \in committed' : c[2] \in Files BY DEF Commit, ImportTypes
<1>8. commit'.row \in 1..(Len(commit'.file.rows) + 1) /\ commit'.pc = "rows" BY <1>4, FilesAre
<1> QED BY <1>4, <1>5, <1>6, <1>7, <1>8 DEF ImportTypes, Commit

ReadsOn(c, d) == /\ d.pc = "rows" /\ d.file = c.file /\ d.whole = c.whole
                 /\ d.index.keys = c.index.keys /\ d.result.create = c.result.create /\ d.result.update = c.result.update
KeepsNames(c, d) == /\ d.index.lanes = c.index.lanes /\ d.index.clients = c.index.clients
                    /\ d.result.lanes = c.result.lanes /\ d.result.clients = c.result.clients
KeepsRows(c, d) == /\ d.row = c.row /\ d.inserts = c.inserts /\ d.updates = c.updates
                   /\ d.index.seen = c.index.seen /\ d.result.skip = c.result.skip

LEMMA RowIs ==
  ASSUME ImportTypes, Reading
  PROVE  /\ commit \in InFlight /\ commit.row \in 1..Len(commit.file.rows)
         /\ ThisRow # Refused => RowOf(commit.file, ThisRow)
<1>1. commit \in InFlight BY DEF ImportTypes, Reading, NoCommit
<1>2. commit.row \in 1..Len(commit.file.rows)
  <2>1. commit.file \in Files /\ commit.row \in Nat BY <1>1 DEF InFlight
  <2>2. commit.row >= 1 BY <1>1, NoneIsNone, FilesAre DEF ImportTypes
  <2> QED BY <2>1, <2>2, FilesAre DEF Reading
<1> QED BY <1>1, <1>2, FilesAre DEF ThisRow, InFlight

LEMMA StreamEnsured ==
  ASSUME ImportTypes, EnsureStream
  PROVE  /\ commit \in InFlight /\ commit' \in InFlight /\ ReadsOn(commit, commit') /\ KeepsRows(commit, commit')
         /\ ThisRow.lane \in LaneNames /\ NameKey(ThisRow.lane) \notin commit.index.lanes /\ ThisRow # Refused
         /\ commit'.index.lanes = commit.index.lanes \cup {NameKey(ThisRow.lane)} /\ commit'.index.clients = commit.index.clients
         /\ commit'.result.lanes = commit.result.lanes \cup {Stored(ThisRow.lane)} /\ commit'.result.clients = commit.result.clients
<1>1. PICK c \in InFlight : c = commit BY RowIs DEF EnsureStream
<1>2. PICK l : l = ThisRow.lane OBVIOUS
<1>3. l \in LaneNames /\ NameKey(l) \notin c.index.lanes /\ Stored(l) \in LaneNames /\ ThisRow # Refused
  <2>1. RowOf(c.file, ThisRow) /\ Wanted(l, c.index.lanes) # {} BY <1>1, <1>2, RowIs DEF EnsureStream, MissingLane
  <2> QED BY <1>2, <2>1, ImportAssumption DEF RowOf, Wanted, EnsureStream, MissingLane
<1>4. PICK i \in Known : i = [c.index EXCEPT !.lanes = @ \cup {NameKey(l)}] BY <1>3 DEF Known, InFlight, KeysOf
<1>5. PICK r \in Outcome : r = [c.result EXCEPT !.lanes = @ \cup {Stored(l)}] BY <1>3 DEF Outcome, InFlight
<1>6. commit' = [c EXCEPT !.index = i, !.result = r] BY <1>1, <1>2, <1>4, <1>5 DEF EnsureStream, InFlight
<1>7. i.lanes = c.index.lanes \cup {NameKey(l)} /\ i.keys = c.index.keys /\ i.clients = c.index.clients /\ i.seen = c.index.seen
  BY <1>4 DEF Known, InFlight
<1>8. /\ r.lanes = c.result.lanes \cup {Stored(l)} /\ r.clients = c.result.clients /\ r.create = c.result.create
      /\ r.update = c.result.update /\ r.skip = c.result.skip
  BY <1>5 DEF Outcome, InFlight
<1>9. c.pc = "rows" BY <1>1 DEF EnsureStream, Reading
<1> QED BY <1>1, <1>2, <1>3, <1>6, <1>7, <1>8, <1>9 DEF InFlight, ReadsOn, KeepsRows

LEMMA CustomerEnsured ==
  ASSUME ImportTypes, EnsureCustomer
  PROVE  /\ commit \in InFlight /\ commit' \in InFlight /\ ReadsOn(commit, commit') /\ KeepsRows(commit, commit')
         /\ ThisRow.client \in Clients /\ NameKey(ThisRow.client) \notin commit.index.clients /\ ThisRow # Refused /\ commit.file.kind = "time"
         /\ commit'.index.clients = commit.index.clients \cup {NameKey(ThisRow.client)} /\ commit'.index.lanes = commit.index.lanes
         /\ commit'.result.clients = commit.result.clients \cup {Stored(ThisRow.client)}
         /\ commit'.result.lanes = commit.result.lanes
<1>1. PICK c \in InFlight : c = commit BY RowIs DEF EnsureCustomer
<1>2. PICK l : l = ThisRow.client OBVIOUS
<1>3. l \in Clients /\ NameKey(l) \notin c.index.clients /\ Stored(l) \in Clients /\ ThisRow # Refused /\ c.file.kind = "time"
  <2>1. RowOf(c.file, ThisRow) /\ Wanted(l, c.index.clients) # {} /\ c.file.kind = "time"
    BY <1>1, <1>2, RowIs DEF EnsureCustomer, MissingClient
  <2> QED BY <1>2, <2>1, ImportAssumption DEF RowOf, Wanted, EnsureCustomer, MissingClient
<1>4. PICK i \in Known : i = [c.index EXCEPT !.clients = @ \cup {NameKey(l)}] BY <1>3 DEF Known, InFlight, KeysOf
<1>5. PICK r \in Outcome : r = [c.result EXCEPT !.clients = @ \cup {Stored(l)}] BY <1>3 DEF Outcome, InFlight
<1>6. commit' = [c EXCEPT !.index = i, !.result = r] BY <1>1, <1>2, <1>4, <1>5 DEF EnsureCustomer, InFlight
<1>7. i.clients = c.index.clients \cup {NameKey(l)} /\ i.keys = c.index.keys /\ i.lanes = c.index.lanes /\ i.seen = c.index.seen
  BY <1>4 DEF Known, InFlight
<1>8. /\ r.clients = c.result.clients \cup {Stored(l)} /\ r.lanes = c.result.lanes /\ r.create = c.result.create
      /\ r.update = c.result.update /\ r.skip = c.result.skip
  BY <1>5 DEF Outcome, InFlight
<1>9. c.pc = "rows" BY <1>1 DEF EnsureCustomer, Reading
<1> QED BY <1>1, <1>2, <1>3, <1>6, <1>7, <1>8, <1>9 DEF InFlight, ReadsOn, KeepsRows

LEMMA GrowsIn ==
  ASSUME NEW S, NEW s \in Seq(S), NEW x \in S
  PROVE  Append(s, x) \in Seq(S) /\ Len(Append(s, x)) = Len(s) + 1 /\ Len(s) \in Nat
OBVIOUS

\* What is read of a row: it is skipped, updated or inserted.
Skips(c, d) == /\ d.result.skip = c.result.skip + 1 /\ d.inserts = c.inserts /\ d.updates = c.updates
               /\ d.index.seen = c.index.seen
Updates(c, d) == /\ d.updates = Append(c.updates, ThisRow.key) /\ d.inserts = c.inserts
                 /\ d.index.seen = c.index.seen /\ d.result.skip = c.result.skip
Inserts(c, d, x) == /\ d.inserts = Append(c.inserts, x) /\ d.updates = c.updates /\ d.result.skip = c.result.skip
                    /\ d.index.seen = IF c.file.kind = "task" THEN c.index.seen ELSE c.index.seen \cup {x}

LEMMA RowRead ==
  ASSUME ImportTypes, ReadRow
  PROVE  /\ commit \in InFlight /\ commit' \in InFlight /\ ReadsOn(commit, commit') /\ KeepsNames(commit, commit')
         /\ commit'.row = commit.row + 1 /\ commit.row \in 1..Len(commit.file.rows)
         /\ ThisRow = Refused => Skips(commit, commit')
         /\ ThisRow # Refused /\ commit.file.kind = "task" =>
              /\ ThisRow.key \in Keys
              /\ IF ThisRow.key \in commit.index.keys THEN Updates(commit, commit') ELSE Inserts(commit, commit', ThisRow.key)
         /\ ThisRow # Refused /\ commit.file.kind = "time" =>
              /\ ThisRow.interval \in Intervals
              /\ IF ThisRow.interval \in commit.index.seen THEN Skips(commit, commit')
                 ELSE Inserts(commit, commit', ThisRow.interval)
<1>1. PICK c \in InFlight : c = commit BY RowIs DEF ReadRow
<1>2. c.row \in 1..Len(c.file.rows) /\ (ThisRow # Refused => RowOf(c.file, ThisRow)) /\ c.file.kind \in {"task", "time"}
  BY <1>1, RowIs, FilesAre DEF ReadRow, InFlight
<1>3. PICK n \in Nat : n = c.row + 1 BY DEF InFlight
<1>4. c.pc = "rows" BY <1>1 DEF ReadRow, Reading
<1>5. ASSUME commit' = [c EXCEPT !.result.skip = @ + 1, !.row = @ + 1]
      PROVE  commit' \in InFlight /\ ReadsOn(c, commit') /\ KeepsNames(c, commit') /\ commit'.row = c.row + 1 /\ Skips(c, commit')
  <2>1. PICK s \in Nat : s = c.result.skip + 1 BY DEF InFlight, Outcome
  <2>2. PICK r \in Outcome : r = [c.result EXCEPT !.skip = s] BY DEF InFlight, Outcome
  <2>3. /\ r.skip = s /\ r.lanes = c.result.lanes /\ r.clients = c.result.clients /\ r.create = c.result.create
        /\ r.update = c.result.update
    BY <2>2 DEF InFlight, Outcome
  <2>4. commit' = [c EXCEPT !.result = r, !.row = n] BY <1>3, <1>5, <2>1, <2>2 DEF InFlight
  <2> QED BY <1>3, <1>4, <2>1, <2>3, <2>4 DEF InFlight, ReadsOn, KeepsNames, Skips
<1>6. CASE ThisRow = Refused
  <2>1. commit' = [c EXCEPT !.result.skip = @ + 1, !.row = @ + 1] BY <1>1, <1>6 DEF ReadRow
  <2> QED BY <1>1, <1>2, <1>5, <1>6, <2>1
<1>7. CASE ThisRow # Refused /\ c.file.kind = "task"
  <2>1. PICK k \in Keys : k = ThisRow.key BY <1>2, <1>7 DEF RowOf
  <2>2. CASE k \in c.index.keys
    <3>1. PICK u \in Seq(Keys) : u = Append(c.updates, k)
      <4>1. c.updates \in Seq(Keys) BY DEF InFlight
      <4> QED BY <4>1, GrowsIn
    <3>2. commit' = [c EXCEPT !.updates = u, !.row = n] BY <1>1, <1>3, <1>7, <2>1, <2>2, <3>1 DEF ReadRow, TaskRow
    <3>3. /\ commit' \in InFlight /\ ReadsOn(c, commit') /\ KeepsNames(c, commit') /\ commit'.row = c.row + 1
          /\ Updates(c, commit')
      BY <1>3, <1>4, <2>1, <3>1, <3>2 DEF InFlight, ReadsOn, KeepsNames, Updates
    <3> QED BY <1>1, <1>2, <1>7, <2>1, <2>2, <3>3
  <2>3. CASE k \notin c.index.keys
    <3>1. PICK u \in Seq(Keys \cup Intervals) : u = Append(c.inserts, k)
      <4>1. c.inserts \in Seq(Keys \cup Intervals) /\ k \in Keys \cup Intervals BY DEF InFlight
      <4> QED BY <4>1, GrowsIn
    <3>2. commit' = [c EXCEPT !.inserts = u, !.row = n] BY <1>1, <1>3, <1>7, <2>1, <2>3, <3>1 DEF ReadRow, TaskRow
    <3>3. /\ commit' \in InFlight /\ ReadsOn(c, commit') /\ KeepsNames(c, commit') /\ commit'.row = c.row + 1
          /\ Inserts(c, commit', k)
      BY <1>3, <1>4, <1>7, <3>1, <3>2 DEF InFlight, ReadsOn, KeepsNames, Inserts
    <3> QED BY <1>1, <1>2, <1>7, <2>1, <2>3, <3>3
  <2> QED BY <2>2, <2>3
<1>8. CASE ThisRow # Refused /\ c.file.kind = "time"
  <2>1. PICK k \in Intervals : k = ThisRow.interval BY <1>2, <1>8 DEF RowOf
  <2>2. CASE k \in c.index.seen
    <3>1. commit' = [c EXCEPT !.result.skip = @ + 1, !.row = @ + 1] BY <1>1, <1>8, <2>1, <2>2 DEF ReadRow, EntryRow
    <3> QED BY <1>1, <1>2, <1>5, <1>8, <2>1, <2>2, <3>1
  <2>3. CASE k \notin c.index.seen
    <3>1. PICK u \in Seq(Keys \cup Intervals) : u = Append(c.inserts, k)
      <4>1. c.inserts \in Seq(Keys \cup Intervals) /\ k \in Keys \cup Intervals BY DEF InFlight
      <4> QED BY <4>1, GrowsIn
    <3>2. PICK i \in Known : i = [c.index EXCEPT !.seen = @ \cup {k}] BY DEF InFlight, Known
    <3>3. i.seen = c.index.seen \cup {k} /\ i.keys = c.index.keys /\ i.lanes = c.index.lanes /\ i.clients = c.index.clients
      BY <3>2 DEF InFlight, Known
    <3>4. commit' = [c EXCEPT !.inserts = u, !.index = i, !.row = n]
      BY <1>1, <1>3, <1>8, <2>1, <2>3, <3>1, <3>2 DEF ReadRow, EntryRow, InFlight
    <3>5. /\ commit' \in InFlight /\ ReadsOn(c, commit') /\ KeepsNames(c, commit') /\ commit'.row = c.row + 1
          /\ Inserts(c, commit', k)
      BY <1>3, <1>4, <1>8, <3>1, <3>3, <3>4 DEF InFlight, ReadsOn, KeepsNames, Inserts
    <3> QED BY <1>1, <1>2, <1>8, <2>1, <2>3, <3>5
  <2> QED BY <2>2, <2>3
<1> QED BY <1>2, <1>6, <1>7, <1>8

LEMMA AllRowsRead ==
  ASSUME ImportTypes, RowsRead
  PROVE  /\ commit \in InFlight /\ commit' \in InFlight /\ commit' = [commit EXCEPT !.pc = "write"]
         /\ commit.row = Len(commit.file.rows) + 1 /\ commit.pc = "rows"
<1>1. commit \in InFlight BY DEF ImportTypes, RowsRead, NoCommit
<1>2. commit.row = Len(commit.file.rows) + 1
  <2>1. commit.file \in Files /\ commit.row \in Nat BY <1>1 DEF InFlight
  <2>2. commit.row \in 1..(Len(commit.file.rows) + 1) BY <1>1, NoneIsNone DEF ImportTypes
  <2>3. ~(commit.row <= Len(commit.file.rows)) BY DEF RowsRead, Reading
  <2> QED BY <2>1, <2>2, <2>3, FilesAre
<1> QED BY <1>1, <1>2 DEF RowsRead, InFlight

WritesOn(c, d) == /\ d.file = c.file /\ d.row = c.row /\ d.index = c.index
                  /\ d.result.lanes = c.result.lanes /\ d.result.clients = c.result.clients

ChunkOf(c, d) ==
  /\ c \in InFlight /\ d \in InFlight /\ WritesOn(c, d) /\ c.pc = "write" /\ d.pc = "write"
  /\ d.inserts = RestOfInserts /\ d.updates = c.updates /\ d.result.update = c.result.update
  /\ Len(c.inserts) \in Nat /\ Len(d.inserts) \in Nat

LEMMA ChunkCut ==
  ASSUME ImportTypes, commit.pc = "write", commit.inserts # <<>>
  PROVE  /\ commit \in InFlight /\ FirstChunk \in Seq(Keys \cup Intervals) /\ RestOfInserts \in Seq(Keys \cup Intervals)
         /\ Len(FirstChunk) \in Nat /\ Len(RestOfInserts) \in Nat
         /\ Len(FirstChunk) + Len(RestOfInserts) = Len(commit.inserts)
         /\ \A k : /\ Repeats(commit.inserts, k) = Repeats(FirstChunk, k) + Repeats(RestOfInserts, k)
                   /\ Repeats(FirstChunk, k) \in Nat /\ Repeats(RestOfInserts, k) \in Nat
<1>1. commit \in InFlight BY DEF ImportTypes, NoCommit
<1>2. PICK S : S = Keys \cup Intervals OBVIOUS
<1>3. commit.inserts \in Seq(S) BY <1>1, <1>2 DEF InFlight
<1>4. /\ FirstChunk \in Seq(S) /\ RestOfInserts \in Seq(S)
      /\ Len(FirstChunk) \in Nat /\ Len(FirstChunk) + Len(RestOfInserts) = Len(commit.inserts)
      /\ \A k : Repeats(commit.inserts, k) = Repeats(FirstChunk, k) + Repeats(RestOfInserts, k)
  BY <1>3, ChunkIs
<1>5. ASSUME NEW s \in Seq(S) PROVE Len(s) \in Nat /\ \A k : Repeats(s, k) \in Nat BY RepeatsGrow
<1>6. Len(RestOfInserts) \in Nat /\ \A k : Repeats(FirstChunk, k) \in Nat /\ Repeats(RestOfInserts, k) \in Nat
  BY <1>4, <1>5
<1> QED BY <1>1, <1>2, <1>4, <1>6

LEMMA ChunkWritten ==
  ASSUME ImportTypes, InsertChunk
  PROVE  /\ ChunkOf(commit, commit') /\ commit'.whole = commit.whole /\ commit'.result.skip = commit.result.skip
         /\ commit'.result.create + Len(commit'.inserts) = commit.result.create + Len(commit.inserts)
<1>1. PICK c \in InFlight : c = commit BY ChunkCut DEF InsertChunk
<1>2. PICK rest \in Seq(Keys \cup Intervals) : rest = RestOfInserts BY ChunkCut DEF InsertChunk
<1>3. PICK m \in Nat : m = Len(FirstChunk) BY ChunkCut DEF InsertChunk
<1>4. Len(c.inserts) \in Nat /\ Len(rest) \in Nat /\ m + Len(rest) = Len(c.inserts)
  BY <1>1, <1>2, <1>3, ChunkCut DEF InsertChunk, InFlight
<1>5. PICK n \in Nat : n = c.result.create + m BY DEF InFlight, Outcome
<1>6. PICK r \in Outcome : r = [c.result EXCEPT !.create = n] BY DEF InFlight, Outcome
<1>7. /\ r.create = n /\ r.update = c.result.update /\ r.skip = c.result.skip /\ r.lanes = c.result.lanes
      /\ r.clients = c.result.clients BY <1>6 DEF InFlight, Outcome
<1>8. commit' = [c EXCEPT !.inserts = rest, !.result = r]
  BY <1>1, <1>2, <1>3, <1>5, <1>6 DEF InsertChunk, InFlight
<1>9. c.pc = "write" BY <1>1 DEF InsertChunk
<1>10. commit'.inserts = rest /\ commit'.result = r /\ commit' \in InFlight BY <1>8 DEF InFlight
<1>11. commit'.result.create + Len(commit'.inserts) = c.result.create + Len(c.inserts)
  <2>1. PICK a \in Nat : a = c.result.create BY DEF InFlight, Outcome
  <2>2. PICK b \in Nat : b = Len(c.inserts) BY <1>4
  <2>3. PICK e \in Nat : e = Len(rest) BY <1>4
  <2>4. n = a + m /\ m + e = b BY <1>4, <1>5, <2>1, <2>2, <2>3
  <2>5. n + e = a + b BY <2>4
  <2>6. commit'.result.create = n /\ Len(commit'.inserts) = e BY <1>7, <1>10, <2>3
  <2> QED BY <2>1, <2>2, <2>5, <2>6
<1>12. ChunkOf(c, commit') BY <1>2, <1>4, <1>7, <1>8, <1>9, <1>10 DEF InFlight, WritesOn, ChunkOf
<1>13. commit'.whole = c.whole /\ commit'.result.skip = c.result.skip BY <1>7, <1>8 DEF InFlight
<1> QED BY <1>1, <1>11, <1>12, <1>13

LEMMA ChunkLost == ASSUME ImportTypes, ChunkFails PROVE ChunkOf(commit, commit') /\ ~commit'.whole
<1>1. PICK c \in InFlight : c = commit BY ChunkCut DEF ChunkFails
<1>2. PICK rest \in Seq(Keys \cup Intervals) : rest = RestOfInserts BY ChunkCut DEF ChunkFails
<1>3. PICK m \in Nat : m = Len(FirstChunk) BY ChunkCut DEF ChunkFails
<1>4. Len(c.inserts) \in Nat /\ Len(rest) \in Nat BY <1>1, <1>2, <1>3, ChunkCut DEF ChunkFails, InFlight
<1>5. PICK n \in Nat : n = c.result.skip + m BY DEF InFlight, Outcome
<1>6. PICK r \in Outcome : r = [c.result EXCEPT !.skip = n] BY DEF InFlight, Outcome
<1>7. r.update = c.result.update /\ r.lanes = c.result.lanes /\ r.clients = c.result.clients
  BY <1>6 DEF InFlight, Outcome
<1>8. commit' = [c EXCEPT !.inserts = rest, !.whole = FALSE, !.result = r]
  BY <1>1, <1>2, <1>3, <1>5, <1>6 DEF ChunkFails, InFlight
<1>9. c.pc = "write" BY <1>1 DEF ChunkFails
<1>10. commit'.inserts = rest /\ commit'.result = r /\ commit' \in InFlight /\ ~commit'.whole BY <1>8 DEF InFlight
<1>11. ChunkOf(c, commit') BY <1>2, <1>4, <1>7, <1>8, <1>9, <1>10 DEF InFlight, WritesOn, ChunkOf
<1> QED BY <1>1, <1>10, <1>11

\* An update takes the first card of the list, whether it succeeds or fails.
CardOf(c, d) ==
  /\ c \in InFlight /\ d \in InFlight /\ WritesOn(c, d) /\ c.pc = "write" /\ d.pc = "write"
  /\ d.inserts = c.inserts /\ d.result.create = c.result.create
  /\ Len(c.updates) \in Nat /\ Len(d.updates) = Len(c.updates) - 1

LEMMA TailIs == ASSUME NEW S, NEW s \in Seq(S), s # <<>> PROVE Tail(s) \in Seq(S) /\ Len(s) \in Nat /\ Len(Tail(s)) = Len(s) - 1
OBVIOUS

LEMMA CardUpdated ==
  ASSUME ImportTypes, UpdateCard
  PROVE  /\ CardOf(commit, commit') /\ commit'.whole = commit.whole /\ commit'.result.skip = commit.result.skip
         /\ commit'.result.update = commit.result.update + 1
<1>1. PICK c \in InFlight : c = commit BY DEF ImportTypes, UpdateCard, NoCommit
<1>2. c.updates \in Seq(Keys) /\ c.updates # <<>> /\ c.pc = "write" BY <1>1 DEF InFlight, UpdateCard
<1>3. PICK rest \in Seq(Keys) : rest = Tail(c.updates) /\ Len(c.updates) \in Nat /\ Len(rest) = Len(c.updates) - 1
  BY <1>2, TailIs
<1>4. PICK n \in Nat : n = c.result.update + 1 BY DEF InFlight, Outcome
<1>5. PICK r \in Outcome : r = [c.result EXCEPT !.update = n] BY DEF InFlight, Outcome
<1>6. /\ r.create = c.result.create /\ r.update = n /\ r.skip = c.result.skip /\ r.lanes = c.result.lanes
      /\ r.clients = c.result.clients BY <1>5 DEF InFlight, Outcome
<1>7. commit' = [c EXCEPT !.updates = rest, !.result = r] BY <1>1, <1>3, <1>4, <1>5 DEF UpdateCard, InFlight
<1> QED BY <1>1, <1>2, <1>3, <1>4, <1>6, <1>7 DEF InFlight, WritesOn, CardOf

LEMMA UpdateLost == ASSUME ImportTypes, UpdateFails PROVE CardOf(commit, commit') /\ ~commit'.whole
<1>1. PICK c \in InFlight : c = commit BY DEF ImportTypes, UpdateFails, NoCommit
<1>2. c.updates \in Seq(Keys) /\ c.updates # <<>> /\ c.pc = "write" BY <1>1 DEF InFlight, UpdateFails
<1>3. PICK rest \in Seq(Keys) : rest = Tail(c.updates) /\ Len(c.updates) \in Nat /\ Len(rest) = Len(c.updates) - 1
  BY <1>2, TailIs
<1>4. PICK n \in Nat : n = c.result.skip + 1 BY DEF InFlight, Outcome
<1>5. PICK r \in Outcome : r = [c.result EXCEPT !.skip = n] BY DEF InFlight, Outcome
<1>6. r.create = c.result.create /\ r.lanes = c.result.lanes /\ r.clients = c.result.clients
  BY <1>5 DEF InFlight, Outcome
<1>7. commit' = [c EXCEPT !.updates = rest, !.whole = FALSE, !.result = r]
  BY <1>1, <1>3, <1>4, <1>5 DEF UpdateFails, InFlight
<1> QED BY <1>1, <1>2, <1>3, <1>4, <1>6, <1>7 DEF InFlight, WritesOn, CardOf

LEMMA RunRecorded ==
  ASSUME ImportTypes, RecordRun
  PROVE  /\ commit \in InFlight /\ commit' \in InFlight /\ commit' = [commit EXCEPT !.pc = "answer"]
         /\ commit.pc = "write" /\ commit.inserts = <<>> /\ commit.updates = <<>>
<1>1. commit \in InFlight BY DEF ImportTypes, RecordRun, NoCommit
<1> QED BY <1>1 DEF RecordRun, InFlight

\* Rows that were inserted are counted where they went.
LEMMA ChunkAdds ==
  ASSUME ImportTypes, InsertChunk
  PROVE  /\ keyed' \in [Keys -> Nat] /\ logged' \in [Intervals -> Nat]
         /\ commit.file.kind = "task" =>
              logged' = logged /\ \A k \in Keys : keyed'[k] = keyed[k] + Repeats(FirstChunk, k)
         /\ commit.file.kind # "task" =>
              keyed' = keyed /\ \A i \in Intervals : logged'[i] = logged[i] + Repeats(FirstChunk, i)
<1>1. \A k : Repeats(FirstChunk, k) \in Nat BY ChunkCut DEF InsertChunk
<1>2. CASE commit.file.kind = "task"
  <2>1. keyed' = Added(keyed, FirstChunk) /\ logged' = logged BY <1>2 DEF InsertChunk
  <2>2. \A k \in Keys : keyed'[k] = keyed[k] + Repeats(FirstChunk, k) BY <2>1 DEF Added, ImportTypes
  <2> QED BY <1>1, <1>2, <2>1, <2>2 DEF Added, ImportTypes
<1>3. CASE commit.file.kind # "task"
  <2>1. logged' = Added(logged, FirstChunk) /\ keyed' = keyed BY <1>3 DEF InsertChunk
  <2>2. \A i \in Intervals : logged'[i] = logged[i] + Repeats(FirstChunk, i) BY <2>1 DEF Added, ImportTypes
  <2> QED BY <1>1, <1>3, <2>1, <2>2 DEF Added, ImportTypes
<1> QED BY <1>2, <1>3

\* The bag of names grows by one.
LEMMA NameAdded ==
  ASSUME NEW S, NEW bag \in [S -> Nat], NEW l \in S
  PROVE  /\ [bag EXCEPT ![l] = @ + 1] \in [S -> Nat]
         /\ \A x \in S : [bag EXCEPT ![l] = @ + 1][x] = IF x = l THEN bag[x] + 1 ELSE bag[x]
OBVIOUS

LEMMA ImportTyped == ImportTypes /\ [ImportNext]_importVars => ImportTypes'
<1> SUFFICES ASSUME ImportTypes, [ImportNext]_importVars PROVE ImportTypes' OBVIOUS
<1> DEFINE RowsOk(c) == /\ c.row \in 1..(Len(c.file.rows) + 1)
                        /\ c.pc # "rows" => c.row = Len(c.file.rows) + 1
<1>1. ASSUME commit' \in InFlight, RowsOk(commit'),
             UNCHANGED <<lanes, clients, committed>>, keyed' \in [Keys -> Nat], logged' \in [Intervals -> Nat]
      PROVE  ImportTypes'
  BY <1>1 DEF ImportTypes
<1>2. commit \in InFlight => RowsOk(commit) /\ commit.row \in Nat /\ Len(commit.file.rows) \in Nat
  BY NoneIsNone, FilesAre DEF ImportTypes, InFlight
<1>3. CASE \E file \in Files : Commit(file) BY <1>3, CommitBegins
<1>4. CASE EnsureStream
  <2>1. lanes' \in [LaneNames -> Nat]
    <3>1. Stored(ThisRow.lane) \in LaneNames BY <1>4, StreamEnsured, ImportAssumption
    <3> QED BY <1>4, <3>1, NameAdded DEF EnsureStream, ImportTypes
  <2>2. RowsOk(commit') /\ commit' \in InFlight BY <1>2, <1>4, StreamEnsured DEF ReadsOn, KeepsRows
  <2> QED BY <1>4, <2>1, <2>2 DEF EnsureStream, ImportTypes
<1>5. CASE EnsureCustomer
  <2>1. clients' \in [Clients -> Nat]
    <3>1. Stored(ThisRow.client) \in Clients BY <1>5, CustomerEnsured, ImportAssumption
    <3> QED BY <1>5, <3>1, NameAdded DEF EnsureCustomer, ImportTypes
  <2>2. RowsOk(commit') /\ commit' \in InFlight BY <1>2, <1>5, CustomerEnsured DEF ReadsOn, KeepsRows
  <2> QED BY <1>5, <2>1, <2>2 DEF EnsureCustomer, ImportTypes
<1>6. CASE ReadRow
  <2>1. RowsOk(commit') /\ commit' \in InFlight BY <1>2, <1>6, RowRead DEF ReadsOn
  <2> QED BY <1>1, <1>6, <2>1 DEF ReadRow, ImportTypes
<1>7. CASE RowsRead
  <2>1. RowsOk(commit') /\ commit' \in InFlight BY <1>2, <1>7, AllRowsRead DEF InFlight
  <2> QED BY <1>1, <1>7, <2>1 DEF RowsRead, ImportTypes
<1>8. CASE InsertChunk
  <2>1. RowsOk(commit') /\ commit' \in InFlight BY <1>2, <1>8, ChunkWritten DEF ChunkOf, WritesOn
  <2> QED BY <1>1, <1>8, <2>1, ChunkAdds DEF InsertChunk, ImportTypes
<1>9. CASE ChunkFails
  <2>1. RowsOk(commit') /\ commit' \in InFlight BY <1>2, <1>9, ChunkLost DEF ChunkOf, WritesOn
  <2> QED BY <1>1, <1>9, <2>1 DEF ChunkFails, ImportTypes
<1>10. CASE UpdateCard
  <2>1. RowsOk(commit') /\ commit' \in InFlight BY <1>2, <1>10, CardUpdated DEF CardOf, WritesOn
  <2> QED BY <1>1, <1>10, <2>1 DEF UpdateCard, ImportTypes
<1>11. CASE UpdateFails
  <2>1. RowsOk(commit') /\ commit' \in InFlight BY <1>2, <1>11, UpdateLost DEF CardOf, WritesOn
  <2> QED BY <1>1, <1>11, <2>1 DEF UpdateFails, ImportTypes
<1>12. CASE RecordRun
  <2>1. RowsOk(commit') /\ commit' \in InFlight BY <1>2, <1>12, RunRecorded DEF InFlight
  <2> QED BY <1>1, <1>12, <2>1 DEF RecordRun, ImportTypes
<1>13. CASE Answered \/ CommitStops BY <1>13, NoneIsNone DEF Answered, CommitStops, ImportTypes
<1>14. CASE UNCHANGED importVars BY <1>14 DEF importVars, ImportTypes
<1> QED BY <1>3, <1>4, <1>5, <1>6, <1>7, <1>8, <1>9, <1>10, <1>11, <1>12, <1>13, <1>14 DEF ImportNext

\* What the commit in flight will still insert of a key, or of an interval.
Pending(kind, x) ==
  IF commit.pc # "none" /\ commit.file.kind = kind THEN Repeats(commit.inserts, x) ELSE 0

LEMMA PendingIs == ASSUME ImportTypes PROVE \A kind, x : Pending(kind, x) \in Nat
<1>1. CASE commit \in InFlight
  <2>1. PICK S : S = Keys \cup Intervals OBVIOUS
  <2>2. PICK s \in Seq(S) : s = commit.inserts BY <1>1, <2>1 DEF InFlight
  <2>3. \A x : Repeats(s, x) \in Nat BY RepeatsGrow
  <2> QED BY <2>2, <2>3 DEF Pending
<1>2. CASE commit = NoCommit BY <1>2, NoneIsNone DEF Pending, NoCommit
<1> QED BY <1>1, <1>2 DEF ImportTypes

LEMMA NoneIsPending ==
  ASSUME commit'.pc = "none" \/ commit'.inserts = <<>>
  PROVE  \A kind, x : Pending(kind, x)' = 0
<1>1. \A x : Repeats(<<>>, x) = 0
  <2>1. <<>> \in Seq({}) OBVIOUS
  <2> QED BY <2>1, RepeatsGrow
<1> QED BY <1>1 DEF Pending

LEMMA PendingKept ==
  ASSUME commit.pc # "none", commit'.pc # "none", commit'.file = commit.file, commit'.inserts = commit.inserts
  PROVE  \A kind, x : Pending(kind, x)' = Pending(kind, x)
BY DEF Pending

\* A row that is read may become pending, and a chunk is pending no more.
LEMMA PendingGrows ==
  ASSUME ImportTypes, commit \in InFlight, commit' \in InFlight, commit'.file = commit.file,
         NEW y \in Keys \cup Intervals, commit'.inserts = Append(commit.inserts, y)
  PROVE  \A kind, x : Pending(kind, x)' = IF x = y /\ commit.file.kind = kind THEN Pending(kind, x) + 1 ELSE Pending(kind, x)
<1>1. PICK S : S = Keys \cup Intervals OBVIOUS
<1>2. PICK s \in Seq(S) : s = commit.inserts BY <1>1 DEF InFlight
<1>3. \A x : Repeats(Append(s, y), x) = IF y = x THEN Repeats(s, x) + 1 ELSE Repeats(s, x) BY <1>1, RepeatsGrow
<1> QED BY <1>2, <1>3, NoneIsNone DEF Pending

LEMMA PendingShrinks ==
  ASSUME ImportTypes, ChunkOf(commit, commit'), commit.inserts # <<>>
  PROVE  \A kind, x : /\ commit.file.kind = kind =>
                           /\ Pending(kind, x) = Repeats(FirstChunk, x) + Pending(kind, x)'
                           /\ Repeats(FirstChunk, x) \in Nat /\ Pending(kind, x)' \in Nat
                      /\ commit.file.kind # kind => Pending(kind, x) = 0 /\ Pending(kind, x)' = 0
<1>1. commit.pc # "none" /\ commit'.pc # "none" /\ commit'.file = commit.file /\ commit'.inserts = RestOfInserts
  BY DEF ChunkOf, WritesOn
<1>2. \A k : /\ Repeats(commit.inserts, k) = Repeats(FirstChunk, k) + Repeats(RestOfInserts, k)
             /\ Repeats(FirstChunk, k) \in Nat /\ Repeats(RestOfInserts, k) \in Nat
  BY ChunkCut DEF ChunkOf
<1> QED BY <1>1, <1>2 DEF Pending

\* What a commit is about to insert is logged nowhere, and it knows every key there
\* is and every name that lasts, whatever it met since it read them.
NothingTwice ==
  /\ ImportedOnce
  /\ \A i \in Intervals : logged[i] + Pending("time", i) <= 1
  /\ commit.pc = "rows" =>
       /\ Present(keyed) \subseteq commit.index.keys
       /\ \A l \in Present(lanes) : Lasts(l, LaneNames) => NameKey(l) \in commit.index.lanes
       /\ \A l \in Present(clients) : Lasts(l, Clients) => NameKey(l) \in commit.index.clients
       /\ \A i \in Intervals : logged[i] + Pending("time", i) > 0 => i \in commit.index.seen

\* A name that no row carries, created as the column keeps it.
LEMMA NameJoins ==
  ASSUME NEW S, NEW bag \in [S -> Nat], NEW index, OneOfAName(bag, S),
         \A l \in Present(bag) : Lasts(l, S) => NameKey(l) \in index,
         NEW l \in S, NameKey(l) \notin index, Stored(l) \in S
  PROVE  LET next == [bag EXCEPT ![Stored(l)] = @ + 1]
         IN /\ OneOfAName(next, S)
            /\ \A x \in Present(next) : Lasts(x, S) => NameKey(x) \in index \cup {NameKey(l)}
<1> DEFINE c    == Stored(l)
           next == [bag EXCEPT ![c] = @ + 1]
<1>1. next \in [S -> Nat] /\ \A x \in S : next[x] = IF x = c THEN bag[x] + 1 ELSE bag[x] BY NameAdded
<1>2. \A x \in S : Lasts(x, S) /\ NameKey(x) = NameKey(c) => NameKey(x) = NameKey(l) BY DEF Lasts
<1>3. \A x \in S : Lasts(x, S) /\ NameKey(x) = NameKey(c) => bag[x] = 0 BY <1>2 DEF Present
<1>4. \A x \in S : next[x] > 0 => x = c \/ bag[x] > 0 BY <1>1
<1>5. \A x \in S, y \in S : NameKey(x) = NameKey(y) => (Lasts(x, S) <=> Lasts(y, S)) BY DEF Lasts
<1>6. OneOfAName(next, S)
  <2> SUFFICES ASSUME NEW x \in S, NEW y \in S, next[x] > 0, next[y] > 0, NameKey(x) = NameKey(y), Lasts(x, S)
               PROVE  x = y /\ next[x] = 1
    BY DEF OneOfAName
  <2>1. CASE NameKey(x) = NameKey(c)
    <3>1. Lasts(y, S) /\ bag[x] = 0 /\ bag[y] = 0 BY <1>3, <1>5, <2>1
    <3>2. x = c /\ y = c BY <1>4, <3>1
    <3> QED BY <1>1, <3>1, <3>2
  <2>2. CASE NameKey(x) # NameKey(c) BY <1>1, <1>4, <2>2 DEF OneOfAName
  <2> QED BY <2>1, <2>2
<1>7. ASSUME NEW x \in Present(next), Lasts(x, S) PROVE NameKey(x) \in index \cup {NameKey(l)}
  <2>1. x \in S /\ next[x] > 0 BY <1>1, <1>7 DEF Present
  <2>2. CASE x = c BY <1>2, <1>7, <2>1, <2>2
  <2>3. CASE x # c BY <1>1, <1>7, <2>1, <2>3 DEF Present
  <2> QED BY <2>2, <2>3
<1> QED BY <1>6, <1>7

LEMMA OnceKept == ImportTypes /\ NothingTwice /\ [ImportNext]_importVars => NothingTwice'
<1> SUFFICES ASSUME ImportTypes, NothingTwice, [ImportNext]_importVars PROVE NothingTwice' OBVIOUS
<1>1. \A kind, x : Pending(kind, x) \in Nat BY PendingIs
<1>2. ASSUME UNCHANGED <<keyed, lanes, clients, logged>>, \A i \in Intervals : Pending("time", i)' <= Pending("time", i),
             \A i \in Intervals : Pending("time", i)' \in Nat,
             commit'.pc = "rows" => commit.pc = "rows" /\ commit'.index = commit.index
      PROVE  NothingTwice'
  <2>1. ImportedOnce' BY <1>2 DEF NothingTwice, ImportedOnce
  <2>2. \A i \in Intervals : logged[i] \in Nat /\ Pending("time", i) \in Nat BY <1>1 DEF ImportTypes
  <2>3. \A i \in Intervals : /\ (logged[i] + Pending("time", i) <= 1)'
                             /\ (logged[i] + Pending("time", i) > 0)' => logged[i] + Pending("time", i) > 0
    BY <1>2, <2>2 DEF NothingTwice
  <2>4. /\ Present(keyed)' = Present(keyed) /\ Present(lanes)' = Present(lanes) /\ Present(clients)' = Present(clients)
    BY <1>2 DEF Present
  <2> QED BY <1>2, <2>1, <2>3, <2>4 DEF NothingTwice
<1>3. CASE \E file \in Files : Commit(file)
  <2>1. PICK file \in Files : Commit(file) BY <1>3
  <2>2. /\ commit'.pc = "rows" /\ commit'.index = OrgIndex /\ commit'.inserts = <<>>
        /\ UNCHANGED <<keyed, lanes, clients, logged>> BY <2>1 DEF Commit
  <2>3. \A kind, x : Pending(kind, x)' = 0 BY <2>2, NoneIsPending
  <2>4. ImportedOnce' BY <2>2 DEF NothingTwice, ImportedOnce
  <2>5. \A i \in Intervals : (logged[i] + Pending("time", i))' = logged[i] /\ logged[i] <= 1
    BY <2>2, <2>3 DEF NothingTwice, ImportedOnce, ImportTypes
  <2>6. /\ Present(keyed)' = commit'.index.keys /\ KeysOf(Present(lanes))' = commit'.index.lanes
        /\ KeysOf(Present(clients))' = commit'.index.clients
        /\ \A i \in Intervals : logged[i] > 0 => i \in commit'.index.seen
    BY <2>2 DEF OrgIndex, Present, ImportTypes, KeysOf
  <2> QED BY <2>4, <2>5, <2>6 DEF NothingTwice, KeysOf
<1>4. CASE EnsureStream
  <2>1. PICK l \in LaneNames : l = ThisRow.lane BY <1>4, StreamEnsured
  <2>2. /\ NameKey(l) \notin commit.index.lanes /\ commit'.index.lanes = commit.index.lanes \cup {NameKey(l)}
        /\ commit.pc = "rows" /\ commit'.pc = "rows" /\ commit'.file = commit.file /\ commit'.inserts = commit.inserts
        /\ commit'.index.keys = commit.index.keys /\ commit'.index.clients = commit.index.clients
        /\ commit'.index.seen = commit.index.seen
    BY <1>4, <2>1, StreamEnsured DEF ReadsOn, KeepsRows, EnsureStream, Reading
  <2>3. PICK c \in LaneNames : c = Stored(l) BY ImportAssumption
  <2>4. lanes' = [lanes EXCEPT ![c] = @ + 1] /\ UNCHANGED <<keyed, clients, logged>> BY <1>4, <2>1, <2>3 DEF EnsureStream
  <2>5. /\ OneOfAName(lanes, LaneNames)' /\ \A x \in Present(lanes)' : Lasts(x, LaneNames) => NameKey(x) \in commit'.index.lanes
    BY <2>2, <2>3, <2>4, NameJoins DEF NothingTwice, ImportedOnce, ImportTypes
  <2>6. ImportedOnce' BY <2>4, <2>5 DEF NothingTwice, ImportedOnce
  <2>7. \A kind, x : Pending(kind, x)' = Pending(kind, x) BY <2>2, PendingKept
  <2>8. Present(keyed)' = Present(keyed) /\ Present(clients)' = Present(clients) BY <2>4 DEF Present
  <2> QED BY <2>2, <2>4, <2>5, <2>6, <2>7, <2>8 DEF NothingTwice
<1>5. CASE EnsureCustomer
  <2>1. PICK l \in Clients : l = ThisRow.client BY <1>5, CustomerEnsured
  <2>2. /\ NameKey(l) \notin commit.index.clients /\ commit'.index.clients = commit.index.clients \cup {NameKey(l)}
        /\ commit.pc = "rows" /\ commit'.pc = "rows" /\ commit'.file = commit.file /\ commit'.inserts = commit.inserts
        /\ commit'.index.keys = commit.index.keys /\ commit'.index.lanes = commit.index.lanes
        /\ commit'.index.seen = commit.index.seen
    BY <1>5, <2>1, CustomerEnsured DEF ReadsOn, KeepsRows, EnsureCustomer, Reading
  <2>3. PICK c \in Clients : c = Stored(l) BY ImportAssumption
  <2>4. clients' = [clients EXCEPT ![c] = @ + 1] /\ UNCHANGED <<keyed, lanes, logged>> BY <1>5, <2>1, <2>3 DEF EnsureCustomer
  <2>5. /\ OneOfAName(clients, Clients)' /\ \A x \in Present(clients)' : Lasts(x, Clients) => NameKey(x) \in commit'.index.clients
    BY <2>2, <2>3, <2>4, NameJoins DEF NothingTwice, ImportedOnce, ImportTypes
  <2>6. ImportedOnce' BY <2>4, <2>5 DEF NothingTwice, ImportedOnce
  <2>7. \A kind, x : Pending(kind, x)' = Pending(kind, x) BY <2>2, PendingKept
  <2>8. Present(keyed)' = Present(keyed) /\ Present(lanes)' = Present(lanes) BY <2>4 DEF Present
  <2> QED BY <2>2, <2>4, <2>5, <2>6, <2>7, <2>8 DEF NothingTwice
<1>6. CASE ReadRow
  <2>1. /\ commit \in InFlight /\ commit' \in InFlight /\ commit.pc = "rows" /\ commit'.pc = "rows"
        /\ commit'.file = commit.file /\ commit'.index.keys = commit.index.keys
        /\ commit'.index.lanes = commit.index.lanes /\ commit'.index.clients = commit.index.clients
    BY <1>6, RowRead DEF ReadsOn, KeepsNames, ReadRow, Reading
  <2>2. UNCHANGED <<keyed, lanes, clients, logged>> BY <1>6 DEF ReadRow
  <2>3. ImportedOnce' BY <2>2 DEF NothingTwice, ImportedOnce
  <2>4. Present(keyed)' = Present(keyed) /\ Present(lanes)' = Present(lanes) /\ Present(clients)' = Present(clients)
    BY <2>2 DEF Present
  <2>5. ASSUME commit'.inserts = commit.inserts, commit'.index.seen = commit.index.seen PROVE NothingTwice'
    <3>1. \A kind, x : Pending(kind, x)' = Pending(kind, x) BY <2>1, <2>5, NoneIsNone, PendingKept
    <3> QED BY <2>1, <2>2, <2>3, <2>4, <2>5, <3>1 DEF NothingTwice
  <2>6. ASSUME Skips(commit, commit') PROVE NothingTwice' BY <2>5, <2>6 DEF Skips
  <2>7. ASSUME Updates(commit, commit') PROVE NothingTwice' BY <2>5, <2>7 DEF Updates
  <2>8. CASE ThisRow # Refused /\ commit.file.kind = "task"
    <3>1. CASE Updates(commit, commit') BY <2>7, <3>1
    <3>2. CASE Inserts(commit, commit', ThisRow.key)
      <4>1. PICK y \in Keys : y = ThisRow.key BY <1>6, <2>8, RowRead
      <4>2. commit'.inserts = Append(commit.inserts, y) /\ commit'.index.seen = commit.index.seen
        BY <2>8, <3>2, <4>1 DEF Inserts
      <4>3. \A x : Pending("time", x)' = Pending("time", x) BY <2>1, <2>8, <4>2, PendingGrows
      <4> QED BY <2>1, <2>2, <2>3, <2>4, <4>2, <4>3 DEF NothingTwice
    <3> QED BY <1>6, <2>8, <3>1, <3>2, RowRead
  <2>9. CASE ThisRow # Refused /\ commit.file.kind = "time"
    <3>1. CASE Skips(commit, commit') BY <2>6, <3>1
    <3>2. CASE ThisRow.interval \notin commit.index.seen /\ Inserts(commit, commit', ThisRow.interval)
      <4>1. PICK y \in Intervals : y = ThisRow.interval BY <1>6, <2>9, RowRead
      <4>2. commit'.inserts = Append(commit.inserts, y) /\ commit'.index.seen = commit.index.seen \cup {y}
        BY <2>9, <3>2, <4>1 DEF Inserts
      <4>3. \A x : Pending("time", x)' = IF x = y THEN Pending("time", x) + 1 ELSE Pending("time", x)
        BY <2>1, <2>9, <4>2, PendingGrows
      <4>4. logged[y] = 0 /\ Pending("time", y) = 0
        <5>1. ~(logged[y] + Pending("time", y) > 0) BY <2>1, <3>2, <4>1 DEF NothingTwice
        <5>2. logged[y] \in Nat /\ Pending("time", y) \in Nat BY <1>1 DEF ImportTypes
        <5> QED BY <5>1, <5>2
      <4>5. \A i \in Intervals : /\ (logged[i] + Pending("time", i) <= 1)'
                                 /\ (logged[i] + Pending("time", i) > 0)' => i \in commit'.index.seen
        BY <2>1, <2>2, <4>2, <4>3, <4>4 DEF NothingTwice
      <4> QED BY <2>1, <2>2, <2>3, <2>4, <4>5 DEF NothingTwice
    <3> QED BY <1>6, <2>9, <3>1, <3>2, RowRead
  <2>10. CASE ThisRow = Refused BY <1>6, <2>6, <2>10, RowRead
  <2> QED BY <2>1, <2>8, <2>9, <2>10, FilesAre DEF InFlight
<1>7. CASE RowsRead
  <2>1. /\ commit.pc # "none" /\ commit'.pc = "write" /\ commit'.file = commit.file /\ commit'.inserts = commit.inserts
    BY <1>7, AllRowsRead DEF InFlight
  <2>2. \A kind, x : Pending(kind, x)' = Pending(kind, x) BY <2>1, PendingKept
  <2> QED BY <1>1, <1>2, <1>7, <2>1, <2>2 DEF RowsRead
<1>8. CASE InsertChunk
  <2>1. ChunkOf(commit, commit') BY <1>8, ChunkWritten
  <2>2. commit.inserts # <<>> /\ commit'.pc = "write" /\ UNCHANGED <<lanes, clients>> BY <1>8, <2>1 DEF InsertChunk, ChunkOf
  <2>3. ASSUME NEW i \in Intervals
        PROVE  logged'[i] \in Nat /\ Pending("time", i)' \in Nat /\ logged'[i] + Pending("time", i)' <= 1
    <3>1. logged[i] \in Nat /\ logged[i] + Pending("time", i) <= 1 BY DEF ImportTypes, NothingTwice
    <3>2. CASE commit.file.kind = "task"
      <4>1. logged' = logged /\ Pending("time", i)' = 0 /\ Pending("time", i) = 0
        BY <1>8, <2>1, <2>2, <3>2, PendingShrinks, ChunkAdds
      <4> QED BY <3>1, <4>1
    <3>3. CASE commit.file.kind = "time"
      <4>1. PICK f \in Nat : f = Repeats(FirstChunk, i) BY <2>1, <2>2, <3>3, PendingShrinks
      <4>2. PICK p \in Nat : p = Pending("time", i)' BY <2>1, <2>2, <3>3, PendingShrinks
      <4>3. Pending("time", i) = f + p BY <2>1, <2>2, <3>3, <4>1, <4>2, PendingShrinks
      <4>4. logged'[i] = logged[i] + f BY <1>8, <3>3, <4>1, ChunkAdds
      <4> QED BY <3>1, <4>2, <4>3, <4>4
    <3> QED BY <2>1, <3>2, <3>3, FilesAre DEF ChunkOf, InFlight
  <2>4. \A i \in Intervals : logged'[i] <= 1
    <3> SUFFICES ASSUME NEW i \in Intervals PROVE logged'[i] <= 1 OBVIOUS
    <3>1. PICK a \in Nat, b \in Nat : a = logged'[i] /\ b = Pending("time", i)' BY <2>3
    <3>2. a + b <= 1 BY <2>3, <3>1
    <3> QED BY <3>1, <3>2
  <2>5. ImportedOnce' BY <2>2, <2>4 DEF NothingTwice, ImportedOnce
  <2> QED BY <2>2, <2>3, <2>5 DEF NothingTwice
<1>9. CASE ChunkFails
  <2>1. ChunkOf(commit, commit') BY <1>9, ChunkLost
  <2>2. commit.inserts # <<>> /\ commit'.pc = "write" BY <1>9, <2>1 DEF ChunkFails, ChunkOf
  <2>3. ASSUME NEW i \in Intervals PROVE Pending("time", i)' \in Nat /\ Pending("time", i)' <= Pending("time", i)
    <3>1. CASE commit.file.kind = "time"
      <4>1. PICK f \in Nat, p \in Nat : f = Repeats(FirstChunk, i) /\ p = Pending("time", i)'
        BY <2>1, <2>2, <3>1, PendingShrinks
      <4>2. Pending("time", i) = f + p BY <2>1, <2>2, <3>1, <4>1, PendingShrinks
      <4> QED BY <4>1, <4>2
    <3>2. CASE commit.file.kind # "time" BY <2>1, <2>2, <3>2, PendingShrinks
    <3> QED BY <3>1, <3>2
  <2> QED BY <1>2, <1>9, <2>2, <2>3 DEF ChunkFails
<1>10. CASE UpdateCard \/ UpdateFails
  <2>1. CardOf(commit, commit') BY <1>10, CardUpdated, UpdateLost
  <2>2. commit.pc # "none" /\ commit'.pc = "write" /\ commit'.file = commit.file /\ commit'.inserts = commit.inserts
    BY <2>1 DEF CardOf, WritesOn
  <2>3. \A kind, x : Pending(kind, x)' = Pending(kind, x) BY <2>2, PendingKept
  <2> QED BY <1>1, <1>2, <1>10, <2>2, <2>3 DEF UpdateCard, UpdateFails
<1>11. CASE RecordRun
  <2>1. /\ commit.pc # "none" /\ commit'.pc = "answer" /\ commit'.file = commit.file /\ commit'.inserts = commit.inserts
    BY <1>11, RunRecorded DEF InFlight
  <2>2. \A kind, x : Pending(kind, x)' = Pending(kind, x) BY <2>1, PendingKept
  <2> QED BY <1>1, <1>2, <1>11, <2>1, <2>2 DEF RecordRun
<1>12. CASE Answered \/ CommitStops
  <2>1. commit'.pc = "none" /\ UNCHANGED <<keyed, lanes, clients, logged>> BY <1>12 DEF Answered, CommitStops, NoCommit
  <2>2. \A kind, x : Pending(kind, x)' = 0 BY <2>1, NoneIsPending
  <2>3. \A i \in Intervals : Pending("time", i)' <= Pending("time", i) /\ Pending("time", i)' \in Nat BY <1>1, <2>2
  <2> QED BY <1>2, <2>1, <2>3
<1>13. CASE UNCHANGED importVars
  <2>1. commit' = commit /\ UNCHANGED <<keyed, lanes, clients, logged>> BY <1>13 DEF importVars
  <2>2. \A kind, x : Pending(kind, x)' = Pending(kind, x) BY <2>1 DEF Pending
  <2> QED BY <1>1, <1>2, <2>1, <2>2
<1> QED BY <1>3, <1>4, <1>5, <1>6, <1>7, <1>8, <1>9, <1>10, <1>11, <1>12, <1>13 DEF ImportNext

\* A key has never more cards than a file that was committed has rows of it, and
\* what is pending fits beside them.
Named(file, k) == {i \in DOMAIN file.rows : file.kind = "task" /\ file.rows[i] # Refused /\ file.rows[i].key = k}
Met(file, row, k) == Cardinality({i \in Named(file, k) : i < row})

LEMMA MetGrows ==
  ASSUME NEW file \in Files, NEW row \in 1..Len(file.rows), NEW k
  PROVE  /\ Met(file, row, k) \in Nat /\ Met(file, row + 1, k) \in Nat
         /\ Met(file, row + 1, k) = IF row \in Named(file, k) THEN Met(file, row, k) + 1 ELSE Met(file, row, k)
<1> DEFINE A == {i \in Named(file, k) : i < row}
           B == {i \in Named(file, k) : i < row + 1}
           n == Len(file.rows)
<1>1. n \in Nat /\ Named(file, k) \in SUBSET (1..n) /\ row \in Nat BY FilesAre DEF Named
<1>2. IsFiniteSet(A) /\ IsFiniteSet(B)
  <2>1. IsFiniteSet(1..n) BY <1>1, FS_Interval
  <2>2. A \in SUBSET (1..n) /\ B \in SUBSET (1..n) BY <1>1
  <2> HIDE DEF A, B
  <2> QED BY <2>1, <2>2, FS_Subset
<1>3. Cardinality(A) \in Nat /\ Cardinality(B) \in Nat
  <2> HIDE DEF A, B
  <2> QED BY <1>2, FS_CardinalityType
<1>4. CASE row \in Named(file, k)
  <2>1. B = A \cup {row} /\ row \notin A BY <1>1, <1>4
  <2>2. Cardinality(B) = Cardinality(A) + 1
    <3> HIDE DEF A, B
    <3> QED BY <1>2, <2>1, FS_AddElement
  <2> QED BY <1>3, <1>4, <2>2 DEF Met
<1>5. CASE row \notin Named(file, k)
  <2>1. B = A BY <1>1, <1>5
  <2> QED BY <1>3, <1>5, <2>1 DEF Met
<1> QED BY <1>4, <1>5

LEMMA MetIsNat == ASSUME NEW file \in Files, NEW row, NEW k PROVE Met(file, row, k) \in Nat
<1> DEFINE A == {i \in Named(file, k) : i < row}
<1>1. IsFiniteSet(1..Len(file.rows))
  <2>1. PICK n \in Nat : n = Len(file.rows) BY FilesAre
  <2>2. IsFiniteSet(1..n) BY <2>1, FS_Interval
  <2> QED BY <2>1, <2>2
<1>2. A \in SUBSET (1..Len(file.rows)) BY FilesAre DEF Named
<1> HIDE DEF A
<1>3. Cardinality(A) \in Nat BY <1>1, <1>2, FS_Subset, FS_CardinalityType
<1> QED BY <1>3 DEF Met, A

LEMMA AllIsMet ==
  ASSUME NEW file \in Files, NEW k
  PROVE  Occurrences(file, k) \in Nat /\ Occurrences(file, k) = Met(file, Len(file.rows) + 1, k)
<1> DEFINE n == Len(file.rows)
<1>1. n \in Nat /\ Named(file, k) \in SUBSET (1..n) BY FilesAre DEF Named
<1>2. {i \in Named(file, k) : i < n + 1} = Named(file, k) BY <1>1
<1>3. IsFiniteSet(Named(file, k))
  <2>1. IsFiniteSet(1..n) BY <1>1, FS_Interval
  <2> HIDE DEF n
  <2> QED BY <1>1, <2>1, FS_Subset
<1>4. Cardinality(Named(file, k)) \in Nat BY <1>3, FS_CardinalityType
<1> QED BY <1>2, <1>4 DEF Occurrences, Met, Named

KeyFits(k) == keyed[k] = 0 \/ \E c \in committed : keyed[k] <= Occurrences(c[2], k)
HasRoom(k) == Pending("task", k) = 0 \/ keyed[k] + Pending("task", k) <= Met(commit.file, commit.row, k)

KeysFit ==
  /\ \A k \in Keys : KeyFits(k) /\ HasRoom(k)
  /\ commit.pc # "none" => \E c \in committed : c[2] = commit.file

LEMMA FitsKept == ImportTypes /\ NothingTwice /\ KeysFit /\ [ImportNext]_importVars => KeysFit'
<1> SUFFICES ASSUME ImportTypes, NothingTwice, KeysFit, [ImportNext]_importVars PROVE KeysFit' OBVIOUS
<1>1. \A kind, x : Pending(kind, x) \in Nat BY PendingIs
<1>2. \A k \in Keys : keyed[k] \in Nat BY DEF ImportTypes
<1>3. ASSUME UNCHANGED <<keyed, committed>>, commit.pc # "none", commit'.pc # "none", commit'.file = commit.file,
             commit'.row = commit.row, \A k \in Keys : Pending("task", k)' \in Nat /\ Pending("task", k)' <= Pending("task", k)
      PROVE  KeysFit'
  <2>1. ASSUME NEW k \in Keys PROVE KeyFits(k)' /\ HasRoom(k)'
    <3>1. KeyFits(k)' BY <1>3 DEF KeysFit, KeyFits
    <3>2. CASE Pending("task", k)' = 0 BY <3>1, <3>2 DEF HasRoom
    <3>3. CASE Pending("task", k)' # 0
      <4>1. PICK p \in Nat : p = Pending("task", k) BY <1>1
      <4>2. PICK q \in Nat : q = Pending("task", k)' BY <1>3
      <4>3. q <= p /\ q # 0 BY <1>3, <3>3, <4>1, <4>2
      <4>4. PICK m : m = Met(commit.file, commit.row, k) OBVIOUS
      <4>5. keyed[k] + p <= m BY <4>1, <4>3, <4>4 DEF KeysFit, HasRoom
      <4>6. m \in Nat
        <5>1. commit \in InFlight BY <1>3 DEF ImportTypes, NoCommit
        <5> QED BY <4>4, <5>1, MetIsNat DEF ImportTypes, InFlight
      <4>7. keyed[k] + q <= m BY <1>2, <4>3, <4>5, <4>6
      <4>8. Met(commit.file, commit.row, k)' = m BY <1>3, <4>4
      <4> QED BY <1>3, <3>1, <4>2, <4>7, <4>8 DEF HasRoom
    <3> QED BY <3>2, <3>3
  <2> QED BY <1>3, <2>1 DEF KeysFit
<1>4. ASSUME commit.pc # "none", commit'.pc # "none", commit'.file = commit.file, commit'.inserts = commit.inserts,
             commit'.row = commit.row, UNCHANGED <<keyed, committed>>
      PROVE  KeysFit'
  <2>1. \A k : Pending("task", k)' = Pending("task", k) BY <1>4, PendingKept
  <2> QED BY <1>1, <1>3, <1>4, <2>1
<1>5. CASE \E file \in Files : Commit(file)
  <2>1. PICK file \in Files : Commit(file) BY <1>5
  <2>2. commit'.file = file /\ commit'.inserts = <<>> /\ keyed' = keyed BY <2>1 DEF Commit
  <2>3. committed' = committed \cup {<<Cardinality(committed) + 1, file>>} BY <2>1 DEF Commit
  <2>4. \A k : Pending("task", k)' = 0 BY <2>2, NoneIsPending
  <2>5. \A k \in Keys : KeyFits(k)' BY <2>2, <2>3 DEF KeysFit, KeyFits
  <2>6. \E c \in committed' : c[2] = commit'.file
    <3>1. PICK c : c = <<Cardinality(committed) + 1, file>> OBVIOUS
    <3>2. c \in committed' /\ c[2] = file BY <2>3, <3>1
    <3> QED BY <2>2, <3>2
  <2> QED BY <2>4, <2>5, <2>6 DEF KeysFit, HasRoom
<1>6. CASE EnsureStream
  BY <1>4, <1>6, StreamEnsured, NoneIsNone DEF EnsureStream, ReadsOn, KeepsRows
<1>7. CASE EnsureCustomer
  BY <1>4, <1>7, CustomerEnsured, NoneIsNone DEF EnsureCustomer, ReadsOn, KeepsRows
<1>8. CASE ReadRow
  <2>1. /\ commit \in InFlight /\ commit' \in InFlight /\ commit.pc = "rows" /\ commit'.pc = "rows"
        /\ commit'.file = commit.file /\ commit'.row = commit.row + 1 /\ commit.row \in 1..Len(commit.file.rows)
    BY <1>8, RowRead DEF ReadsOn, ReadRow, Reading
  <2>2. UNCHANGED <<keyed, committed>> BY <1>8 DEF ReadRow
  <2>3. PICK file \in Files : file = commit.file BY <2>1 DEF InFlight
  <2>4. PICK row \in 1..Len(file.rows) : row = commit.row /\ file = commit.file BY <2>3, <2>1
  <2>5. ASSUME NEW k \in Keys, Pending("task", k)' = Pending("task", k) PROVE HasRoom(k)'
    <3>1. PICK m \in Nat, w \in Nat : m = Met(file, row, k) /\ w = Met(file, row + 1, k) /\ w >= m BY <2>4, MetGrows
    <3>2. Met(commit.file, commit.row, k) = m /\ Met(commit.file, commit.row, k)' = w BY <2>1, <2>4, <3>1
    <3>3. CASE Pending("task", k) = 0 BY <2>5, <3>3 DEF HasRoom
    <3>4. CASE Pending("task", k) # 0
      <4>1. keyed[k] + Pending("task", k) <= m BY <3>2, <3>4 DEF KeysFit, HasRoom
      <4>2. keyed[k] + Pending("task", k) <= w BY <1>1, <1>2, <3>1, <4>1
      <4> QED BY <2>2, <2>5, <3>2, <4>2 DEF HasRoom
    <3> QED BY <3>3, <3>4
  <2>6. ASSUME \A k \in Keys : HasRoom(k)' PROVE KeysFit' BY <2>1, <2>2, <2>6 DEF KeysFit, KeyFits
  <2>7. ASSUME commit'.inserts = commit.inserts PROVE KeysFit'
    <3>1. \A x : Pending("task", x)' = Pending("task", x) BY <2>1, <2>7, NoneIsNone, PendingKept
    <3> QED BY <2>5, <2>6, <3>1
  <2>8. CASE ThisRow # Refused /\ commit.file.kind = "task"
    <3>1. CASE Updates(commit, commit') BY <2>7, <3>1 DEF Updates
    <3>2. CASE ThisRow.key \notin commit.index.keys /\ Inserts(commit, commit', ThisRow.key)
      <4>1. PICK y \in Keys : y = ThisRow.key BY <1>8, <2>8, RowRead
      <4>2. commit'.inserts = Append(commit.inserts, y) BY <3>2, <4>1 DEF Inserts
      <4>3. \A x : Pending("task", x)' = IF x = y THEN Pending("task", x) + 1 ELSE Pending("task", x)
        BY <2>1, <2>8, <4>2, PendingGrows
      <4>4. keyed[y] = 0 BY <2>1, <3>2, <4>1 DEF NothingTwice, Present, ImportTypes
      <4>5. row \in Named(file, y) BY <2>4, <2>8, <4>1, FilesAre DEF Named, ThisRow
      <4>6. HasRoom(y)'
        <5>1. PICK m \in Nat : m = Met(file, row, y) /\ Met(file, row + 1, y) = m + 1 BY <2>4, <4>5, MetGrows
        <5>2. Met(commit.file, commit.row, y) = m /\ Met(commit.file, commit.row, y)' = m + 1 BY <2>1, <2>4, <5>1
        <5>3. PICK p \in Nat : p = Pending("task", y) BY <1>1
        <5>4. p <= m
          <6>1. p = 0 \/ keyed[y] + p <= m BY <5>2, <5>3 DEF KeysFit, HasRoom
          <6> QED BY <4>4, <6>1
        <5>5. keyed'[y] = 0 /\ Pending("task", y)' = p + 1 BY <2>2, <4>3, <4>4, <5>3
        <5>6. keyed'[y] + Pending("task", y)' <= m + 1 BY <5>4, <5>5
        <5> QED BY <5>2, <5>6 DEF HasRoom
      <4> QED BY <2>5, <2>6, <4>3, <4>6
    <3> QED BY <1>8, <2>8, <3>1, <3>2, RowRead
  <2>9. CASE ThisRow # Refused /\ commit.file.kind = "time"
    <3>1. CASE Skips(commit, commit') BY <2>7, <3>1 DEF Skips
    <3>2. CASE Inserts(commit, commit', ThisRow.interval)
      <4>1. PICK y \in Intervals : y = ThisRow.interval BY <1>8, <2>9, RowRead
      <4>2. commit'.inserts = Append(commit.inserts, y) BY <3>2, <4>1 DEF Inserts
      <4>3. \A x : Pending("task", x)' = Pending("task", x) BY <2>1, <2>9, <4>2, PendingGrows
      <4> QED BY <2>5, <2>6, <4>3
    <3> QED BY <1>8, <2>9, <3>1, <3>2, RowRead
  <2>10. CASE ThisRow = Refused
    <3>1. Skips(commit, commit') BY <1>8, <2>10, RowRead
    <3> QED BY <2>7, <3>1 DEF Skips
  <2> QED BY <2>1, <2>8, <2>9, <2>10, FilesAre DEF InFlight
<1>9. CASE RowsRead
  <2>1. /\ commit.pc # "none" /\ commit'.pc # "none" /\ commit'.file = commit.file /\ commit'.inserts = commit.inserts
        /\ commit'.row = commit.row
    BY <1>9, AllRowsRead DEF InFlight
  <2> QED BY <1>4, <1>9, <2>1 DEF RowsRead
<1>10. CASE InsertChunk
  <2>1. ChunkOf(commit, commit') BY <1>10, ChunkWritten
  <2>2. /\ commit.inserts # <<>> /\ commit.pc = "write" /\ commit'.pc = "write" /\ committed' = committed
        /\ commit'.file = commit.file /\ commit'.row = commit.row /\ commit \in InFlight
    BY <1>10, <2>1 DEF InsertChunk, ChunkOf, WritesOn
  <2>3. CASE commit.file.kind = "task"
    <3>1. ASSUME NEW k \in Keys PROVE KeyFits(k)' /\ HasRoom(k)'
      <4>1. PICK f \in Nat, p \in Nat : f = Repeats(FirstChunk, k) /\ p = Pending("task", k)'
        BY <2>1, <2>2, <2>3, PendingShrinks
      <4>2. Pending("task", k) = f + p BY <2>1, <2>2, <2>3, <4>1, PendingShrinks
      <4>3. keyed'[k] = keyed[k] + f BY <1>10, <2>3, <4>1, ChunkAdds
      <4>4. PICK m \in Nat : m = Met(commit.file, commit.row, k) BY <2>2, MetIsNat DEF ImportTypes, InFlight
      <4>5. f + p = 0 \/ keyed[k] + (f + p) <= m BY <4>2, <4>4 DEF KeysFit, HasRoom
      <4>6. p = 0 \/ keyed'[k] + p <= m BY <1>2, <4>3, <4>5
      <4>7. Met(commit.file, commit.row, k)' = m BY <2>2, <4>4
      <4>8. HasRoom(k)' BY <4>1, <4>6, <4>7 DEF HasRoom
      <4>9. CASE f = 0
        <5>1. keyed'[k] = keyed[k] BY <1>2, <4>3, <4>9
        <5> QED BY <2>2, <4>8, <5>1 DEF KeysFit, KeyFits
      <4>10. CASE f # 0
        <5>1. keyed'[k] <= m BY <1>2, <4>3, <4>5, <4>10
        <5>2. PICK c \in committed : c[2] = commit.file BY <2>2 DEF KeysFit
        <5>3. Occurrences(commit.file, k) = m
          <6>1. commit.file \in Files /\ commit.row = Len(commit.file.rows) + 1 BY <2>2 DEF ImportTypes, InFlight
          <6> QED BY <4>4, <6>1, AllIsMet
        <5> QED BY <2>2, <4>8, <5>1, <5>2, <5>3 DEF KeyFits
      <4> QED BY <4>9, <4>10
    <3> QED BY <2>2, <3>1 DEF KeysFit
  <2>4. CASE commit.file.kind # "task"
    <3>1. keyed' = keyed /\ \A k : Pending("task", k)' = 0 BY <1>10, <2>1, <2>2, <2>4, PendingShrinks, ChunkAdds
    <3> QED BY <1>1, <1>3, <2>2, <3>1
  <2> QED BY <2>3, <2>4
<1>11. CASE ChunkFails
  <2>1. ChunkOf(commit, commit') BY <1>11, ChunkLost
  <2>2. /\ commit.inserts # <<>> /\ commit.pc = "write" /\ commit'.pc = "write" /\ UNCHANGED <<keyed, committed>>
        /\ commit'.file = commit.file /\ commit'.row = commit.row
    BY <1>11, <2>1 DEF ChunkFails, ChunkOf, WritesOn
  <2>3. ASSUME NEW i \in Keys PROVE Pending("task", i)' \in Nat /\ Pending("task", i)' <= Pending("task", i)
    <3>1. CASE commit.file.kind = "task"
      <4>1. PICK f \in Nat, p \in Nat : f = Repeats(FirstChunk, i) /\ p = Pending("task", i)'
        BY <2>1, <2>2, <3>1, PendingShrinks
      <4>2. Pending("task", i) = f + p BY <2>1, <2>2, <3>1, <4>1, PendingShrinks
      <4> QED BY <4>1, <4>2
    <3>2. CASE commit.file.kind # "task" BY <2>1, <2>2, <3>2, PendingShrinks
    <3> QED BY <3>1, <3>2
  <2> QED BY <1>3, <2>2, <2>3
<1>12. CASE UpdateCard \/ UpdateFails
  <2>1. CardOf(commit, commit') BY <1>12, CardUpdated, UpdateLost
  <2> QED BY <1>4, <1>12, <2>1 DEF CardOf, WritesOn, UpdateCard, UpdateFails
<1>13. CASE RecordRun
  <2>1. /\ commit.pc # "none" /\ commit'.pc # "none" /\ commit'.file = commit.file /\ commit'.inserts = commit.inserts
        /\ commit'.row = commit.row
    BY <1>13, RunRecorded DEF InFlight
  <2> QED BY <1>4, <1>13, <2>1 DEF RecordRun
<1>14. CASE Answered \/ CommitStops
  <2>1. commit'.pc = "none" /\ UNCHANGED <<keyed, committed>> BY <1>14 DEF Answered, CommitStops, NoCommit
  <2>2. \A kind, x : Pending(kind, x)' = 0 BY <2>1, NoneIsPending
  <2> QED BY <2>1, <2>2 DEF KeysFit, KeyFits, HasRoom
<1>15. CASE UNCHANGED importVars
  <2>1. commit' = commit /\ UNCHANGED <<keyed, committed>> BY <1>15 DEF importVars
  <2> QED BY <2>1 DEF KeysFit, KeyFits, HasRoom, Pending
<1> QED BY <1>5, <1>6, <1>7, <1>8, <1>9, <1>10, <1>11, <1>12, <1>13, <1>14, <1>15 DEF ImportNext

LEMMA ReimportFollows == ImportTypes /\ KeysFit => ReimportUpdates
<1> SUFFICES ASSUME ImportTypes, KeysFit, NEW k \in Keys
             PROVE  keyed[k] <= Max({0} \cup {Occurrences(c[2], k) : c \in committed}) BY DEF ReimportUpdates
<1> DEFINE f == [c \in committed |-> Occurrences(c[2], k)]
           S == {Occurrences(c[2], k) : c \in committed}
           T == {0} \cup S
<1>1. IsFiniteSet(committed) /\ \A c \in committed : Occurrences(c[2], k) \in Nat BY AllIsMet DEF ImportTypes
<1>2. IsFiniteSet(S)
  <2>1. DOMAIN f = committed /\ Range(f) = S BY DEF Range
  <2> HIDE DEF f, S
  <2> QED BY <1>1, <2>1, ImageFinite
<1>3. S \subseteq Nat BY <1>1
<1>4. IsFiniteSet(T) /\ T \subseteq Int /\ T # {}
  <2>1. T = S \cup {0} OBVIOUS
  <2> HIDE DEF S, T
  <2> QED BY <1>2, <1>3, <2>1, FS_AddElement
<1>5. \A n \in T : Max(T) >= n /\ Max(T) \in T
  <2> HIDE DEF T
  <2> QED BY <1>4, MaxIs
<1>6. Max(T) \in Nat /\ 0 \in T
  <2>1. 0 \in T OBVIOUS
  <2>2. Max(T) \in T BY <1>5, <2>1
  <2>3. T \subseteq Nat BY <1>3
  <2> HIDE DEF T
  <2> QED BY <2>1, <2>2, <2>3
<1>7. keyed[k] <= Max(T)
  <2>1. CASE keyed[k] = 0
    <3> HIDE DEF T
    <3> QED BY <1>6, <2>1
  <2>2. CASE keyed[k] # 0
    <3>1. PICK c \in committed : keyed[k] <= Occurrences(c[2], k) BY <2>2 DEF KeysFit, KeyFits
    <3>2. PICK n \in Nat : n = Occurrences(c[2], k) BY <1>1
    <3>3. n \in T BY <3>2
    <3>4. keyed[k] \in Nat BY DEF ImportTypes
    <3> HIDE DEF T
    <3> QED BY <1>5, <1>6, <3>1, <3>2, <3>3, <3>4
  <2> QED BY <2>1, <2>2
<1> QED BY <1>7 DEF T

\* Of the names told, and of that of the row being read, one spelling of each key
\* is made: those created, and those known beyond what the dry run knew.
Makes(made, told, ahead, created, index, known) ==
  /\ made \subseteq told \cup ahead /\ KeysOf(told) \subseteq KeysOf(made)
  /\ \A m, n \in made : NameKey(m) = NameKey(n) => m = n
  /\ created = {Stored(n) : n \in made} /\ index = known \cup KeysOf(made)

LEMMA MakesOne ==
  ASSUME NEW made, NEW told, NEW ahead, NEW created, NEW index, NEW known,
         Makes(made, told, ahead, created, index, known), NEW l \in ahead, NameKey(l) \notin index
  PROVE  Makes(made \cup {l}, told, ahead, created \cup {Stored(l)}, index \cup {NameKey(l)}, known)
<1>1. KeysOf(made \cup {l}) = KeysOf(made) \cup {NameKey(l)} BY DEF KeysOf
<1>2. \A m \in made : NameKey(m) # NameKey(l) BY DEF Makes, KeysOf
<1>3. \A m \in made \cup {l}, n \in made \cup {l} : NameKey(m) = NameKey(n) => m = n BY <1>2 DEF Makes
<1>4. created \cup {Stored(l)} = {Stored(n) : n \in made \cup {l}} BY DEF Makes
<1> QED BY <1>1, <1>3, <1>4 DEF Makes

\* A row whose names are all known leaves nothing ahead.
LEMMA MakesNext ==
  ASSUME NEW made, NEW told, NEW ahead, NEW created, NEW index, NEW known,
         Makes(made, told, ahead, created, index, known), KeysOf(ahead) \subseteq KeysOf(made)
  PROVE  \A later : Makes(made, told \cup ahead, later, created, index, known)
<1>1. KeysOf(told \cup ahead) = KeysOf(told) \cup KeysOf(ahead) BY DEF KeysOf
<1> QED BY <1>1 DEF Makes

LEMMA KnownIsMade ==
  ASSUME NEW name, NEW known, NEW keys, Wanted(name, known \cup keys) = {}
  PROVE  KeysOf(Wanted(name, known)) \subseteq keys
BY DEF Wanted, KeysOf

\* A commit reads its rows as the dry run did, and then does what it had told.
Follows(c, known, told) ==
  /\ c.index.keys = known.keys /\ c.index.seen = told.seen
  /\ Len(c.inserts) = told.create /\ Len(c.updates) = told.update /\ c.result.skip = told.skip
  /\ c.result.create = 0 /\ c.result.update = 0 /\ c.whole

AheadLanes(known) == {n \in LaneNames : Reading /\ ThisRow # Refused /\ n \in Wanted(ThisRow.lane, known)}
AheadClients(known) ==
  {n \in Clients : Reading /\ ThisRow # Refused /\ commit.file.kind = "time" /\ n \in Wanted(ThisRow.client, known)}

MakesLanes(known, told) ==
  \E made : Makes(made, told, AheadLanes(known), commit.result.lanes, commit.index.lanes, known)
MakesClients(known, told) ==
  \E made : Makes(made, told, AheadClients(known), commit.result.clients, commit.index.clients, known)

ReadsBy(known, chain) ==
  /\ ToldBy(commit.file, known, chain) /\ foreseen = Summary(chain[Len(commit.file.rows)])
  /\ Follows(commit, known, chain[commit.row - 1])
  /\ MakesLanes(known.lanes, chain[commit.row - 1].lanes) /\ MakesClients(known.clients, chain[commit.row - 1].clients)

ReadsAsTold == \E known \in Known : \E chain : ReadsBy(known, chain)

DoesAsTold(c) ==
  /\ foreseen \in Outcome /\ c.result.skip = foreseen.skip
  /\ AsAnnounced(foreseen.lanes, c.result.lanes) /\ AsAnnounced(foreseen.clients, c.result.clients)
  /\ c.result.create + Len(c.inserts) = foreseen.create /\ c.result.update + Len(c.updates) = foreseen.update

WordKept ==
  /\ commit.pc = "rows" => ReadsAsTold
  /\ commit.pc \in {"write", "answer"} /\ commit.whole => DoesAsTold(commit)
  /\ commit.pc = "answer" => commit.inserts = <<>> /\ commit.updates = <<>>

LEMMA SummaryIs ==
  ASSUME NEW told \in Telling
  PROVE  /\ Summary(told) \in Outcome /\ Summary(told).create = told.create /\ Summary(told).update = told.update
         /\ Summary(told).skip = told.skip /\ Summary(told).lanes = told.lanes /\ Summary(told).clients = told.clients
<1>1. DOMAIN Counts = {"create", "update", "skip", "lanes", "clients"} BY DEF Counts
<1> QED BY <1>1 DEF Summary, Telling, Outcome

LEMMA PreviewedFollows == ImportTypes /\ WordKept => CommitIsPreviewed
<1> SUFFICES ASSUME ImportTypes, WordKept, commit.pc = "answer", commit.whole
             PROVE  /\ \A n \in {"create", "update", "skip"} : commit.result[n] = foreseen[n]
                    /\ AsAnnounced(foreseen.lanes, commit.result.lanes)
                    /\ AsAnnounced(foreseen.clients, commit.result.clients)
  BY DEF CommitIsPreviewed
<1>1. commit \in InFlight BY DEF ImportTypes, NoCommit
<1>2. DoesAsTold(commit) /\ Len(commit.inserts) = 0 /\ Len(commit.updates) = 0 BY DEF WordKept
<1>3. PICK r \in Outcome : r = commit.result BY <1>1 DEF InFlight
<1>4. PICK o \in Outcome : o = foreseen BY <1>2 DEF DoesAsTold
<1>5. r.create \in Nat /\ r.update \in Nat BY DEF Outcome
<1>6. r.create + 0 = o.create /\ r.update + 0 = o.update BY <1>2, <1>3, <1>4 DEF DoesAsTold
<1>7. r.create = o.create /\ r.update = o.update BY <1>5, <1>6
<1> QED BY <1>2, <1>3, <1>4, <1>7 DEF DoesAsTold

LEMMA ToldIs ==
  ASSUME NEW file \in Files, NEW known, NEW chain, ToldBy(file, known, chain)
  PROVE  \A k \in 1..(Len(file.rows) + 1) :
           /\ chain[k - 1] \in Telling
           /\ k <= Len(file.rows) => RowAdds(file, known, chain[k - 1], file.rows[k], chain[k]) /\ chain[k] \in Telling
<1> SUFFICES ASSUME NEW k \in 1..(Len(file.rows) + 1)
             PROVE  /\ chain[k - 1] \in Telling
                    /\ k <= Len(file.rows) => RowAdds(file, known, chain[k - 1], file.rows[k], chain[k]) /\ chain[k] \in Telling
  OBVIOUS
<1>1. PICK n \in Nat : n = Len(file.rows) BY FilesAre
<1>2. PICK j \in 0..n : j = k - 1 /\ k = j + 1 BY <1>1
<1>3. k <= n => j \in 0..(n - 1) /\ k \in 0..n BY <1>1, <1>2
<1> QED BY <1>1, <1>2, <1>3 DEF ToldBy

\* A lane or a customer is written for the row being read.
LEMMA NameIsTold ==
  ASSUME ImportTypes, WordKept, EnsureStream \/ EnsureCustomer
  PROVE  WordKept'
<1>1. /\ commit \in InFlight /\ commit' \in InFlight /\ ReadsOn(commit, commit') /\ KeepsRows(commit, commit')
      /\ ThisRow # Refused /\ foreseen' = foreseen /\ Reading /\ commit.pc = "rows"
  BY StreamEnsured, CustomerEnsured DEF EnsureStream, EnsureCustomer, Reading
<1>2. PICK known \in Known : \E chain : ReadsBy(known, chain) BY <1>1 DEF WordKept, ReadsAsTold
<1>3. PICK chain : ReadsBy(known, chain) BY <1>2
<1>5. PICK told : told = chain[commit.row - 1] OBVIOUS
<1>4. /\ ToldBy(commit.file, known, chain) /\ foreseen = Summary(chain[Len(commit.file.rows)])
      /\ Follows(commit, known, told) /\ MakesLanes(known.lanes, told.lanes) /\ MakesClients(known.clients, told.clients)
  BY <1>3, <1>5 DEF ReadsBy
<1>6. commit'.file = commit.file /\ commit'.row = commit.row /\ commit'.pc = "rows" /\ Reading' /\ Reading /\ ThisRow' = ThisRow
  BY <1>1 DEF ReadsOn, KeepsRows, Reading, ThisRow
<1>7. MakesLanes(known.lanes, told.lanes)' /\ MakesClients(known.clients, told.clients)'
  <2>1. CASE EnsureStream
    <3>1. PICK l \in LaneNames : l = ThisRow.lane /\ NameKey(l) \notin commit.index.lanes BY <2>1, StreamEnsured
    <3>2. /\ commit'.index.lanes = commit.index.lanes \cup {NameKey(l)} /\ commit'.index.clients = commit.index.clients
          /\ commit'.result.lanes = commit.result.lanes \cup {Stored(l)} /\ commit'.result.clients = commit.result.clients
      BY <2>1, <3>1, StreamEnsured
    <3>3. PICK made : Makes(made, told.lanes, AheadLanes(known.lanes), commit.result.lanes, commit.index.lanes, known.lanes)
      BY <1>4, <1>5 DEF MakesLanes
    <3>4. l \in AheadLanes(known.lanes)
      <4>1. l # Nameless /\ NameKey(l) \notin known.lanes BY <3>1, <3>3, ImportAssumption DEF Makes
      <4>2. l \in Wanted(l, known.lanes) BY <4>1 DEF Wanted
      <4> QED BY <1>1, <3>1, <4>2 DEF AheadLanes
    <3>5. Makes(made \cup {l}, told.lanes, AheadLanes(known.lanes), commit'.result.lanes, commit'.index.lanes, known.lanes)
      BY <3>1, <3>2, <3>3, <3>4, MakesOne
    <3>6. MakesLanes(known.lanes, told.lanes)' BY <1>6, <3>5 DEF MakesLanes, AheadLanes
    <3>7. MakesClients(known.clients, told.clients)' BY <1>4, <1>5, <1>6, <3>2 DEF MakesClients, AheadClients
    <3> QED BY <3>6, <3>7
  <2>2. CASE EnsureCustomer
    <3>1. PICK l \in Clients : l = ThisRow.client /\ NameKey(l) \notin commit.index.clients /\ commit.file.kind = "time" BY <2>2, CustomerEnsured
    <3>2. /\ commit'.index.clients = commit.index.clients \cup {NameKey(l)} /\ commit'.index.lanes = commit.index.lanes
          /\ commit'.result.clients = commit.result.clients \cup {Stored(l)} /\ commit'.result.lanes = commit.result.lanes
      BY <2>2, <3>1, CustomerEnsured
    <3>3. PICK made : Makes(made, told.clients, AheadClients(known.clients), commit.result.clients, commit.index.clients, known.clients)
      BY <1>4, <1>5 DEF MakesClients
    <3>4. l \in AheadClients(known.clients)
      <4>1. l # Nameless /\ NameKey(l) \notin known.clients BY <3>1, <3>3, ImportAssumption DEF Makes
      <4>2. l \in Wanted(l, known.clients) BY <4>1 DEF Wanted
      <4> QED BY <1>1, <3>1, <4>2 DEF AheadClients
    <3>5. Makes(made \cup {l}, told.clients, AheadClients(known.clients), commit'.result.clients, commit'.index.clients, known.clients)
      BY <3>1, <3>2, <3>3, <3>4, MakesOne
    <3>6. MakesClients(known.clients, told.clients)' BY <1>6, <3>5 DEF MakesClients, AheadClients
    <3>7. MakesLanes(known.lanes, told.lanes)' BY <1>4, <1>5, <1>6, <3>2 DEF MakesLanes, AheadLanes
    <3> QED BY <3>6, <3>7
  <2> QED BY <2>1, <2>2
<1>8. Follows(commit', known, told) BY <1>1, <1>4 DEF Follows, ReadsOn, KeepsRows
<1>9. ReadsBy(known, chain)' BY <1>1, <1>4, <1>5, <1>6, <1>7, <1>8 DEF ReadsBy
<1>10. ReadsAsTold' BY <1>9 DEF ReadsAsTold
<1> QED BY <1>6, <1>10 DEF WordKept

\* A row is read as the dry run read it.
LEMMA RowAsTold == ASSUME ImportTypes, WordKept, ReadRow PROVE WordKept'
<1>1. /\ commit \in InFlight /\ commit' \in InFlight /\ ReadsOn(commit, commit') /\ KeepsNames(commit, commit')
      /\ commit'.row = commit.row + 1 /\ commit.row \in 1..Len(commit.file.rows) /\ commit.pc = "rows"
      /\ foreseen' = foreseen /\ ~MissingLane /\ ~MissingClient
  BY RowRead DEF ReadRow, Reading
<1>2. PICK known \in Known : \E chain : ReadsBy(known, chain) BY <1>1 DEF WordKept, ReadsAsTold
<1>3. PICK chain : ReadsBy(known, chain) BY <1>2
<1>4. /\ ToldBy(commit.file, known, chain) /\ foreseen = Summary(chain[Len(commit.file.rows)])
      /\ Follows(commit, known, chain[commit.row - 1])
      /\ MakesLanes(known.lanes, chain[commit.row - 1].lanes) /\ MakesClients(known.clients, chain[commit.row - 1].clients)
  BY <1>3 DEF ReadsBy
<1>5. PICK file \in Files : file = commit.file BY <1>1 DEF InFlight
<1>6. PICK row : row = ThisRow OBVIOUS
<1>7. PICK told \in Telling, next \in Telling :
        /\ told = chain[commit.row - 1] /\ next = chain[commit.row] /\ RowAdds(file, known, told, row, next)
  <2>1. commit.row \in 1..(Len(file.rows) + 1) /\ commit.row <= Len(file.rows) BY <1>1, <1>5, FilesAre
  <2> QED BY <1>4, <1>5, <1>6, <2>1, ToldIs DEF ThisRow
<1>8. Follows(commit, known, told) /\ MakesLanes(known.lanes, told.lanes) /\ MakesClients(known.clients, told.clients)
  BY <1>4, <1>7
<1>9. /\ commit'.index.keys = known.keys /\ commit'.whole /\ commit'.result.create = 0 /\ commit'.result.update = 0
  BY <1>1, <1>8 DEF Follows, ReadsOn, KeepsNames
<1>10. /\ row # Refused => next.lanes = told.lanes \cup Wanted(row.lane, known.lanes)
       /\ row # Refused /\ file.kind = "time" => next.clients = told.clients \cup Wanted(row.client, known.clients)
       /\ row = Refused => next.lanes = told.lanes /\ next.clients = told.clients
       /\ row # Refused /\ file.kind = "task" => next.clients = told.clients
  BY <1>7, FilesAre DEF RowAdds, Telling
<1>20. /\ commit'.result.lanes = commit.result.lanes /\ commit'.result.clients = commit.result.clients
       /\ commit'.index.lanes = commit.index.lanes /\ commit'.index.clients = commit.index.clients
  BY <1>1 DEF KeepsNames
<1>21. MakesLanes(known.lanes, next.lanes)'
  <2>1. PICK made : Makes(made, told.lanes, AheadLanes(known.lanes), commit.result.lanes, commit.index.lanes, known.lanes)
    BY <1>8 DEF MakesLanes
  <2>2. next.lanes = told.lanes \cup AheadLanes(known.lanes) /\ KeysOf(AheadLanes(known.lanes)) \subseteq KeysOf(made)
    <3>1. CASE row = Refused
      <4>1. AheadLanes(known.lanes) = {} BY <1>6, <3>1 DEF AheadLanes
      <4> QED BY <1>10, <3>1, <4>1 DEF KeysOf
    <3>2. CASE row # Refused
      <4>1. RowOf(file, row) BY <1>1, <1>5, <1>6, <3>2, RowIs DEF ReadRow
      <4>2. Wanted(row.lane, known.lanes) \in SUBSET LaneNames BY <4>1, WantedIs DEF RowOf
      <4>3. AheadLanes(known.lanes) = Wanted(row.lane, known.lanes) BY <1>6, <3>2, <4>2 DEF AheadLanes, ReadRow
      <4>4. Wanted(row.lane, known.lanes \cup KeysOf(made)) = {}
        BY <1>1, <1>6, <2>1, <3>2 DEF MissingLane, Makes
      <4> QED BY <1>10, <3>2, <4>3, <4>4, KnownIsMade
    <3> QED BY <3>1, <3>2
  <2>3. \A later : Makes(made, next.lanes, later, commit.result.lanes, commit.index.lanes, known.lanes)
    BY <2>1, <2>2, MakesNext
  <2> QED BY <1>20, <2>3 DEF MakesLanes
<1>22. MakesClients(known.clients, next.clients)'
  <2>1. PICK made : Makes(made, told.clients, AheadClients(known.clients), commit.result.clients, commit.index.clients,
                         known.clients)
    BY <1>8 DEF MakesClients
  <2>2. /\ next.clients = told.clients \cup AheadClients(known.clients)
        /\ KeysOf(AheadClients(known.clients)) \subseteq KeysOf(made)
    <3>1. CASE row = Refused \/ file.kind = "task"
      <4>1. AheadClients(known.clients) = {} BY <1>5, <1>6, <3>1 DEF AheadClients
      <4> QED BY <1>10, <3>1, <4>1 DEF KeysOf
    <3>2. CASE row # Refused /\ file.kind = "time"
      <4>1. RowOf(file, row) BY <1>1, <1>5, <1>6, <3>2, RowIs DEF ReadRow
      <4>2. Wanted(row.client, known.clients) \in SUBSET Clients BY <3>2, <4>1, WantedIs DEF RowOf
      <4>3. AheadClients(known.clients) = Wanted(row.client, known.clients)
        BY <1>5, <1>6, <3>2, <4>2 DEF AheadClients, ReadRow
      <4>4. Wanted(row.client, known.clients \cup KeysOf(made)) = {}
        BY <1>1, <1>5, <1>6, <2>1, <3>2 DEF MissingClient, Makes
      <4> QED BY <1>10, <3>2, <4>3, <4>4, KnownIsMade
    <3> QED BY <3>1, <3>2, FilesAre
  <2>3. \A later : Makes(made, next.clients, later, commit.result.clients, commit.index.clients, known.clients)
    BY <2>1, <2>2, MakesNext
  <2> QED BY <1>20, <2>3 DEF MakesClients
<1>11. /\ Len(commit.inserts) = told.create /\ Len(commit.updates) = told.update /\ commit.result.skip = told.skip
      /\ commit.index.seen = told.seen /\ commit.index.keys = known.keys
  BY <1>8 DEF Follows
<1>12. /\ \A x \in Keys \cup Intervals : Len(Append(commit.inserts, x)) = Len(commit.inserts) + 1
       /\ \A x \in Keys : Len(Append(commit.updates, x)) = Len(commit.updates) + 1
  <2>1. PICK s \in Seq(Keys \cup Intervals), u \in Seq(Keys) : s = commit.inserts /\ u = commit.updates
    BY <1>1 DEF InFlight
  <2> QED BY <2>1, GrowsIn
<1>13. /\ Len(commit'.inserts) = next.create /\ Len(commit'.updates) = next.update /\ commit'.result.skip = next.skip
       /\ commit'.index.seen = next.seen
  <2>1. CASE row = Refused
    <3>1. next.create = told.create /\ next.update = told.update /\ next.skip = told.skip + 1 /\ next.seen = told.seen
      BY <1>7, <2>1 DEF RowAdds, Telling
    <3>2. Skips(commit, commit') BY <1>6, <2>1, RowRead
    <3> QED BY <1>11, <3>1, <3>2 DEF Skips
  <2>2. CASE row # Refused /\ file.kind = "task"
    <3>1. row.key \in Keys /\ IF row.key \in known.keys THEN Updates(commit, commit') ELSE Inserts(commit, commit', row.key)
      BY <1>5, <1>6, <1>11, <2>2, RowRead
    <3> QED BY <1>5, <1>6, <1>7, <1>11, <1>12, <2>2, <3>1 DEF RowAdds, Updates, Inserts
  <2>3. CASE row # Refused /\ file.kind = "time"
    <3>1. row.interval \in Intervals /\ IF row.interval \in told.seen THEN Skips(commit, commit')
                                        ELSE Inserts(commit, commit', row.interval)
      BY <1>5, <1>6, <1>11, <2>3, RowRead
    <3> QED BY <1>5, <1>7, <1>11, <1>12, <2>3, <3>1 DEF RowAdds, Skips, Inserts
  <2> QED BY <2>1, <2>2, <2>3, FilesAre
<1>14. Follows(commit', known, next) BY <1>9, <1>13 DEF Follows
<1>16. commit'.row - 1 = commit.row /\ commit'.file = commit.file /\ commit'.pc = "rows"
  BY <1>1, <1>5, FilesAre DEF ReadsOn
<1>17. next = chain[commit'.row - 1] BY <1>7, <1>16
<1>18. ReadsBy(known, chain)' BY <1>1, <1>4, <1>14, <1>16, <1>17, <1>21, <1>22 DEF ReadsBy
<1>19. ReadsAsTold' BY <1>18 DEF ReadsAsTold
<1> QED BY <1>16, <1>19 DEF WordKept

LEMMA BeginsAsTold == ASSUME ImportTypes, NEW file \in Files, Commit(file) PROVE WordKept'
<1>1. commit' = [pc |-> "rows", file |-> file, row |-> 1, index |-> OrgIndex, inserts |-> <<>>,
                 updates |-> <<>>, result |-> Counts, whole |-> TRUE] BY CommitBegins
<1>2. PICK known \in Known : known = OrgIndex BY IndexIsKnown
<1>3. PICK chain : ToldBy(file, known, chain) /\ Preview(file) = Summary(chain[Len(file.rows)])
  BY <1>2, PreviewRuns
<1>4. chain[0] = Unread(known) /\ commit'.row - 1 = 0 /\ commit'.file = file /\ commit'.pc = "rows"
  BY <1>1, <1>3 DEF ToldBy
<1>5. Follows(commit', known, Unread(known))
  <2>1. Len(commit'.inserts) = 0 /\ Len(commit'.updates) = 0 BY <1>1
  <2> QED BY <1>1, <1>2, <2>1 DEF Follows, Unread, Counts
<1>6. MakesLanes(known.lanes, {})' /\ MakesClients(known.clients, {})'
  <2>1. /\ commit'.result.lanes = {} /\ commit'.index.lanes = known.lanes
        /\ commit'.result.clients = {} /\ commit'.index.clients = known.clients BY <1>1, <1>2 DEF Counts
  <2>2. \A index, ahead : Makes({}, {}, ahead, {}, index, index) BY DEF Makes, KeysOf
  <2> QED BY <2>1, <2>2 DEF MakesLanes, MakesClients
<1>7. foreseen' = Preview(file) BY DEF Commit
<1>8. /\ chain[commit'.row - 1] = Unread(known) /\ Unread(known).lanes = {} /\ Unread(known).clients = {}
      /\ ToldBy(commit'.file, known, chain) /\ foreseen' = Summary(chain[Len(commit'.file.rows)])
  BY <1>3, <1>4, <1>7 DEF Unread
<1>10. ReadsBy(known, chain)' BY <1>5, <1>6, <1>8 DEF ReadsBy
<1>9. ReadsAsTold' BY <1>2, <1>10 DEF ReadsAsTold
<1> QED BY <1>4, <1>9 DEF WordKept

LEMMA WordStaysKept == ImportTypes /\ WordKept /\ [ImportNext]_importVars => WordKept'
<1> SUFFICES ASSUME ImportTypes, WordKept, [ImportNext]_importVars PROVE WordKept' OBVIOUS
<1>1. CASE \E file \in Files : Commit(file) BY <1>1, BeginsAsTold
<1>2. CASE EnsureStream \/ EnsureCustomer BY <1>2, NameIsTold
<1>3. CASE ReadRow BY <1>3, RowAsTold
<1>4. CASE RowsRead
  <2>1. PICK c \in InFlight : c = commit /\ commit' = [c EXCEPT !.pc = "write"] /\ c.pc = "rows"
    BY <1>4, AllRowsRead
  <2>2. PICK file \in Files : file = c.file BY DEF InFlight
  <2>3. PICK known \in Known : \E chain : ReadsBy(known, chain) BY <2>1 DEF WordKept, ReadsAsTold
  <2>4. PICK chain : ReadsBy(known, chain) BY <2>3
  <2>5. /\ ToldBy(file, known, chain) /\ foreseen = Summary(chain[Len(file.rows)])
        /\ Follows(c, known, chain[c.row - 1])
        /\ MakesLanes(known.lanes, chain[c.row - 1].lanes) /\ MakesClients(known.clients, chain[c.row - 1].clients)
    BY <2>1, <2>2, <2>4 DEF ReadsBy
  <2>6. c.row - 1 = Len(file.rows) /\ ~Reading
    <3>1. c.row = Len(file.rows) + 1 /\ ~Reading BY <1>4, <2>1, <2>2, AllRowsRead DEF RowsRead
    <3> QED BY <3>1, FilesAre
  <2>7. PICK told \in Telling : told = chain[Len(file.rows)]
    <3>1. Len(file.rows) \in 0..Len(file.rows) BY FilesAre
    <3> QED BY <2>5, <3>1 DEF ToldBy
  <2>8. /\ Follows(c, known, told) /\ foreseen = Summary(told)
        /\ MakesLanes(known.lanes, told.lanes) /\ MakesClients(known.clients, told.clients)
    BY <2>5, <2>6, <2>7
  <2>9. AsAnnounced(told.lanes, c.result.lanes) /\ AsAnnounced(told.clients, c.result.clients)
    <3>1. \A names : AheadLanes(names) = {} /\ AheadClients(names) = {} BY <2>6 DEF AheadLanes, AheadClients
    <3>2. PICK made : Makes(made, told.lanes, {}, c.result.lanes, c.index.lanes, known.lanes)
      BY <2>1, <2>8, <3>1 DEF MakesLanes
    <3>3. PICK named : Makes(named, told.clients, {}, c.result.clients, c.index.clients, known.clients)
      BY <2>1, <2>8, <3>1 DEF MakesClients
    <3>4. /\ made \in SUBSET told.lanes /\ KeysOf(made) = KeysOf(told.lanes)
          /\ named \in SUBSET told.clients /\ KeysOf(named) = KeysOf(told.clients)
      BY <3>2, <3>3 DEF Makes, KeysOf
    <3> QED BY <3>2, <3>3, <3>4 DEF AsAnnounced, Makes
  <2>10. c.result.create + Len(c.inserts) = told.create /\ c.result.update + Len(c.updates) = told.update
    <3>1. told.create \in Nat /\ told.update \in Nat BY DEF Telling
    <3>2. /\ c.result.create = 0 /\ Len(c.inserts) = told.create /\ c.result.update = 0
          /\ Len(c.updates) = told.update BY <2>8 DEF Follows
    <3> QED BY <3>1, <3>2
  <2>11. foreseen' = foreseen BY <1>4 DEF RowsRead
  <2>12. /\ commit'.result = c.result /\ commit'.inserts = c.inserts /\ commit'.updates = c.updates
         /\ commit'.pc = "write" BY <2>1 DEF InFlight
  <2>13. DoesAsTold(commit)' BY <2>8, <2>9, <2>10, <2>11, <2>12, SummaryIs DEF DoesAsTold, Follows
  <2> QED BY <2>12, <2>13 DEF WordKept
<1>5. CASE InsertChunk
  <2>1. /\ ChunkOf(commit, commit') /\ commit'.whole = commit.whole /\ commit'.result.skip = commit.result.skip
        /\ commit'.result.create + Len(commit'.inserts) = commit.result.create + Len(commit.inserts)
        /\ foreseen' = foreseen
    BY <1>5, ChunkWritten DEF InsertChunk
  <2> QED BY <2>1 DEF WordKept, DoesAsTold, ChunkOf, WritesOn
<1>6. CASE ChunkFails
  <2>1. ChunkOf(commit, commit') /\ ~commit'.whole BY <1>6, ChunkLost
  <2> QED BY <2>1 DEF WordKept, ChunkOf
<1>7. CASE UpdateCard
  <2>1. /\ CardOf(commit, commit') /\ commit'.whole = commit.whole /\ commit'.result.skip = commit.result.skip
        /\ commit'.result.update = commit.result.update + 1 /\ foreseen' = foreseen
    BY <1>7, CardUpdated DEF UpdateCard
  <2>2. commit'.result.update + Len(commit'.updates) = commit.result.update + Len(commit.updates)
    <3>1. PICK a \in Nat, b \in Nat : a = commit.result.update /\ b = Len(commit.updates)
      BY <2>1 DEF CardOf, InFlight, Outcome
    <3>2. commit'.result.update = a + 1 /\ Len(commit'.updates) = b - 1 BY <2>1, <3>1 DEF CardOf
    <3> QED BY <3>1, <3>2
  <2> QED BY <2>1, <2>2 DEF WordKept, DoesAsTold, CardOf, WritesOn
<1>8. CASE UpdateFails
  <2>1. CardOf(commit, commit') /\ ~commit'.whole BY <1>8, UpdateLost
  <2> QED BY <2>1 DEF WordKept, CardOf
<1>9. CASE RecordRun
  <2>1. /\ commit \in InFlight /\ commit' = [commit EXCEPT !.pc = "answer"] /\ commit.pc = "write"
        /\ commit.inserts = <<>> /\ commit.updates = <<>> /\ foreseen' = foreseen
    BY <1>9, RunRecorded DEF RecordRun
  <2>2. /\ commit'.result = commit.result /\ commit'.inserts = commit.inserts /\ commit'.updates = commit.updates
        /\ commit'.pc = "answer" /\ commit'.whole = commit.whole BY <2>1 DEF InFlight
  <2> QED BY <2>1, <2>2 DEF WordKept, DoesAsTold
<1>10. CASE Answered \/ CommitStops BY <1>10 DEF Answered, CommitStops, NoCommit, WordKept
<1>11. CASE UNCHANGED importVars
  <2>1. commit' = commit /\ foreseen' = foreseen BY <1>11 DEF importVars
  <2> QED BY <2>1 DEF WordKept, ReadsAsTold, ReadsBy, DoesAsTold, MakesLanes, MakesClients, AheadLanes, AheadClients,
                      Reading, ThisRow
<1> QED BY <1>1, <1>2, <1>3, <1>4, <1>5, <1>6, <1>7, <1>8, <1>9, <1>10, <1>11 DEF ImportNext

LEMMA ImportStarts == ImportInit => ImportTypes /\ NothingTwice /\ KeysFit /\ WordKept
<1> SUFFICES ASSUME ImportInit PROVE ImportTypes /\ NothingTwice /\ KeysFit /\ WordKept OBVIOUS
<1>1. commit.pc = "none" BY DEF ImportInit, NoCommit
<1>2. IsFiniteSet(committed) BY FS_EmptySet DEF ImportInit
<1>3. \A kind, x : Pending(kind, x) = 0 BY <1>1 DEF Pending
<1>4. ImportTypes BY <1>1, <1>2 DEF ImportInit, ImportTypes
<1>5. NothingTwice BY <1>1, <1>3 DEF ImportInit, NothingTwice, ImportedOnce, OneOfAName
<1>6. KeysFit /\ WordKept BY <1>1, <1>3 DEF ImportInit, KeysFit, KeyFits, HasRoom, WordKept
<1> QED BY <1>4, <1>5, <1>6

\* An import can be repeated, and does what it announced.
THEOREM ImportsStand == ImportSpec => []ImportsHold
<1> DEFINE Inv == ImportTypes /\ NothingTwice /\ KeysFit /\ WordKept
<1>1. Inv /\ [ImportNext]_importVars => Inv' BY ImportTyped, OnceKept, FitsKept, WordStaysKept
<1>2. Inv => ImportsHold BY ReimportFollows, PreviewedFollows DEF ImportsHold, NothingTwice
<1> HIDE DEF Inv
<1>3. ImportInit => Inv BY ImportStarts DEF Inv
<1> QED BY <1>1, <1>2, <1>3, PTL DEF ImportSpec
=============================================================================
