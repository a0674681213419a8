--------------------------- MODULE BillingProofs ---------------------------
(* The plan follows Stripe's subscription and the bill follows the roll, for   *)
(* any number of members, subscriptions, events, lost answers, restarts and    *)
(* acts of people.                                                             *)
EXTENDS Billing, FiniteSetTheorems, WellFoundedInduction, TLAPS

Base == [id : Nat, plan : PaidPlans]
SeatChange == [id : Nat, qty : Nat, deleted : BOOLEAN]

OnEvent(on) == on.op \in EventTypes

\* What an event tells of its subscription; the last one, how it is now.
Tells(e) ==
  /\ e.op \in EventTypes /\ e.seq \in 1..emitted /\ e.sub \in SubIds
  /\ e.op # "completed" => e.snap \in Sub
  /\ e.op = "completed" => e.plan \in PaidPlans
  /\ calm /\ e.seq = emitted =>
       /\ e.sub = Len(subs) /\ e.op # "created"
       /\ e.op = "updated" => e.snap = subs[e.sub]
       /\ e.op = "deleted" => subs[e.sub].status = "canceled"
       /\ e.op = "completed" => subs[e.sub].status = "active" /\ e.plan = PlanAt(e.sub)

\* A handler resumes with what it read, and what it read of the organization
\* still is when it is the only one.
Steps == {"fetch", "apply", "org", "cache", "seats", "post", "store", "mark", "insert"}
Knows(j) ==
  /\ j.pc \in Steps \cup {"idle"}
  /\ j.pc # "idle" =>
       /\ j.on.op \in EventTypes \cup {"sync", "change_plan", "invite", "sso", "agent", "remove"}
       /\ OnEvent(j.on) => Tells(j.on) /\ j.on.seq <= high /\ (calm => j.on.seq = high)
  /\ j.pc = "mark" => OnEvent(j.on)
  /\ j.pc = "fetch" => j.on.op = "completed"
  /\ j.pc = "insert" => j.on.op \in {"invite", "sso", "agent"}
  /\ j.pc = "apply" => j.sub \in SubIds /\ j.snap \in Sub /\ j.forced \in Plans \cup {None}
  /\ j.pc = "org" => /\ j.snap \in Sub /\ j.next \in [plan : Plans, sub : SubIds \cup {NoSub}]
                     /\ j.next.plan = "free" <=> j.next.sub = NoSub
                     /\ calm => (j.changed <=> j.next # org)
  /\ j.pc = "cache" => j.snap \in Sub /\ j.plan \in Plans /\ (calm => j.plan = org.plan)
  /\ j.pc = "post" => /\ j.change.sub \in SubIds /\ j.change.base \in {None} \cup Base
                      /\ j.change.seat \in {None} \cup SeatChange
                      /\ Seats(j) => j.change.seat \in SeatChange
  /\ j.pc = "store" => j.snap \in Sub /\ j.qty \in Nat /\ Seats(j)
  /\ calm /\ j.pc \in {"post", "store"} /\ Seats(j) => org.plan = "business"

StripeTypes ==
  /\ sessions \subseteq Session /\ subs \in Seq(Sub) /\ Len(subs) <= MaxSubs
  /\ \A s \in SubIds : subs[s].status \in {"active", "canceled"} /\ subs[s].bases # <<>>
  /\ emitted \in Nat /\ minted \in Nat
  /\ \A e \in events : Tells(e)
  /\ \A m \in memory : m.answer \in Sub /\ m.answer.status = "active" /\ m.change.sub \in SubIds

OrgTypes ==
  /\ org \in [plan : Plans, sub : SubIds \cup {NoSub}]
  /\ org.plan = "free" <=> org.sub = NoSub
  /\ cache \in {None} \cup CacheRow
  /\ roll \in [humans : Nat \ {0}, agents : Nat]

HistoryTypes ==
  /\ high \in 0..emitted /\ inputs \in 0..MaxInputs /\ calm \in BOOLEAN
  /\ processed \in Seq(1..high) /\ Len(processed) <= ProcessedLimit

JobTypes == job = [s \in Slots |-> job[s]] /\ \A s \in Slots : Knows(job[s])

\* Calm: one handler at a time, one subscription alive, and every event not yet
\* begun is on its way.
Orderly ==
  calm => /\ \A s, t \in Slots : ~At(s, "idle") /\ ~At(t, "idle") => s = t
          /\ Live \subseteq {Len(subs)}
          /\ \A n \in (high + 1)..emitted : \E e \in events : e.seq = n

\* The organization says what Stripe's subscription says,
Truth(o) == (Live = {} => o.plan = "free") /\ \A t \in Live : o = [plan |-> PlanAt(t), sub |-> t]

\* which it must once the last event is answered, remembered, or past its write.
Fresh(j) == OnEvent(j.on) /\ j.on.seq = emitted
PastCache == {"seats", "post", "store", "mark"}
PastOrg == PastCache \cup {"cache"}
Told(past) ==
  \/ \A e \in events : e.seq # emitted
  \/ WasProcessed(emitted)
  \/ \E s \in Slots : job[s].pc \in past /\ Fresh(job[s])

\* A handler that applies a subscription as it is now.
Applies(j) ==
  \/ j.forced = None /\ j.sub = Len(subs) /\ j.snap = subs[Len(subs)]
  \/ j.forced = "free" /\ Live = {}
  \/ j.sub \in Live /\ j.forced = PlanAt(j.sub)

Keeps(j) ==
  /\ j.pc = "apply" /\ (Told(PastOrg) \/ Fresh(j)) => Applies(j)
  /\ j.pc = "org" /\ (Told(PastOrg) \/ Fresh(j)) => Truth(j.next)

Agrees ==
  calm /\ high = emitted =>
    /\ Told(PastOrg) => Truth(org)
    /\ Told(PastCache) => (org.plan = "free" <=> cache = None)
    /\ \A s \in Slots : Keeps(job[s])

BillingTypes == StripeTypes /\ OrgTypes /\ HistoryTypes /\ JobTypes
BillingInv == BillingTypes /\ Orderly /\ Agrees
-----------------------------------------------------------------------------
\* What the operators of Billing return.

LEMMA ShapeIs ==
  ASSUME NEW snap \in Sub
  PROVE  LET shape == SubscriptionShape(snap) IN
         /\ shape = [interval |-> shape.interval, plan |-> shape.plan, base |-> shape.base,
                     seat |-> shape.seat, qty |-> shape.qty]
         /\ shape.interval \in {"month", None} /\ shape.plan \in PaidPlans \cup {None}
         /\ shape.base \in Nat /\ shape.seat \in Nat /\ shape.qty \in Nat \cup {None}
         /\ snap.bases # <<>> => shape.plan = Last(snap.bases).plan /\ shape.plan \in PaidPlans
<1>1. snap.bases \in Seq(Base) /\ snap.seat \in Nat /\ snap.qty \in Nat BY DEF Sub, Base
<1>2. snap.bases # <<>> => Last(snap.bases) \in Base
  <2>1. SUFFICES ASSUME snap.bases # <<>> PROVE Last(snap.bases) \in Base OBVIOUS
  <2>2. Len(snap.bases) \in 1..Len(snap.bases) BY <1>1, <2>1
  <2> QED BY <1>1, <2>2 DEF Last
<1>3. snap.bases # <<>> => Last(snap.bases).plan \in PaidPlans /\ Last(snap.bases).id \in Nat BY <1>2 DEF Base
<1> QED BY <1>1, <1>3 DEF SubscriptionShape, NoItem

LEMMA MergeIs ==
  ASSUME cache \in {None} \cup CacheRow, NEW patch, patch.interval \in {"month", None}, patch.base \in Nat,
         patch.seat \in Nat, patch.qty \in Nat \cup {None}
  PROVE  Merge(patch) \in CacheRow
<1>1. ReadBillingState \in CacheRow BY DEF ReadBillingState, Empty, CacheRow, NoItem
<1>2. PICK old \in CacheRow : old = ReadBillingState BY <1>1
<1>3. old.base \in Nat /\ old.seat \in Nat BY DEF CacheRow
<1> QED BY <1>2, <1>3 DEF Merge, CacheRow

LEMMA CachedIs ==
  ASSUME cache \in {None} \cup CacheRow, NEW snap \in Sub, NEW plan
  PROVE  Cached(snap, plan) \in {None} \cup CacheRow /\ (Cached(snap, plan) = None <=> plan = "free")
<1>1. Merge(SubscriptionShape(snap)) \in CacheRow BY ShapeIs, MergeIs
<1> QED BY <1>1, NoneIsNothing DEF Cached

LEMMA OverageIs == ASSUME NEW plan, NEW humans \in Nat PROVE SeatOverage(plan, humans) \in Nat
BY LimitsAssumption DEF SeatOverage

LEMMA PlanIs ==
  ASSUME NEW snap \in Sub, NEW forced \in Plans \cup {None}, org.plan \in Plans
  PROVE  /\ PlanOf(snap, forced) \in Plans
         /\ forced # None => PlanOf(snap, forced) = forced
         /\ forced = None /\ snap.status = "canceled" => PlanOf(snap, forced) = "free"
         /\ forced = None /\ snap.status = "active" /\ snap.bases # <<>> => PlanOf(snap, forced) = Last(snap.bases).plan
<1> DEFINE shape == SubscriptionShape(snap)
<1>1. shape.plan \in PaidPlans \cup {None} /\ (snap.bases # <<>> => shape.plan = Last(snap.bases).plan /\ shape.plan \in PaidPlans)
  BY ShapeIs
<1> HIDE DEF shape
<1>2. snap.status \in {"incomplete", "active", "canceled"} BY DEF Sub
<1>3. PlanOf(snap, forced) =
        IF forced # None THEN forced
        ELSE CASE SubscriptionHealth(snap.status) = "dead" -> "free"
               [] SubscriptionHealth(snap.status) = "unknown" -> org.plan
               [] OTHER -> IF shape.plan # None THEN shape.plan ELSE IF org.plan = "free" THEN "team" ELSE org.plan
  BY DEF PlanOf, shape
<1>4. None \notin Plans BY NoneIsNothing
<1>5. CASE snap.status = "incomplete"
  <2>1. SubscriptionHealth(snap.status) = "unknown" BY <1>5 DEF SubscriptionHealth
  <2> QED BY <1>3, <1>5, <2>1
<1>6. CASE snap.status = "canceled"
  <2>1. SubscriptionHealth(snap.status) = "dead" BY <1>6 DEF SubscriptionHealth
  <2> QED BY <1>3, <1>6, <2>1 DEF Plans
<1>7. CASE snap.status = "active"
  <2>1. SubscriptionHealth(snap.status) = "healthy" BY <1>7 DEF SubscriptionHealth
  <2>2. PlanOf(snap, forced) = IF forced # None THEN forced
          ELSE IF shape.plan # None THEN shape.plan ELSE IF org.plan = "free" THEN "team" ELSE org.plan
    BY <1>3, <2>1
  <2> QED BY <1>1, <1>4, <1>7, <2>2 DEF Plans, PaidPlans
<1> QED BY <1>2, <1>5, <1>6, <1>7

\* A change leaves the subscription's status, and a base price.
LEMMA UpdatedIs ==
  ASSUME minted \in Nat, NEW sub \in Sub, NEW change, change.base \in {None} \cup Base, change.seat \in {None} \cup SeatChange
  PROVE  /\ Updated(sub, change) \in Sub /\ Updated(sub, change).status = sub.status
         /\ sub.bases # <<>> => Updated(sub, change).bases # <<>>
<1> DEFINE bases == IF change.base = None THEN sub.bases
                    ELSE IF change.base.id = NoItem THEN Append(sub.bases, [change.base EXCEPT !.id = minted + 1])
                    ELSE [i \in DOMAIN sub.bases |-> IF sub.bases[i].id = change.base.id THEN change.base ELSE sub.bases[i]]
           seat == IF change.seat = None THEN sub.seat
                   ELSE IF change.seat.deleted THEN NoItem ELSE IF change.seat.id = NoItem THEN minted + 2 ELSE sub.seat
           qty == IF change.seat = None THEN sub.qty ELSE change.seat.qty
<1>1. sub.bases \in Seq(Base) /\ sub.seat \in Nat /\ sub.qty \in Nat /\ sub.status \in {"incomplete", "active", "canceled"}
      /\ sub = [status |-> sub.status, bases |-> sub.bases, seat |-> sub.seat, qty |-> sub.qty]
  BY DEF Sub, Base
<1>2. Updated(sub, change) = [status |-> sub.status, bases |-> bases, seat |-> seat, qty |-> qty]
  <2>1. Updated(sub, change) = [sub EXCEPT !.bases = bases, !.seat = seat, !.qty = qty] BY DEF Updated
  <2> HIDE DEF bases, seat, qty
  <2> QED BY <1>1, <2>1
<1>3. bases \in Seq(Base) /\ (sub.bases # <<>> => bases # <<>>)
  <2>1. CASE change.base = None BY <1>1, <2>1
  <2>2. CASE change.base # None /\ change.base.id = NoItem
    <3>0. PICK old \in Base : old = change.base BY <2>2
    <3>1. PICK base \in Base : base = [old EXCEPT !.id = minted + 1]
      <4>1. minted + 1 \in Nat OBVIOUS
      <4>2. [old EXCEPT !.id = minted + 1] \in Base BY <4>1 DEF Base
      <4> QED BY <4>2
    <3>2. bases = Append(sub.bases, base) BY <2>2, <3>0, <3>1
    <3> QED BY <1>1, <3>2
  <2>3. CASE change.base # None /\ change.base.id # NoItem
    <3>1. change.base \in Base BY <2>3
    <3>2. bases = [i \in 1..Len(sub.bases) |-> IF sub.bases[i].id = change.base.id THEN change.base ELSE sub.bases[i]]
      BY <1>1, <2>3
    <3>3. \A i \in 1..Len(sub.bases) : sub.bases[i] \in Base BY <1>1
    <3> HIDE DEF bases
    <3>4. bases \in [1..Len(sub.bases) -> Base] BY <3>1, <3>2, <3>3
    <3>5. Len(sub.bases) \in Nat /\ (sub.bases # <<>> => Len(sub.bases) # 0) BY <1>1
    <3>6. bases \in Seq(Base) /\ Len(bases) = Len(sub.bases) BY <3>4, <3>5
    <3> QED BY <3>5, <3>6
  <2> QED BY <2>1, <2>2, <2>3
<1>4. seat \in Nat /\ qty \in Nat BY <1>1 DEF SeatChange, NoItem
<1> HIDE DEF bases, seat, qty
<1>5. Updated(sub, change) \in Sub BY <1>1, <1>2, <1>3, <1>4 DEF Sub, Base
<1> QED BY <1>2, <1>3, <1>5
-----------------------------------------------------------------------------
LEMMA BillingStarts == Init => BillingInv
<1> SUFFICES ASSUME Init PROVE BillingInv OBVIOUS
<1>1. subs = <<>> /\ SubIds = {} /\ Live = {} BY DEF Init, SubIds, Live
<1>2. StripeTypes BY <1>1, LimitsAssumption DEF Init, StripeTypes
<1>3. OrgTypes BY DEF Init, OrgTypes, Plans, NoSub
<1>4. HistoryTypes
  <2>1. processed = <<>> /\ Len(processed) = 0 /\ processed \in Seq(1..0) BY DEF Init
  <2> QED BY <2>1, LimitsAssumption DEF Init, HistoryTypes
<1>5. JobTypes BY DEF Init, JobTypes, Knows, Idle
<1>6. Orderly BY <1>1 DEF Init, Orderly, At, Idle
<1>7. Truth(org) BY <1>1 DEF Init, Truth
<1>8. \A s \in Slots : Keeps(job[s]) BY DEF Init, Keeps, Idle
<1> QED BY <1>2, <1>3, <1>4, <1>5, <1>6, <1>7, <1>8 DEF BillingInv, BillingTypes, Agrees, Init

\* What is known stays known while Stripe's subscriptions stay,
LEMMA TellsStays ==
  ASSUME NEW e, Tells(e), UNCHANGED <<subs, emitted>>, calm' => calm
  PROVE  Tells(e)'
BY DEF Tells, SubIds, PlanAt

\* and a later event takes the place of the last one.
LEMMA TellsAges ==
  ASSUME NEW e, Tells(e), emitted \in Nat, emitted' \in Nat, emitted' > emitted, SubIds \subseteq SubIds'
  PROVE  Tells(e)'
<1>1. e.seq \in 1..emitted' /\ e.seq # emitted' BY DEF Tells
<1> QED BY <1>1 DEF Tells

\* A handler goes on knowing it while another one works: in calm there is none.
LEMMA KnowsStays ==
  ASSUME NEW j, Knows(j), \A e : Tells(e) => Tells(e)', SubIds \subseteq SubIds',
         high \in Int, high' \in Int, high' >= high, calm' => calm,
         OnEvent(j.on) /\ j.pc # "idle" => j.on.seq \in Int,
         calm' /\ j.pc # "idle" => UNCHANGED <<org, high>>
  PROVE  Knows(j)'
<1>1. OnEvent(j.on)' <=> OnEvent(j.on) BY DEF OnEvent, EventTypes
<1>2. Seats(j)' <=> Seats(j) BY DEF Seats
<1>3. j.pc # "idle" /\ OnEvent(j.on) => Tells(j.on)' /\ j.on.seq <= high' /\ (calm' => j.on.seq = high')
  <2>1. SUFFICES ASSUME j.pc # "idle", OnEvent(j.on)
                 PROVE Tells(j.on)' /\ j.on.seq <= high' /\ (calm' => j.on.seq = high')
    OBVIOUS
  <2>2. Tells(j.on) /\ j.on.seq <= high /\ (calm => j.on.seq = high) BY <2>1 DEF Knows
  <2>3. Tells(j.on)' BY <2>2
  <2>4. j.on.seq \in Int BY <2>1
  <2>5. j.on.seq <= high' BY <2>2, <2>4
  <2>6. calm' => high' = high BY <2>1
  <2> QED BY <2>2, <2>3, <2>5, <2>6
<1>4. j.pc \notin {"idle"} /\ calm' => org' = org OBVIOUS
<1>5. j.pc = "org" => j.next \in [plan : Plans, sub : SubIds' \cup {NoSub}]
  <2>1. j.pc = "org" => j.next \in [plan : Plans, sub : SubIds \cup {NoSub}] BY DEF Knows
  <2> QED BY <2>1
<1>6. j.pc = "org" => (j.next.plan = "free" <=> j.next.sub = NoSub) /\ (calm' => (j.changed <=> j.next # org'))
  BY <1>4 DEF Knows
<1>7. j.pc = "cache" => j.snap \in Sub /\ j.plan \in Plans /\ (calm' => j.plan = org'.plan)
  BY <1>4 DEF Knows
<1>8. calm' /\ j.pc \in {"post", "store"} /\ Seats(j) => org'.plan = "business"
  BY <1>4 DEF Knows
<1>9. /\ j.pc \in Steps \cup {"idle"}
      /\ j.pc # "idle" => j.on.op \in EventTypes \cup {"sync", "change_plan", "invite", "sso", "agent", "remove"}
      /\ j.pc = "mark" => OnEvent(j.on)
      /\ j.pc = "fetch" => j.on.op = "completed"
      /\ j.pc = "insert" => j.on.op \in {"invite", "sso", "agent"}
  BY DEF Knows
<1>10. j.pc = "apply" => j.sub \in SubIds' /\ j.snap \in Sub /\ j.forced \in Plans \cup {None} BY DEF Knows
<1>11. /\ j.pc = "post" => /\ j.change.sub \in SubIds' /\ j.change.base \in {None} \cup Base
                           /\ j.change.seat \in {None} \cup SeatChange
                           /\ Seats(j) => j.change.seat \in SeatChange
       /\ j.pc = "store" => j.snap \in Sub /\ j.qty \in Nat /\ Seats(j)
  BY DEF Knows
<1>12. j.pc = "org" => j.snap \in Sub BY DEF Knows
<1> QED BY <1>1, <1>2, <1>3, <1>5, <1>6, <1>7, <1>8, <1>9, <1>10, <1>11, <1>12 DEF Knows

\* So do all that do not move.
LEMMA JobsStay ==
  ASSUME BillingInv, job' = [t \in Slots |-> job'[t]], \A e : Tells(e) => Tells(e)', SubIds \subseteq SubIds',
         high' \in Int, high' >= high, calm' => calm,
         \A t \in Slots : \/ Knows(job[t])'
                          \/ job'[t] = job[t] /\ (calm' /\ job[t].pc # "idle" => UNCHANGED <<org, high>>)
  PROVE  JobTypes'
<1>1. JobTypes /\ high \in Int /\ emitted \in Nat BY DEF BillingInv, BillingTypes, HistoryTypes, StripeTypes
<1>2. ASSUME NEW t \in Slots, job'[t] = job[t], calm' /\ job[t].pc # "idle" => UNCHANGED <<org, high>>
      PROVE  Knows(job[t])'
  <2>1. PICK r : r = job[t] OBVIOUS
  <2>2. Knows(r) BY <1>1, <2>1 DEF JobTypes
  <2>3. OnEvent(r.on) /\ r.pc # "idle" => r.on.seq \in Int
    <3>1. OnEvent(r.on) /\ r.pc # "idle" => r.on.seq \in 1..emitted BY <2>2 DEF Knows, Tells
    <3> QED BY <3>1, <1>1
  <2>4. calm' /\ r.pc # "idle" => UNCHANGED <<org, high>> BY <1>2, <2>1
  <2>5. Knows(r)' BY <1>1, <2>2, <2>3, <2>4, KnowsStays
  <2>6. job'[t] = r BY <1>2, <2>1
  <2> QED BY <2>5, <2>6
<1>3. \A t \in Slots : Knows(job[t])' BY <1>2
<1> QED BY <1>3 DEF JobTypes

\* A step of one handler, which leaves Stripe's subscriptions alone.
LEMMA StepMoves ==
  ASSUME BillingInv, NEW s \in Slots, NEW j, job' = [job EXCEPT ![s] = j],
         UNCHANGED <<subs, emitted>>, StripeTypes', OrgTypes', HistoryTypes', Knows(j)',
         calm' => calm, calm' => \A t \in Slots : t # s => job[t].pc = "idle",
         calm' => \A n \in (high' + 1)..emitted : \E e \in events' : e.seq = n,
         high' >= high,
         calm' /\ high' = emitted => /\ Told(PastOrg)' => Truth(org')
                                     /\ Told(PastCache)' => (org'.plan = "free" <=> cache' = None)
                                     /\ Keeps(j)'
  PROVE  BillingInv'
<1> USE DEF At
<1>1. JobTypes /\ high' \in Int BY DEF BillingInv, BillingTypes, HistoryTypes, StripeTypes
<1>2. \A t \in Slots : job'[t] = IF t = s THEN j ELSE job[t] BY <1>1 DEF JobTypes
<1>3. \A t \in Slots : t # s => job'[t] = job[t] BY <1>2
<1>4. JobTypes'
  <2>1. \A e : Tells(e) => Tells(e)' BY TellsStays
  <2>2. SubIds \subseteq SubIds' BY DEF SubIds
  <2>3. job' = [t \in Slots |-> job'[t]] BY <1>1 DEF JobTypes
  <2>4. Knows(job[s])'
    <3>1. job'[s] = j BY <1>2
    <3> QED BY <3>1
  <2>5. \A t \in Slots : \/ Knows(job[t])'
                         \/ job'[t] = job[t] /\ (calm' /\ job[t].pc # "idle" => UNCHANGED <<org, high>>)
    <3>1. SUFFICES ASSUME NEW t \in Slots
                   PROVE \/ Knows(job[t])'
                         \/ job'[t] = job[t] /\ (calm' /\ job[t].pc # "idle" => UNCHANGED <<org, high>>)
      OBVIOUS
    <3>2. CASE t = s BY <2>4, <3>2
    <3>3. CASE t # s BY <1>3, <3>3
    <3> QED BY <3>2, <3>3
  <2> QED BY <1>1, <2>1, <2>2, <2>3, <2>5, JobsStay
<1>6. Live' = Live /\ SubIds' = SubIds BY DEF Live, SubIds
<1>7. calm' => \A t \in Slots : t # s => job'[t].pc = "idle" BY <1>3
<1>8. Orderly'
  <2>1. calm' => Live' \subseteq {Len(subs')} BY <1>6 DEF BillingInv, Orderly
  <2>2. calm' => \A n \in (high' + 1)..emitted' : \E e \in events' : e.seq = n OBVIOUS
  <2> QED BY <1>7, <2>1, <2>2 DEF Orderly
<1>9. Agrees'
  <2>1. ASSUME calm', high' = emitted', NEW t \in Slots PROVE Keeps(job[t])'
    <3>1. CASE t = s
      <4>1. job'[t] = j /\ Keeps(j)' BY <1>2, <2>1, <3>1
      <4> QED BY <4>1
    <3>2. CASE t # s
      <4>1. job'[t].pc = "idle" BY <1>7, <2>1, <3>2
      <4> QED BY <4>1 DEF Keeps
    <3> QED BY <3>1, <3>2
  <2>2. calm' /\ high' = emitted' => /\ Told(PastOrg)' => Truth(org')
                                     /\ Told(PastCache)' => (org'.plan = "free" <=> cache' = None)
    OBVIOUS
  <2>3. Truth(org') <=> Truth(org)' BY <1>6 DEF Truth, PlanAt
  <2> QED BY <2>1, <2>2, <2>3 DEF Agrees
<1> QED BY <1>4, <1>8, <1>9 DEF BillingInv, BillingTypes

\* The same, of a handler that says nothing to Stripe but its answer.
LEMMA JobMoves ==
  ASSUME BillingInv, NEW s \in Slots, NEW j, job' = [job EXCEPT ![s] = j],
         UNCHANGED <<sessions, subs, emitted, minted, memory>>, events' \subseteq events,
         OrgTypes', HistoryTypes', Knows(j)',
         calm' => calm, calm' => \A t \in Slots : t # s => job[t].pc = "idle",
         calm' => \A n \in (high' + 1)..emitted : \E e \in events' : e.seq = n,
         high' >= high,
         calm' /\ high' = emitted => /\ Told(PastOrg)' => Truth(org')
                                     /\ Told(PastCache)' => (org'.plan = "free" <=> cache' = None)
                                     /\ Keeps(j)'
  PROVE  BillingInv'
<1>1. \A e : Tells(e) => Tells(e)' BY TellsStays
<1>2. StripeTypes BY DEF BillingInv, BillingTypes
<1>3. StripeTypes' BY <1>1, <1>2 DEF StripeTypes, SubIds
<1> QED BY <1>3, StepMoves

\* What was told before a step, or by the handler that steps.
LEMMA ToldMoves ==
  ASSUME JobTypes, NEW s \in Slots, NEW j, job' = [job EXCEPT ![s] = j], UNCHANGED <<events, processed, emitted>>,
         NEW past, Told(past)'
  PROVE  Told(past) \/ (j.pc \in past /\ Fresh(j))
<1>1. \A t \in Slots : job'[t] = IF t = s THEN j ELSE job[t] BY DEF JobTypes
<1>2. CASE \A e \in events : e.seq # emitted BY <1>2 DEF Told
<1>3. CASE WasProcessed(emitted) BY <1>3 DEF Told
<1>4. CASE \E t \in Slots : job'[t].pc \in past /\ Fresh(job'[t])
  <2>1. PICK t \in Slots : job'[t].pc \in past /\ Fresh(job'[t]) BY <1>4
  <2>2. CASE t = s BY <1>1, <2>1, <2>2
  <2>3. CASE t # s
    <3>1. job[t].pc \in past /\ Fresh(job[t]) BY <1>1, <2>1, <2>3
    <3> QED BY <3>1 DEF Told
  <2> QED BY <2>2, <2>3
<1>5. (\A e \in events : e.seq # emitted) \/ WasProcessed(emitted) \/ (\E t \in Slots : job'[t].pc \in past /\ Fresh(job'[t]))
  BY DEF Told, WasProcessed, Fresh
<1> QED BY <1>2, <1>3, <1>4, <1>5

\* A step that moves no handler, and tells nothing new.
LEMMA NothingMoves ==
  ASSUME BillingInv, UNCHANGED <<subs, emitted, org, cache, roll, job, high>>, StripeTypes', HistoryTypes',
         calm' => calm, calm' => \A n \in (high + 1)..emitted : \E e \in events' : e.seq = n,
         Told(PastOrg)' => Told(PastOrg), Told(PastCache)' => Told(PastCache)
  PROVE  BillingInv'
<1>1. Live' = Live /\ SubIds' = SubIds BY DEF Live, SubIds
<1>2. OrgTypes' BY <1>1 DEF BillingInv, BillingTypes, OrgTypes
<1>3. JobTypes'
  <2>1. \A e : Tells(e) => Tells(e)' BY TellsStays
  <2>2. job' = [t \in Slots |-> job'[t]] BY DEF BillingInv, BillingTypes, JobTypes
  <2>3. \A t \in Slots : job'[t] = job[t] /\ (calm' /\ job[t].pc # "idle" => UNCHANGED <<org, high>>) OBVIOUS
  <2>4. high' \in Int /\ high' >= high BY DEF BillingInv, BillingTypes, HistoryTypes, StripeTypes
  <2> QED BY <1>1, <2>1, <2>2, <2>3, <2>4, JobsStay
<1>4. Orderly' BY <1>1 DEF BillingInv, Orderly, At
<1>5. Agrees'
  <2>1. (\A s \in Slots : Keeps(job[s])) /\ (Truth(org) <=> Truth(org)') => \A s \in Slots : Keeps(job[s])'
    BY <1>1 DEF Keeps, Applies, Fresh, OnEvent, Truth, PlanAt
  <2>2. Truth(org) <=> Truth(org)' BY <1>1 DEF Truth, PlanAt
  <2> QED BY <2>1, <2>2 DEF BillingInv, Agrees
<1> QED BY <1>2, <1>3, <1>4, <1>5 DEF BillingInv, BillingTypes

-----------------------------------------------------------------------------
\* A subscription is found as long as there is one; the last is the newest.
LEMMA NewestIs ==
  ASSUME subs \in Seq(Sub), NEW S \in SUBSET SubIds, S # {}
  PROVE  Newest(S) \in S /\ (Len(subs) \in S => Newest(S) = Len(subs))
<1> DEFINE n == Len(subs)
           Below == {p \in Nat \X Nat : p[1] < p[2]}
           T == {n - t : t \in S}
<1>1. n \in Nat /\ S \subseteq 1..n BY DEF SubIds
<1>2. T \in SUBSET Nat /\ T # {}
  <2>1. \A t \in S : n - t \in Nat BY <1>1
  <2> QED BY <2>1
<1>3. IsWellFoundedOn(Below, Nat) BY NatLessThanWellFounded DEF OpToRel
<1>4. PICK m \in T : \A k \in T : <<k, m>> \notin Below BY <1>2, <1>3, WFMin
<1>5. PICK g \in S : m = n - g OBVIOUS
<1>6. \A t \in S : t <= g
  <2>1. SUFFICES ASSUME NEW t \in S PROVE t <= g OBVIOUS
  <2>2. n - t \in T OBVIOUS
  <2>3. n - t \in Nat /\ m \in Nat BY <1>2, <2>2
  <2>4. ~(n - t < m) BY <1>4, <2>2, <2>3
  <2> QED BY <1>1, <1>5, <2>3, <2>4
<1>7. \A t \in S : (\A k \in S : k <= t) <=> t = g BY <1>1, <1>6
<1>8. Newest(S) = g BY <1>7 DEF Newest
<1>9. n \in S => n = g BY <1>1, <1>6
<1> QED BY <1>8, <1>9

\* The organization that says what Stripe says is one.
LEMMA TruthIsOne ==
  ASSUME NEW o, NEW p, Truth(o), Truth(p), o \in [plan : Plans, sub : SubIds \cup {NoSub}],
         p \in [plan : Plans, sub : SubIds \cup {NoSub}],
         o.plan = "free" <=> o.sub = NoSub, p.plan = "free" <=> p.sub = NoSub
  PROVE  o = p
<1>1. CASE Live = {} BY <1>1 DEF Truth
<1>2. CASE Live # {} BY <1>2 DEF Truth
<1> QED BY <1>1, <1>2

\* Applying a subscription as it is says what Stripe says.
LEMMA AppliesIs ==
  ASSUME StripeTypes, OrgTypes, NEW sub \in SubIds, NEW snap \in Sub, NEW forced \in Plans \cup {None}, NEW next,
         next = [plan |-> PlanOf(snap, forced), sub |-> IF PlanOf(snap, forced) = "free" THEN NoSub ELSE sub]
  PROVE  /\ next \in [plan : Plans, sub : SubIds \cup {NoSub}]
         /\ next.plan = "free" <=> next.sub = NoSub
         /\ \A j : (j.sub = sub /\ j.snap = snap /\ j.forced = forced /\ Live \subseteq {Len(subs)} /\ Applies(j))
                    => Truth(next)
<1>1. SubIds = 1..Len(subs) /\ Len(subs) \in Nat /\ \A t \in SubIds : subs[t] \in Sub
  BY DEF StripeTypes, SubIds
<1>2. sub # NoSub BY <1>1 DEF NoSub
<1>3. org.plan \in Plans BY DEF OrgTypes
<1>4. PICK plan : plan = PlanOf(snap, forced) OBVIOUS
<1>5. /\ plan \in Plans
      /\ forced # None => plan = forced
      /\ forced = None /\ snap.status = "canceled" => plan = "free"
      /\ forced = None /\ snap.status = "active" /\ snap.bases # <<>> => plan = Last(snap.bases).plan
  BY <1>3, <1>4, PlanIs
<1>6. next = [plan |-> plan, sub |-> IF plan = "free" THEN NoSub ELSE sub] BY <1>4
<1>7. \A t \in SubIds : PlanAt(t) \in PaidPlans /\ subs[t].status \in {"active", "canceled"} /\ subs[t].bases # <<>>
  <2>1. SUFFICES ASSUME NEW t \in SubIds PROVE PlanAt(t) \in PaidPlans /\ subs[t].status \in {"active", "canceled"} /\ subs[t].bases # <<>>
    OBVIOUS
  <2>2. subs[t] \in Sub /\ subs[t].status \in {"active", "canceled"} /\ subs[t].bases # <<>> BY <1>1 DEF StripeTypes
  <2> QED BY <2>2, ShapeIs DEF PlanAt
<1>8. ASSUME NEW j, j.sub = sub, j.snap = snap, j.forced = forced, Live \subseteq {Len(subs)}, Applies(j)
      PROVE  Truth(next)
  <2>1. CASE forced = None /\ sub = Len(subs) /\ snap = subs[sub] /\ snap.status = "active"
    <3>1. Live = {sub} /\ plan = PlanAt(sub) BY <1>5, <1>7, <1>8, <2>1 DEF Live, PlanAt
    <3>2. plan # "free" BY <1>7, <3>1 DEF PaidPlans
    <3> QED BY <1>6, <3>1, <3>2 DEF Truth
  <2>2. CASE forced = None /\ sub = Len(subs) /\ snap = subs[sub] /\ snap.status = "canceled"
    <3>1. Live = {} /\ plan = "free" BY <1>5, <1>8, <2>2 DEF Live
    <3> QED BY <1>6, <3>1 DEF Truth
  <2>3. CASE forced = "free" /\ Live = {}
    <3>1. plan = "free" BY <1>5, <2>3, NoneIsNothing DEF Plans
    <3> QED BY <1>6, <2>3, <3>1 DEF Truth
  <2>4. CASE sub \in Live /\ forced = PlanAt(sub)
    <3>1. forced \in PaidPlans /\ forced # "free" BY <1>7, <2>4 DEF PaidPlans
    <3>2. plan = forced BY <1>5, <3>1, NoneIsNothing DEF Plans
    <3>3. next = [plan |-> PlanAt(sub), sub |-> sub] /\ Live = {sub} BY <1>6, <1>8, <2>4, <3>1, <3>2
    <3> QED BY <3>3 DEF Truth
  <2> QED BY <1>7, <1>8, <2>1, <2>2, <2>3, <2>4 DEF Applies
<1>9. next \in [plan : Plans, sub : SubIds \cup {NoSub}] BY <1>5, <1>6
<1>10. next.plan = "free" <=> next.sub = NoSub BY <1>2, <1>6
<1> QED BY <1>8, <1>9, <1>10

\* The ids remembered are of events begun, and as many as the limit lets be.
LEMMA RememberIs ==
  ASSUME NEW n \in Nat, processed \in Seq(1..n), Len(processed) <= ProcessedLimit, NEW seq \in 1..n
  PROVE  Remember(seq) \in Seq(1..n) /\ Len(Remember(seq)) <= ProcessedLimit
<1> DEFINE all == Append(processed, seq)
<1>1. all \in Seq(1..n) /\ Len(all) = Len(processed) + 1 /\ all # <<>> OBVIOUS
<1>2. Tail(all) \in Seq(1..n) /\ Len(Tail(all)) = Len(all) - 1 BY <1>1
<1>3. Remember(seq) = IF Len(all) > ProcessedLimit THEN Tail(all) ELSE all BY DEF Remember
<1>4. ProcessedLimit \in Nat /\ Len(processed) \in Nat BY LimitsAssumption
<1> HIDE DEF all
<1>5. CASE Len(all) > ProcessedLimit
  <2>1. Remember(seq) = Tail(all) BY <1>3, <1>5
  <2> QED BY <1>1, <1>2, <1>4, <2>1
<1>6. CASE Len(all) <= ProcessedLimit
  <2>1. Remember(seq) = all BY <1>1, <1>3, <1>4, <1>6
  <2> QED BY <1>1, <1>6, <2>1
<1>7. Len(all) \in Nat BY <1>1, <1>4
<1> QED BY <1>4, <1>5, <1>6, <1>7

\* In calm one subscription is alive.
LEMMA OneIsAlive ==
  ASSUME NEW S, NEW n \in Nat, S \subseteq 1..n, Cardinality(S) <= 1, NEW x \in S
  PROVE  S = {x}
<1>1. IsFiniteSet(S)
  <2>1. IsFiniteSet(1..n) BY FS_Interval
  <2> QED BY <2>1, FS_Subset
<1>2. SUFFICES ASSUME NEW y \in S, y # x PROVE FALSE OBVIOUS
<1>3. Cardinality({x, y}) <= Cardinality(S) /\ Cardinality(S) \in Nat BY <1>1, FS_Subset, FS_CardinalityType
<1>4. IsFiniteSet({x}) /\ Cardinality({x}) = 1 BY FS_Singleton
<1>5. Cardinality({x} \cup {y}) = 2 BY <1>2, <1>4, FS_AddElement
<1>6. {x, y} = {x} \cup {y} OBVIOUS
<1> QED BY <1>3, <1>5, <1>6

-----------------------------------------------------------------------------
\* What a handler resumes with,
LEMMA Resumes ==
  ASSUME BillingInv, NEW s \in Slots, NEW r, r = job[s]
  PROVE  /\ Knows(r)
         /\ r.pc # "idle" /\ calm => \A t \in Slots : t # s => job[t].pc = "idle"
         /\ r.pc # "idle" /\ calm /\ high = emitted /\ OnEvent(r.on) => Fresh(r)
         /\ calm /\ high = emitted => /\ Keeps(r)
                                      /\ Told(PastOrg) => Truth(org)
                                      /\ Told(PastCache) => (org.plan = "free" <=> cache = None)
                                      /\ Told(PastCache) => Told(PastOrg)
         /\ \A past : r.pc \in past /\ Fresh(r) => Told(past)
<1>1. Knows(r) BY DEF BillingInv, BillingTypes, JobTypes
<1>2. r.pc # "idle" /\ calm => \A t \in Slots : t # s => job[t].pc = "idle" BY DEF BillingInv, Orderly, At
<1>3. r.pc # "idle" /\ calm /\ high = emitted /\ OnEvent(r.on) => Fresh(r) BY <1>1 DEF Knows, Fresh
<1>4. Told(PastCache) => Told(PastOrg) BY DEF Told, PastOrg
<1>5. calm /\ high = emitted => /\ Keeps(r)
                                /\ Told(PastOrg) => Truth(org)
                                /\ Told(PastCache) => (org.plan = "free" <=> cache = None)
  BY DEF BillingInv, Agrees
<1>6. \A past : r.pc \in past /\ Fresh(r) => Told(past) BY DEF Told
<1> QED BY <1>1, <1>2, <1>3, <1>4, <1>5, <1>6

\* and what its next step has to keep, when it only reads Stripe.
LEMMA JobRuns ==
  ASSUME BillingInv, NEW s \in Slots, NEW j, job' = [job EXCEPT ![s] = j],
         UNCHANGED <<stripe, processed, high>>, OrgTypes', Knows(j)', calm' \in BOOLEAN, inputs' \in 0..MaxInputs,
         calm' => calm /\ \A t \in Slots : t # s => job[t].pc = "idle",
         calm' /\ high = emitted =>
           /\ Told(PastOrg) \/ (j.pc \in PastOrg /\ Fresh(j)) => Truth(org')
           /\ Told(PastCache) \/ (j.pc \in PastCache /\ Fresh(j)) => (org'.plan = "free" <=> cache' = None)
           /\ Keeps(j)
  PROVE  BillingInv'
<1>1. UNCHANGED <<sessions, subs, emitted, minted, memory, events>> BY DEF stripe
<1>2. JobTypes BY DEF BillingInv, BillingTypes
<1>3. HistoryTypes' BY <1>1 DEF BillingInv, BillingTypes, HistoryTypes
<1>4. calm' => \A n \in (high' + 1)..emitted : \E e \in events' : e.seq = n BY <1>1 DEF BillingInv, Orderly
<1>5. high' >= high BY DEF BillingInv, BillingTypes, HistoryTypes, StripeTypes
<1>6. \A past : Told(past)' => Told(past) \/ (j.pc \in past /\ Fresh(j)) BY <1>1, <1>2, ToldMoves
<1>7. Live' = Live /\ (Fresh(j)' <=> Fresh(j)) BY <1>1 DEF Live, SubIds, Fresh, OnEvent
<1>8. ASSUME calm', high' = emitted PROVE Keeps(j)'
  <2>1. high = emitted /\ Keeps(j) BY <1>1, <1>8
  <2>2. j.pc \in {"apply", "org"} /\ Told(PastOrg)' => Told(PastOrg) BY <1>6 DEF PastOrg, PastCache
  <2>3. (Applies(j) => Applies(j)') /\ (Truth(j.next) => Truth(j.next)') BY <1>1, <1>7 DEF Applies, Truth, PlanAt
  <2> QED BY <1>7, <2>1, <2>2, <2>3 DEF Keeps
<1>9. ASSUME calm', high' = emitted
      PROVE  (Told(PastOrg)' => Truth(org')) /\ (Told(PastCache)' => (org'.plan = "free" <=> cache' = None))
  BY <1>1, <1>6, <1>9
<1> QED BY <1>1, <1>3, <1>4, <1>5, <1>8, <1>9, JobMoves

\* Knowledge survives a step that leaves Stripe and the organization.
LEMMA KnowsSame ==
  ASSUME BillingInv, NEW j, Knows(j), UNCHANGED <<subs, emitted, org, high>>, calm' => calm
  PROVE  Knows(j)'
<1>1. \A e : Tells(e) => Tells(e)' BY TellsStays
<1>2. OnEvent(j.on) /\ j.pc # "idle" => j.on.seq \in Int
  <2>1. OnEvent(j.on) /\ j.pc # "idle" => j.on.seq \in 1..emitted BY DEF Knows, Tells
  <2> QED BY <2>1 DEF BillingInv, BillingTypes, StripeTypes
<1>3. high \in Int /\ SubIds \subseteq SubIds' BY DEF BillingInv, BillingTypes, HistoryTypes, StripeTypes, SubIds
<1> QED BY <1>1, <1>2, <1>3, KnowsStays

\* The end of a handler, and its way to the seats.
LEMMA EndedIs ==
  ASSUME NEW on, NEW r, Knows(r), r.pc # "idle", r.on = on, NEW j, j \in {Ended(on), [pc |-> "seats", on |-> on]}
  PROVE  /\ Knows(j) /\ j.pc \in {"idle", "mark", "seats"}
         /\ j.pc # "idle" => j.on = on
<1>1. CASE j = [pc |-> "seats", on |-> on] BY <1>1 DEF Knows, Steps
<1>2. CASE j = [pc |-> "mark", on |-> on] /\ OnEvent(on) BY <1>2 DEF Knows, Steps
<1>3. CASE j = Idle BY <1>3 DEF Knows, Steps, Idle
<1> QED BY <1>1, <1>2, <1>3 DEF Ended, OnEvent

\* A step of a handler that is past its writes.
LEMMA TailRuns ==
  ASSUME BillingInv, NEW s \in Slots, NEW r, r = job[s], r.pc \in PastCache, NEW j, job' = [job EXCEPT ![s] = j],
         UNCHANGED <<stripe, org, roll, processed, high>>, cache' \in {None} \cup CacheRow,
         calm' \in BOOLEAN, calm' => calm, inputs' \in 0..MaxInputs,
         calm => cache' = cache \/ (org.plan # "free" /\ cache' # None),
         Knows(j)', j.pc \notin {"org"}, j.pc # "idle" => j.on = r.on,
         calm' /\ high = emitted /\ j.pc = "apply" => Applies(j)
  PROVE  BillingInv'
<1>1. /\ calm => \A t \in Slots : t # s => job[t].pc = "idle"
      /\ calm /\ high = emitted => /\ Told(PastOrg) => Truth(org)
                                   /\ Told(PastCache) => (org.plan = "free" <=> cache = None)
                                   /\ Told(PastCache) => Told(PastOrg)
      /\ Fresh(r) => Told(PastCache)
  BY Resumes DEF PastCache
<1>2. SubIds' = SubIds BY DEF SubIds, stripe
<1>3. OrgTypes' BY <1>2 DEF BillingInv, BillingTypes, OrgTypes
<1>4. j.pc \in PastOrg /\ Fresh(j) => Fresh(r) BY DEF Fresh, OnEvent, PastOrg, PastCache
<1>5. PastCache \subseteq PastOrg BY DEF PastOrg
<1>6. ASSUME calm', high = emitted
      PROVE  /\ Told(PastOrg) \/ (j.pc \in PastOrg /\ Fresh(j)) => Truth(org')
             /\ Told(PastCache) \/ (j.pc \in PastCache /\ Fresh(j)) => (org'.plan = "free" <=> cache' = None)
             /\ Keeps(j)
  <2>1. calm BY <1>6
  <2>2. Told(PastOrg) \/ (j.pc \in PastOrg /\ Fresh(j)) => Truth(org) BY <1>1, <1>4, <1>6, <2>1
  <2>3. Told(PastCache) \/ (j.pc \in PastCache /\ Fresh(j)) => (org.plan = "free" <=> cache = None)
    BY <1>1, <1>4, <1>5, <1>6, <2>1
  <2>4. Keeps(j) BY <1>6 DEF Keeps
  <2>5. org' = org /\ ((org.plan # "free" /\ cache' # None) \/ cache' = cache) BY <2>1
  <2> QED BY <2>2, <2>3, <2>4, <2>5
<1> QED BY <1>1, <1>3, <1>6, JobRuns

-----------------------------------------------------------------------------
\* The steps of a handler that only reads Stripe.

LEMMA ReadOrgStays == ASSUME BillingInv, NEW s \in Slots, ReadOrg(s) PROVE BillingInv'
<1>1. PICK r : r = job[s] OBVIOUS
<1>2. r.pc = "apply" /\ r.pc # "idle" BY <1>1 DEF ReadOrg, At
<1>3. /\ Knows(r) /\ (calm => \A t \in Slots : t # s => job[t].pc = "idle")
      /\ calm /\ high = emitted => /\ Keeps(r)
                                   /\ Told(PastOrg) => Truth(org)
                                   /\ Told(PastCache) => (org.plan = "free" <=> cache = None)
  BY <1>1, <1>2, Resumes
<1>4. r.sub \in SubIds /\ r.snap \in Sub /\ r.forced \in Plans \cup {None} BY <1>2, <1>3 DEF Knows
<1>5. PICK next : next = [plan |-> PlanOf(r.snap, r.forced), sub |-> IF PlanOf(r.snap, r.forced) = "free" THEN NoSub ELSE r.sub]
  OBVIOUS
<1>6. PICK j : j = [pc |-> "org", on |-> r.on, snap |-> r.snap, next |-> next, changed |-> next # org] OBVIOUS
<1>7. job' = [job EXCEPT ![s] = j] BY <1>1, <1>5, <1>6 DEF ReadOrg, Goto
<1>8. /\ next \in [plan : Plans, sub : SubIds \cup {NoSub}]
      /\ next.plan = "free" <=> next.sub = NoSub
      /\ Live \subseteq {Len(subs)} /\ Applies(r) => Truth(next)
  BY <1>4, <1>5, AppliesIs DEF BillingInv, BillingTypes
<1>9. UNCHANGED <<stripe, org, cache, roll, processed, inputs, high, calm>> BY DEF ReadOrg, history
<1>10. SubIds' = SubIds /\ OrgTypes' BY <1>9 DEF stripe, SubIds, BillingInv, BillingTypes, OrgTypes
<1>11. Knows(j)
  <2>1. r.on.op \in EventTypes \cup {"sync", "change_plan", "invite", "sso", "agent", "remove"}
        /\ (OnEvent(r.on) => Tells(r.on) /\ r.on.seq <= high /\ (calm => r.on.seq = high))
    BY <1>2, <1>3 DEF Knows
  <2>2. j.pc = "org" /\ j.on = r.on /\ j.snap = r.snap /\ j.next = next /\ (j.changed <=> next # org) BY <1>6
  <2> QED BY <1>4, <1>8, <2>1, <2>2 DEF Knows, Steps
<1>12. Knows(j)' BY <1>9, <1>11, KnowsSame DEF stripe
<1>13. ASSUME calm', high = emitted
       PROVE  /\ Told(PastOrg) \/ (j.pc \in PastOrg /\ Fresh(j)) => Truth(org')
              /\ Told(PastCache) \/ (j.pc \in PastCache /\ Fresh(j)) => (org'.plan = "free" <=> cache' = None)
              /\ Keeps(j)
  <2>1. j.pc = "org" /\ j.pc \notin PastOrg /\ j.pc \notin PastCache BY <1>6 DEF PastOrg, PastCache
  <2>2. calm /\ org' = org /\ cache' = cache BY <1>9, <1>13
  <2>3. Live \subseteq {Len(subs)} BY <2>2 DEF BillingInv, Orderly
  <2>4. Fresh(j) <=> Fresh(r) BY <1>6 DEF Fresh, OnEvent
  <2>5. Told(PastOrg) \/ Fresh(j) => Truth(j.next) BY <1>2, <1>3, <1>6, <1>8, <1>13, <2>2, <2>3, <2>4 DEF Keeps
  <2>6. Keeps(j) BY <2>1, <2>5 DEF Keeps
  <2> QED BY <1>3, <1>13, <2>1, <2>2, <2>6
<1>14. calm' \in BOOLEAN /\ inputs' \in 0..MaxInputs BY <1>9 DEF BillingInv, BillingTypes, HistoryTypes
<1>15. calm' => calm /\ \A t \in Slots : t # s => job[t].pc = "idle" BY <1>3, <1>9
<1> QED BY <1>7, <1>9, <1>10, <1>12, <1>13, <1>14, <1>15, JobRuns

LEMMA WriteOrgStays == ASSUME BillingInv, NEW s \in Slots, WriteOrg(s) PROVE BillingInv'
<1>1. PICK r : r = job[s] OBVIOUS
<1>2. r.pc = "org" /\ r.pc # "idle" BY <1>1 DEF WriteOrg, At
<1>3. /\ Knows(r) /\ (calm => \A t \in Slots : t # s => job[t].pc = "idle")
      /\ calm /\ high = emitted => /\ Keeps(r)
                                   /\ Told(PastOrg) => Truth(org)
                                   /\ Told(PastCache) => (org.plan = "free" <=> cache = None)
                                   /\ Told(PastCache) => Told(PastOrg)
  BY <1>1, <1>2, Resumes
<1>4. /\ r.snap \in Sub /\ r.next \in [plan : Plans, sub : SubIds \cup {NoSub}]
      /\ r.next.plan = "free" <=> r.next.sub = NoSub
      /\ calm => (r.changed <=> r.next # org)
  BY <1>2, <1>3 DEF Knows
<1>5. PICK j : j = [pc |-> "cache", on |-> r.on, snap |-> r.snap, plan |-> r.next.plan] OBVIOUS
<1>6. job' = [job EXCEPT ![s] = j] /\ org' = (IF r.changed THEN r.next ELSE org) BY <1>1, <1>5 DEF WriteOrg, Goto
<1>7. UNCHANGED <<stripe, cache, roll, processed, inputs, high, calm>> BY DEF WriteOrg, history
<1>8. SubIds' = SubIds /\ OrgTypes'
  <2>1. SubIds' = SubIds BY <1>7 DEF stripe, SubIds
  <2>2. org' \in [plan : Plans, sub : SubIds \cup {NoSub}] /\ (org'.plan = "free" <=> org'.sub = NoSub)
    BY <1>4, <1>6 DEF BillingInv, BillingTypes, OrgTypes
  <2> QED BY <1>7, <2>1, <2>2 DEF BillingInv, BillingTypes, OrgTypes
<1>9. calm => org' = r.next BY <1>4, <1>6
<1>10. Knows(j)'
  <2>1. r.on.op \in EventTypes \cup {"sync", "change_plan", "invite", "sso", "agent", "remove"}
        /\ (OnEvent(r.on) => Tells(r.on) /\ r.on.seq <= high /\ (calm => r.on.seq = high))
    BY <1>2, <1>3 DEF Knows
  <2>2. \A e : Tells(e) => Tells(e)' BY <1>7, TellsStays DEF stripe
  <2>3. OnEvent(r.on) => Tells(r.on)' BY <2>1, <2>2
  <2>4. j.pc = "cache" /\ j.on = r.on /\ j.snap = r.snap /\ j.plan = r.next.plan BY <1>5
  <2>5. r.next.plan \in Plans /\ (calm' => r.next.plan = org'.plan) BY <1>4, <1>7, <1>9
  <2> QED BY <1>4, <1>7, <2>1, <2>3, <2>4, <2>5 DEF Knows, Steps, OnEvent
<1>11. ASSUME calm', high = emitted
       PROVE  /\ Told(PastOrg) \/ (j.pc \in PastOrg /\ Fresh(j)) => Truth(org')
              /\ Told(PastCache) \/ (j.pc \in PastCache /\ Fresh(j)) => (org'.plan = "free" <=> cache' = None)
              /\ Keeps(j)
  <2>1. j.pc = "cache" /\ j.pc \notin PastCache BY <1>5 DEF PastCache
  <2>2. calm /\ org' = r.next /\ cache' = cache BY <1>7, <1>9, <1>11
  <2>3. Fresh(j) <=> Fresh(r) BY <1>5 DEF Fresh, OnEvent
  <2>4. Told(PastOrg) \/ Fresh(r) => Truth(r.next) BY <1>2, <1>3, <1>11, <2>2 DEF Keeps
  <2>5. ASSUME Told(PastCache) PROVE org'.plan = "free" <=> cache' = None
    <3>1. Truth(org) /\ Truth(r.next) BY <1>3, <1>11, <2>2, <2>4, <2>5
    <3>2. org = r.next BY <1>4, <3>1, TruthIsOne DEF BillingInv, BillingTypes, OrgTypes
    <3> QED BY <1>3, <1>11, <2>2, <2>5, <3>2
  <2>6. Keeps(j) BY <2>1 DEF Keeps
  <2> QED BY <2>1, <2>2, <2>3, <2>4, <2>5, <2>6
<1>12. calm' \in BOOLEAN /\ inputs' \in 0..MaxInputs BY <1>7 DEF BillingInv, BillingTypes, HistoryTypes
<1>13. calm' => calm /\ \A t \in Slots : t # s => job[t].pc = "idle" BY <1>3, <1>7
<1> QED BY <1>6, <1>7, <1>8, <1>10, <1>11, <1>12, <1>13, JobRuns

LEMMA WriteCacheStays == ASSUME BillingInv, NEW s \in Slots, WriteCache(s) PROVE BillingInv'
<1>1. PICK r : r = job[s] OBVIOUS
<1>2. r.pc = "cache" /\ r.pc # "idle" BY <1>1 DEF WriteCache, At
<1>3. /\ Knows(r) /\ (calm => \A t \in Slots : t # s => job[t].pc = "idle")
      /\ calm /\ high = emitted => (Told(PastOrg) => Truth(org))
      /\ Fresh(r) => Told(PastOrg)
  BY <1>1, <1>2, Resumes DEF PastOrg
<1>4. r.snap \in Sub /\ r.plan \in Plans /\ (calm => r.plan = org.plan) BY <1>2, <1>3 DEF Knows
<1>5. PICK j : j = AfterApply(r.on, r.plan) OBVIOUS
<1>6. job' = [job EXCEPT ![s] = j] /\ cache' = Cached(r.snap, r.plan) BY <1>1, <1>5 DEF WriteCache, Goto
<1>7. UNCHANGED <<stripe, org, roll, processed, inputs, high, calm>> BY DEF WriteCache, history
<1>8. cache' \in {None} \cup CacheRow /\ (cache' = None <=> r.plan = "free")
  BY <1>4, <1>6, CachedIs DEF BillingInv, BillingTypes, OrgTypes
<1>9. OrgTypes' BY <1>7, <1>8 DEF stripe, SubIds, BillingInv, BillingTypes, OrgTypes
<1>10. Knows(j) /\ j.pc \in {"idle", "mark", "seats"} /\ (j.pc # "idle" => j.on = r.on)
  <2>1. j \in {Ended(r.on), [pc |-> "seats", on |-> r.on]} BY <1>5 DEF AfterApply
  <2> QED BY <1>2, <1>3, <2>1, EndedIs
<1>11. Knows(j)' BY <1>7, <1>10, KnowsSame DEF stripe
<1>12. ASSUME calm', high = emitted
       PROVE  /\ Told(PastOrg) \/ (j.pc \in PastOrg /\ Fresh(j)) => Truth(org')
              /\ Told(PastCache) \/ (j.pc \in PastCache /\ Fresh(j)) => (org'.plan = "free" <=> cache' = None)
              /\ Keeps(j)
  <2>1. calm /\ org' = org BY <1>7, <1>12
  <2>2. j.pc \in PastOrg /\ Fresh(j) => Told(PastOrg) BY <1>3, <1>10 DEF Fresh, OnEvent, PastOrg, PastCache
  <2>3. org'.plan = "free" <=> cache' = None BY <1>4, <1>8, <2>1
  <2>4. Keeps(j) BY <1>10 DEF Keeps
  <2> QED BY <1>3, <1>12, <2>1, <2>2, <2>3, <2>4
<1>13. calm' \in BOOLEAN /\ inputs' \in 0..MaxInputs BY <1>7 DEF BillingInv, BillingTypes, HistoryTypes
<1>14. calm' => calm /\ \A t \in Slots : t # s => job[t].pc = "idle" BY <1>3, <1>7
<1> QED BY <1>6, <1>7, <1>9, <1>11, <1>12, <1>13, <1>14, JobRuns

\* What an answer leads to.
LEMMA AnsweredIs ==
  ASSUME BillingInv, NEW r, Knows(r), r.pc = "post", NEW snap \in Sub, NEW j, j \in {Answered(r, snap), Ended(r.on)}
  PROVE  /\ Knows(j) /\ j.pc # "org" /\ (j.pc # "idle" => j.on = r.on)
         /\ j.pc = "apply" => j.forced = None /\ j.sub = r.change.sub /\ j.snap = snap /\ ~Seats(r)
<1>1. CASE j = Ended(r.on) BY <1>1, EndedIs
<1>2. CASE j = Answered(r, snap) /\ Seats(r)
  <2>1. j = [pc |-> "store", on |-> r.on, snap |-> snap, qty |-> r.change.seat.qty] BY <1>2 DEF Answered
  <2>2. r.change.seat.qty \in Nat BY <1>2 DEF Knows, SeatChange
  <2>3. Seats(j) BY <1>2, <2>1 DEF Seats
  <2>4. r.on.op \in EventTypes \cup {"sync", "change_plan", "invite", "sso", "agent", "remove"}
        /\ (OnEvent(r.on) => Tells(r.on) /\ r.on.seq <= high /\ (calm => r.on.seq = high))
        /\ (calm => org.plan = "business")
    BY <1>2 DEF Knows
  <2> QED BY <2>1, <2>2, <2>3, <2>4 DEF Knows, Steps
<1>3. CASE j = Answered(r, snap) /\ ~Seats(r)
  <2>1. j = [pc |-> "apply", on |-> r.on, sub |-> r.change.sub, snap |-> snap, forced |-> None]
    BY <1>3 DEF Answered, Applying
  <2>2. r.on.op \in EventTypes \cup {"sync", "change_plan", "invite", "sso", "agent", "remove"}
        /\ (OnEvent(r.on) => Tells(r.on) /\ r.on.seq <= high /\ (calm => r.on.seq = high))
        /\ r.change.sub \in SubIds
    BY DEF Knows
  <2> QED BY <1>3, <2>1, <2>2 DEF Knows, Steps
<1> QED BY <1>1, <1>2, <1>3

LEMMA SyncSeatsStays == ASSUME BillingInv, NEW s \in Slots, SyncSeats(s) PROVE BillingInv'
<1>1. PICK r : r = job[s] OBVIOUS
<1>2. r.pc = "seats" /\ r.pc \in PastCache /\ r.pc # "idle" BY <1>1 DEF SyncSeats, At, PastCache
<1>3. Knows(r) BY <1>1, Resumes
<1>4. OrgTypes BY DEF BillingInv, BillingTypes
<1>5. PICK state, quantity, billed, nothing :
        /\ state = ReadBillingState /\ quantity = SeatOverage(org.plan, roll.humans)
        /\ billed = (org.plan = "business" /\ org.sub # NoSub)
        /\ nothing = (state.seat = NoItem /\ quantity = 0)
  OBVIOUS
<1>6. PICK post : post = [pc |-> "post", on |-> r.on, key |-> <<"seats", org.sub, "business", quantity>>,
                          change |-> [sub |-> org.sub, base |-> None,
                                      seat |-> [id |-> state.seat, qty |-> quantity, deleted |-> FALSE]]]
  OBVIOUS
<1>7. /\ (cache' = [state EXCEPT !.qty = 0] /\ billed) \/ cache' = cache
      /\ job' = [job EXCEPT ![s] = Ended(r.on)] \/ (job' = [job EXCEPT ![s] = post] /\ billed)
  BY <1>1, <1>5, <1>6 DEF SyncSeats, Goto
<1>8. state \in CacheRow /\ quantity \in Nat
  <2>1. state \in CacheRow BY <1>4, <1>5 DEF OrgTypes, ReadBillingState, Empty, CacheRow, NoItem
  <2> QED BY <1>4, <1>5, <2>1, OverageIs DEF OrgTypes
<1>9. [state EXCEPT !.qty = 0] \in CacheRow
  <2>1. 0 \in Nat \cup {None} OBVIOUS
  <2> QED BY <1>8, <2>1 DEF CacheRow
<1>10. UNCHANGED <<stripe, org, roll, processed, inputs, high, calm>> BY DEF SyncSeats, history
<1>11. cache' \in {None} \cup CacheRow /\ (calm => cache' = cache \/ (org.plan # "free" /\ cache' # None))
  <2>1. cache' \in {None} \cup CacheRow BY <1>4, <1>7, <1>9 DEF OrgTypes
  <2> QED BY <1>5, <1>7, <1>9, <2>1, NoneIsNothing
<1>12. billed => Knows(post)
  <2>1. SUFFICES ASSUME billed PROVE Knows(post) OBVIOUS
  <2>2. org.sub \in SubIds /\ org.plan = "business" BY <1>4, <1>5, <2>1 DEF OrgTypes
  <2>3. post.pc = "post" /\ post.on = r.on /\ post.change = [sub |-> org.sub, base |-> None, seat |-> [id |-> state.seat, qty |-> quantity, deleted |-> FALSE]]
    BY <1>6
  <2>4. [id |-> state.seat, qty |-> quantity, deleted |-> FALSE] \in SeatChange BY <1>8 DEF CacheRow, SeatChange
  <2>5. post.change.sub \in SubIds /\ post.change.base = None /\ post.change.seat \in SeatChange BY <2>2, <2>3, <2>4
  <2>6. r.on.op \in EventTypes \cup {"sync", "change_plan", "invite", "sso", "agent", "remove"}
        /\ (OnEvent(r.on) => Tells(r.on) /\ r.on.seq <= high /\ (calm => r.on.seq = high))
    BY <1>2, <1>3 DEF Knows
  <2> QED BY <2>2, <2>3, <2>5, <2>6 DEF Knows, Steps
<1>13. PICK j : job' = [job EXCEPT ![s] = j] /\ (j = Ended(r.on) \/ (j = post /\ billed)) BY <1>7
<1>14. Knows(j) /\ j.pc \notin {"org", "apply"} /\ (j.pc # "idle" => j.on = r.on)
  <2>1. CASE j = Ended(r.on) BY <1>2, <1>3, <2>1, EndedIs
  <2>2. CASE j = post /\ billed BY <1>6, <1>12, <2>2
  <2> QED BY <1>13, <2>1, <2>2
<1>15. Knows(j)' BY <1>10, <1>14, KnowsSame DEF stripe
<1>16. calm' \in BOOLEAN /\ inputs' \in 0..MaxInputs BY <1>10 DEF BillingInv, BillingTypes, HistoryTypes
<1> QED BY <1>1, <1>2, <1>10, <1>11, <1>13, <1>14, <1>15, <1>16, TailRuns

LEMMA StoreSeatsStays == ASSUME BillingInv, NEW s \in Slots, StoreSeats(s) PROVE BillingInv'
<1>1. PICK r : r = job[s] OBVIOUS
<1>2. r.pc = "store" /\ r.pc \in PastCache /\ r.pc # "idle" BY <1>1 DEF StoreSeats, At, PastCache
<1>3. Knows(r) BY <1>1, Resumes
<1>4. r.snap \in Sub /\ r.qty \in Nat /\ (calm => org.plan = "business") BY <1>2, <1>3 DEF Knows
<1>5. PICK shape : shape = SubscriptionShape(r.snap) OBVIOUS
<1>6. /\ shape = [interval |-> shape.interval, plan |-> shape.plan, base |-> shape.base, seat |-> shape.seat, qty |-> shape.qty]
      /\ shape.base \in Nat /\ shape.seat \in Nat /\ shape.qty \in Nat \cup {None}
  BY <1>4, <1>5, ShapeIs
<1>7. PICK q : q = [shape EXCEPT !.interval = ReadBillingState.interval] OBVIOUS
<1>8. PICK patch : patch = [q EXCEPT !.qty = IF @ = None THEN r.qty ELSE @] OBVIOUS
<1>9. cache' = Merge(patch) BY <1>1, <1>5, <1>7, <1>8 DEF StoreSeats
<1>10. OrgTypes BY DEF BillingInv, BillingTypes
<1>11. patch.interval \in {"month", None} /\ patch.base \in Nat /\ patch.seat \in Nat /\ patch.qty \in Nat \cup {None}
  <2>1. ReadBillingState.interval \in {"month", None}
    <3>1. ReadBillingState \in CacheRow BY <1>10 DEF OrgTypes, ReadBillingState, Empty, CacheRow, NoItem
    <3> QED BY <3>1 DEF CacheRow
  <2>2. q.interval \in {"month", None} /\ q.base = shape.base /\ q.seat = shape.seat /\ q.qty = shape.qty
        /\ DOMAIN q = DOMAIN shape
    BY <1>6, <1>7, <2>1
  <2>3. DOMAIN shape = {"interval", "plan", "base", "seat", "qty"} BY <1>6
  <2> QED BY <1>4, <1>6, <1>8, <2>2, <2>3
<1>12. cache' \in CacheRow BY <1>9, <1>10, <1>11, MergeIs DEF OrgTypes
<1>13. UNCHANGED <<stripe, org, roll, processed, inputs, high, calm>> BY DEF StoreSeats, history
<1>14. PICK j : j = Ended(r.on) OBVIOUS
<1>15. job' = [job EXCEPT ![s] = j] BY <1>1, <1>14 DEF StoreSeats, Goto
<1>16. Knows(j) /\ j.pc \notin {"org", "apply"} /\ (j.pc # "idle" => j.on = r.on) BY <1>2, <1>3, <1>14, EndedIs
<1>17. Knows(j)' BY <1>13, <1>16, KnowsSame DEF stripe
<1>18. calm' \in BOOLEAN /\ inputs' \in 0..MaxInputs BY <1>13 DEF BillingInv, BillingTypes, HistoryTypes
<1>19. cache' # None BY <1>12, NoneIsNothing
<1> QED BY <1>1, <1>2, <1>4, <1>12, <1>13, <1>15, <1>16, <1>17, <1>18, <1>19, TailRuns

LEMMA PostRecalledStays == ASSUME BillingInv, NEW s \in Slots, PostRecalled(s) PROVE BillingInv'
<1>1. PICK r : r = job[s] OBVIOUS
<1>2. r.pc = "post" /\ r.pc \in PastCache /\ r.pc # "idle" BY <1>1 DEF PostRecalled, At, PastCache
<1>3. Knows(r) BY <1>1, Resumes
<1>4. PICK m \in memory : /\ UNCHANGED stripe /\ job' = [job EXCEPT ![s] = Answered(r, m.answer)]
                          /\ calm' = (calm /\ (m.answer # subs[r.change.sub] => Seats(r)))
  BY <1>1 DEF PostRecalled, Recall, Remembered, Goto
<1>5. m.answer \in Sub /\ m.answer.status = "active" BY DEF BillingInv, BillingTypes, StripeTypes
<1>6. PICK j : j = Answered(r, m.answer) OBVIOUS
<1>7. /\ Knows(j) /\ j.pc # "org" /\ (j.pc # "idle" => j.on = r.on)
      /\ j.pc = "apply" => j.forced = None /\ j.sub = r.change.sub /\ j.snap = m.answer /\ ~Seats(r)
  BY <1>2, <1>3, <1>5, <1>6, AnsweredIs
<1>8. UNCHANGED <<stripe, org, cache, roll, processed, inputs, high>> BY <1>4 DEF PostRecalled
<1>9. calm' \in BOOLEAN /\ inputs' \in 0..MaxInputs /\ (calm' => calm)
  BY <1>4, <1>8 DEF BillingInv, BillingTypes, HistoryTypes
<1>10. Knows(j)' BY <1>7, <1>8, <1>9, KnowsSame DEF stripe
<1>11. ASSUME calm', j.pc = "apply" PROVE Applies(j)
  <2>1. calm /\ m.answer = subs[r.change.sub] BY <1>4, <1>7, <1>11
  <2>2. r.change.sub \in SubIds BY <1>2, <1>3 DEF Knows
  <2>3. r.change.sub \in Live BY <1>5, <2>1, <2>2 DEF Live
  <2>4. r.change.sub = Len(subs) BY <2>1, <2>3 DEF BillingInv, Orderly
  <2> QED BY <1>7, <1>11, <2>1, <2>4 DEF Applies
<1>12. job' = [job EXCEPT ![s] = j] BY <1>4, <1>6
<1>13. cache' \in {None} \cup CacheRow BY <1>8 DEF BillingInv, BillingTypes, OrgTypes
<1> QED BY <1>1, <1>2, <1>7, <1>8, <1>9, <1>10, <1>11, <1>12, <1>13, TailRuns

\* A handler that gives its seats up, or its change.
LEMMA EndsEarly ==
  ASSUME BillingInv, NEW s \in Slots, job[s].pc \in PastCache, job' = [job EXCEPT ![s] = Ended(job[s].on)],
         UNCHANGED <<stripe, org, cache, roll, processed, high, calm>>, inputs' \in 0..MaxInputs
  PROVE  BillingInv'
<1>1. PICK r : r = job[s] OBVIOUS
<1>2. PICK j : j = Ended(r.on) OBVIOUS
<1>3. Knows(r) /\ r.pc # "idle" BY <1>1, Resumes DEF PastCache
<1>4. Knows(j) /\ j.pc \notin {"org", "apply"} /\ (j.pc # "idle" => j.on = r.on) BY <1>2, <1>3, EndedIs
<1>5. Knows(j)' BY <1>4, KnowsSame DEF stripe
<1>6. calm' \in BOOLEAN BY DEF BillingInv, BillingTypes, HistoryTypes
<1>7. cache' \in {None} \cup CacheRow BY DEF BillingInv, BillingTypes, OrgTypes
<1> QED BY <1>1, <1>2, <1>4, <1>5, <1>6, <1>7, TailRuns

LEMMA PostRefusedStays == ASSUME BillingInv, NEW s \in Slots, PostRefused(s) PROVE BillingInv'
<1>1. job[s].pc \in PastCache BY DEF PostRefused, At, PastCache
<1>2. inputs' \in 0..MaxInputs BY DEF PostRefused, BillingInv, BillingTypes, HistoryTypes
<1>3. job' = [job EXCEPT ![s] = Ended(job[s].on)] /\ UNCHANGED <<stripe, org, cache, roll, processed, high, calm>>
  BY DEF PostRefused, Goto
<1> QED BY <1>1, <1>2, <1>3, EndsEarly

\* One act more.
LEMMA InputIs == ASSUME BillingInv, NEW op, Input(op) PROVE inputs' \in 0..MaxInputs
BY LimitsAssumption DEF Input, BillingInv, BillingTypes, HistoryTypes

LEMMA FailSeatsStays == ASSUME BillingInv, NEW s \in Slots, FailSeats(s) PROVE BillingInv'
<1>1. job[s].pc \in PastCache BY DEF FailSeats, At, PastCache
<1>2. inputs' \in 0..MaxInputs BY InputIs DEF FailSeats
<1>3. job' = [job EXCEPT ![s] = Ended(job[s].on)] /\ UNCHANGED <<stripe, org, cache, roll, processed, high, calm>>
  BY DEF FailSeats, Goto
<1> QED BY <1>1, <1>2, <1>3, EndsEarly

LEMMA InsertMemberStays == ASSUME BillingInv, NEW s \in Slots, InsertMember(s) PROVE BillingInv'
<1>1. PICK r : r = job[s] OBVIOUS
<1>2. r.pc = "insert" /\ r.pc # "idle" BY <1>1 DEF InsertMember, At
<1>3. /\ Knows(r) /\ (calm => \A t \in Slots : t # s => job[t].pc = "idle")
      /\ calm /\ high = emitted => /\ Told(PastOrg) => Truth(org)
                                   /\ Told(PastCache) => (org.plan = "free" <=> cache = None)
  BY <1>1, <1>2, Resumes
<1>4. r.on.op \in {"invite", "sso", "agent"} BY <1>2, <1>3 DEF Knows
<1>5. PICK j : job' = [job EXCEPT ![s] = j] /\ j \in {Idle, [pc |-> "seats", on |-> r.on]}
  BY <1>1 DEF InsertMember, Goto
<1>6. UNCHANGED <<stripe, org, cache, processed, inputs, high, calm>> BY DEF InsertMember
<1>7. ~OnEvent(r.on) BY <1>4 DEF OnEvent, EventTypes
<1>8. Knows(j) /\ j.pc \in {"idle", "seats"} /\ (j.pc = "seats" => j.on = r.on)
  BY <1>4, <1>5, <1>7 DEF Knows, Steps, Idle
<1>9. Knows(j)' BY <1>6, <1>8, KnowsSame DEF stripe
<1>10. OrgTypes'
  <2>1. roll \in [humans : Nat \ {0}, agents : Nat] BY DEF BillingInv, BillingTypes, OrgTypes
  <2>2. roll' = [roll EXCEPT !.agents = @ + 1] \/ roll' = [roll EXCEPT !.humans = @ + 1] BY DEF InsertMember
  <2>3. roll' \in [humans : Nat \ {0}, agents : Nat] BY <2>1, <2>2
  <2> QED BY <1>6, <2>3 DEF stripe, SubIds, BillingInv, BillingTypes, OrgTypes
<1>11. ASSUME calm', high = emitted
       PROVE  /\ Told(PastOrg) \/ (j.pc \in PastOrg /\ Fresh(j)) => Truth(org')
              /\ Told(PastCache) \/ (j.pc \in PastCache /\ Fresh(j)) => (org'.plan = "free" <=> cache' = None)
              /\ Keeps(j)
  <2>1. ~(j.pc \in PastOrg /\ Fresh(j)) /\ ~(j.pc \in PastCache /\ Fresh(j))
    BY <1>7, <1>8 DEF Fresh, OnEvent, PastOrg, PastCache
  <2>2. Keeps(j) BY <1>8 DEF Keeps
  <2> QED BY <1>3, <1>6, <1>11, <2>1, <2>2
<1>12. calm' \in BOOLEAN /\ inputs' \in 0..MaxInputs BY <1>6 DEF BillingInv, BillingTypes, HistoryTypes
<1>13. calm' => calm /\ \A t \in Slots : t # s => job[t].pc = "idle" BY <1>3, <1>6
<1> QED BY <1>5, <1>6, <1>9, <1>10, <1>11, <1>12, <1>13, JobRuns

-----------------------------------------------------------------------------
\* The webhook.

\* What a completed checkout applies: the subscription read, or the plan it was sold as.
LEMMA CompletedIs ==
  ASSUME BillingInv, NEW r, Knows(r), r.pc # "idle", r.on.op = "completed",
         NEW j, j \in {Applying(r.on, r.on.sub, subs[r.on.sub], None), Granted(r.on)}
  PROVE  /\ Knows(j) /\ j.pc = "apply" /\ j.on = r.on
         /\ calm /\ high = emitted => Applies(j)
<1>1. OnEvent(r.on) BY DEF OnEvent, EventTypes
<1>2. Tells(r.on) /\ r.on.seq <= high /\ (calm => r.on.seq = high) BY <1>1 DEF Knows
<1>3. r.on.sub \in SubIds /\ r.on.plan \in PaidPlans BY <1>2 DEF Tells
<1>4. calm /\ high = emitted =>
        r.on.sub = Len(subs) /\ subs[r.on.sub].status = "active" /\ r.on.plan = PlanAt(r.on.sub)
  BY <1>2 DEF Tells
<1>5. subs[r.on.sub] \in Sub BY <1>3 DEF BillingInv, BillingTypes, StripeTypes, SubIds
<1>6. CASE j = Applying(r.on, r.on.sub, subs[r.on.sub], None)
  <2>1. j = [pc |-> "apply", on |-> r.on, sub |-> r.on.sub, snap |-> subs[r.on.sub], forced |-> None]
    BY <1>6 DEF Applying
  <2>2. Knows(j) BY <1>1, <1>2, <1>3, <1>5, <2>1 DEF Knows, Steps, OnEvent
  <2>3. calm /\ high = emitted => Applies(j) BY <1>4, <2>1 DEF Applies
  <2> QED BY <2>1, <2>2, <2>3
<1>7. CASE j = Granted(r.on)
  <2>1. PICK snap : snap = [status |-> "active", bases |-> <<>>, seat |-> NoItem, qty |-> 0] OBVIOUS
  <2>2. snap \in Sub
    <3>1. <<>> \in Seq([id : Nat, plan : PaidPlans]) OBVIOUS
    <3> QED BY <2>1, <3>1 DEF Sub, NoItem
  <2>3. j = [pc |-> "apply", on |-> r.on, sub |-> r.on.sub, snap |-> snap, forced |-> r.on.plan]
    BY <1>7, <2>1 DEF Applying, Granted
  <2>4. r.on.plan \in Plans BY <1>3 DEF Plans
  <2>5. Knows(j) BY <1>1, <1>2, <1>3, <2>2, <2>3, <2>4 DEF Knows, Steps, OnEvent
  <2>6. calm /\ high = emitted => Applies(j) BY <1>3, <1>4, <2>3 DEF Applies, Live
  <2> QED BY <2>3, <2>5, <2>6
<1> QED BY <1>6, <1>7

LEMMA FetchSubscriptionStays == ASSUME BillingInv, NEW s \in Slots, FetchSubscription(s) PROVE BillingInv'
<1>1. PICK r : r = job[s] OBVIOUS
<1>2. r.pc = "fetch" /\ r.pc # "idle" BY <1>1 DEF FetchSubscription, At
<1>3. /\ Knows(r) /\ (calm => \A t \in Slots : t # s => job[t].pc = "idle")
      /\ calm /\ high = emitted => /\ Told(PastOrg) => Truth(org)
                                   /\ Told(PastCache) => (org.plan = "free" <=> cache = None)
  BY <1>1, <1>2, Resumes
<1>4. r.on.op = "completed" BY <1>2, <1>3 DEF Knows
<1>5. PICK j : job' = [job EXCEPT ![s] = j] /\ j \in {Applying(r.on, r.on.sub, subs[r.on.sub], None), Granted(r.on)}
  BY <1>1 DEF FetchSubscription, Goto
<1>6. UNCHANGED <<stripe, org, cache, roll, processed, inputs, high, calm>> BY DEF FetchSubscription, history
<1>7. Knows(j) /\ j.pc = "apply" /\ (calm /\ high = emitted => Applies(j)) BY <1>2, <1>3, <1>4, <1>5, CompletedIs
<1>8. Knows(j)' BY <1>6, <1>7, KnowsSame DEF stripe
<1>9. OrgTypes' BY <1>6 DEF stripe, SubIds, BillingInv, BillingTypes, OrgTypes
<1>10. ASSUME calm', high = emitted
       PROVE  /\ Told(PastOrg) \/ (j.pc \in PastOrg /\ Fresh(j)) => Truth(org')
              /\ Told(PastCache) \/ (j.pc \in PastCache /\ Fresh(j)) => (org'.plan = "free" <=> cache' = None)
              /\ Keeps(j)
  <2>1. j.pc \notin PastOrg /\ j.pc \notin PastCache BY <1>7 DEF PastOrg, PastCache
  <2>2. Keeps(j) BY <1>6, <1>7, <1>10 DEF Keeps
  <2> QED BY <1>3, <1>6, <1>10, <2>1, <2>2
<1>11. calm' \in BOOLEAN /\ inputs' \in 0..MaxInputs BY <1>6 DEF BillingInv, BillingTypes, HistoryTypes
<1>12. calm' => calm /\ \A t \in Slots : t # s => job[t].pc = "idle" BY <1>3, <1>6
<1> QED BY <1>5, <1>6, <1>8, <1>9, <1>10, <1>11, <1>12, JobRuns

LEMMA FailApplyingStays == ASSUME BillingInv, NEW s \in Slots, FailApplying(s) PROVE BillingInv'
<1>1. PICK r : r = job[s] OBVIOUS
<1>2. r.pc # "idle" BY <1>1 DEF FailApplying, At
<1>3. /\ Knows(r) /\ (calm => \A t \in Slots : t # s => job[t].pc = "idle")
      /\ calm /\ high = emitted => /\ Told(PastOrg) => Truth(org)
                                   /\ Told(PastCache) => (org.plan = "free" <=> cache = None)
  BY <1>1, <1>2, Resumes
<1>4. PICK retried : retried = (r.on.op = "completed" /\ r.snap.bases # <<>>) OBVIOUS
<1>5. PICK j : j = IF retried THEN Granted(r.on) ELSE Idle OBVIOUS
<1>6. /\ job' = [job EXCEPT ![s] = j] /\ calm' = (calm /\ retried)
      /\ events' = IF r.on.op \in EventTypes /\ ~retried THEN events \ {r.on} ELSE events
  BY <1>1, <1>4, <1>5 DEF FailApplying, Goto
<1>7. UNCHANGED <<sessions, subs, emitted, minted, memory, org, cache, roll, processed, high>> BY DEF FailApplying
<1>8. inputs' \in 0..MaxInputs BY InputIs DEF FailApplying
<1>9. calm' \in BOOLEAN /\ (calm' => calm /\ retried /\ events' = events) BY <1>4, <1>6 DEF BillingInv, BillingTypes, HistoryTypes
<1>10. Knows(j) /\ (retried => j.pc = "apply" /\ (calm /\ high = emitted => Applies(j)))
  <2>1. CASE retried
    <3>1. j = Granted(r.on) /\ r.on.op = "completed" BY <1>4, <1>5, <2>1
    <3> QED BY <1>2, <1>3, <3>1, CompletedIs
  <2>2. CASE ~retried
    <3>1. j = Idle BY <1>5, <2>2
    <3> QED BY <2>2, <3>1 DEF Knows, Idle
  <2> QED BY <2>1, <2>2
<1>11. Knows(j)' BY <1>7, <1>9, <1>10, KnowsSame
<1>12. SubIds' = SubIds /\ OrgTypes' BY <1>7 DEF SubIds, BillingInv, BillingTypes, OrgTypes
<1>13. HistoryTypes' BY <1>7, <1>8, <1>9 DEF BillingInv, BillingTypes, HistoryTypes
<1>14. JobTypes /\ events' \subseteq events /\ high' >= high
  BY <1>6, <1>7 DEF BillingInv, BillingTypes, HistoryTypes, StripeTypes
<1>15. calm' => \A n \in (high' + 1)..emitted : \E e \in events' : e.seq = n BY <1>7, <1>9 DEF BillingInv, Orderly
<1>16. ASSUME calm', high' = emitted
       PROVE  /\ Told(PastOrg)' => Truth(org')
              /\ Told(PastCache)' => (org'.plan = "free" <=> cache' = None)
              /\ Keeps(j)'
  <2>1. calm /\ retried /\ events' = events /\ high = emitted /\ emitted' = emitted /\ org' = org /\ cache' = cache
    BY <1>7, <1>9, <1>16
  <2>2. j.pc = "apply" /\ Applies(j) /\ j.pc \notin PastOrg /\ j.pc \notin PastCache BY <1>10, <2>1 DEF PastOrg, PastCache
  <2>3. (Told(PastOrg)' => Told(PastOrg)) /\ (Told(PastCache)' => Told(PastCache))
    BY <1>6, <1>7, <1>14, <2>1, <2>2, ToldMoves
  <2>4. Applies(j)' BY <1>7, <1>12, <2>2 DEF Applies, Live, PlanAt
  <2>5. Keeps(j)' BY <2>2, <2>4 DEF Keeps
  <2> QED BY <1>3, <2>1, <2>3, <2>5
<1>17. calm' => \A t \in Slots : t # s => job[t].pc = "idle" BY <1>3, <1>9
<1> QED BY <1>6, <1>7, <1>9, <1>11, <1>12, <1>13, <1>14, <1>15, <1>16, <1>17, JobMoves

\* A later event leaves fewer to come, and those remembered behind it.
LEMMA LaterIs ==
  ASSUME NEW a \in Nat, NEW b \in Nat, a <= b, NEW c \in Nat
  PROVE  /\ \A n \in (b + 1)..c : n \in (a + 1)..c
         /\ \A seq \in Seq(1..a) : seq \in Seq(1..b)
<1>1. \A n \in (b + 1)..c : n \in (a + 1)..c OBVIOUS
<1>2. ASSUME NEW seq \in Seq(1..a) PROVE seq \in Seq(1..b)
  <2>1. seq \in [1..Len(seq) -> 1..a] /\ Len(seq) \in Nat OBVIOUS
  <2>2. \A i \in 1..Len(seq) : seq[i] \in 1..b BY <2>1
  <2>3. seq \in [1..Len(seq) -> 1..b] BY <2>1, <2>2
  <2> QED BY <2>1, <2>3
<1> QED BY <1>1, <1>2

LEMMA DeliverStays == ASSUME BillingInv, NEW s \in Slots, NEW e \in events, Deliver(s, e) PROVE BillingInv'
<1>1. Tells(e) BY DEF BillingInv, BillingTypes, StripeTypes
<1>2. /\ emitted \in Nat /\ high \in 0..emitted /\ calm \in BOOLEAN /\ e.seq \in 1..emitted /\ JobTypes
  BY <1>1 DEF BillingInv, BillingTypes, StripeTypes, HistoryTypes, Tells
<1>3. PICK j : j = IF e.op = "completed" THEN [pc |-> "fetch", on |-> e]
                   ELSE Applying(e, e.sub, e.snap, IF e.op = "deleted" THEN "free" ELSE None)
  OBVIOUS
<1>4. job' = [job EXCEPT ![s] = j] BY <1>3 DEF Deliver, Goto
<1>5. UNCHANGED <<sessions, subs, events, emitted, minted, memory, org, cache, roll, processed, inputs>>
  BY DEF Deliver, stripe
<1>6. /\ calm' \in BOOLEAN /\ (calm' => calm /\ e.seq >= high /\ \A t \in Slots : job[t].pc = "idle")
      /\ high' = IF e.seq > high THEN e.seq ELSE high
  BY <1>2 DEF Deliver, Quiet, At
<1>7. high' >= high /\ high' \in 0..emitted /\ e.seq <= high' /\ (calm' => e.seq = high') BY <1>2, <1>6
<1>8. HistoryTypes'
  <2>1. processed \in Seq(1..high) /\ Len(processed) <= ProcessedLimit /\ inputs \in 0..MaxInputs
    BY DEF BillingInv, BillingTypes, HistoryTypes
  <2>3. processed \in Seq(1..high') BY <1>2, <1>7, <2>1, LaterIs
  <2> QED BY <1>5, <1>6, <1>7, <2>1, <2>3 DEF HistoryTypes
<1>9. SubIds' = SubIds /\ OrgTypes' BY <1>5 DEF SubIds, BillingInv, BillingTypes, OrgTypes
<1>10. Tells(e)' BY <1>1, <1>5, <1>6, TellsStays
<1>11. /\ e.op \in EventTypes /\ e.sub \in SubIds
       /\ e.op # "completed" => e.snap \in Sub
  BY <1>1 DEF Tells
<1>12. Knows(j)'
  <2>1. CASE e.op = "completed"
    <3>1. j = [pc |-> "fetch", on |-> e] BY <1>3, <2>1
    <3> QED BY <1>7, <1>10, <1>11, <2>1, <3>1 DEF Knows, Steps, OnEvent
  <2>2. CASE e.op # "completed"
    <3>1. PICK forced : forced = IF e.op = "deleted" THEN "free" ELSE None OBVIOUS
    <3>2. j = [pc |-> "apply", on |-> e, sub |-> e.sub, snap |-> e.snap, forced |-> forced]
      BY <1>3, <2>2, <3>1 DEF Applying
    <3>3. forced \in Plans \cup {None} /\ e.sub \in SubIds' BY <1>9, <1>11, <3>1 DEF Plans
    <3> QED BY <1>7, <1>10, <1>11, <2>2, <3>2, <3>3 DEF Knows, Steps, OnEvent
  <2> QED BY <2>1, <2>2
<1>13. calm' => \A n \in (high' + 1)..emitted : \E f \in events' : f.seq = n
  <2>0. PICK a \in Nat, b \in Nat, c \in Nat : a = high /\ b = high' /\ c = emitted /\ a <= b BY <1>2, <1>7
  <2>1. \A n \in (b + 1)..c : n \in (a + 1)..c
    <3>1. a <= b BY <2>0
    <3> QED BY <3>1, LaterIs
  <2> QED BY <1>5, <1>6, <2>0, <2>1 DEF BillingInv, Orderly
<1>14. ASSUME calm', high' = emitted
       PROVE  ~Told(PastOrg)' /\ ~Told(PastCache)' /\ Keeps(j)'
  <2>1. e.seq = emitted /\ e \in events /\ ~WasProcessed(emitted) /\ calm BY <1>6, <1>7, <1>14 DEF Deliver
  <2>2. ~WasProcessed(emitted)' BY <1>5, <2>1 DEF WasProcessed
  <2>3. j.pc \in {"fetch", "apply"} BY <1>3 DEF Applying
  <2>4. \A t \in Slots : job'[t].pc \notin PastOrg /\ job'[t].pc \notin PastCache
    <3>1. SUFFICES ASSUME NEW t \in Slots PROVE job'[t].pc \in {"fetch", "apply", "idle"} BY DEF PastOrg, PastCache
    <3> QED BY <1>2, <1>4, <1>6, <1>14, <2>3 DEF JobTypes
  <2>5. ~Told(PastOrg)' /\ ~Told(PastCache)' BY <1>5, <2>1, <2>2, <2>4 DEF Told
  <2>6. ASSUME j.pc = "apply" PROVE Applies(j)
    <3>1. e.op # "completed" BY <1>3, <2>6
    <3>2. j = [pc |-> "apply", on |-> e, sub |-> e.sub, snap |-> e.snap, forced |-> IF e.op = "deleted" THEN "free" ELSE None]
      BY <1>3, <3>1 DEF Applying
    <3>3. /\ e.sub = Len(subs) /\ e.op # "created"
          /\ e.op = "updated" => e.snap = subs[e.sub]
          /\ e.op = "deleted" => subs[e.sub].status = "canceled"
      BY <1>1, <2>1 DEF Tells
    <3>4. e.op \in {"updated", "deleted"} BY <1>11, <3>1, <3>3 DEF EventTypes
    <3>5. CASE e.op = "updated" BY <3>2, <3>3, <3>5 DEF Applies
    <3>6. CASE e.op = "deleted"
      <4>1. Live \subseteq {Len(subs)} BY <2>1 DEF BillingInv, Orderly
      <4>2. Live = {} BY <3>3, <3>6, <4>1 DEF Live
      <4> QED BY <3>2, <3>6, <4>2 DEF Applies
    <3> QED BY <3>4, <3>5, <3>6
  <2>7. Applies(j) => Applies(j)' BY <1>5, <1>9 DEF Applies, Live, PlanAt
  <2>8. Keeps(j)' BY <2>3, <2>6, <2>7 DEF Keeps
  <2> QED BY <2>5, <2>8
<1>15. calm' => calm /\ \A t \in Slots : t # s => job[t].pc = "idle" BY <1>6
<1>16. UNCHANGED <<sessions, subs, emitted, minted, memory>> /\ events' \subseteq events BY <1>5
<1> QED BY <1>4, <1>7, <1>8, <1>9, <1>12, <1>13, <1>14, <1>15, <1>16, JobMoves

LEMMA DuplicateStays == ASSUME BillingInv, NEW s \in Slots, NEW e \in events, Duplicate(s, e) PROVE BillingInv'
<1>1. UNCHANGED <<sessions, subs, emitted, minted, memory, org, cache, roll, processed, job, inputs, high, calm>>
  BY DEF Duplicate, app, history
<1>2. events' \subseteq events /\ events \subseteq events' \cup {e} BY DEF Duplicate, Answer
<1>3. WasProcessed(e.seq) /\ processed \in Seq(1..high) /\ high \in Nat
  BY DEF Duplicate, BillingInv, BillingTypes, HistoryTypes, StripeTypes
<1>4. e.seq \in 1..high BY <1>3 DEF WasProcessed
<1>5. StripeTypes'
  <2>1. \A f : Tells(f) => Tells(f)' BY <1>1, TellsStays
  <2>2. SubIds' = SubIds BY <1>1 DEF SubIds
  <2> QED BY <1>1, <1>2, <2>1, <2>2 DEF BillingInv, BillingTypes, StripeTypes
<1>6. HistoryTypes' BY <1>1 DEF BillingInv, BillingTypes, HistoryTypes
<1>7. calm' => \A n \in (high + 1)..emitted : \E f \in events' : f.seq = n
  <2>1. SUFFICES ASSUME calm, NEW n \in (high + 1)..emitted PROVE \E f \in events' : f.seq = n BY <1>1
  <2>2. PICK f \in events : f.seq = n BY <2>1 DEF BillingInv, Orderly
  <2>3. emitted \in Nat BY DEF BillingInv, BillingTypes, StripeTypes
  <2>4. n # e.seq BY <1>3, <1>4, <2>3
  <2>5. f \in events' BY <1>2, <2>2, <2>4
  <2> QED BY <2>2, <2>5
<1>8. ASSUME NEW past, Told(past)' PROVE Told(past)
  <2>1. CASE \A f \in events' : f.seq # emitted
    <3>1. CASE e.seq = emitted BY <1>3, <3>1 DEF Told
    <3>2. CASE e.seq # emitted BY <1>2, <2>1, <3>2 DEF Told
    <3> QED BY <3>1, <3>2
  <2>2. CASE ~\A f \in events' : f.seq # emitted BY <1>1, <1>8, <2>2 DEF Told, WasProcessed, Fresh
  <2> QED BY <2>1, <2>2
<1> QED BY <1>1, <1>5, <1>6, <1>7, <1>8, NothingMoves

LEMMA MarkProcessedStays == ASSUME BillingInv, NEW s \in Slots, MarkProcessed(s) PROVE BillingInv'
<1>1. PICK r : r = job[s] OBVIOUS
<1>2. r.pc = "mark" /\ r.pc \in PastCache /\ r.pc # "idle" BY <1>1 DEF MarkProcessed, At, PastCache
<1>3. /\ Knows(r) /\ (calm => \A t \in Slots : t # s => job[t].pc = "idle")
      /\ calm /\ high = emitted /\ OnEvent(r.on) => Fresh(r)
      /\ calm /\ high = emitted => /\ Told(PastOrg) => Truth(org)
                                   /\ Told(PastCache) => (org.plan = "free" <=> cache = None)
                                   /\ Told(PastCache) => Told(PastOrg)
      /\ Fresh(r) => Told(PastCache)
  BY <1>1, <1>2, Resumes
<1>4. OnEvent(r.on) /\ Tells(r.on) /\ r.on.seq <= high BY <1>2, <1>3 DEF Knows
<1>5. /\ emitted \in Nat /\ high \in 0..emitted /\ calm \in BOOLEAN /\ inputs \in 0..MaxInputs
      /\ processed \in Seq(1..high) /\ Len(processed) <= ProcessedLimit
  BY DEF BillingInv, BillingTypes, StripeTypes, HistoryTypes
<1>6. r.on.seq \in 1..high
  <2>1. r.on.seq \in 1..emitted BY <1>4 DEF Tells
  <2> QED BY <1>4, <1>5, <2>1
<1>7. UNCHANGED <<sessions, subs, emitted, minted, memory, org, cache, roll, inputs, high, calm, owed>>
  BY DEF MarkProcessed, history
<1>8. /\ job' = [job EXCEPT ![s] = Idle]
      /\ processed' = IF WasProcessed(r.on.seq) THEN processed ELSE Remember(r.on.seq)
      /\ events' \subseteq events /\ events \subseteq events' \cup {r.on}
  BY <1>1 DEF MarkProcessed, Goto, Answer
<1>9. HistoryTypes'
  <2>1. PICK h : h = high OBVIOUS
  <2>2. h \in Nat /\ processed \in Seq(1..h) /\ r.on.seq \in 1..h BY <1>5, <1>6, <2>1
  <2>3. Remember(r.on.seq) \in Seq(1..h) /\ Len(Remember(r.on.seq)) <= ProcessedLimit BY <1>5, <2>2, RememberIs
  <2>4. processed' \in Seq(1..h) /\ Len(processed') <= ProcessedLimit BY <1>5, <1>8, <2>2, <2>3
  <2> QED BY <1>5, <1>7, <2>1, <2>4 DEF HistoryTypes
<1>10. SubIds' = SubIds /\ OrgTypes' BY <1>7 DEF SubIds, BillingInv, BillingTypes, OrgTypes
<1>11. Knows(Idle)' BY DEF Knows, Idle
<1>12. calm' => \A n \in (high' + 1)..emitted : \E e \in events' : e.seq = n
  <2>1. SUFFICES ASSUME calm, NEW n \in (high + 1)..emitted PROVE \E e \in events' : e.seq = n BY <1>7
  <2>2. PICK e \in events : e.seq = n BY <2>1 DEF BillingInv, Orderly
  <2>3. n # r.on.seq
    <3>1. n > high BY <1>5
    <3> QED BY <1>5, <1>6, <3>1
  <2>4. e \in events' BY <1>8, <2>2, <2>3
  <2> QED BY <2>2, <2>4
<1>13. ASSUME calm', high' = emitted
       PROVE  /\ Told(PastOrg)' => Truth(org')
              /\ Told(PastCache)' => (org'.plan = "free" <=> cache' = None)
              /\ Keeps(Idle)'
  <2>1. calm /\ high = emitted /\ org' = org /\ cache' = cache BY <1>7, <1>13
  <2>2. Truth(org) /\ (org.plan = "free" <=> cache = None) BY <1>3, <1>4, <2>1
  <2>3. Keeps(Idle)' BY DEF Keeps, Idle
  <2> QED BY <2>1, <2>2, <2>3
<1>14. calm' => calm /\ \A t \in Slots : t # s => job[t].pc = "idle" BY <1>3, <1>7
<1>15. high' >= high BY <1>5, <1>7
<1> QED BY <1>7, <1>8, <1>9, <1>10, <1>11, <1>12, <1>13, <1>14, <1>15, JobMoves

\* A restart: nobody handles anything, and nothing is remembered.
LEMMA CrashStays == ASSUME BillingInv, Crash PROVE BillingInv'
<1>1. UNCHANGED <<stripe, org, cache, roll, high, calm>> /\ processed' = <<>> /\ job' = [s \in Slots |-> Idle]
  BY DEF Crash
<1>2. inputs' \in 0..MaxInputs BY InputIs DEF Crash
<1>3. UNCHANGED <<sessions, subs, events, emitted, minted, memory>> BY <1>1 DEF stripe
<1>4. SubIds' = SubIds /\ Live' = Live BY <1>3 DEF Live, SubIds
<1>5. StripeTypes'
  <2>1. \A e : Tells(e) => Tells(e)' BY <1>1, <1>3, TellsStays
  <2> QED BY <1>3, <1>4, <2>1 DEF BillingInv, BillingTypes, StripeTypes
<1>6. OrgTypes' BY <1>1, <1>4 DEF BillingInv, BillingTypes, OrgTypes
<1>7. HistoryTypes'
  <2>1. processed' \in Seq(1..high) /\ Len(processed') = 0 BY <1>1
  <2>2. 0 <= ProcessedLimit BY LimitsAssumption
  <2> QED BY <1>1, <1>2, <1>3, <2>1, <2>2 DEF BillingInv, BillingTypes, HistoryTypes
<1>8. JobTypes'
  <2>1. Knows(Idle)' BY DEF Knows, Idle
  <2>2. ASSUME NEW t \in Slots PROVE Knows(job[t])'
    <3>1. job'[t] = Idle BY <1>1
    <3> QED BY <2>1, <3>1
  <2> QED BY <1>1, <2>2 DEF JobTypes
<1>9. \A t \in Slots : job'[t].pc = "idle" BY <1>1 DEF Idle
<1>10. Orderly' BY <1>1, <1>3, <1>4, <1>9 DEF BillingInv, Orderly, At
<1>11. Agrees'
  <2>1. \A t \in Slots : Keeps(job[t])' BY <1>9 DEF Keeps
  <2>2. ~WasProcessed(emitted)' BY <1>1 DEF WasProcessed
  <2>3. (Told(PastOrg)' => Told(PastOrg)) /\ (Told(PastCache)' => Told(PastCache))
    BY <1>3, <1>9, <2>2 DEF Told, PastOrg, PastCache
  <2>4. Truth(org)' <=> Truth(org) BY <1>1, <1>3, <1>4 DEF Truth, PlanAt
  <2> QED BY <1>1, <1>3, <2>1, <2>3, <2>4 DEF BillingInv, Agrees
<1> QED BY <1>5, <1>6, <1>7, <1>8, <1>10, <1>11 DEF BillingInv, BillingTypes

-----------------------------------------------------------------------------
\* Stripe and its customer.

LEMMA CheckoutStays == ASSUME BillingInv, NEW plan \in PaidPlans, Checkout(plan) PROVE BillingInv'
<1>1. UNCHANGED <<subs, events, emitted, minted, memory, org, cache, roll, processed, job, inputs, high, calm>>
      /\ sessions' = sessions \cup {[plan |-> plan, qty |-> SeatOverage(plan, roll.humans)]}
  BY DEF Checkout, app, history
<1>2. SeatOverage(plan, roll.humans) \in Nat BY OverageIs DEF BillingInv, BillingTypes, OrgTypes
<1>3. sessions' \subseteq Session BY <1>1, <1>2 DEF Session, BillingInv, BillingTypes, StripeTypes
<1>4. StripeTypes'
  <2>1. \A e : Tells(e) => Tells(e)' BY <1>1, TellsStays
  <2> QED BY <1>1, <1>3, <2>1 DEF BillingInv, BillingTypes, StripeTypes, SubIds
<1>5. HistoryTypes' BY <1>1 DEF BillingInv, BillingTypes, HistoryTypes
<1>6. Told(PastOrg)' => Told(PastOrg) BY <1>1 DEF Told, WasProcessed, Fresh, OnEvent
<1>7. Told(PastCache)' => Told(PastCache) BY <1>1 DEF Told, WasProcessed, Fresh, OnEvent
<1>8. calm' => \A n \in (high + 1)..emitted : \E e \in events' : e.seq = n BY <1>1 DEF BillingInv, Orderly
<1> QED BY <1>1, <1>4, <1>5, <1>6, <1>7, <1>8, NothingMoves

\* After an event the organization has still to hear of it.
LEMMA Announced ==
  ASSUME BillingInv, UNCHANGED <<org, cache, roll, high, processed>>, calm' \in BOOLEAN, inputs' \in 0..MaxInputs,
         calm' => calm, StripeTypes', emitted' > emitted, SubIds \subseteq SubIds', JobTypes', Orderly'
  PROVE  BillingInv'
<1>1. OrgTypes'
  <2>1. org' \in [plan : Plans, sub : SubIds' \cup {NoSub}] BY DEF BillingInv, BillingTypes, OrgTypes
  <2> QED BY <2>1 DEF BillingInv, BillingTypes, OrgTypes
<1>2. emitted \in Nat /\ emitted' \in Nat /\ high \in 0..emitted BY DEF BillingInv, BillingTypes, StripeTypes, HistoryTypes
<1>3. HistoryTypes' BY <1>2 DEF BillingInv, BillingTypes, HistoryTypes
<1>4. high' # emitted' BY <1>2
<1>5. Agrees' BY <1>4 DEF Agrees
<1> QED BY <1>1, <1>3, <1>5 DEF BillingInv, BillingTypes

LEMMA CancelStays ==
  ASSUME BillingInv, NEW t \in SubIds, Cancel(t), Input("cancel"), calm' = (calm /\ Cardinality(Live') <= 1),
         UNCHANGED <<app, high, owed>>
  PROVE  BillingInv'
<1>1. /\ UNCHANGED <<sessions, minted, memory, org, cache, roll, processed, job, high>>
      /\ t \in Live /\ subs' = [subs EXCEPT ![t].status = "canceled"] /\ emitted' = emitted + 1
      /\ events' = events \cup {Event("deleted", emitted + 1, t, subs'[t], None)}
  BY DEF Cancel, app
<1>2. inputs' \in 0..MaxInputs /\ calm' \in BOOLEAN /\ (calm' => calm)
  <2>1. inputs' \in 0..MaxInputs BY InputIs
  <2> QED BY <2>1 DEF BillingInv, BillingTypes, HistoryTypes
<1>3. StripeTypes /\ emitted \in Nat /\ high \in 0..emitted /\ calm \in BOOLEAN
  BY DEF BillingInv, BillingTypes, StripeTypes, HistoryTypes
<1>4. PICK old : old = subs[t] OBVIOUS
<1>5. PICK sub : sub = [old EXCEPT !.status = "canceled"] OBVIOUS
<1>6. old \in Sub /\ old.bases # <<>> BY <1>3, <1>4 DEF StripeTypes, SubIds
<1>7. sub \in Sub /\ sub.status = "canceled" /\ sub.bases # <<>> BY <1>5, <1>6 DEF Sub
<1>8. subs' = [subs EXCEPT ![t] = sub] BY <1>1, <1>4, <1>5
<1>9. /\ subs' \in Seq(Sub) /\ Len(subs') = Len(subs) /\ SubIds' = SubIds
      /\ \A u \in SubIds : subs'[u] = IF u = t THEN sub ELSE subs[u]
  BY <1>3, <1>7, <1>8 DEF StripeTypes, SubIds
<1>10. Live' = Live \ {t} BY <1>7, <1>9 DEF Live
<1>11. \A e : Tells(e) => Tells(e)'
  <2>1. emitted' \in Nat /\ emitted' > emitted BY <1>1, <1>3
  <2> QED BY <1>3, <1>9, <2>1, TellsAges
<1>12. PICK e : e = Event("deleted", emitted + 1, t, sub, None) OBVIOUS
<1>13. e.op = "deleted" /\ e.seq = emitted + 1 /\ e.sub = t /\ e.snap = sub BY <1>12 DEF Event
<1>14. events' = events \cup {e} BY <1>1, <1>9, <1>12
<1>15. Tells(e)'
  <2>1. calm' => t = Len(subs') BY <1>1, <1>2, <1>9 DEF BillingInv, Orderly
  <2>2. e.seq \in 1..emitted' BY <1>1, <1>3, <1>13
  <2>3. subs'[e.sub].status = "canceled" /\ e.sub \in SubIds' BY <1>7, <1>9, <1>13
  <2>4. e.op \in EventTypes /\ e.op \notin {"completed", "updated", "created"} BY <1>13 DEF EventTypes
  <2> QED BY <1>7, <1>13, <2>1, <2>2, <2>3, <2>4 DEF Tells
<1>16. StripeTypes'
  <2>1. \A f \in events' : Tells(f)' BY <1>3, <1>11, <1>14, <1>15 DEF StripeTypes
  <2>2. \A u \in SubIds' : subs'[u].status \in {"active", "canceled"} /\ subs'[u].bases # <<>>
    BY <1>3, <1>7, <1>9 DEF StripeTypes
  <2>3. \A m \in memory' : m.answer \in Sub /\ m.answer.status = "active" /\ m.change.sub \in SubIds'
    BY <1>1, <1>3, <1>9 DEF StripeTypes
  <2>4. emitted' \in Nat /\ minted' \in Nat /\ sessions' \subseteq Session /\ Len(subs') <= MaxSubs
    BY <1>1, <1>3, <1>9 DEF StripeTypes
  <2> QED BY <1>9, <2>1, <2>2, <2>3, <2>4 DEF StripeTypes
<1>17. JobTypes'
  <2>1. job' = [u \in Slots |-> job'[u]] BY <1>1 DEF BillingInv, BillingTypes, JobTypes
  <2>2. high' \in Int /\ high' >= high BY <1>1, <1>3
  <2> QED BY <1>1, <1>2, <1>9, <1>11, <2>1, <2>2, JobsStay
<1>18. Orderly'
  <2>1. calm' => Live' \subseteq {Len(subs')} BY <1>2, <1>9, <1>10 DEF BillingInv, Orderly
  <2>2. ASSUME calm', NEW n \in (high' + 1)..emitted' PROVE \E f \in events' : f.seq = n
    <3>1. n = emitted + 1 \/ n \in (high + 1)..emitted BY <1>1, <1>3
    <3>2. CASE n = emitted + 1 BY <1>13, <1>14, <3>2
    <3>3. CASE n \in (high + 1)..emitted BY <1>2, <1>14, <2>2, <3>3 DEF BillingInv, Orderly
    <3> QED BY <3>1, <3>2, <3>3
  <2>3. calm' => \A u, v \in Slots : ~(job'[u].pc = "idle") /\ ~(job'[v].pc = "idle") => u = v
    BY <1>1, <1>2 DEF BillingInv, Orderly, At
  <2> QED BY <2>1, <2>2, <2>3 DEF Orderly, At
<1>19. emitted' > emitted BY <1>1, <1>3
<1> QED BY <1>1, <1>2, <1>9, <1>16, <1>17, <1>18, <1>19, Announced

LEMMA PayStays ==
  ASSUME BillingInv, NEW session \in sessions, Pay(session), Input("pay"), calm' = (calm /\ Cardinality(Live') <= 1),
         UNCHANGED <<app, high, owed>>
  PROVE  BillingInv'
<1>1. StripeTypes /\ emitted \in Nat /\ minted \in Nat /\ high \in 0..emitted /\ calm \in BOOLEAN
  BY DEF BillingInv, BillingTypes, StripeTypes, HistoryTypes
<1>2. PICK x : x = Len(subs) + 1 OBVIOUS
<1>3. x \in Nat /\ x = Len(subs) + 1 /\ SubIds = 1..Len(subs) /\ Len(subs) \in Nat BY <1>1, <1>2 DEF StripeTypes, SubIds
<1>4. session.plan \in PaidPlans /\ session.qty \in Nat BY <1>1 DEF StripeTypes, Session
<1>5. PICK base : base = [id |-> minted + 1, plan |-> session.plan] OBVIOUS
<1>6. PICK paid : paid = [status |-> "active", bases |-> <<base>>,
                          seat |-> IF session.qty > 0 THEN minted + 2 ELSE NoItem, qty |-> session.qty]
  OBVIOUS
<1>7. PICK born : born = [paid EXCEPT !.status = "incomplete"] OBVIOUS
<1>8. /\ base \in [id : Nat, plan : PaidPlans] /\ <<base>> \in Seq([id : Nat, plan : PaidPlans])
      /\ paid \in Sub /\ born \in Sub /\ paid.status = "active" /\ paid.bases = <<base>> /\ paid.bases # <<>>
  <2>1. base \in [id : Nat, plan : PaidPlans] BY <1>1, <1>4, <1>5
  <2>2. <<base>> \in Seq([id : Nat, plan : PaidPlans]) BY <2>1
  <2>3. paid \in Sub BY <1>1, <1>4, <1>6, <2>2 DEF Sub, NoItem
  <2>4. born \in Sub BY <1>7, <2>3 DEF Sub
  <2> QED BY <1>6, <2>1, <2>2, <2>3, <2>4
<1>9. PICK e1, e2, e3 : /\ e1 = Event("created", emitted + 1, x, born, None)
                        /\ e2 = Event("updated", emitted + 2, x, paid, None)
                        /\ e3 = Event("completed", emitted + 3, x, None, session.plan)
  OBVIOUS
<1>10. /\ subs' = Append(subs, paid) /\ events' = events \cup {e1, e2, e3}
       /\ sessions' \subseteq sessions /\ emitted' = emitted + 3 /\ minted' = minted + 2 /\ memory' = memory
       /\ Len(subs) < MaxSubs
  BY <1>2, <1>5, <1>6, <1>7, <1>9 DEF Pay
<1>11. UNCHANGED <<org, cache, roll, processed, job, high>> BY DEF app
<1>12. inputs' \in 0..MaxInputs /\ calm' \in BOOLEAN /\ (calm' => calm /\ Cardinality(Live') <= 1)
  <2>1. inputs' \in 0..MaxInputs BY InputIs
  <2> QED BY <1>1, <2>1
<1>13. /\ subs' \in Seq(Sub) /\ Len(subs') = x /\ SubIds' = 1..x /\ subs'[x] = paid
       /\ \A u \in SubIds : subs'[u] = subs[u]
  <2>1. subs \in Seq(Sub) BY <1>1 DEF StripeTypes
  <2>2. subs' \in Seq(Sub) /\ Len(subs') = x /\ subs'[x] = paid BY <1>3, <1>8, <1>10, <2>1
  <2>3. SubIds' = 1..x BY <2>2 DEF SubIds
  <2>4. \A u \in 1..Len(subs) : subs'[u] = subs[u] BY <1>10, <2>1
  <2> QED BY <1>3, <2>2, <2>3, <2>4
<1>14. SubIds \subseteq SubIds' /\ x \in Live'
  <2>1. SubIds \subseteq SubIds' BY <1>3, <1>13
  <2>2. x \in SubIds' BY <1>3, <1>13
  <2> QED BY <1>8, <1>13, <2>1, <2>2 DEF Live
<1>15. \A e : Tells(e) => Tells(e)'
  <2>1. emitted' \in Nat /\ emitted' > emitted BY <1>1, <1>10
  <2> QED BY <1>1, <1>14, <2>1, TellsAges
<1>16. /\ e1.op = "created" /\ e1.seq = emitted + 1 /\ e1.sub = x /\ e1.snap = born
       /\ e2.op = "updated" /\ e2.seq = emitted + 2 /\ e2.sub = x /\ e2.snap = paid
       /\ e3.op = "completed" /\ e3.seq = emitted + 3 /\ e3.sub = x /\ e3.plan = session.plan
  BY <1>9 DEF Event
<1>17. x \in SubIds' BY <1>14 DEF Live
<1>18. Tells(e1)'
  <2>1. e1.seq \in 1..emitted' /\ e1.seq # emitted' BY <1>1, <1>10, <1>16
  <2> QED BY <1>8, <1>16, <1>17, <2>1 DEF Tells, EventTypes
<1>19. Tells(e2)'
  <2>1. e2.seq \in 1..emitted' /\ e2.seq # emitted' BY <1>1, <1>10, <1>16
  <2> QED BY <1>8, <1>16, <1>17, <2>1 DEF Tells, EventTypes
<1>20. Tells(e3)'
  <2>1. e3.seq \in 1..emitted' BY <1>1, <1>10, <1>16
  <2>2. PlanAt(e3.sub)' = session.plan
    <3>1. subs'[x].bases = <<base>> BY <1>8, <1>13
    <3>2. Last(<<base>>) = base BY DEF Last
    <3> QED BY <1>5, <1>16, <3>1, <3>2 DEF PlanAt
  <2>3. subs'[e3.sub].status = "active" /\ e3.sub = Len(subs') BY <1>8, <1>13, <1>16
  <2> QED BY <1>4, <1>16, <1>17, <2>1, <2>2, <2>3 DEF Tells, EventTypes
<1>21. StripeTypes'
  <2>1. \A f \in events' : Tells(f)' BY <1>1, <1>10, <1>15, <1>18, <1>19, <1>20 DEF StripeTypes
  <2>2. ASSUME NEW u \in SubIds' PROVE subs'[u].status \in {"active", "canceled"} /\ subs'[u].bases # <<>>
    <3>1. CASE u = x BY <1>8, <1>13, <3>1
    <3>2. CASE u # x
      <4>1. u \in SubIds BY <1>3, <1>13, <2>2, <3>2
      <4> QED BY <1>1, <1>13, <4>1 DEF StripeTypes
    <3> QED BY <3>1, <3>2
  <2>3. \A m \in memory' : m.answer \in Sub /\ m.answer.status = "active" /\ m.change.sub \in SubIds'
    BY <1>1, <1>10, <1>14 DEF StripeTypes
  <2>4. emitted' \in Nat /\ minted' \in Nat BY <1>1, <1>10
  <2>5. Len(subs') <= MaxSubs
    <3>1. MaxSubs \in Nat BY LimitsAssumption
    <3> QED BY <1>3, <1>10, <1>13, <3>1
  <2>6. sessions' \subseteq Session BY <1>1, <1>10 DEF StripeTypes
  <2> QED BY <1>13, <2>1, <2>2, <2>3, <2>4, <2>5, <2>6 DEF StripeTypes
<1>22. JobTypes'
  <2>1. job' = [u \in Slots |-> job'[u]] BY <1>11 DEF BillingInv, BillingTypes, JobTypes
  <2>2. high' \in Int /\ high' >= high BY <1>1, <1>11
  <2> QED BY <1>11, <1>12, <1>14, <1>15, <2>1, <2>2, JobsStay
<1>23. Orderly'
  <2>1. calm' => Live' \subseteq {Len(subs')}
    <3>1. SUFFICES ASSUME calm' PROVE Live' = {x} BY <1>13
    <3>2. Live' \subseteq 1..x BY <1>13 DEF Live
    <3>3. PICK S : S = Live' OBVIOUS
    <3>4. S \subseteq 1..x /\ Cardinality(S) <= 1 /\ x \in S BY <1>12, <1>14, <3>1, <3>2, <3>3
    <3>5. S = {x} BY <1>3, <3>4, OneIsAlive
    <3> QED BY <3>3, <3>5
  <2>2. ASSUME calm', NEW n \in (high' + 1)..emitted' PROVE \E f \in events' : f.seq = n
    <3>1. n = emitted + 1 \/ n = emitted + 2 \/ n = emitted + 3 \/ n \in (high + 1)..emitted BY <1>1, <1>10, <1>11
    <3>2. CASE n \notin (high + 1)..emitted BY <1>10, <1>16, <3>1, <3>2
    <3>3. CASE n \in (high + 1)..emitted BY <1>10, <1>12, <2>2, <3>3 DEF BillingInv, Orderly
    <3> QED BY <3>2, <3>3
  <2>3. calm' => \A u, v \in Slots : ~(job'[u].pc = "idle") /\ ~(job'[v].pc = "idle") => u = v
    BY <1>11, <1>12 DEF BillingInv, Orderly, At
  <2> QED BY <2>1, <2>2, <2>3 DEF Orderly, At
<1>24. emitted' > emitted BY <1>1, <1>10
<1> QED BY <1>11, <1>12, <1>14, <1>21, <1>22, <1>23, <1>24, Announced

LEMMA ForgetStays ==
  ASSUME BillingInv, Forget, Input("day"), calm' = (calm /\ Cardinality(Live') <= 1), UNCHANGED <<app, high, owed>>
  PROVE  BillingInv'
<1>1. UNCHANGED <<sessions, subs, events, emitted, minted, org, cache, roll, processed, job, high>> /\ memory' = {}
  BY DEF Forget, app
<1>2. inputs' \in 0..MaxInputs BY InputIs
<1>3. calm' \in BOOLEAN /\ (calm' => calm) BY DEF BillingInv, BillingTypes, HistoryTypes
<1>4. StripeTypes'
  <2>1. \A e : Tells(e) => Tells(e)' BY <1>1, <1>3, TellsStays
  <2> QED BY <1>1, <2>1 DEF BillingInv, BillingTypes, StripeTypes, SubIds
<1>5. HistoryTypes' BY <1>1, <1>2, <1>3 DEF BillingInv, BillingTypes, HistoryTypes
<1>6. Told(PastOrg)' => Told(PastOrg) BY <1>1 DEF Told, WasProcessed, Fresh, OnEvent
<1>7. Told(PastCache)' => Told(PastCache) BY <1>1 DEF Told, WasProcessed, Fresh, OnEvent
<1>8. calm' => \A n \in (high + 1)..emitted : \E e \in events' : e.seq = n BY <1>1, <1>3 DEF BillingInv, Orderly
<1> QED BY <1>1, <1>3, <1>4, <1>5, <1>6, <1>7, <1>8, NothingMoves

LEMMA CustomerStays == ASSUME BillingInv, Customer PROVE BillingInv'
BY PayStays, CancelStays, ForgetStays DEF Customer

\* Stripe takes a change: of a subscription alive, announced when it changed anything.
LEMMA PostAcceptedStays == ASSUME BillingInv, NEW s \in Slots, PostAccepted(s) PROVE BillingInv'
<1>1. PICK r : r = job[s] OBVIOUS
<1>2. r.pc = "post" /\ r.pc \in PastCache /\ r.pc # "idle" BY <1>1 DEF PostAccepted, At, PastCache
<1>3. /\ Knows(r) /\ (calm => \A t \in Slots : t # s => job[t].pc = "idle")
      /\ calm /\ high = emitted => /\ Told(PastOrg) => Truth(org)
                                   /\ Told(PastCache) => (org.plan = "free" <=> cache = None)
                                   /\ Told(PastCache) => Told(PastOrg)
      /\ Fresh(r) => Told(PastCache)
  BY <1>1, <1>2, Resumes
<1>4. PICK x, change : x = r.change.sub /\ change = r.change OBVIOUS
<1>5. x \in SubIds /\ change.base \in {None} \cup Base /\ change.seat \in {None} \cup SeatChange
  BY <1>2, <1>3, <1>4 DEF Knows
<1>6. StripeTypes /\ emitted \in Nat /\ minted \in Nat /\ high \in 0..emitted /\ calm \in BOOLEAN
  BY DEF BillingInv, BillingTypes, StripeTypes, HistoryTypes
<1>7. PICK old, next : old = subs[x] /\ next = Updated(subs[x], change) OBVIOUS
<1>8. old \in Sub /\ old.status \in {"active", "canceled"} /\ old.bases # <<>>
  BY <1>5, <1>6, <1>7 DEF StripeTypes, SubIds
<1>9. Accept(x, r.key, change) BY <1>1, <1>4 DEF PostAccepted
<1>10. old.status = "active" BY <1>7, <1>8, <1>9 DEF Accept, Acceptable
<1>11. next \in Sub /\ next.status = "active" /\ next.bases # <<>> BY <1>5, <1>6, <1>7, <1>8, <1>10, UpdatedIs
<1>12. PICK m : m = [key |-> r.key, change |-> change, answer |-> next] OBVIOUS
<1>13. /\ subs' = [subs EXCEPT ![x] = next] /\ memory' = memory \cup {m} /\ sessions' = sessions
       /\ minted' \in {minted, minted + 2}
       /\ IF next = old THEN events' = events /\ emitted' = emitted
          ELSE events' = events \cup {Event("updated", emitted + 1, x, next, None)} /\ emitted' = emitted + 1
  <2>1. subs' = [subs EXCEPT ![x] = next] /\ memory' = memory \cup {m} /\ sessions' = sessions
    BY <1>7, <1>9, <1>12 DEF Accept
  <2>2. minted' \in {minted, minted + 2} BY <1>9 DEF Accept
  <2>3. CASE next = old BY <1>7, <1>9, <2>1, <2>2, <2>3 DEF Accept
  <2>4. CASE next # old BY <1>7, <1>9, <2>1, <2>2, <2>4 DEF Accept
  <2> QED BY <2>3, <2>4
<1>14. /\ subs' \in Seq(Sub) /\ Len(subs') = Len(subs) /\ SubIds' = SubIds
       /\ \A u \in SubIds : subs'[u] = IF u = x THEN next ELSE subs[u]
  BY <1>5, <1>6, <1>11, <1>13 DEF StripeTypes, SubIds
<1>15. Live' = Live /\ x \in Live BY <1>5, <1>7, <1>10, <1>11, <1>14 DEF Live
<1>16. UNCHANGED <<org, cache, roll, processed, inputs, high, calm>> BY DEF PostAccepted
<1>17. PICK j : job' = [job EXCEPT ![s] = j] /\ j \in {Answered(r, next), Ended(r.on)}
  <2>1. subs'[x] = next BY <1>5, <1>14
  <2> QED BY <1>1, <1>4, <2>1 DEF PostAccepted, Goto
<1>18. /\ Knows(j) /\ j.pc # "org" /\ (j.pc # "idle" => j.on = r.on)
       /\ j.pc = "apply" => j.forced = None /\ j.sub = x /\ j.snap = next
  BY <1>2, <1>3, <1>4, <1>11, <1>17, AnsweredIs
<1>19. calm => x = Len(subs') BY <1>14, <1>15 DEF BillingInv, Orderly
<1>20. minted' \in Nat /\ sessions' \subseteq Session /\ Len(subs') <= MaxSubs
       /\ \A u \in SubIds' : subs'[u].status \in {"active", "canceled"} /\ subs'[u].bases # <<>>
  BY <1>6, <1>11, <1>13, <1>14 DEF StripeTypes
<1>21. \A n \in memory' : n.answer \in Sub /\ n.answer.status = "active" /\ n.change.sub \in SubIds'
  <2>1. m.answer = next /\ m.change.sub = x BY <1>4, <1>12
  <2> QED BY <1>5, <1>6, <1>11, <1>13, <1>14, <2>1 DEF StripeTypes
<1>22. CASE next = old
  <2>1. subs' = subs
    <3>1. \A u \in DOMAIN subs : subs'[u] = subs[u] BY <1>7, <1>14, <1>22 DEF SubIds
    <3>2. subs \in Seq(Sub) /\ DOMAIN subs' = DOMAIN subs BY <1>6, <1>14 DEF StripeTypes, SubIds
    <3>3. subs = [u \in DOMAIN subs |-> subs[u]] BY <3>2
    <3>4. subs' = [u \in DOMAIN subs |-> subs'[u]] BY <1>13, <3>2, <3>3
    <3> QED BY <3>1, <3>3, <3>4
  <2>2. UNCHANGED <<subs, emitted, events>> BY <1>13, <1>22, <2>1
  <2>3. \A e : Tells(e) => Tells(e)' BY <1>16, <2>2, TellsStays
  <2>4. StripeTypes' BY <1>6, <1>14, <1>20, <1>21, <2>2, <2>3 DEF StripeTypes
  <2>5. OrgTypes' BY <1>14, <1>16 DEF BillingInv, BillingTypes, OrgTypes
  <2>6. HistoryTypes' BY <1>16, <2>2 DEF BillingInv, BillingTypes, HistoryTypes
  <2>7. Knows(j)' BY <1>16, <1>18, <2>2, KnowsSame
  <2>8. calm' => \A n \in (high' + 1)..emitted : \E e \in events' : e.seq = n BY <1>16, <2>2 DEF BillingInv, Orderly
  <2>9. ASSUME calm', high' = emitted
        PROVE  /\ Told(PastOrg)' => Truth(org')
               /\ Told(PastCache)' => (org'.plan = "free" <=> cache' = None)
               /\ Keeps(j)'
    <3>1. calm /\ high = emitted /\ org' = org /\ cache' = cache BY <1>16, <2>9
    <3>2. JobTypes /\ UNCHANGED <<events, processed, emitted>> BY <1>16, <2>2 DEF BillingInv, BillingTypes
    <3>3. \A past : Told(past)' => Told(past) \/ (j.pc \in past /\ Fresh(j)) BY <1>17, <3>2, ToldMoves
    <3>4. j.pc # "idle" /\ Fresh(j) => Fresh(r) BY <1>18 DEF Fresh, OnEvent
    <3>5. j.pc \in PastOrg \/ j.pc \in PastCache => j.pc # "idle" BY DEF PastOrg, PastCache
    <3>6. Told(PastOrg)' => Told(PastOrg) BY <1>3, <3>1, <3>3, <3>4, <3>5
    <3>7. Told(PastCache)' => Told(PastCache) BY <1>3, <3>1, <3>3, <3>4, <3>5
    <3>8. Keeps(j)'
      <4>1. j.pc = "apply" => Applies(j)'
        <5>1. subs'[Len(subs')] = next BY <1>5, <1>14, <1>19, <3>1
        <5> QED BY <1>18, <1>19, <3>1, <5>1 DEF Applies
      <4> QED BY <1>18, <4>1 DEF Keeps
    <3> QED BY <1>3, <3>1, <3>6, <3>7, <3>8
  <2>10. high' >= high /\ (calm' => calm) /\ (calm' => \A t \in Slots : t # s => job[t].pc = "idle") BY <1>3, <1>6, <1>16
  <2> QED BY <1>17, <2>2, <2>4, <2>5, <2>6, <2>7, <2>8, <2>9, <2>10, StepMoves
<1>23. CASE next # old
  <2>1. PICK e : e = Event("updated", emitted + 1, x, next, None) OBVIOUS
  <2>2. e.op = "updated" /\ e.seq = emitted + 1 /\ e.sub = x /\ e.snap = next BY <2>1 DEF Event
  <2>3. events' = events \cup {e} /\ emitted' = emitted + 1 BY <1>13, <1>23, <2>1
  <2>4. emitted' \in Nat /\ emitted' > emitted BY <1>6, <2>3
  <2>5. \A f : Tells(f) => Tells(f)' BY <1>6, <1>14, <2>4, TellsAges
  <2>6. Tells(e)'
    <3>1. e.seq \in 1..emitted' /\ e.sub \in SubIds' BY <1>5, <1>6, <1>14, <2>2, <2>3
    <3>2. e.snap = subs'[e.sub] BY <1>5, <1>14, <2>2
    <3>3. calm' => e.sub = Len(subs') BY <1>16, <1>19, <2>2
    <3> QED BY <1>11, <2>2, <3>1, <3>2, <3>3 DEF Tells, EventTypes
  <2>7. StripeTypes'
    <3>1. \A f \in events' : Tells(f)' BY <1>6, <2>3, <2>5, <2>6 DEF StripeTypes
    <3> QED BY <1>14, <1>20, <1>21, <2>4, <3>1 DEF StripeTypes
  <2>8. SubIds \subseteq SubIds' /\ high' \in Int /\ high' >= high BY <1>6, <1>14, <1>16
  <2>9. JobTypes'
    <3>1. JobTypes BY DEF BillingInv, BillingTypes
    <3>2. \A t \in Slots : job'[t] = IF t = s THEN j ELSE job[t] BY <1>17, <3>1 DEF JobTypes
    <3>3. job' = [t \in Slots |-> job'[t]] BY <1>17, <3>1 DEF JobTypes
    <3>4. Knows(j)'
      <4>1. OnEvent(j.on) /\ j.pc # "idle" => j.on.seq \in Int
        <5>1. OnEvent(j.on) /\ j.pc # "idle" => j.on.seq \in 1..emitted BY <1>18 DEF Knows, Tells
        <5> QED BY <1>6, <5>1
      <4>2. high \in Int BY <1>6
      <4> QED BY <1>16, <1>18, <2>5, <2>8, <4>1, <4>2, KnowsStays
    <3>5. \A t \in Slots : \/ Knows(job[t])'
                           \/ job'[t] = job[t] /\ (calm' /\ job[t].pc # "idle" => UNCHANGED <<org, high>>)
      <4>1. job'[s] = j BY <3>2
      <4>2. Knows(job[s])' BY <3>4, <4>1
      <4>3. \A t \in Slots : t # s => job'[t] = job[t] BY <3>2
      <4> QED BY <1>16, <4>2, <4>3
    <3> QED BY <1>16, <2>5, <2>8, <3>3, <3>5, JobsStay
  <2>10. Orderly'
    <3>1. calm' => Live' \subseteq {Len(subs')} BY <1>14, <1>15, <1>16 DEF BillingInv, Orderly
    <3>2. ASSUME calm', NEW n \in (high' + 1)..emitted' PROVE \E f \in events' : f.seq = n
      <4>1. n = emitted + 1 \/ n \in (high + 1)..emitted BY <1>6, <1>16, <2>3
      <4>2. CASE n = emitted + 1 BY <2>2, <2>3, <4>2
      <4>3. CASE n \in (high + 1)..emitted BY <1>16, <2>3, <3>2, <4>3 DEF BillingInv, Orderly
      <4> QED BY <4>1, <4>2, <4>3
    <3>3. calm' => \A u \in Slots : u # s => job'[u].pc = "idle"
      <4>1. JobTypes BY DEF BillingInv, BillingTypes
      <4> QED BY <1>3, <1>16, <1>17, <4>1 DEF JobTypes
    <3> QED BY <3>1, <3>2, <3>3 DEF Orderly, At
  <2>11. calm' \in BOOLEAN /\ inputs' \in 0..MaxInputs /\ (calm' => calm)
    BY <1>16 DEF BillingInv, BillingTypes, HistoryTypes
  <2> QED BY <1>16, <2>4, <2>7, <2>8, <2>9, <2>10, <2>11, Announced
<1> QED BY <1>22, <1>23

-----------------------------------------------------------------------------
\* The owner and the seats.

LEMMA BeginStays ==
  ASSUME BillingInv, NEW s \in Slots, NEW op, NEW j, NEW current, current \in BOOLEAN, Begin(s, op, j, current),
         roll' \in [humans : Nat \ {0}, agents : Nat], Knows(j), ~OnEvent(j.on), j.pc # "org",
         calm /\ current /\ high = emitted /\ Told(PastOrg) /\ j.pc = "apply" => Applies(j)
  PROVE  BillingInv'
<1>1. UNCHANGED <<stripe, org, cache, processed, high>> /\ job' = [job EXCEPT ![s] = j] BY DEF Begin, Goto
<1>2. inputs' \in 0..MaxInputs BY InputIs DEF Begin
<1>3. calm' \in BOOLEAN /\ (calm' => calm /\ current /\ \A t \in Slots : job[t].pc = "idle")
  BY DEF Begin, Quiet, At, BillingInv, BillingTypes, HistoryTypes
<1>4. Knows(j)' BY <1>1, <1>3, KnowsSame DEF stripe
<1>5. OrgTypes' BY <1>1 DEF stripe, SubIds, BillingInv, BillingTypes, OrgTypes
<1>6. ASSUME calm', high = emitted
      PROVE  /\ Told(PastOrg) \/ (j.pc \in PastOrg /\ Fresh(j)) => Truth(org')
             /\ Told(PastCache) \/ (j.pc \in PastCache /\ Fresh(j)) => (org'.plan = "free" <=> cache' = None)
             /\ Keeps(j)
  <2>1. ~Fresh(j) BY DEF Fresh
  <2>2. /\ Told(PastOrg) => Truth(org)
        /\ Told(PastCache) => (org.plan = "free" <=> cache = None)
    BY <1>3, <1>6 DEF BillingInv, Agrees
  <2>3. Keeps(j) BY <1>3, <1>6, <2>1 DEF Keeps
  <2> QED BY <1>1, <2>1, <2>2, <2>3
<1>7. calm' => calm /\ \A t \in Slots : t # s => job[t].pc = "idle" BY <1>3
<1> QED BY <1>1, <1>2, <1>3, <1>4, <1>5, <1>6, <1>7, JobRuns

LEMMA ChangePlanStays == ASSUME BillingInv, NEW s \in Slots, NEW plan \in PaidPlans, ChangePlan(s, plan) PROVE BillingInv'
<1>1. OrgTypes BY DEF BillingInv, BillingTypes
<1>2. PICK state, seats, change :
        /\ state = ReadBillingState /\ seats = SeatOverage(plan, roll.humans)
        /\ change = [sub |-> org.sub, base |-> [id |-> state.base, plan |-> plan],
                     seat |-> IF state.seat = NoItem /\ seats = 0 THEN None
                              ELSE [id |-> state.seat, qty |-> seats, deleted |-> plan # "business"]]
  OBVIOUS
<1>3. PICK j : j = [pc |-> "post", on |-> [op |-> "change_plan"], key |-> <<"plan", NoSub, plan, seats>>, change |-> change]
  OBVIOUS
<1>4. Begin(s, "change_plan", j, TRUE) /\ org.sub # NoSub /\ roll' = roll BY <1>2, <1>3 DEF ChangePlan
<1>5. state \in CacheRow /\ seats \in Nat
  <2>1. state \in CacheRow BY <1>1, <1>2 DEF OrgTypes, ReadBillingState, Empty, CacheRow, NoItem
  <2> QED BY <1>1, <1>2, <2>1, OverageIs DEF OrgTypes
<1>6. /\ change.sub \in SubIds /\ change.base \in Base /\ change.seat \in {None} \cup SeatChange
  <2>1. org.sub \in SubIds BY <1>1, <1>4 DEF OrgTypes
  <2>2. [id |-> state.base, plan |-> plan] \in Base BY <1>5 DEF CacheRow, Base
  <2>3. [id |-> state.seat, qty |-> seats, deleted |-> plan # "business"] \in SeatChange BY <1>5 DEF CacheRow, SeatChange
  <2> QED BY <1>2, <2>1, <2>2, <2>3
<1>7. j.pc = "post" /\ j.on.op = "change_plan" /\ j.change = change /\ ~Seats(j) /\ ~OnEvent(j.on)
  BY <1>3 DEF Seats, OnEvent, EventTypes
<1>8. Knows(j) BY <1>6, <1>7 DEF Knows, Steps
<1>9. roll' \in [humans : Nat \ {0}, agents : Nat] BY <1>1, <1>4 DEF OrgTypes
<1> QED BY <1>4, <1>7, <1>8, <1>9, BeginStays

\* A sync of the subscription the organization has on file, or else of the newest.
LEMMA SyncingIs ==
  ASSUME BillingInv, NEW t \in SubIds, NEW j, j = Applying([op |-> "sync"], t, subs[t], None)
  PROVE  /\ Knows(j) /\ ~OnEvent(j.on) /\ j.pc # "org"
         /\ t = Len(subs) => Applies(j)
<1>1. j = [pc |-> "apply", on |-> [op |-> "sync"], sub |-> t, snap |-> subs[t], forced |-> None] BY DEF Applying
<1>2. subs[t] \in Sub BY DEF BillingInv, BillingTypes, StripeTypes, SubIds
<1>3. ~OnEvent(j.on) BY <1>1 DEF OnEvent, EventTypes
<1>4. Knows(j) BY <1>1, <1>2, <1>3 DEF Knows, Steps
<1>5. t = Len(subs) => Applies(j) BY <1>1 DEF Applies
<1> QED BY <1>1, <1>3, <1>4, <1>5

LEMMA SyncStays == ASSUME BillingInv, NEW s \in Slots, Sync(s) PROVE BillingInv'
<1>1. OrgTypes /\ subs \in Seq(Sub) BY DEF BillingInv, BillingTypes, StripeTypes
<1>2. SubIds = 1..Len(subs) /\ Len(subs) \in Nat BY <1>1 DEF SubIds
<1>3. PICK t : t = IF org.sub # NoSub THEN org.sub
                   ELSE IF Live # {} THEN Newest(Live) ELSE Newest(SubIds)
  OBVIOUS
<1>4. PICK j : j = Applying([op |-> "sync"], t, subs[t], None) OBVIOUS
<1>5. Begin(s, "sync", j, TRUE) /\ SubIds # {} /\ roll' = roll BY <1>3, <1>4 DEF Sync
<1>6. Live \subseteq SubIds BY DEF Live
<1>7. t \in SubIds
  <2>1. org.sub # NoSub => org.sub \in SubIds BY <1>1 DEF OrgTypes
  <2>2. Live # {} => Newest(Live) \in Live BY <1>1, <1>6, NewestIs
  <2>3. Newest(SubIds) \in SubIds BY <1>1, <1>5, NewestIs
  <2> QED BY <1>3, <1>6, <2>1, <2>2, <2>3
<1>8. ASSUME calm, high = emitted, Told(PastOrg) PROVE t = Len(subs)
  <2>1. Truth(org) /\ Live \subseteq {Len(subs)} BY <1>8 DEF BillingInv, Agrees, Orderly
  <2>2. CASE Live = {}
    <3>1. org.sub = NoSub BY <1>1, <2>1, <2>2 DEF Truth, OrgTypes
    <3>2. Len(subs) \in SubIds BY <1>2, <1>5
    <3>3. Newest(SubIds) = Len(subs) BY <1>1, <1>5, <3>2, NewestIs
    <3> QED BY <1>3, <2>2, <3>1, <3>3
  <2>3. CASE Live # {}
    <3>1. PICK u \in Live : TRUE BY <2>3
    <3>2. u = Len(subs) /\ org.sub = u BY <2>1, <3>1 DEF Truth
    <3>3. u # NoSub BY <1>2, <1>6, <3>1 DEF NoSub
    <3> QED BY <1>3, <3>2, <3>3
  <2> QED BY <2>2, <2>3
<1>9. roll' \in [humans : Nat \ {0}, agents : Nat] BY <1>1, <1>5 DEF OrgTypes
<1>10. /\ Knows(j) /\ ~OnEvent(j.on) /\ j.pc # "org"
       /\ calm /\ high = emitted /\ Told(PastOrg) => Applies(j)
  BY <1>4, <1>7, <1>8, SyncingIs
<1> QED BY <1>5, <1>9, <1>10, BeginStays

LEMMA SyncSessionStays == ASSUME BillingInv, NEW s \in Slots, NEW t \in SubIds, SyncSession(s, t) PROVE BillingInv'
<1>1. OrgTypes /\ subs \in Seq(Sub) BY DEF BillingInv, BillingTypes, StripeTypes
<1>2. SubIds = 1..Len(subs) /\ Len(subs) \in Nat BY <1>1 DEF SubIds
<1>3. PICK j : j = Applying([op |-> "sync"], t, subs[t], None) OBVIOUS
<1>4. Begin(s, "redirect", j, t = Newest(SubIds)) /\ roll' = roll BY <1>3 DEF SyncSession
<1>5. Newest(SubIds) = Len(subs)
  <2>1. Len(subs) \in SubIds BY <1>2
  <2> QED BY <1>1, <2>1, NewestIs
<1>6. roll' \in [humans : Nat \ {0}, agents : Nat] BY <1>1, <1>4 DEF OrgTypes
<1>7. /\ Knows(j) /\ ~OnEvent(j.on) /\ j.pc # "org"
      /\ t = Newest(SubIds) => Applies(j)
  BY <1>3, <1>5, SyncingIs
<1>8. PICK current \in BOOLEAN : current = (t = Newest(SubIds)) OBVIOUS
<1>9. Begin(s, "redirect", j, current) BY <1>4, <1>8
<1> QED BY <1>6, <1>7, <1>8, <1>9, BeginStays

LEMMA JoinStays == ASSUME BillingInv, NEW s \in Slots, NEW via \in {"invite", "sso", "agent"}, Join(s, via) PROVE BillingInv'
<1>1. PICK j : j = [pc |-> "insert", on |-> [op |-> via]] OBVIOUS
<1>2. Begin(s, via, j, TRUE) /\ roll' = roll BY <1>1 DEF Join
<1>3. j.pc = "insert" /\ j.on.op = via /\ ~OnEvent(j.on) BY <1>1 DEF OnEvent, EventTypes
<1>4. Knows(j) BY <1>3 DEF Knows, Steps
<1>5. roll' \in [humans : Nat \ {0}, agents : Nat] BY <1>2 DEF BillingInv, BillingTypes, OrgTypes
<1> QED BY <1>2, <1>3, <1>4, <1>5, BeginStays

LEMMA RemoveMemberStays == ASSUME BillingInv, NEW s \in Slots, RemoveMember(s) PROVE BillingInv'
<1>1. PICK j : j = [pc |-> "seats", on |-> [op |-> "remove"]] OBVIOUS
<1>2. Begin(s, "remove", j, TRUE) BY <1>1 DEF RemoveMember
<1>3. j.pc = "seats" /\ j.on.op = "remove" /\ ~OnEvent(j.on) BY <1>1 DEF OnEvent, EventTypes
<1>4. Knows(j) BY <1>3 DEF Knows, Steps
<1>5. roll' \in [humans : Nat \ {0}, agents : Nat]
  <2>1. roll \in [humans : Nat \ {0}, agents : Nat] BY DEF BillingInv, BillingTypes, OrgTypes
  <2>2. CASE roll.humans > 1 /\ roll' = [roll EXCEPT !.humans = @ - 1]
    <3>1. roll.humans - 1 \in Nat \ {0} BY <2>1, <2>2
    <3> QED BY <2>1, <2>2, <3>1
  <2>3. CASE roll.agents > 0 /\ roll' = [roll EXCEPT !.agents = @ - 1]
    <3>1. roll.agents - 1 \in Nat BY <2>1, <2>3
    <3> QED BY <2>1, <2>3, <3>1
  <2> QED BY <2>2, <2>3 DEF RemoveMember
<1> QED BY <1>2, <1>3, <1>4, <1>5, BeginStays

-----------------------------------------------------------------------------
LEMMA BillingIdles == ASSUME BillingInv, UNCHANGED vars PROVE BillingInv'
<1>1. UNCHANGED <<sessions, subs, events, emitted, minted, memory, org, cache, roll, processed, job, inputs, high, calm>>
  BY DEF vars, stripe, app, history
<1>2. StripeTypes'
  <2>1. \A e : Tells(e) => Tells(e)' BY <1>1, TellsStays
  <2> QED BY <1>1, <2>1 DEF BillingInv, BillingTypes, StripeTypes, SubIds
<1>3. HistoryTypes' BY <1>1 DEF BillingInv, BillingTypes, HistoryTypes
<1>4. Told(PastOrg)' => Told(PastOrg) BY <1>1 DEF Told, WasProcessed, Fresh, OnEvent
<1>5. Told(PastCache)' => Told(PastCache) BY <1>1 DEF Told, WasProcessed, Fresh, OnEvent
<1>6. calm' => \A n \in (high + 1)..emitted : \E e \in events' : e.seq = n BY <1>1 DEF BillingInv, Orderly
<1> QED BY <1>1, <1>2, <1>3, <1>4, <1>5, <1>6, NothingMoves

LEMMA BillingStays == ASSUME BillingInv, [Next]_vars PROVE BillingInv'
<1>1. ASSUME NEW plan \in PaidPlans, Checkout(plan) PROVE BillingInv' BY <1>1, CheckoutStays
<1>2. CASE Customer BY <1>2, CustomerStays
<1>3. CASE Crash BY <1>3, CrashStays
<1>4. ASSUME NEW s \in Slots, Call(s) PROVE BillingInv'
  <2>1. ASSUME NEW plan \in PaidPlans, ChangePlan(s, plan) PROVE BillingInv' BY <2>1, ChangePlanStays
  <2>2. CASE Sync(s) BY <2>2, SyncStays
  <2>3. ASSUME NEW t \in SubIds, SyncSession(s, t) PROVE BillingInv' BY <2>3, SyncSessionStays
  <2>4. ASSUME NEW via \in {"invite", "sso", "agent"}, Join(s, via) PROVE BillingInv' BY <2>4, JoinStays
  <2>5. CASE RemoveMember(s) BY <2>5, RemoveMemberStays
  <2> QED BY <1>4, <2>1, <2>2, <2>3, <2>4, <2>5 DEF Call
<1>5. ASSUME NEW s \in Slots, Handle(s) PROVE BillingInv'
  <2>1. CASE FetchSubscription(s) BY <2>1, FetchSubscriptionStays
  <2>2. CASE ReadOrg(s) BY <2>2, ReadOrgStays
  <2>3. CASE WriteOrg(s) BY <2>3, WriteOrgStays
  <2>4. CASE WriteCache(s) BY <2>4, WriteCacheStays
  <2>5. CASE SyncSeats(s) BY <2>5, SyncSeatsStays
  <2>6. CASE PostAccepted(s) BY <2>6, PostAcceptedStays
  <2>7. CASE PostRecalled(s) BY <2>7, PostRecalledStays
  <2>8. CASE PostRefused(s) BY <2>8, PostRefusedStays
  <2>9. CASE StoreSeats(s) BY <2>9, StoreSeatsStays
  <2>10. CASE MarkProcessed(s) BY <2>10, MarkProcessedStays
  <2>11. CASE InsertMember(s) BY <2>11, InsertMemberStays
  <2> QED BY <1>5, <2>1, <2>2, <2>3, <2>4, <2>5, <2>6, <2>7, <2>8, <2>9, <2>10, <2>11 DEF Handle
<1>6. ASSUME NEW s \in Slots, FailApplying(s) PROVE BillingInv' BY <1>6, FailApplyingStays
<1>7. ASSUME NEW s \in Slots, FailSeats(s) PROVE BillingInv' BY <1>7, FailSeatsStays
<1>8. ASSUME NEW s \in Slots, NEW e \in events, Deliver(s, e) PROVE BillingInv' BY <1>8, DeliverStays
<1>9. ASSUME NEW s \in Slots, NEW e \in events, Duplicate(s, e) PROVE BillingInv' BY <1>9, DuplicateStays
<1>10. CASE UNCHANGED vars BY <1>10, BillingIdles
<1>11. ASSUME NEW s \in Slots,
              Call(s) \/ Handle(s) \/ FailApplying(s) \/ FailSeats(s) \/ \E e \in events : Deliver(s, e) \/ Duplicate(s, e)
       PROVE  BillingInv'
  BY <1>4, <1>5, <1>6, <1>7, <1>8, <1>9, <1>11
<1> QED BY Zenon, <1>1, <1>2, <1>3, <1>10, <1>11 DEF Next

LEMMA BillingHolds == Spec => []BillingInv
<1>1. Init => BillingInv BY BillingStarts
<1>2. BillingInv /\ [Next]_vars => BillingInv' BY BillingStays
<1> QED BY <1>1, <1>2, PTL DEF Spec

\* Once everything was said, the last event was begun and is told.
LEMMA SettledIs ==
  ASSUME BillingInv, calm, Settled
  PROVE  Truth(org) /\ (org.plan = "free" <=> cache = None)
<1>1. events = {} /\ emitted \in Nat /\ high \in 0..emitted
  BY DEF Settled, BillingInv, BillingTypes, StripeTypes, HistoryTypes
<1>2. high = emitted
  <2>1. SUFFICES ASSUME high # emitted PROVE FALSE OBVIOUS
  <2>2. emitted \in (high + 1)..emitted BY <1>1, <2>1
  <2> QED BY <1>1, <2>2 DEF BillingInv, Orderly
<1>3. Told(PastOrg) /\ Told(PastCache) BY <1>1 DEF Told
<1> QED BY <1>2, <1>3 DEF BillingInv, Agrees

\* Every variable keeps to what the schema and Stripe's objects can hold, for any
\* number of handlers, subscriptions, members and acts.
THEOREM BillingTypesHold == Spec => []TypeOK
<1>1. BillingInv => TypeOK
  <2>1. SUFFICES ASSUME BillingInv PROVE TypeOK OBVIOUS
  <2>2. StripeTypes /\ OrgTypes /\ HistoryTypes /\ JobTypes BY <2>1 DEF BillingInv, BillingTypes
  <2>3. sessions \subseteq Session /\ subs \in Seq(Sub) /\ Len(subs) <= MaxSubs BY <2>2 DEF StripeTypes
  <2>4. processed \in Seq(1..emitted) /\ Len(processed) <= ProcessedLimit
    <3>1. PICK a, b : a = high /\ b = emitted OBVIOUS
    <3>2. a \in Nat /\ b \in Nat /\ a <= b /\ processed \in Seq(1..a) BY <2>2, <3>1 DEF StripeTypes, HistoryTypes
    <3>3. processed \in Seq(1..b) BY <3>2, LaterIs
    <3> QED BY <2>2, <3>1, <3>3 DEF HistoryTypes
  <2>5. \A e \in events : e.op \in EventTypes /\ e.seq \in 1..emitted /\ e.sub \in SubIds BY <2>2 DEF StripeTypes, Tells
  <2>6. \A m \in memory : m.answer \in Sub /\ m.change.sub \in SubIds BY <2>2 DEF StripeTypes
  <2>7. \A s \in Slots : job[s].pc \in {"idle", "fetch", "apply", "org", "cache", "seats", "post", "store", "mark", "insert"}
    BY <2>2 DEF JobTypes, Knows, Steps
  <2>8. high <= emitted /\ inputs <= MaxInputs BY <2>2, LimitsAssumption DEF HistoryTypes, StripeTypes
  <2> QED BY <2>2, <2>3, <2>4, <2>5, <2>6, <2>7, <2>8 DEF TypeOK, OrgTypes
<1> QED BY <1>1, BillingHolds, PTL

\* The price is the truth: once every event came in order and was handled, the
\* plan column names the plan of the subscription that is alive, or free, through
\* outages, restarts, answers lost and syncs that run ahead of the events.
THEOREM PlanIsTrue == Spec => []PlanAgrees
<1>1. BillingInv => PlanAgrees BY SettledIs DEF PlanAgrees, Truth
<1> QED BY <1>1, BillingHolds, PTL

\* A free organization remembers no items and a paying one does, at the same times.
THEOREM FreeHasNoRow == Spec => []FreeKeepsNothing
<1>1. BillingInv => FreeKeepsNothing BY SettledIs DEF FreeKeepsNothing
<1> QED BY <1>1, BillingHolds, PTL

-----------------------------------------------------------------------------
(* The bill follows the roll: the seats billed, through everything that can go *)
(* between the roll, the cache and Stripe.                                     *)

\* The last subscription bought, if it sells Business and is alive.
Bought == Len(subs)
Sells == Bought \in Live /\ PlanAt(Bought) = "business"
Right == [plan |-> "business", sub |-> Bought]
Overage == SeatOverage("business", roll.humans)

\* An event that says how that subscription is now; said, once its handler has
\* written the cache.
Current(e) ==
  /\ e.sub = Bought
  /\ \/ e.op = "updated" /\ e.snap = subs[Bought]
     \/ e.op = "completed" /\ e.plan = PlanAt(Bought)
Said(e) == WasProcessed(e.seq) \/ \E s \in Slots : job[s].pc \in PastCache /\ job[s].on = e
AllSaid == \A e \in events : e.op = "updated" /\ Current(e) => Said(e)

\* Nothing still to come is out of date, or such an `updated` is still to come.
CaughtUp == \A e \in events : e.seq >= high => Current(e)
InStep ==
  Bought \in Live =>
    \/ CaughtUp
    \/ \E e \in events : e.op = "updated" /\ \A f \in events : f.seq >= e.seq => Current(f)

EventsOnce == \A e, f \in events : e.seq = f.seq => e = f
Handling(j) == j.pc # "idle" /\ OnEvent(j.on) => j.on \in events /\ ~WasProcessed(j.on.seq)
EventsStay == \A s \in Slots : Handling(job[s])

NoSeatNoBill == \A t \in SubIds : subs[t].seat = NoItem => subs[t].qty = 0
AnswersCount == \A m \in memory : m.change.seat # None => m.answer.qty = m.change.seat.qty

\* What is asked of Stripe is what the roll says now.
Aims(j) ==
  j.pc = "post" =>
    /\ Seats(j) => j.change.seat # None /\ ~j.change.seat.deleted
    /\ j.change.seat # None =>
         IF j.change.seat.deleted THEN j.change.seat.id # NoItem /\ j.change.seat.qty = 0
         ELSE j.change.seat.qty = Overage

\* A handler of the latest `updated` before its writes, or any once all is said,
\* carries the subscription as it is: what it has read, or at worst nothing of the
\* items, when a checkout could not be fetched.
OnLatest(j) == j.on.op = "updated" /\ Current(j.on) /\ j.pc \notin PastCache
Seen(j) == j.snap = subs[Bought] \/ (j.snap.bases = <<>> /\ j.snap.seat = NoItem /\ ~OnLatest(j))
Carries(j) ==
  /\ j.pc = "apply" => /\ j.sub = Bought /\ Seen(j)
                       /\ j.forced = "business" \/ (j.forced = None /\ j.snap = subs[Bought])
  /\ j.pc = "org" => Seen(j) /\ j.next = Right
  /\ j.pc = "cache" => Seen(j) /\ j.plan = "business" /\ org = Right
  /\ j.pc = "post" => j.change.sub = Bought
  /\ j.pc = "store" => owed \/ (j.snap = subs[Bought] /\ j.qty = subs[Bought].qty)

\* Then the organization and the cache know the subscription and its seat. The
\* cached quantity is Stripe's, and Stripe's is the roll's, unless a failure left
\* one owed or the handler in flight is about to put it right.
Kept == org = Right /\ cache # None /\ (subs[Bought].seat # NoItem => cache.seat # NoItem)
Reckoning(j) == j.pc = "store" \/ (j.pc \in {"apply", "org", "cache"} /\ ~Seats(j))
Counting(j) == j.pc \in {"seats", "post"} /\ Seats(j)
Fits(j) ==
  /\ owed \/ cache.qty \in {None, subs[Bought].qty} \/ Reckoning(j)
  /\ owed \/ subs[Bought].qty = Overage \/ Counting(j)
Synced == Kept /\ (Fits(Idle) \/ \E s \in Slots : Fits(job[s]))

InOrder ==
  /\ InStep /\ EventsOnce /\ EventsStay /\ NoSeatNoBill /\ AnswersCount
  /\ \A s \in Slots : Aims(job[s])
  /\ Sells => /\ \A s \in Slots : AllSaid \/ OnLatest(job[s]) => Carries(job[s])
              /\ AllSaid => Synced
SeatInv == owed \in BOOLEAN /\ (calm => InOrder)
-----------------------------------------------------------------------------
LEMMA SeatsStart == Init => SeatInv
<1> SUFFICES ASSUME Init PROVE SeatInv OBVIOUS
<1>1. subs = <<>> /\ events = {} /\ memory = {} /\ owed = FALSE /\ job = [s \in Slots |-> Idle] BY DEF Init
<1>2. SubIds = {} /\ Live = {} BY <1>1 DEF SubIds, Live
<1>3. \A s \in Slots : job[s] = Idle BY <1>1
<1>4. InStep /\ EventsOnce /\ EventsStay /\ NoSeatNoBill /\ AnswersCount
  BY <1>1, <1>2, <1>3 DEF InStep, EventsOnce, EventsStay, NoSeatNoBill, AnswersCount, Handling, Idle
<1>5. \A s \in Slots : Aims(job[s]) BY <1>3 DEF Aims, Idle
<1>6. ~Sells BY <1>2 DEF Sells
<1> QED BY <1>1, <1>4, <1>5, <1>6 DEF SeatInv, InOrder

\* What the one handler in flight may rely on.
LEMMA Stands ==
  ASSUME BillingInv, SeatInv, calm, NEW s \in Slots, NEW r, r = job[s],
         \A t \in Slots : t # s => job[t].pc = "idle"
  PROVE  /\ Aims(r) /\ Handling(r)
         /\ Sells => /\ Bought \in SubIds /\ subs[Bought] \in Sub /\ subs[Bought].status = "active"
                     /\ subs[Bought].bases # <<>> /\ Bought # NoSub /\ Live = {Bought}
                     /\ subs[Bought].seat = NoItem => subs[Bought].qty = 0
                     /\ AllSaid => CaughtUp /\ Kept /\ Fits(r)
                     /\ AllSaid \/ OnLatest(r) => Carries(r)
<1>1. InOrder BY DEF SeatInv
<1>2. Aims(r) /\ Handling(r) BY <1>1 DEF InOrder, EventsStay
<1> SUFFICES ASSUME Sells
             PROVE  /\ Bought \in SubIds /\ subs[Bought] \in Sub /\ subs[Bought].status = "active"
                    /\ subs[Bought].bases # <<>> /\ Bought # NoSub /\ Live = {Bought}
                    /\ subs[Bought].seat = NoItem => subs[Bought].qty = 0
                    /\ AllSaid => CaughtUp /\ Kept /\ Fits(r)
                    /\ AllSaid \/ OnLatest(r) => Carries(r)
  BY <1>2
<1>3. Bought \in Live /\ Bought \in SubIds /\ subs[Bought].status = "active" BY DEF Sells, Live
<1>4. subs[Bought] \in Sub /\ subs[Bought].bases # <<>> /\ Bought # NoSub
  BY <1>3 DEF BillingInv, BillingTypes, StripeTypes, SubIds, NoSub
<1>5. Live = {Bought} BY <1>3 DEF BillingInv, Orderly, Bought
<1>6. subs[Bought].seat = NoItem => subs[Bought].qty = 0 BY <1>1, <1>3 DEF InOrder, NoSeatNoBill
<1>7. ASSUME AllSaid PROVE Kept /\ Fits(r)
  <2>1. Kept /\ (Fits(Idle) \/ \E t \in Slots : Fits(job[t])) BY <1>1, <1>7 DEF InOrder, Synced
  <2>2. \A t \in Slots : t # s => ~Reckoning(job[t]) /\ ~Counting(job[t]) BY DEF Reckoning, Counting
  <2>3. ~Reckoning(Idle) /\ ~Counting(Idle) BY DEF Reckoning, Counting, Idle
  <2> QED BY <2>1, <2>2, <2>3 DEF Fits
<1>8. ASSUME AllSaid PROVE CaughtUp
  <2>1. SUFFICES ASSUME NEW e \in events, e.op = "updated", \A f \in events : f.seq >= e.seq => Current(f) PROVE CaughtUp
    BY <1>1, <1>3 DEF InOrder, InStep
  <2>2. /\ \A f \in events : f.seq \in Int
        /\ high \in Int /\ \A i \in DOMAIN processed : processed[i] \in 1..high
    <3>1. \A f \in events : f.seq \in 1..emitted BY DEF BillingInv, BillingTypes, StripeTypes, Tells
    <3>2. emitted \in Nat /\ high \in 0..emitted /\ processed \in Seq(1..high)
      BY DEF BillingInv, BillingTypes, StripeTypes, HistoryTypes
    <3> QED BY <3>1, <3>2
  <2>3. Said(e)
    <3>1. Current(e) BY <2>1, <2>2
    <3> QED BY <1>8, <2>1, <3>1 DEF AllSaid
  <2>4. e.seq <= high
    <3>1. CASE WasProcessed(e.seq) BY <2>2, <3>1 DEF WasProcessed
    <3>2. CASE \E t \in Slots : job[t].pc \in PastCache /\ job[t].on = e
      <4>1. PICK t \in Slots : job[t].pc \in PastCache /\ job[t].on = e BY <3>2
      <4>2. Knows(job[t]) BY DEF BillingInv, BillingTypes, JobTypes
      <4>3. OnEvent(job[t].on) BY <2>1, <4>1 DEF OnEvent, EventTypes
      <4>4. job[t].pc # "idle" BY <4>1 DEF PastCache
      <4>5. job[t].on.seq <= high BY <4>2, <4>3, <4>4 DEF Knows
      <4> QED BY <4>1, <4>5
    <3> QED BY <2>3, <3>1, <3>2 DEF Said
  <2> QED BY <2>1, <2>2, <2>4 DEF CaughtUp
<1>9. AllSaid \/ OnLatest(r) => Carries(r) BY <1>1 DEF InOrder
<1> QED BY <1>3, <1>4, <1>5, <1>6, <1>7, <1>8, <1>9

\* The handler that comes past its writes with this step.
Newly(j, r) == j.pc \in PastCache /\ j.on.op = "updated" /\ Current(j.on) /\ ~(r.pc \in PastCache /\ r.on = j.on)

\* A step of a handler that leaves Stripe's subscriptions and events.
LEMMA Turns ==
  ASSUME BillingInv, SeatInv, NEW s \in Slots, NEW r, r = job[s], NEW j, job' = [job EXCEPT ![s] = j],
         UNCHANGED <<subs, events, processed>>, high' \in Int, high' >= high, owed' \in BOOLEAN, AnswersCount',
         calm' => calm /\ \A t \in Slots : t # s => job[t].pc = "idle",
         calm' => Handling(j),
         calm' => Aims(j)',
         calm' /\ Sells /\ (AllSaid \/ Newly(j, r)) => Kept' /\ Fits(j)' /\ Carries(j)',
         calm' /\ Sells /\ OnLatest(j) => Carries(j)'
  PROVE  SeatInv'
<1> SUFFICES ASSUME calm' PROVE InOrder' BY DEF SeatInv
<1>1. InOrder BY DEF SeatInv
<1>2. job'[s] = j /\ \A t \in Slots : t # s => job'[t] = job[t] /\ job'[t].pc = "idle"
  BY DEF BillingInv, BillingTypes, JobTypes
<1>3. /\ Bought' = Bought /\ Live' = Live /\ PlanAt(Bought)' = PlanAt(Bought) /\ SubIds' = SubIds
      /\ \A e : Current(e)' <=> Current(e)
  BY DEF Bought, Live, SubIds, PlanAt, Current
<1>4. InStep'
  <2>1. ASSUME CaughtUp PROVE CaughtUp'
    <3>1. \A e \in events : e.seq \in Int
      <4>1. \A e \in events : e.seq \in 1..emitted BY DEF BillingInv, BillingTypes, StripeTypes, Tells
      <4> QED BY <4>1 DEF BillingInv, BillingTypes, StripeTypes
    <3>2. high \in Int BY DEF BillingInv, BillingTypes, HistoryTypes
    <3> QED BY <1>3, <2>1, <3>1, <3>2 DEF CaughtUp
  <2> QED BY <1>1, <1>3, <2>1 DEF InOrder, InStep
<1>5. EventsOnce' /\ NoSeatNoBill' BY <1>1, <1>3 DEF InOrder, EventsOnce, NoSeatNoBill
<1>6. EventsStay' BY <1>2 DEF EventsStay, Handling, WasProcessed
<1>7. \A t \in Slots : Aims(job[t])' BY <1>2 DEF Aims
<1>8. AllSaid' => AllSaid \/ Newly(j, r)
  <2>1. SUFFICES ASSUME AllSaid', NEW e \in events, e.op = "updated", Current(e), ~Said(e) PROVE Newly(j, r)
    BY DEF AllSaid
  <2>2. Said(e)' BY <1>3, <2>1 DEF AllSaid
  <2>3. ~WasProcessed(e.seq)' BY <2>1 DEF Said, WasProcessed
  <2>4. PICK t \in Slots : job'[t].pc \in PastCache /\ job'[t].on = e BY <2>2, <2>3 DEF Said, WasProcessed
  <2>5. t = s BY <1>2, <2>4 DEF PastCache
  <2>6. ~(r.pc \in PastCache /\ r.on = e) BY <2>1 DEF Said
  <2> QED BY <1>2, <2>1, <2>4, <2>5, <2>6 DEF Newly
<1>9. (OnLatest(j)' <=> OnLatest(j)) /\ (Sells' <=> Sells) BY <1>3 DEF OnLatest, Sells
<1>10. ASSUME Sells'
       PROVE  /\ \A t \in Slots : AllSaid' \/ OnLatest(job[t])' => Carries(job[t])'
              /\ AllSaid' => Synced'
  <2>1. AllSaid' => Kept' /\ Fits(j)' /\ Carries(j)' BY <1>8, <1>9, <1>10
  <2>2. AllSaid' => Synced' BY <1>2, <2>1 DEF Synced
  <2>3. AllSaid' \/ OnLatest(j)' => Carries(j)' BY <1>9, <1>10, <2>1
  <2>4. \A t \in Slots : t # s => Carries(job[t])' BY <1>2 DEF Carries
  <2>5. AllSaid' \/ OnLatest(job[s])' => Carries(job[s])' BY <1>2, <2>3
  <2> QED BY <2>2, <2>4, <2>5
<1> QED BY <1>4, <1>5, <1>6, <1>7, <1>10 DEF InOrder

\* The same, of a step that goes on with what the handler is about.
LEMMA Continues ==
  ASSUME BillingInv, SeatInv, NEW s \in Slots, NEW r, r = job[s], r.pc # "idle", NEW j, job' = [job EXCEPT ![s] = j],
         UNCHANGED <<subs, events, memory, processed, high>>, owed' \in BOOLEAN, calm' => calm, j.pc # "idle" => j.on = r.on,
         calm' => Aims(j)',
         calm' /\ Sells /\ (AllSaid \/ Newly(j, r)) => Kept' /\ Fits(j)' /\ Carries(j)',
         calm' /\ Sells /\ OnLatest(j) => Carries(j)'
  PROVE  SeatInv'
<1>1. calm' => calm /\ \A t \in Slots : t # s => job[t].pc = "idle" BY Resumes
<1>2. calm' => Handling(j) BY <1>1, Stands DEF Handling
<1>3. AnswersCount' <=> AnswersCount BY DEF AnswersCount
<1>4. calm' => AnswersCount BY <1>1 DEF SeatInv, InOrder
<1>5. high' \in Int /\ high' >= high BY DEF BillingInv, BillingTypes, HistoryTypes
<1>6. CASE calm' BY <1>1, <1>2, <1>3, <1>4, <1>5, <1>6, Turns
<1>7. CASE ~calm' BY <1>7 DEF SeatInv
<1> QED BY <1>6, <1>7

\* A step past the writes, after which nothing more has been said.
LEMMA Finishes ==
  ASSUME BillingInv, SeatInv, NEW s \in Slots, NEW r, r = job[s], r.pc \in PastCache, NEW j, job' = [job EXCEPT ![s] = j],
         UNCHANGED <<subs, events, memory, processed, high>>, owed' \in BOOLEAN, calm' => calm, j.pc # "idle" => j.on = r.on,
         j.pc \in PastCache \cup {"idle"}, calm' => Aims(j)',
         calm' /\ Sells /\ AllSaid => Kept' /\ Fits(j)' /\ Carries(j)'
  PROVE  SeatInv'
<1>1. r.pc # "idle" BY DEF PastCache
<1>2. ~Newly(j, r) BY DEF Newly, PastCache
<1>3. OnLatest(j) => j.pc = "idle" BY DEF OnLatest
<1>4. j.pc = "idle" => Carries(j)' BY DEF Carries
<1> QED BY <1>1, <1>2, <1>3, <1>4, Continues

LEMMA ReadOrgCounts == ASSUME BillingInv, SeatInv, NEW s \in Slots, ReadOrg(s) PROVE SeatInv'
<1>1. PICK r : r = job[s] OBVIOUS
<1>2. r.pc = "apply" BY <1>1 DEF ReadOrg, At
<1>3. PICK plan : plan = PlanOf(r.snap, r.forced) OBVIOUS
<1>4. PICK next : next = [plan |-> plan, sub |-> IF plan = "free" THEN NoSub ELSE r.sub] OBVIOUS
<1>5. PICK j : j = [pc |-> "org", on |-> r.on, snap |-> r.snap, next |-> next, changed |-> next # org] OBVIOUS
<1>6. /\ job' = [job EXCEPT ![s] = j] /\ UNCHANGED <<org, cache, roll, processed, high, owed, calm>>
      /\ UNCHANGED <<subs, events, memory>>
  BY <1>1, <1>3, <1>4, <1>5 DEF ReadOrg, Goto, history, stripe
<1>7. j.pc = "org" /\ j.on = r.on /\ j.snap = r.snap /\ j.next = next BY <1>5
<1>8. (OnLatest(j) <=> OnLatest(r)) /\ ~Newly(j, r) BY <1>2, <1>7 DEF OnLatest, Newly, PastCache
<1>9. calm => \A t \in Slots : t # s => job[t].pc = "idle" BY <1>1, <1>2, Resumes
<1>10. Knows(r) /\ org.plan \in Plans BY <1>1, <1>2, Resumes DEF BillingInv, BillingTypes, OrgTypes
<1>11. ASSUME calm, Sells, Carries(r) PROVE Carries(j)'
  <2>1. r.sub = Bought /\ Seen(r) /\ (r.forced = "business" \/ (r.forced = None /\ r.snap = subs[Bought]))
    BY <1>2, <1>11 DEF Carries
  <2>2. subs[Bought].status = "active" /\ subs[Bought].bases # <<>> /\ subs[Bought] \in Sub BY <1>1, <1>9, <1>11, Stands
  <2>3. r.snap \in Sub /\ r.forced \in Plans \cup {None} BY <1>2, <1>10 DEF Knows
  <2>4. plan = "business"
    <3>1. CASE r.forced = "business"
      <4>1. r.forced # None BY <3>1, NoneIsNothing DEF Plans, PaidPlans
      <4> QED BY <1>3, <1>10, <2>3, <3>1, <4>1, PlanIs
    <3>2. CASE r.forced = None /\ r.snap = subs[Bought]
      <4>1. PlanAt(Bought) = "business" BY <1>11 DEF Sells
      <4> QED BY <1>3, <1>10, <2>2, <2>3, <3>2, <4>1, PlanIs DEF PlanAt
    <3> QED BY <2>1, <3>1, <3>2
  <2>5. next = Right BY <1>4, <2>1, <2>4 DEF Right
  <2>6. Seen(j)' BY <1>6, <1>7, <1>8, <2>1 DEF Seen, OnLatest, Current, Bought, PlanAt
  <2>7. Right' = Right BY <1>6 DEF Right, Bought
  <2> QED BY <1>7, <2>5, <2>6, <2>7 DEF Carries
<1>12. ASSUME Kept, Fits(r) PROVE Kept' /\ Fits(j)'
  <2>1. Kept' BY <1>6, <1>12 DEF Kept, Right, Bought
  <2>2. Overage' = Overage BY <1>6 DEF Overage
  <2>3. (Reckoning(r) <=> Reckoning(j)) /\ ~Counting(r) BY <1>2, <1>7 DEF Reckoning, Counting, Seats
  <2> QED BY <1>6, <1>12, <2>1, <2>2, <2>3 DEF Fits, Bought, Reckoning, Seats
<1>13. Aims(j)' BY <1>7 DEF Aims
<1>14. calm /\ Sells => /\ AllSaid => Kept /\ Fits(r)
                        /\ AllSaid \/ OnLatest(r) => Carries(r)
  BY <1>1, <1>9, Stands
<1>15. owed' \in BOOLEAN BY <1>6 DEF SeatInv
<1>16. calm' /\ Sells /\ (AllSaid \/ Newly(j, r)) => Kept' /\ Fits(j)' /\ Carries(j)' BY <1>6, <1>8, <1>11, <1>12, <1>14
<1>17. calm' /\ Sells /\ OnLatest(j) => Carries(j)' BY <1>6, <1>8, <1>11, <1>14
<1> QED BY <1>1, <1>2, <1>6, <1>7, <1>13, <1>15, <1>16, <1>17, Continues

LEMMA WriteOrgCounts == ASSUME BillingInv, SeatInv, NEW s \in Slots, WriteOrg(s) PROVE SeatInv'
<1>1. PICK r : r = job[s] OBVIOUS
<1>2. r.pc = "org" BY <1>1 DEF WriteOrg, At
<1>3. PICK j : j = [pc |-> "cache", on |-> r.on, snap |-> r.snap, plan |-> r.next.plan] OBVIOUS
<1>4. /\ job' = [job EXCEPT ![s] = j] /\ UNCHANGED <<cache, roll, processed, high, owed, calm>>
      /\ UNCHANGED <<subs, events, memory>> /\ org' = IF r.changed THEN r.next ELSE org
  BY <1>1, <1>3 DEF WriteOrg, Goto, history, stripe
<1>5. j.pc = "cache" /\ j.on = r.on /\ j.snap = r.snap /\ j.plan = r.next.plan BY <1>3
<1>6. (OnLatest(j) <=> OnLatest(r)) /\ ~Newly(j, r) BY <1>2, <1>5 DEF OnLatest, Newly, PastCache
<1>7. Knows(r) /\ (calm => \A t \in Slots : t # s => job[t].pc = "idle") BY <1>1, <1>2, Resumes
<1>8. calm => org' = r.next
  <2>1. calm => (r.changed <=> r.next # org) BY <1>2, <1>7 DEF Knows
  <2> QED BY <1>4, <2>1
<1>9. ASSUME calm, Carries(r) PROVE org' = Right /\ Carries(j)'
  <2>1. Seen(r) /\ r.next = Right BY <1>2, <1>9 DEF Carries
  <2>2. Seen(j)' BY <1>4, <1>5, <1>6, <2>1 DEF Seen, OnLatest, Current, Bought, PlanAt
  <2>3. Right' = Right /\ Right.plan = "business" BY <1>4 DEF Right, Bought
  <2> QED BY <1>5, <1>8, <1>9, <2>1, <2>2, <2>3 DEF Carries
<1>10. ASSUME Kept, Fits(r), org' = Right PROVE Kept' /\ Fits(j)'
  <2>1. Kept' BY <1>4, <1>10 DEF Kept, Right, Bought
  <2>2. Overage' = Overage BY <1>4 DEF Overage
  <2>3. (Reckoning(r) <=> Reckoning(j)) /\ ~Counting(r) BY <1>2, <1>5 DEF Reckoning, Counting, Seats
  <2> QED BY <1>4, <1>10, <2>1, <2>2, <2>3 DEF Fits, Bought, Reckoning, Seats
<1>11. Aims(j)' BY <1>5 DEF Aims
<1>12. calm /\ Sells => /\ AllSaid => Kept /\ Fits(r)
                        /\ AllSaid \/ OnLatest(r) => Carries(r)
  BY <1>1, <1>7, Stands
<1>13. owed' \in BOOLEAN BY <1>4 DEF SeatInv
<1>14. calm' /\ Sells /\ (AllSaid \/ Newly(j, r)) => Kept' /\ Fits(j)' /\ Carries(j)' BY <1>4, <1>6, <1>9, <1>10, <1>12
<1>15. calm' /\ Sells /\ OnLatest(j) => Carries(j)' BY <1>4, <1>6, <1>9, <1>12
<1> QED BY <1>1, <1>2, <1>4, <1>5, <1>11, <1>13, <1>14, <1>15, Continues

\* What an item merged in becomes.
LEMMA MergedIs ==
  ASSUME cache \in {None} \cup CacheRow, NEW patch, patch.seat \in Nat
  PROVE  /\ Merge(patch).qty = patch.qty
         /\ patch.seat # NoItem => Merge(patch).seat = patch.seat
         /\ patch.seat = NoItem /\ cache # None => Merge(patch).seat = cache.seat
BY DEF Merge, ReadBillingState

LEMMA WriteCacheCounts == ASSUME BillingInv, SeatInv, NEW s \in Slots, WriteCache(s) PROVE SeatInv'
<1>1. PICK r : r = job[s] OBVIOUS
<1>2. r.pc = "cache" BY <1>1 DEF WriteCache, At
<1>3. PICK j : j = AfterApply(r.on, r.plan) OBVIOUS
<1>4. /\ job' = [job EXCEPT ![s] = j] /\ UNCHANGED <<org, roll, processed, high, owed, calm>>
      /\ UNCHANGED <<subs, events, memory>> /\ cache' = Cached(r.snap, r.plan)
  BY <1>1, <1>3 DEF WriteCache, Goto, history, stripe
<1>5. /\ j.pc \in {"idle", "mark", "seats"} /\ (j.pc # "idle" => j.on = r.on)
      /\ r.on.op = "updated" /\ r.plan = "business" => j.pc = "seats"
      /\ j.pc = "seats" => r.on.op = "updated"
  BY <1>3 DEF AfterApply, Ended, Idle
<1>6. Knows(r) /\ (calm => \A t \in Slots : t # s => job[t].pc = "idle") BY <1>1, <1>2, Resumes
<1>7. Newly(j, r) => OnLatest(r) /\ r.on.op = "updated" BY <1>2, <1>5 DEF OnLatest, Newly, PastCache
<1>8. Carries(j)' /\ Aims(j)' BY <1>5 DEF Carries, Aims
<1>9. calm /\ Sells => /\ AllSaid => Kept /\ Fits(r)
                       /\ AllSaid \/ OnLatest(r) => Carries(r)
                       /\ subs[Bought] \in Sub /\ (subs[Bought].seat = NoItem => subs[Bought].qty = 0)
  BY <1>1, <1>6, Stands
<1>10. ASSUME calm, Sells, Carries(r), AllSaid \/ OnLatest(r)
       PROVE  Kept' /\ cache'.qty \in {None, subs[Bought].qty}
  <2>1. Seen(r) /\ r.plan = "business" /\ org = Right BY <1>2, <1>10 DEF Carries
  <2>2. r.snap \in Sub /\ cache \in {None} \cup CacheRow
    BY <1>2, <1>6 DEF Knows, BillingInv, BillingTypes, OrgTypes
  <2>3. PICK shape : shape = SubscriptionShape(r.snap) OBVIOUS
  <2>4. cache' = Merge(shape) /\ cache' # None BY <1>4, <2>1, <2>2, <2>3, CachedIs DEF Cached
  <2>5. shape.seat = r.snap.seat /\ shape.seat \in Nat /\ shape.qty = IF r.snap.seat = NoItem THEN None ELSE r.snap.qty
    BY <2>2, <2>3 DEF SubscriptionShape, Sub
  <2>6. cache'.qty \in {None, subs[Bought].qty}
    <3>1. cache'.qty = shape.qty BY <2>2, <2>4, <2>5, MergedIs
    <3> QED BY <2>1, <2>5, <3>1 DEF Seen
  <2>7. subs[Bought].seat # NoItem => cache'.seat # NoItem
    <3>1. CASE r.snap = subs[Bought] BY <2>2, <2>4, <2>5, <3>1, MergedIs
    <3>2. CASE r.snap.seat = NoItem /\ ~OnLatest(r)
      <4>1. Kept BY <1>9, <1>10, <3>2
      <4>2. cache'.seat = cache.seat BY <2>2, <2>4, <2>5, <3>2, <4>1, MergedIs DEF Kept
      <4> QED BY <4>1, <4>2 DEF Kept
    <3> QED BY <2>1, <3>1, <3>2 DEF Seen
  <2>8. org' = Right' BY <1>4, <2>1 DEF Right, Bought
  <2> QED BY <1>4, <2>4, <2>6, <2>7, <2>8 DEF Kept, Bought
<1>11. ASSUME calm, Sells, AllSaid \/ Newly(j, r) PROVE Kept' /\ Fits(j)'
  <2>1. Carries(r) /\ (AllSaid \/ OnLatest(r)) BY <1>7, <1>9, <1>11
  <2>2. Kept' /\ cache'.qty \in {None, subs[Bought].qty} BY <1>10, <1>11, <2>1
  <2>3. Overage' = Overage /\ subs'[Bought'] = subs[Bought] BY <1>4 DEF Overage, Bought
  <2>4. owed \/ subs[Bought].qty = Overage \/ Counting(j)
    <3>1. CASE AllSaid
      <4>1. Fits(r) /\ ~Counting(r) BY <1>2, <1>9, <1>11, <3>1 DEF Counting
      <4> QED BY <4>1 DEF Fits
    <3>2. CASE Newly(j, r)
      <4>1. r.plan = "business" BY <1>2, <2>1 DEF Carries
      <4>2. j.pc = "seats" /\ j.on.op = "updated" BY <1>5, <1>7, <3>2, <4>1
      <4> QED BY <4>2 DEF Counting, Seats
    <3> QED BY <1>11, <3>1, <3>2
  <2>5. Counting(j)' <=> Counting(j) BY DEF Counting, Seats
  <2> QED BY <1>4, <2>2, <2>3, <2>4, <2>5 DEF Fits
<1>12. owed' \in BOOLEAN BY <1>4 DEF SeatInv
<1>13. calm' /\ Sells /\ (AllSaid \/ Newly(j, r)) => Kept' /\ Fits(j)' /\ Carries(j)' BY <1>4, <1>8, <1>11
<1>14. calm' /\ Sells /\ OnLatest(j) => Carries(j)' BY <1>8
<1> QED BY <1>1, <1>2, <1>4, <1>5, <1>8, <1>12, <1>13, <1>14, Continues

LEMMA SyncSeatsCounts == ASSUME BillingInv, SeatInv, NEW s \in Slots, SyncSeats(s) PROVE SeatInv'
<1>1. PICK r : r = job[s] OBVIOUS
<1>2. r.pc = "seats" /\ r.pc \in PastCache BY <1>1 DEF SyncSeats, At, PastCache
<1>3. PICK state, quantity : state = ReadBillingState /\ quantity = SeatOverage(org.plan, roll.humans) OBVIOUS
<1>4. PICK billed : billed = (org.plan = "business" /\ org.sub # NoSub) OBVIOUS
<1>5. PICK unchanged : unchanged = (state.qty = quantity /\ (quantity = 0 \/ state.seat # NoItem)) OBVIOUS
<1>6. PICK nothing : nothing = (state.seat = NoItem /\ quantity = 0) OBVIOUS
<1>7. PICK seat : seat = [id |-> state.seat, qty |-> quantity, deleted |-> FALSE] OBVIOUS
<1>8. PICK change : change = [sub |-> org.sub, base |-> None, seat |-> seat] OBVIOUS
<1>9. PICK post : post = [pc |-> "post", on |-> r.on, key |-> <<"seats", org.sub, "business", quantity>>, change |-> change] OBVIOUS
<1>10. PICK j : j = IF ~billed \/ unchanged \/ nothing THEN Ended(r.on) ELSE post OBVIOUS
<1>11. /\ job' = [job EXCEPT ![s] = j] /\ UNCHANGED <<org, roll, processed, high, owed, calm>>
       /\ UNCHANGED <<subs, events, memory>>
       /\ cache' = IF billed /\ ~unchanged /\ nothing THEN [state EXCEPT !.qty = 0] ELSE cache
  BY <1>1, <1>3, <1>4, <1>5, <1>6, <1>7, <1>8, <1>9, <1>10 DEF SyncSeats, Goto, history, stripe
<1>12. Knows(r) /\ (calm => \A t \in Slots : t # s => job[t].pc = "idle") BY <1>1, <1>2, Resumes DEF PastCache
<1>13. /\ cache \in {None} \cup CacheRow /\ roll.humans \in Nat /\ quantity \in Nat
       /\ state \in CacheRow
  <2>1. cache \in {None} \cup CacheRow /\ roll.humans \in Nat BY DEF BillingInv, BillingTypes, OrgTypes
  <2>2. state \in CacheRow BY <1>3, <2>1 DEF ReadBillingState, Empty, CacheRow, NoItem
  <2> QED BY <1>3, <2>1, <2>2, OverageIs
<1>14. seat \in SeatChange BY <1>7, <1>13 DEF SeatChange, CacheRow
<1>15. seat # None /\ seat.deleted = FALSE /\ seat.qty = quantity BY <1>7, <1>14, NoneIsNothing DEF SeatChange
<1>16. Ended(r.on).pc \in {"idle", "mark"} /\ (Ended(r.on).pc = "mark" => Ended(r.on).on = r.on) BY DEF Ended, Idle
<1>17. post.pc = "post" /\ post.on = r.on /\ post.change.seat = seat /\ post.change.sub = org.sub BY <1>8, <1>9
<1>18. j.pc \in {"idle", "mark", "post"} /\ (j.pc # "idle" => j.on = r.on) /\ (j.pc = "post" => j = post /\ billed)
  BY <1>10, <1>16, <1>17
<1>19. Aims(j)'
  <2>1. CASE j.pc # "post" BY <2>1 DEF Aims
  <2>2. CASE j.pc = "post"
    <3>1. quantity = Overage /\ Overage' = Overage BY <1>3, <1>4, <1>11, <1>18, <2>2 DEF Overage
    <3> QED BY <1>15, <1>17, <1>18, <2>2, <3>1 DEF Aims
  <2> QED BY <2>1, <2>2
<1>20. ASSUME calm, Sells, AllSaid PROVE Kept' /\ Fits(j)' /\ Carries(j)'
  <2>1. Kept /\ Fits(r) /\ (subs[Bought].seat = NoItem => subs[Bought].qty = 0) /\ Bought # NoSub
    BY <1>1, <1>12, <1>20, Stands
  <2>2. org = Right /\ org.plan = "business" /\ org.sub = Bought BY <2>1 DEF Kept, Right
  <2>3. billed /\ quantity = Overage BY <1>3, <1>4, <2>1, <2>2 DEF Overage
  <2>4. state = cache /\ cache \in CacheRow BY <1>3, <1>13, <2>1 DEF Kept, ReadBillingState
  <2>5. owed \/ cache.qty \in {None, subs[Bought].qty} BY <1>2, <2>1 DEF Fits, Reckoning
  <2>6. Bought' = Bought /\ subs'[Bought'] = subs[Bought] /\ Overage' = Overage /\ Right' = Right
    BY <1>11 DEF Bought, Overage, Right
  <2>7. CASE unchanged
    <3>1. cache' = cache /\ cache.qty = quantity BY <1>5, <1>11, <2>4, <2>7
    <3>2. quantity # None BY <1>13, NoneIsNothing
    <3>3. owed \/ subs[Bought].qty = Overage BY <2>3, <2>5, <3>1, <3>2
    <3>4. Kept' BY <1>11, <2>1, <2>6, <3>1 DEF Kept
    <3>5. j.pc \in {"idle", "mark"} BY <1>10, <1>16, <2>7
    <3> QED BY <1>11, <2>5, <2>6, <3>1, <3>3, <3>4, <3>5 DEF Fits, Carries
  <2>8. CASE ~unchanged /\ nothing
    <3>1. PICK row : row = [cache EXCEPT !.qty = 0] OBVIOUS
    <3>2. cache' = row BY <1>11, <2>3, <2>4, <2>8, <3>1
    <3>3. row \in CacheRow /\ row.qty = 0 /\ row.seat = cache.seat BY <2>4, <3>1 DEF CacheRow
    <3>4. cache.seat = NoItem /\ quantity = 0 BY <1>6, <2>4, <2>8
    <3>5. subs[Bought].seat = NoItem /\ subs[Bought].qty = 0 BY <2>1, <3>4 DEF Kept
    <3>6. Kept' BY <1>11, <2>1, <2>6, <3>2, <3>3, <3>5, NoneIsNothing DEF Kept
    <3>7. j.pc \in {"idle", "mark"} BY <1>10, <1>16, <2>8
    <3> QED BY <1>11, <2>3, <2>6, <3>2, <3>3, <3>4, <3>5, <3>6, <3>7 DEF Fits, Carries
  <2>9. CASE ~unchanged /\ ~nothing
    <3>1. cache' = cache /\ j = post BY <1>10, <1>11, <2>3, <2>9
    <3>2. Kept' BY <1>11, <2>1, <2>6, <3>1 DEF Kept
    <3>3. owed \/ subs[Bought].qty = Overage \/ Counting(j)
      <4>1. Counting(r) => Counting(j) BY <1>17, <3>1 DEF Counting, Seats
      <4> QED BY <2>1, <4>1 DEF Fits
    <3>4. Counting(j)' <=> Counting(j) BY DEF Counting, Seats
    <3>5. Fits(j)' BY <1>11, <2>5, <2>6, <3>1, <3>3, <3>4 DEF Fits
    <3>6. Carries(j)' BY <1>17, <2>2, <2>6, <3>1 DEF Carries
    <3> QED BY <3>2, <3>5, <3>6
  <2> QED BY <2>7, <2>8, <2>9
<1>21. owed' \in BOOLEAN BY <1>11 DEF SeatInv
<1>22. j.pc \in PastCache \cup {"idle"} BY <1>18 DEF PastCache
<1>23. calm' /\ Sells /\ AllSaid => Kept' /\ Fits(j)' /\ Carries(j)' BY <1>11, <1>20
<1> QED BY <1>1, <1>2, <1>11, <1>18, <1>19, <1>21, <1>22, <1>23, Finishes

LEMMA StoreSeatsCounts == ASSUME BillingInv, SeatInv, NEW s \in Slots, StoreSeats(s) PROVE SeatInv'
<1>1. PICK r : r = job[s] OBVIOUS
<1>2. r.pc = "store" /\ r.pc \in PastCache /\ r.pc # "idle" BY <1>1 DEF StoreSeats, At, PastCache
<1>3. PICK shape : shape = SubscriptionShape(r.snap) OBVIOUS
<1>4. PICK patch : patch = [shape EXCEPT !.interval = ReadBillingState.interval, !.qty = IF @ = None THEN r.qty ELSE @] OBVIOUS
<1>5. PICK j : j = Ended(r.on) OBVIOUS
<1>6. /\ job' = [job EXCEPT ![s] = j] /\ UNCHANGED <<org, roll, processed, high, owed, calm>>
      /\ UNCHANGED <<subs, events, memory>> /\ cache' = Merge(patch)
  BY <1>1, <1>3, <1>4, <1>5 DEF StoreSeats, Goto, history, stripe
<1>7. Knows(r) /\ (calm => \A t \in Slots : t # s => job[t].pc = "idle") BY <1>1, <1>2, Resumes
<1>8. r.snap \in Sub /\ r.qty \in Nat /\ cache \in {None} \cup CacheRow
  BY <1>2, <1>7 DEF Knows, BillingInv, BillingTypes, OrgTypes
<1>9. /\ shape = [interval |-> shape.interval, plan |-> shape.plan, base |-> shape.base, seat |-> shape.seat, qty |-> shape.qty]
      /\ shape.base \in Nat /\ shape.seat \in Nat /\ shape.qty \in Nat \cup {None}
  BY <1>3, <1>8, ShapeIs
<1>10. shape.qty = IF r.snap.seat = NoItem THEN None ELSE r.snap.qty BY <1>3 DEF SubscriptionShape
<1>11. PICK interval, qty : interval = ReadBillingState.interval /\ qty = IF shape.qty = None THEN r.qty ELSE shape.qty OBVIOUS
<1>12. patch = [interval |-> interval, plan |-> shape.plan, base |-> shape.base, seat |-> shape.seat, qty |-> qty]
  BY <1>4, <1>9, <1>11
<1>13. interval \in {"month", None}
  <2>1. ReadBillingState \in CacheRow BY <1>8 DEF ReadBillingState, Empty, CacheRow, NoItem
  <2> QED BY <1>11, <2>1 DEF CacheRow
<1>14. patch.interval \in {"month", None} /\ patch.base \in Nat /\ patch.seat \in Nat /\ patch.qty \in Nat \cup {None} /\ patch.qty = qty
  BY <1>8, <1>9, <1>11, <1>12, <1>13
<1>15. cache' # None
  <2>1. Merge(patch) \in CacheRow BY <1>8, <1>14, MergeIs
  <2> QED BY <1>6, <2>1, NoneIsNothing
<1>16. /\ cache'.qty = qty
       /\ cache # None /\ cache.seat # NoItem => cache'.seat # NoItem
  BY <1>6, <1>8, <1>14, MergedIs
<1>17. j.pc \in {"idle", "mark"} /\ (j.pc # "idle" => j.on = r.on) BY <1>5 DEF Ended, Idle
<1>18. Aims(j)' /\ Carries(j)' BY <1>17 DEF Aims, Carries
<1>19. ASSUME calm, Sells, AllSaid PROVE Kept' /\ Fits(j)'
  <2>1. Kept /\ Fits(r) /\ Carries(r) BY <1>1, <1>7, <1>19, Stands
  <2>2. Bought' = Bought /\ subs'[Bought'] = subs[Bought] /\ Overage' = Overage /\ Right' = Right
    BY <1>6 DEF Bought, Overage, Right
  <2>3. Kept' BY <1>6, <1>15, <1>16, <2>1, <2>2 DEF Kept
  <2>4. owed \/ subs[Bought].qty = Overage BY <1>2, <2>1 DEF Fits, Counting
  <2>5. owed \/ (r.snap = subs[Bought] /\ r.qty = subs[Bought].qty) BY <1>2, <2>1 DEF Carries
  <2>6. owed \/ cache'.qty = subs[Bought].qty
    <3>1. CASE r.snap = subs[Bought] /\ r.qty = subs[Bought].qty
      <4>1. shape.qty # None => shape.qty = subs[Bought].qty BY <1>10, <3>1
      <4> QED BY <1>11, <1>16, <3>1, <4>1
    <3> QED BY <2>5, <3>1
  <2> QED BY <1>6, <2>2, <2>3, <2>4, <2>6 DEF Fits
<1>20. owed' \in BOOLEAN BY <1>6 DEF SeatInv
<1>21. j.pc \in PastCache \cup {"idle"} BY <1>17 DEF PastCache
<1>22. calm' /\ Sells /\ AllSaid => Kept' /\ Fits(j)' /\ Carries(j)' BY <1>6, <1>18, <1>19
<1> QED BY <1>1, <1>2, <1>6, <1>17, <1>18, <1>20, <1>21, <1>22, Finishes

\* A handler that gives up on the seats.
LEMMA GivesUp ==
  ASSUME BillingInv, SeatInv, NEW s \in Slots, NEW r, r = job[s], r.pc \in PastCache, Goto(s, Ended(r.on)),
         UNCHANGED <<subs, events, memory, processed, high, org, cache, roll, calm>>, owed' \in BOOLEAN, owed => owed',
         owed' \/ ~(Reckoning(r) \/ Counting(r))
  PROVE  SeatInv'
<1>1. PICK j : j = Ended(r.on) OBVIOUS
<1>2. job' = [job EXCEPT ![s] = j] BY <1>1 DEF Goto
<1>3. j.pc \in {"idle", "mark"} /\ (j.pc # "idle" => j.on = r.on) BY <1>1 DEF Ended, Idle
<1>4. Aims(j)' /\ Carries(j)' BY <1>3 DEF Aims, Carries
<1>5. calm => \A t \in Slots : t # s => job[t].pc = "idle" BY Resumes DEF PastCache
<1>6. ASSUME calm, Sells, AllSaid PROVE Kept' /\ Fits(j)'
  <2>1. Kept /\ Fits(r) BY <1>5, <1>6, Stands
  <2>2. Bought' = Bought /\ subs'[Bought'] = subs[Bought] /\ Overage' = Overage /\ Right' = Right BY DEF Bought, Overage, Right
  <2>3. Kept' BY <2>1, <2>2 DEF Kept
  <2> QED BY <2>1, <2>2, <2>3 DEF Fits
<1>7. j.pc \in PastCache \cup {"idle"} BY <1>3 DEF PastCache
<1>8. calm' /\ Sells /\ AllSaid => Kept' /\ Fits(j)' /\ Carries(j)' BY <1>4, <1>6
<1> QED BY <1>2, <1>3, <1>4, <1>7, <1>8, Finishes

LEMMA PostRefusedCounts == ASSUME BillingInv, SeatInv, NEW s \in Slots, PostRefused(s) PROVE SeatInv'
<1>1. PICK r : r = job[s] OBVIOUS
<1>2. r.pc = "post" /\ r.pc \in PastCache BY <1>1 DEF PostRefused, At, PastCache
<1>3. /\ Goto(s, Ended(r.on)) /\ UNCHANGED <<subs, events, memory, processed, high, org, cache, roll, calm>>
      /\ owed' = (owed \/ Seats(r))
  BY <1>1 DEF PostRefused, stripe
<1>4. ~Reckoning(r) /\ (Counting(r) => Seats(r)) BY <1>2 DEF Reckoning, Counting
<1>5. owed' \in BOOLEAN /\ (owed => owed') BY <1>3
<1> QED BY <1>1, <1>2, <1>3, <1>4, <1>5, GivesUp

LEMMA FailSeatsCounts == ASSUME BillingInv, SeatInv, NEW s \in Slots, FailSeats(s) PROVE SeatInv'
<1>1. PICK r : r = job[s] OBVIOUS
<1>2. r.pc \in PastCache BY <1>1 DEF FailSeats, At, PastCache
<1>3. Goto(s, Ended(r.on)) /\ UNCHANGED <<subs, events, memory, processed, high, org, cache, roll, calm>> /\ owed' = TRUE
  BY <1>1 DEF FailSeats, stripe
<1> QED BY <1>1, <1>2, <1>3, GivesUp

LEMMA PostRecalledCounts == ASSUME BillingInv, SeatInv, NEW s \in Slots, PostRecalled(s) PROVE SeatInv'
<1>1. PICK r : r = job[s] OBVIOUS
<1>2. r.pc = "post" /\ r.pc # "idle" BY <1>1 DEF PostRecalled, At
<1>3. PICK m \in Remembered(r.key) :
        /\ Recall(r.key, r.change, m.answer)
        /\ Goto(s, Answered(r, m.answer))
        /\ owed' = (owed \/ m.answer # subs[r.change.sub])
        /\ calm' = (calm /\ (m.answer # subs[r.change.sub] => Seats(r)))
  BY <1>1 DEF PostRecalled
<1>4. PICK answer, change, j : answer = m.answer /\ change = r.change /\ j = Answered(r, answer) OBVIOUS
<1>5. /\ job' = [job EXCEPT ![s] = j] /\ UNCHANGED <<org, cache, roll, processed, high>>
      /\ UNCHANGED <<subs, events, memory>>
  BY <1>3, <1>4 DEF Goto, Recall, stripe, PostRecalled
<1>6. PICK told : told = [key |-> r.key, change |-> change, answer |-> answer] OBVIOUS
<1>7. told \in memory /\ told.change = change /\ told.answer = answer BY <1>3, <1>4, <1>6 DEF Recall
<1>8. Knows(r) /\ (calm => \A t \in Slots : t # s => job[t].pc = "idle") BY <1>1, <1>2, Resumes
<1>9. calm' => calm BY <1>3
<1>10. owed' \in BOOLEAN /\ (owed => owed') BY <1>3
<1>11. calm => Aims(r) /\ AnswersCount BY <1>1, <1>8, Stands DEF SeatInv, InOrder
<1>12. /\ j.on = r.on /\ (j.pc = "store" \/ j.pc = "apply")
       /\ Seats(r) => j.pc = "store" /\ j.snap = answer /\ j.qty = change.seat.qty
       /\ ~Seats(r) => j.pc = "apply" /\ j.sub = change.sub /\ j.snap = answer /\ j.forced = None
  BY <1>4 DEF Answered, Applying
<1>13. ~Newly(j, r) /\ (OnLatest(j) => Seats(r) /\ j.pc \notin PastCache)
  BY <1>2, <1>12 DEF Newly, OnLatest, PastCache, Seats
<1>14. ~OnLatest(j) BY <1>12, <1>13 DEF PastCache
<1>15. Aims(j)' BY <1>12 DEF Aims
<1>16. ASSUME calm', Sells, AllSaid PROVE Kept' /\ Fits(j)' /\ Carries(j)'
  <2>1. Kept /\ Fits(r) /\ Carries(r) BY <1>1, <1>8, <1>9, <1>16, Stands
  <2>2. Bought' = Bought /\ subs'[Bought'] = subs[Bought] /\ Overage' = Overage /\ Right' = Right
    BY <1>5 DEF Bought, Overage, Right
  <2>3. Kept' BY <1>5, <2>1, <2>2 DEF Kept
  <2>4. change.sub = Bought BY <1>2, <1>4, <2>1 DEF Carries
  <2>5. owed' \/ answer = subs[Bought] BY <1>3, <1>4, <2>4
  <2>6. Reckoning(j) /\ (Reckoning(j)' <=> Reckoning(j)) BY <1>12 DEF Reckoning, Seats
  <2>7. CASE Seats(r)
    <3>1. change.seat # None /\ change.seat.qty = Overage BY <1>2, <1>4, <1>9, <1>11, <1>16, <2>7 DEF Aims
    <3>2. answer.qty = change.seat.qty BY <1>7, <1>9, <1>11, <1>16, <3>1 DEF AnswersCount
    <3>3. owed' \/ subs[Bought].qty = Overage BY <2>5, <3>1, <3>2
    <3>4. Fits(j)' BY <2>2, <2>6, <3>3 DEF Fits
    <3>5. Carries(j)' BY <1>12, <2>2, <2>5, <2>7, <3>2 DEF Carries
    <3> QED BY <2>3, <3>4, <3>5
  <2>8. CASE ~Seats(r)
    <3>1. answer = subs[Bought] BY <1>3, <1>4, <1>16, <2>4, <2>8
    <3>2. owed \/ subs[Bought].qty = Overage BY <2>1, <2>8 DEF Fits, Counting
    <3>3. Fits(j)' BY <1>10, <2>2, <2>6, <3>2 DEF Fits
    <3>4. Carries(j)' BY <1>12, <2>2, <2>4, <2>8, <3>1 DEF Carries, Seen
    <3> QED BY <2>3, <3>3, <3>4
  <2> QED BY <2>7, <2>8
<1>17. calm' /\ Sells /\ (AllSaid \/ Newly(j, r)) => Kept' /\ Fits(j)' /\ Carries(j)' BY <1>13, <1>16
<1> QED BY <1>1, <1>2, <1>5, <1>9, <1>10, <1>12, <1>14, <1>15, <1>17, Continues

LEMMA InsertMemberCounts == ASSUME BillingInv, SeatInv, NEW s \in Slots, InsertMember(s) PROVE SeatInv'
<1>1. PICK r : r = job[s] OBVIOUS
<1>2. r.pc = "insert" /\ r.pc # "idle" BY <1>1 DEF InsertMember, At
<1>3. PICK j : j = IF r.on.op = "sso" THEN Idle ELSE [pc |-> "seats", on |-> r.on] OBVIOUS
<1>4. /\ job' = [job EXCEPT ![s] = j] /\ UNCHANGED <<org, cache, processed, high, calm>>
      /\ UNCHANGED <<subs, events, memory>> /\ owed' = (owed \/ r.on.op = "sso")
  BY <1>1, <1>3 DEF InsertMember, Goto, stripe
<1>5. Knows(r) /\ (calm => \A t \in Slots : t # s => job[t].pc = "idle") BY <1>1, <1>2, Resumes
<1>6. r.on.op \in {"invite", "sso", "agent"} BY <1>2, <1>5 DEF Knows
<1>7. /\ j.pc \in {"idle", "seats"} /\ (j.pc # "idle" => j.on = r.on)
      /\ j.pc = "idle" => r.on.op = "sso"
  BY <1>3 DEF Idle
<1>8. ~Newly(j, r) /\ (OnLatest(j) => j.pc = "idle") BY <1>6, <1>7 DEF Newly, OnLatest, PastCache
<1>9. Aims(j)' /\ Carries(j)' BY <1>7 DEF Aims, Carries
<1>10. ASSUME calm, Sells, AllSaid PROVE Kept' /\ Fits(j)'
  <2>1. Kept /\ Fits(r) BY <1>1, <1>5, <1>10, Stands
  <2>2. Bought' = Bought /\ subs'[Bought'] = subs[Bought] /\ Right' = Right BY <1>4 DEF Bought, Right
  <2>3. Kept' BY <1>4, <2>1, <2>2 DEF Kept
  <2>4. owed \/ cache.qty \in {None, subs[Bought].qty} BY <1>2, <2>1 DEF Fits, Reckoning
  <2>5. owed' \/ Counting(j)' BY <1>4, <1>6, <1>7 DEF Counting, Seats
  <2> QED BY <1>4, <2>2, <2>3, <2>4, <2>5 DEF Fits
<1>11. owed' \in BOOLEAN BY <1>4
<1>12. calm' /\ Sells /\ (AllSaid \/ Newly(j, r)) => Kept' /\ Fits(j)' /\ Carries(j)' BY <1>4, <1>8, <1>9, <1>10
<1> QED BY <1>1, <1>2, <1>4, <1>7, <1>9, <1>11, <1>12, Continues

\* A completed checkout, once all is said, is that of the subscription.
LEMMA CheckoutIs ==
  ASSUME BillingInv, SeatInv, calm, Sells, AllSaid, NEW s \in Slots, NEW r, r = job[s], r.pc # "idle",
         r.on.op = "completed"
  PROVE  r.on.sub = Bought /\ r.on.plan = "business"
<1>1. Knows(r) /\ \A t \in Slots : t # s => job[t].pc = "idle" BY Resumes
<1>2. OnEvent(r.on) BY DEF OnEvent, EventTypes
<1>3. r.on \in events /\ CaughtUp BY <1>1, <1>2, Stands DEF Handling
<1>4. r.on.seq = high /\ high \in Int BY <1>1, <1>2 DEF Knows, BillingInv, BillingTypes, HistoryTypes
<1>5. Current(r.on) BY <1>3, <1>4 DEF CaughtUp
<1> QED BY <1>5 DEF Current, Sells

\* A handler that goes on to apply what it found of a checkout.
LEMMA Applied ==
  ASSUME BillingInv, SeatInv, NEW s \in Slots, NEW r, r = job[s], r.pc \in {"fetch", "apply", "org", "cache"},
         r.on.op = "completed", NEW j, j \in {Applying(r.on, r.on.sub, subs[r.on.sub], None), Granted(r.on)}, Goto(s, j),
         UNCHANGED <<subs, events, memory, processed, high, org, cache, roll, owed>>, calm' => calm
  PROVE  SeatInv'
<1>1. /\ j.pc = "apply" /\ j.on = r.on /\ j.sub = r.on.sub
      /\ \/ j.snap = subs[j.sub] /\ j.forced = None
         \/ j.snap.bases = <<>> /\ j.snap.seat = NoItem /\ j.forced = r.on.plan
  BY DEF Applying, Granted
<1>2. ~OnLatest(j) /\ ~Newly(j, r) BY <1>1 DEF OnLatest, Newly, PastCache
<1>3. ~Reckoning(r) /\ ~Counting(r) BY DEF Reckoning, Counting, Seats
<1>4. Aims(j)' BY <1>1 DEF Aims
<1>5. r.pc # "idle" /\ (calm => \A t \in Slots : t # s => job[t].pc = "idle") BY Resumes
<1>6. ASSUME calm, Sells, AllSaid PROVE Kept' /\ Fits(j)' /\ Carries(j)'
  <2>1. Kept /\ Fits(r) BY <1>5, <1>6, Stands
  <2>2. r.on.sub = Bought /\ r.on.plan = "business" BY <1>5, <1>6, CheckoutIs
  <2>3. Bought' = Bought /\ subs'[Bought'] = subs[Bought] /\ Overage' = Overage /\ Right' = Right
    BY DEF Bought, Overage, Right
  <2>4. Kept' BY <2>1, <2>3 DEF Kept
  <2>5. Fits(j)' BY <1>3, <2>1, <2>3 DEF Fits
  <2>6. Seen(j)' BY <1>1, <1>2, <2>2, <2>3 DEF Seen, OnLatest, Current, PlanAt
  <2>7. Carries(j)' BY <1>1, <2>2, <2>3, <2>6 DEF Carries
  <2> QED BY <2>4, <2>5, <2>7
<1>7. owed' \in BOOLEAN BY DEF SeatInv
<1>8. job' = [job EXCEPT ![s] = j] BY DEF Goto
<1>9. calm' /\ Sells /\ (AllSaid \/ Newly(j, r)) => Kept' /\ Fits(j)' /\ Carries(j)' BY <1>2, <1>6
<1> QED BY <1>1, <1>2, <1>4, <1>5, <1>7, <1>8, <1>9, Continues

LEMMA FetchSubscriptionCounts == ASSUME BillingInv, SeatInv, NEW s \in Slots, FetchSubscription(s) PROVE SeatInv'
<1>1. PICK r : r = job[s] OBVIOUS
<1>2. r.pc = "fetch" BY <1>1 DEF FetchSubscription, At
<1>3. r.on.op = "completed"
  <2>1. Knows(r) BY <1>1, <1>2, Resumes
  <2> QED BY <1>2, <2>1 DEF Knows
<1>4. PICK j : Goto(s, j) /\ j \in {Applying(r.on, r.on.sub, subs[r.on.sub], None), Granted(r.on)}
  BY <1>1 DEF FetchSubscription
<1>5. UNCHANGED <<subs, events, memory, processed, high, org, cache, roll, owed, calm>>
  BY DEF FetchSubscription, stripe, history
<1> QED BY <1>1, <1>2, <1>3, <1>4, <1>5, Applied

LEMMA FailApplyingCounts == ASSUME BillingInv, SeatInv, NEW s \in Slots, FailApplying(s) PROVE SeatInv'
<1>1. PICK r : r = job[s] OBVIOUS
<1>2. r.pc \in {"apply", "org", "cache"} BY <1>1 DEF FailApplying, At
<1>3. PICK retried : retried = (r.on.op = "completed" /\ r.snap.bases # <<>>) OBVIOUS
<1>4. /\ Goto(s, IF retried THEN Granted(r.on) ELSE Idle)
      /\ events' = IF r.on.op \in EventTypes /\ ~retried THEN events \ {r.on} ELSE events
      /\ calm' = (calm /\ retried)
      /\ UNCHANGED <<subs, memory, processed, high, org, cache, roll, owed>>
  BY <1>1, <1>3 DEF FailApplying
<1>5. CASE retried
  <2>1. r.on.op = "completed" BY <1>3, <1>5
  <2>2. Goto(s, Granted(r.on)) /\ events' = events /\ (calm' => calm) BY <1>4, <1>5
  <2> QED BY <1>1, <1>2, <1>4, <2>1, <2>2, Applied
<1>6. CASE ~retried
  <2>1. ~calm' /\ owed' = owed BY <1>4, <1>6
  <2> QED BY <2>1 DEF SeatInv
<1> QED BY <1>5, <1>6

LEMMA DeliverCounts == ASSUME BillingInv, SeatInv, NEW s \in Slots, NEW e \in events, Deliver(s, e) PROVE SeatInv'
<1>1. PICK r : r = job[s] OBVIOUS
<1>2. PICK j : j = IF e.op = "completed" THEN [pc |-> "fetch", on |-> e]
                   ELSE Applying(e, e.sub, e.snap, IF e.op = "deleted" THEN "free" ELSE None)
  OBVIOUS
<1>3. /\ r.pc = "idle" /\ ~WasProcessed(e.seq) /\ job' = [job EXCEPT ![s] = j]
      /\ UNCHANGED <<subs, events, memory, org, cache, roll, processed, owed>>
      /\ calm' = (calm /\ Quiet /\ e.seq >= high) /\ high' = IF e.seq > high THEN e.seq ELSE high
  BY <1>1, <1>2 DEF Deliver, At, Goto, stripe
<1>4. e.seq \in Int /\ high \in Int
  <2>1. e.seq \in 1..emitted BY DEF BillingInv, BillingTypes, StripeTypes, Tells
  <2> QED BY <2>1 DEF BillingInv, BillingTypes, StripeTypes, HistoryTypes
<1>5. high' \in Int /\ high' >= high BY <1>3, <1>4
<1>6. calm' => calm /\ \A t \in Slots : t # s => job[t].pc = "idle" BY <1>3 DEF Quiet, At
<1>7. /\ j.on = e /\ j.pc \in {"fetch", "apply"}
      /\ e.op = "completed" => j.pc = "fetch"
      /\ e.op = "updated" => j.pc = "apply" /\ j.sub = e.sub /\ j.snap = e.snap /\ j.forced = None
  BY <1>2 DEF Applying
<1>8. ~Newly(j, r) BY <1>7 DEF Newly, PastCache
<1>9. Aims(j)' BY <1>7 DEF Aims
<1>10. Bought' = Bought /\ subs'[Bought'] = subs[Bought] /\ Overage' = Overage /\ Right' = Right
  BY <1>3 DEF Bought, Overage, Right
<1>11. ASSUME OnLatest(j) PROVE Carries(j)'
  <2>1. e.op = "updated" /\ e.sub = Bought /\ e.snap = subs[Bought] BY <1>7, <1>11 DEF OnLatest, Current
  <2> QED BY <1>7, <1>10, <2>1 DEF Carries, Seen
<1>12. ASSUME calm', Sells, AllSaid PROVE Kept' /\ Fits(j)' /\ Carries(j)'
  <2>1. CaughtUp /\ Kept /\ Fits(r) BY <1>1, <1>6, <1>12, Stands
  <2>2. Current(e) BY <1>3, <1>4, <1>12, <2>1 DEF CaughtUp
  <2>3. e.op # "updated"
    <3>1. ~\E t \in Slots : job[t].pc \in PastCache BY <1>3, <1>12 DEF Quiet, At, PastCache
    <3>2. ~Said(e) BY <1>3, <3>1 DEF Said
    <3> QED BY <1>12, <2>2, <3>2 DEF AllSaid
  <2>4. j.pc = "fetch" BY <1>7, <2>2, <2>3 DEF Current
  <2>5. Kept' BY <1>3, <1>10, <2>1 DEF Kept
  <2>6. ~Reckoning(r) /\ ~Counting(r) BY <1>3 DEF Reckoning, Counting
  <2>7. Fits(j)' BY <1>3, <1>10, <2>1, <2>6 DEF Fits
  <2> QED BY <2>4, <2>5, <2>7 DEF Carries
<1>13. owed' \in BOOLEAN BY <1>3 DEF SeatInv
<1>14. CASE calm'
  <2>1. AnswersCount' BY <1>3, <1>6, <1>14 DEF SeatInv, InOrder, AnswersCount
  <2>2. calm' /\ Sells /\ (AllSaid \/ Newly(j, r)) => Kept' /\ Fits(j)' /\ Carries(j)' BY <1>8, <1>12
  <2>3. calm' => Handling(j) BY <1>3, <1>7 DEF Handling
  <2>4. UNCHANGED <<subs, events, processed>> BY <1>3
  <2> QED BY <1>1, <1>3, <1>5, <1>6, <1>9, <1>11, <1>13, <2>1, <2>2, <2>3, <2>4, Turns
<1>15. CASE ~calm' BY <1>13, <1>15 DEF SeatInv
<1> QED BY <1>14, <1>15

-----------------------------------------------------------------------------
\* A handler that begins: what it has read is so.
LEMMA BeginCounts ==
  ASSUME BillingInv, SeatInv, NEW s \in Slots, NEW op, NEW j, NEW current, Begin(s, op, j, current), owed' = owed,
         ~OnEvent(j.on), roll' = roll \/ Counting(j), current \in BOOLEAN,
         calm => Aims(j)', j.pc # "store",
         calm /\ current /\ Sells /\ Kept => Carries(j)
  PROVE  SeatInv'
<1>1. PICK r : r = job[s] OBVIOUS
<1>2. /\ UNCHANGED <<subs, events, memory, org, cache, processed, high>> /\ job' = [job EXCEPT ![s] = j]
      /\ r.pc = "idle" /\ calm' = (calm /\ Quiet /\ current)
  BY <1>1 DEF Begin, Goto, At, stripe
<1>3. calm' => calm /\ current /\ \A t \in Slots : t # s => job[t].pc = "idle" BY <1>2 DEF Quiet, At
<1>4. ~OnLatest(j) /\ ~Newly(j, r) BY DEF OnLatest, Newly, OnEvent, EventTypes
<1>5. Bought' = Bought /\ subs'[Bought'] = subs[Bought] /\ Right' = Right BY <1>2 DEF Bought, Right
<1>6. ASSUME calm', Sells, AllSaid PROVE Kept' /\ Fits(j)' /\ Carries(j)'
  <2>1. Kept /\ Fits(r) BY <1>1, <1>3, <1>6, Stands
  <2>2. Kept' BY <1>2, <1>5, <2>1 DEF Kept
  <2>3. ~Reckoning(r) /\ ~Counting(r) BY <1>2 DEF Reckoning, Counting
  <2>4. Counting(j)' <=> Counting(j) BY DEF Counting, Seats
  <2>5. roll' = roll => Overage' = Overage BY DEF Overage
  <2>6. Fits(j)' BY <1>2, <1>5, <2>1, <2>3, <2>4, <2>5 DEF Fits
  <2>7. Carries(j) BY <1>3, <1>6, <2>1
  <2>8. Seen(j) => Seen(j)' BY <1>4, <1>5 DEF Seen, OnLatest, Current, PlanAt
  <2>9. Carries(j)' BY <1>2, <1>5, <2>7, <2>8 DEF Carries
  <2> QED BY <2>2, <2>6, <2>9
<1>7. owed' \in BOOLEAN BY DEF SeatInv
<1>8. CASE calm'
  <2>1. AnswersCount' BY <1>2, <1>3, <1>8 DEF SeatInv, InOrder, AnswersCount
  <2>2. high' \in Int /\ high' >= high BY <1>2 DEF BillingInv, BillingTypes, HistoryTypes
  <2>3. calm' /\ Sells /\ (AllSaid \/ Newly(j, r)) => Kept' /\ Fits(j)' /\ Carries(j)' BY <1>4, <1>6
  <2>4. UNCHANGED <<subs, events, processed>> /\ (calm' => Aims(j)') BY <1>2, <1>3
  <2>5. Handling(j) BY DEF Handling
  <2> QED BY <1>1, <1>2, <1>3, <1>4, <1>7, <2>1, <2>2, <2>3, <2>4, <2>5, Turns
<1>9. CASE ~calm' BY <1>7, <1>9 DEF SeatInv
<1> QED BY <1>8, <1>9

LEMMA ChangePlanCounts ==
  ASSUME BillingInv, SeatInv, NEW s \in Slots, NEW plan \in PaidPlans, ChangePlan(s, plan) PROVE SeatInv'
<1>1. PICK state, seats, seat :
        /\ state = ReadBillingState /\ seats = SeatOverage(plan, roll.humans)
        /\ seat = IF state.seat = NoItem /\ seats = 0 THEN None
                  ELSE [id |-> state.seat, qty |-> seats, deleted |-> plan # "business"]
  OBVIOUS
<1>2. PICK change : change = [sub |-> org.sub, base |-> [id |-> state.base, plan |-> plan], seat |-> seat] OBVIOUS
<1>3. PICK j : j = [pc |-> "post", on |-> [op |-> "change_plan"], key |-> <<"plan", NoSub, plan, seats>>, change |-> change]
  OBVIOUS
<1>4. Begin(s, "change_plan", j, TRUE) /\ roll' = roll /\ owed' = owed BY <1>1, <1>2, <1>3 DEF ChangePlan
<1>5. j.pc = "post" /\ ~Seats(j) /\ ~OnEvent(j.on) /\ j.change.sub = org.sub /\ j.change.seat = seat
  BY <1>2, <1>3 DEF Seats, OnEvent, EventTypes
<1>6. Aims(j)'
  <2>1. Overage' = Overage BY <1>4 DEF Overage
  <2>2. ASSUME seat # None
        PROVE  IF seat.deleted THEN seat.id # NoItem /\ seat.qty = 0 ELSE seat.qty = Overage
    <3>1. seat = [id |-> state.seat, qty |-> seats, deleted |-> plan # "business"] /\ ~(state.seat = NoItem /\ seats = 0)
      BY <1>1, <2>2
    <3>2. CASE plan = "business"
      <4>1. seats = Overage BY <1>1, <3>2 DEF Overage
      <4>2. PICK deleted : deleted = (plan # "business") OBVIOUS
      <4>3. seat.deleted = deleted /\ seat.qty = seats BY <3>1, <4>2
      <4> QED BY <3>2, <4>1, <4>2, <4>3
    <3>3. CASE plan # "business"
      <4>1. seats = 0 BY <1>1, <3>3 DEF SeatOverage
      <4>2. seat.deleted /\ seat.id # NoItem /\ seat.qty = 0 BY <3>1, <3>3, <4>1
      <4> QED BY <4>2
    <3> QED BY <3>2, <3>3
  <2> QED BY <1>5, <2>1, <2>2 DEF Aims, Seats
<1>7. Kept => Carries(j) BY <1>5 DEF Kept, Right, Carries
<1> QED BY <1>4, <1>5, <1>6, <1>7, BeginCounts

LEMMA SyncsCount ==
  ASSUME BillingInv, SeatInv, NEW s \in Slots, NEW op, NEW t \in SubIds, NEW current \in BOOLEAN,
         Begin(s, op, Applying([op |-> "sync"], t, subs[t], None), current), roll' = roll, owed' = owed,
         calm /\ current /\ Sells /\ Kept => t = Bought
  PROVE  SeatInv'
<1>1. PICK j : j = Applying([op |-> "sync"], t, subs[t], None) OBVIOUS
<1>2. j.pc = "apply" /\ j.on = [op |-> "sync"] /\ j.sub = t /\ j.snap = subs[t] /\ j.forced = None BY <1>1 DEF Applying
<1>3. ~OnEvent(j.on) BY <1>2 DEF OnEvent, EventTypes
<1>4. Aims(j)' BY <1>2 DEF Aims
<1>5. t = Bought => Carries(j) BY <1>2 DEF Carries, Seen
<1> QED BY <1>1, <1>2, <1>3, <1>4, <1>5, BeginCounts

LEMMA SyncCounts == ASSUME BillingInv, SeatInv, NEW s \in Slots, Sync(s) PROVE SeatInv'
<1>1. PICK t : t = IF org.sub # NoSub THEN org.sub ELSE IF Live # {} THEN Newest(Live) ELSE Newest(SubIds) OBVIOUS
<1>2. Begin(s, "sync", Applying([op |-> "sync"], t, subs[t], None), TRUE) /\ roll' = roll /\ owed' = owed /\ SubIds # {}
  BY <1>1 DEF Sync
<1>3. t \in SubIds
  <2>1. subs \in Seq(Sub) /\ org.sub \in SubIds \cup {NoSub} BY DEF BillingInv, BillingTypes, StripeTypes, OrgTypes
  <2>2. Live \in SUBSET SubIds BY DEF Live
  <2>3. Live # {} => Newest(Live) \in Live BY <2>1, <2>2, NewestIs
  <2>4. Newest(SubIds) \in SubIds BY <1>2, <2>1, NewestIs
  <2> QED BY <1>1, <2>1, <2>2, <2>3, <2>4
<1>4. Sells /\ Kept => t = Bought
  <2>1. ASSUME Sells, Kept PROVE t = Bought
    <3>1. Bought \in SubIds /\ org.sub = Bought BY <2>1 DEF Sells, Live, Kept, Right
    <3>2. Bought # NoSub BY <3>1 DEF SubIds, NoSub, BillingInv, BillingTypes, StripeTypes
    <3> QED BY <1>1, <3>1, <3>2
  <2> QED BY <2>1
<1> QED BY <1>2, <1>3, <1>4, SyncsCount

LEMMA SyncSessionCounts == ASSUME BillingInv, SeatInv, NEW s \in Slots, NEW t \in SubIds, SyncSession(s, t) PROVE SeatInv'
<1>1. PICK current : current = (t = Newest(SubIds)) OBVIOUS
<1>2. Begin(s, "redirect", Applying([op |-> "sync"], t, subs[t], None), current) /\ roll' = roll /\ owed' = owed
  BY <1>1 DEF SyncSession
<1>3. current \in BOOLEAN BY <1>1
<1>4. current => t = Bought
  <2>1. subs \in Seq(Sub) BY DEF BillingInv, BillingTypes, StripeTypes
  <2>2. Len(subs) \in SubIds BY <2>1 DEF SubIds
  <2>3. Newest(SubIds) = Len(subs) BY <2>1, <2>2, NewestIs
  <2> QED BY <1>1, <2>3 DEF Bought
<1> QED BY <1>2, <1>3, <1>4, SyncsCount

LEMMA JoinCounts ==
  ASSUME BillingInv, SeatInv, NEW s \in Slots, NEW via \in {"invite", "sso", "agent"}, Join(s, via) PROVE SeatInv'
<1>1. PICK j : j = [pc |-> "insert", on |-> [op |-> via]] OBVIOUS
<1>2. Begin(s, via, j, TRUE) /\ roll' = roll /\ owed' = owed BY <1>1 DEF Join
<1>3. j.pc = "insert" /\ ~OnEvent(j.on) BY <1>1 DEF OnEvent, EventTypes
<1>4. Aims(j)' /\ Carries(j) BY <1>3 DEF Aims, Carries
<1> QED BY <1>2, <1>3, <1>4, BeginCounts

LEMMA RemoveMemberCounts == ASSUME BillingInv, SeatInv, NEW s \in Slots, RemoveMember(s) PROVE SeatInv'
<1>1. PICK j : j = [pc |-> "seats", on |-> [op |-> "remove"]] OBVIOUS
<1>2. Begin(s, "remove", j, TRUE) /\ owed' = owed BY <1>1 DEF RemoveMember
<1>3. j.pc = "seats" /\ ~OnEvent(j.on) /\ Counting(j) BY <1>1 DEF OnEvent, EventTypes, Counting, Seats
<1>4. Aims(j)' /\ Carries(j) BY <1>3 DEF Aims, Carries
<1> QED BY <1>2, <1>3, <1>4, BeginCounts

\* A step that only takes back what is behind: events handled, and handlers at
\* their end or given up.
LEMMA Recedes ==
  ASSUME BillingInv, SeatInv, UNCHANGED <<subs, org, cache, roll, high>>, calm' => calm, calm => AnswersCount',
         events' \subseteq events, \A e \in events : e \notin events' => e.seq <= high,
         owed' \in BOOLEAN, owed => owed',
         \A s \in Slots : \/ job'[s] = job[s]
                          \/ job'[s] = Idle /\ (owed' \/ job[s].pc \in {"idle", "mark"}),
         calm => (\A s \in Slots : Handling(job[s])') /\ (AllSaid' => AllSaid)
  PROVE  SeatInv'
<1> SUFFICES ASSUME calm' PROVE InOrder' BY DEF SeatInv
<1>1. InOrder BY DEF SeatInv
<1>2. /\ Bought' = Bought /\ Live' = Live /\ PlanAt(Bought)' = PlanAt(Bought) /\ SubIds' = SubIds /\ Right' = Right
      /\ subs'[Bought'] = subs[Bought] /\ Overage' = Overage /\ \A e : Current(e)' <=> Current(e)
  BY DEF Bought, Live, SubIds, PlanAt, Current, Overage, Right
<1>3. (\A e \in events : e.seq \in Int) /\ high \in Int
  <2>1. \A e \in events : e.seq \in 1..emitted BY DEF BillingInv, BillingTypes, StripeTypes, Tells
  <2> QED BY <2>1 DEF BillingInv, BillingTypes, StripeTypes, HistoryTypes
<1>4. InStep'
  <2>1. CaughtUp => CaughtUp' BY <1>2 DEF CaughtUp
  <2>2. ASSUME NEW e \in events, e.op = "updated", \A f \in events : f.seq >= e.seq => Current(f), Bought \in Live
        PROVE  InStep'
    <3>1. CASE e \in events'
      <4>1. \A f \in events' : f.seq >= e.seq => Current(f)' BY <1>2, <2>2
      <4> QED BY <2>2, <3>1, <4>1 DEF InStep
    <3>2. CASE e \notin events'
      <4>1. e.seq <= high BY <3>2
      <4>2. CaughtUp BY <1>3, <2>2, <4>1 DEF CaughtUp
      <4> QED BY <2>1, <4>2 DEF InStep
    <3> QED BY <3>1, <3>2
  <2> QED BY <1>1, <1>2, <2>1, <2>2 DEF InOrder, InStep
<1>5. EventsOnce' /\ NoSeatNoBill' /\ AnswersCount' /\ EventsStay'
  BY <1>1, <1>2 DEF InOrder, EventsOnce, NoSeatNoBill, EventsStay
<1>6. \A s \in Slots : Aims(job[s])'
  <2>1. ASSUME NEW s \in Slots PROVE Aims(job[s])'
    <3>1. CASE job'[s] = job[s] BY <1>1, <1>2, <3>1 DEF InOrder, Aims, Seats
    <3>2. CASE job'[s] = Idle BY <3>2 DEF Aims, Idle
    <3> QED BY <3>1, <3>2
  <2> QED BY <2>1
<1>7. ASSUME Sells'
      PROVE  /\ \A s \in Slots : AllSaid' \/ OnLatest(job[s])' => Carries(job[s])'
             /\ AllSaid' => Synced'
  <2>1. Sells BY <1>2, <1>7 DEF Sells
  <2>2. ASSUME NEW s \in Slots, AllSaid' \/ OnLatest(job[s])' PROVE Carries(job[s])'
    <3>1. CASE job'[s] = Idle BY <3>1 DEF Carries, Idle
    <3>2. CASE job'[s] = job[s]
      <4>1. \A j : OnLatest(j)' <=> OnLatest(j) BY <1>2 DEF OnLatest
      <4>2. Carries(job[s]) BY <1>1, <2>1, <2>2, <3>2, <4>1 DEF InOrder
      <4>3. Seen(job[s]) => Seen(job[s])' BY <1>2, <3>2, <4>1 DEF Seen
      <4> QED BY <1>2, <3>2, <4>2, <4>3 DEF Carries
    <3> QED BY <3>1, <3>2
  <2>3. ASSUME AllSaid' PROVE Synced'
    <3>1. Synced BY <1>1, <2>1, <2>3 DEF InOrder
    <3>2. Kept' BY <1>2, <3>1 DEF Synced, Kept
    <3>3. \A j : Fits(j) => Fits(j)' BY <1>2 DEF Fits, Reckoning, Counting, Seats
    <3>4. ASSUME NEW s \in Slots, Fits(job[s]) PROVE Fits(Idle)' \/ Fits(job[s])'
      <4>1. CASE job'[s] = job[s] BY <3>3, <3>4, <4>1
      <4>2. CASE owed' BY <4>2 DEF Fits
      <4>3. CASE job[s].pc \in {"idle", "mark"}
        <5>1. ~Reckoning(job[s]) /\ ~Counting(job[s]) BY <4>3 DEF Reckoning, Counting
        <5>2. Fits(Idle) BY <3>4, <5>1 DEF Fits
        <5> QED BY <3>3, <5>2
      <4> QED BY <4>1, <4>2, <4>3
    <3> QED BY <3>1, <3>2, <3>3, <3>4 DEF Synced
  <2> QED BY <2>2, <2>3
<1> QED BY <1>1, <1>4, <1>5, <1>6, <1>7 DEF InOrder

\* Nothing of all this moves: a checkout, a day, a stutter.
LEMMA NothingCounts ==
  ASSUME BillingInv, SeatInv, UNCHANGED <<subs, events, org, cache, roll, processed, job, high, owed>>,
         calm' => calm, memory' \in {memory, {}}
  PROVE  SeatInv'
<1>1. AllSaid' => AllSaid BY DEF AllSaid, Said, WasProcessed, Current, Bought, PlanAt
<1>2. calm => AnswersCount' BY DEF SeatInv, InOrder, AnswersCount
<1>3. calm => \A s \in Slots : Handling(job[s])' BY DEF SeatInv, InOrder, EventsStay, Handling, WasProcessed
<1>4. owed' \in BOOLEAN BY DEF SeatInv
<1> QED BY <1>1, <1>2, <1>3, <1>4, Recedes

LEMMA CrashCounts == ASSUME BillingInv, SeatInv, Crash PROVE SeatInv'
<1>1. /\ UNCHANGED <<subs, events, memory, org, cache, roll, high, calm>> /\ processed' = <<>>
      /\ job' = [s \in Slots |-> Idle] /\ owed' = (owed \/ ~Quiet)
  BY DEF Crash, stripe
<1>2. \A s \in Slots : job'[s] = Idle /\ (owed' \/ job[s].pc \in {"idle", "mark"}) BY <1>1 DEF Quiet, At
<1>3. AllSaid' => AllSaid
  <2>1. ~\E s \in Slots : job'[s].pc \in PastCache BY <1>2 DEF Idle, PastCache
  <2>2. \A e : ~Said(e)' BY <1>1, <2>1 DEF Said, WasProcessed
  <2>3. \A e : Current(e)' <=> Current(e) BY <1>1 DEF Current, Bought, PlanAt
  <2> QED BY <1>1, <2>2, <2>3 DEF AllSaid
<1>4. calm => AnswersCount' BY <1>1 DEF SeatInv, InOrder, AnswersCount
<1>5. \A s \in Slots : Handling(job[s])' BY <1>2 DEF Handling, Idle
<1>6. owed' \in BOOLEAN /\ (owed => owed') BY <1>1
<1>7. \A e \in events : e \notin events' => e.seq <= high BY <1>1
<1> QED BY <1>1, <1>2, <1>3, <1>4, <1>5, <1>6, <1>7, Recedes

LEMMA DuplicateCounts == ASSUME BillingInv, SeatInv, NEW s \in Slots, NEW e \in events, Duplicate(s, e) PROVE SeatInv'
<1>1. /\ UNCHANGED <<subs, memory, org, cache, roll, processed, job, high, calm, owed>> /\ WasProcessed(e.seq)
      /\ events' \subseteq events /\ events \subseteq events' \cup {e}
  BY DEF Duplicate, Answer, app, history
<1>2. e.seq <= high
  <2>1. high \in Int /\ processed \in Seq(1..high) BY DEF BillingInv, BillingTypes, HistoryTypes
  <2> QED BY <1>1, <2>1 DEF WasProcessed
<1>3. AllSaid' => AllSaid
  <2>1. \A f : (Said(f)' <=> Said(f)) /\ (Current(f)' <=> Current(f))
    BY <1>1 DEF Said, WasProcessed, Current, Bought, PlanAt
  <2>2. Said(e) BY <1>1 DEF Said
  <2> QED BY <1>1, <2>1, <2>2 DEF AllSaid
<1>4. calm => AnswersCount' BY <1>1 DEF SeatInv, InOrder, AnswersCount
<1>5. calm => \A t \in Slots : Handling(job[t])'
  <2>1. calm => \A t \in Slots : Handling(job[t]) BY DEF SeatInv, InOrder, EventsStay
  <2> QED BY <1>1, <2>1 DEF Handling, WasProcessed
<1>6. owed' \in BOOLEAN BY <1>1 DEF SeatInv
<1> QED BY <1>1, <1>2, <1>3, <1>4, <1>5, <1>6, Recedes

LEMMA MarkProcessedCounts == ASSUME BillingInv, SeatInv, NEW s \in Slots, MarkProcessed(s) PROVE SeatInv'
<1>1. PICK r : r = job[s] OBVIOUS
<1>2. r.pc = "mark" /\ r.pc \in PastCache BY <1>1 DEF MarkProcessed, At, PastCache
<1>3. Knows(r) /\ (calm => \A t \in Slots : t # s => job[t].pc = "idle") BY <1>1, <1>2, Resumes
<1>4. OnEvent(r.on) /\ r.on.seq <= high BY <1>2, <1>3 DEF Knows
<1>5. /\ UNCHANGED <<subs, memory, org, cache, roll, high, calm, owed>> /\ job' = [job EXCEPT ![s] = Idle]
      /\ processed' = IF WasProcessed(r.on.seq) THEN processed ELSE Remember(r.on.seq)
      /\ events' \subseteq events /\ events \subseteq events' \cup {r.on}
  BY <1>1 DEF MarkProcessed, Goto, Answer, history
<1>6. job'[s] = Idle /\ \A t \in Slots : t # s => job'[t] = job[t] BY <1>5 DEF BillingInv, BillingTypes, JobTypes
<1>7. \A f \in events : f \notin events' => f.seq <= high BY <1>4, <1>5
<1>8. ASSUME calm PROVE (\A t \in Slots : Handling(job[t])') /\ (AllSaid' => AllSaid)
  <2>1. r.on \in events /\ EventsOnce BY <1>1, <1>2, <1>4, <1>8 DEF SeatInv, InOrder, EventsStay, Handling
  <2>2. \A t \in Slots : job'[t].pc = "idle" BY <1>3, <1>6, <1>8 DEF Idle
  <2>3. \A t \in Slots : Handling(job[t])' BY <2>2 DEF Handling
  <2>4. ASSUME AllSaid', NEW f \in events, f.op = "updated", Current(f) PROVE Said(f)
    <3>1. CASE f = r.on BY <1>1, <1>2, <3>1 DEF Said
    <3>2. CASE f # r.on
      <4>1. f \in events' /\ Current(f)' BY <1>5, <2>4, <3>2 DEF Current, Bought, PlanAt
      <4>2. Said(f)' BY <2>4, <4>1 DEF AllSaid
      <4>3. PICK i \in DOMAIN processed' : processed'[i] = f.seq BY <2>2, <4>2 DEF Said, WasProcessed, PastCache
      <4>4. f.seq # r.on.seq BY <2>1, <3>2 DEF EventsOnce
      <4>5. CASE WasProcessed(r.on.seq)
        <5>1. WasProcessed(f.seq) BY <1>5, <4>3, <4>5 DEF WasProcessed
        <5> QED BY <5>1 DEF Said
      <4>6. CASE ~WasProcessed(r.on.seq)
        <5>1. PICK all : all = Append(processed, r.on.seq) OBVIOUS
        <5>2. processed' \in {all, Tail(all)} BY <1>5, <4>6, <5>1 DEF Remember
        <5>3. PICK h \in Nat : processed \in Seq(1..h) /\ r.on.seq \in 1..h
          <6>1. r.on.seq \in 1..emitted /\ emitted \in Int
            BY <1>2, <1>3, <1>4 DEF Knows, Tells, BillingInv, BillingTypes, StripeTypes
          <6>2. high \in Nat /\ processed \in Seq(1..high) BY <6>1 DEF BillingInv, BillingTypes, StripeTypes, HistoryTypes
          <6>3. r.on.seq \in 1..high BY <1>4, <6>1, <6>2
          <6> QED BY <6>2, <6>3
        <5>4. /\ all \in Seq(1..h) /\ Len(all) = Len(processed) + 1
              /\ \A k \in 1..Len(all) : all[k] = IF k <= Len(processed) THEN processed[k] ELSE r.on.seq
          BY <5>1, <5>3
        <5>5. PICK k \in 1..Len(all) : all[k] = f.seq
          <6>1. CASE processed' = all BY <4>3, <5>4, <6>1
          <6>2. CASE processed' = Tail(all)
            <7>1. i \in 1..(Len(all) - 1) /\ processed'[i] = all[i + 1] BY <4>3, <5>4, <6>2
            <7> QED BY <4>3, <5>4, <7>1
          <6> QED BY <5>2, <6>1, <6>2
        <5>6. k \in 1..Len(processed) /\ processed[k] = f.seq BY <4>4, <5>3, <5>4, <5>5
        <5> QED BY <5>3, <5>6 DEF Said, WasProcessed
      <4> QED BY <4>5, <4>6
    <3> QED BY <3>1, <3>2
  <2> QED BY <2>3, <2>4 DEF AllSaid
<1>9. calm => AnswersCount' BY <1>5 DEF SeatInv, InOrder, AnswersCount
<1>10. owed' \in BOOLEAN BY <1>5 DEF SeatInv
<1>11. \A t \in Slots : \/ job'[t] = job[t]
                        \/ job'[t] = Idle /\ (owed' \/ job[t].pc \in {"idle", "mark"})
  BY <1>1, <1>2, <1>6
<1> QED BY <1>5, <1>7, <1>8, <1>9, <1>10, <1>11, Recedes

\* Stripe's subscription changes, and says so: nobody has heard it yet.
LEMMA Announces ==
  ASSUME BillingInv, BillingInv', SeatInv, UNCHANGED <<processed, high>>, calm' => calm, owed' \in BOOLEAN,
         \A e, f \in events' : e.seq = f.seq => e = f \/ (e \in events /\ f \in events),
         calm' => EventsStay' /\ NoSeatNoBill' /\ AnswersCount' /\ \A s \in Slots : Aims(job[s])',
         \A s \in Slots : job'[s].pc \in PastCache /\ OnEvent(job'[s].on) => job[s].pc # "idle" /\ job'[s].on = job[s].on,
         calm' /\ Bought' \in Live' =>
           \E e \in events' : e.op = "updated" /\ e.seq > emitted /\ \A f \in events' : f.seq >= e.seq => Current(f)',
         calm' /\ Sells' => \A s \in Slots : OnLatest(job[s])' => Carries(job[s])'
  PROVE  SeatInv'
<1> SUFFICES ASSUME calm' PROVE InOrder' BY DEF SeatInv
<1>1. InOrder BY DEF SeatInv
<1>2. InStep' BY DEF InStep
<1>3. EventsOnce' BY <1>1 DEF InOrder, EventsOnce
<1>4. emitted \in Nat /\ high \in 0..emitted /\ processed \in Seq(1..high) /\ JobTypes
  BY DEF BillingInv, BillingTypes, StripeTypes, HistoryTypes
<1>5. Bought' \in Live' => ~AllSaid'
  <2>1. SUFFICES ASSUME Bought' \in Live' PROVE ~AllSaid' OBVIOUS
  <2>2. PICK e \in events' : e.op = "updated" /\ e.seq > emitted /\ \A f \in events' : f.seq >= e.seq => Current(f)' BY <2>1
  <2>3. ~WasProcessed(e.seq)' BY <1>4, <2>2 DEF WasProcessed
  <2>4. ASSUME NEW s \in Slots, job'[s].pc \in PastCache, job'[s].on = e PROVE FALSE
    <3>1. OnEvent(e) BY <2>2 DEF OnEvent, EventTypes
    <3>2. job[s].pc # "idle" /\ job[s].on = e BY <2>4, <3>1
    <3>3. Knows(job[s]) BY <1>4 DEF JobTypes
    <3>4. e.seq \in 1..emitted BY <3>1, <3>2, <3>3 DEF Knows, Tells
    <3> QED BY <1>4, <2>2, <3>4
  <2>5. e.seq >= e.seq
    <3>1. e.seq \in 1..emitted' /\ emitted' \in Nat BY DEF BillingInv, BillingTypes, StripeTypes, Tells
    <3> QED BY <3>1
  <2>6. Current(e)' BY <2>2, <2>5
  <2>7. ~Said(e)' BY <2>3, <2>4 DEF Said
  <2> QED BY <2>2, <2>6, <2>7 DEF AllSaid
<1>6. Sells' => Bought' \in Live' BY DEF Sells
<1> QED BY <1>2, <1>3, <1>5, <1>6 DEF InOrder

\* What a handler holds is older than the event.
LEMMA Ages ==
  ASSUME BillingInv, NEW s \in Slots, job[s].pc # "idle", OnEvent(job[s].on)
  PROVE  job[s].on.sub \in SubIds
BY DEF BillingInv, BillingTypes, JobTypes, Knows, Tells

LEMMA CancelCounts ==
  ASSUME BillingInv, BillingInv', SeatInv, NEW t \in SubIds, Cancel(t), calm' => calm, UNCHANGED <<app, high, owed>>
  PROVE  SeatInv'
<1>1. /\ UNCHANGED <<memory, org, cache, roll, processed, job, high, owed>>
      /\ t \in Live /\ subs' = [subs EXCEPT ![t].status = "canceled"]
      /\ events' = events \cup {Event("deleted", emitted + 1, t, subs'[t], None)}
  BY DEF Cancel, app
<1>2. StripeTypes BY DEF BillingInv, BillingTypes
<1>3. PICK old : old = subs[t] OBVIOUS
<1>4. PICK sub : sub = [old EXCEPT !.status = "canceled"] OBVIOUS
<1>5. old \in Sub BY <1>2, <1>3 DEF StripeTypes, SubIds
<1>6. sub.status = "canceled" /\ sub.seat = old.seat /\ sub.qty = old.qty BY <1>4, <1>5 DEF Sub
<1>7. subs' = [subs EXCEPT ![t] = sub] BY <1>1, <1>3, <1>4
<1>8. SubIds' = SubIds /\ Len(subs') = Len(subs) /\ \A u \in SubIds : subs'[u] = IF u = t THEN sub ELSE subs[u]
  BY <1>2, <1>7 DEF StripeTypes, SubIds
<1>9. PICK e : e = Event("deleted", emitted + 1, t, sub, None) OBVIOUS
<1>10. e.seq = emitted + 1 BY <1>9 DEF Event
<1>11. events' = events \cup {e} BY <1>1, <1>8, <1>9
<1>12. \A f \in events : f.seq # e.seq
  <2>1. \A f \in events : f.seq \in 1..emitted BY <1>2 DEF StripeTypes, Tells
  <2> QED BY <1>2, <1>10, <2>1 DEF StripeTypes
<1>13. \A f, g \in events' : f.seq = g.seq => f = g \/ (f \in events /\ g \in events) BY <1>11, <1>12
<1>14. ASSUME calm' PROVE EventsStay' /\ NoSeatNoBill' /\ AnswersCount' /\ \A s \in Slots : Aims(job[s])'
  <2>1. InOrder BY <1>14 DEF SeatInv
  <2>2. EventsStay' BY <1>1, <1>11, <2>1 DEF InOrder, EventsStay, Handling, WasProcessed
  <2>3. NoSeatNoBill' BY <1>3, <1>6, <1>8, <2>1 DEF InOrder, NoSeatNoBill
  <2>4. AnswersCount' BY <1>1, <2>1 DEF InOrder, AnswersCount
  <2>5. \A s \in Slots : Aims(job[s])' BY <1>1, <2>1 DEF InOrder, Aims, Overage, Seats
  <2> QED BY <2>2, <2>3, <2>4, <2>5
<1>15. calm' => Bought' \notin Live'
  <2>1. calm' => t = Len(subs) BY <1>1 DEF BillingInv, Orderly
  <2>2. t \notin Live' BY <1>6, <1>8 DEF Live
  <2> QED BY <1>8, <2>1, <2>2 DEF Bought
<1>16. \A s \in Slots : job'[s].pc \in PastCache /\ OnEvent(job'[s].on) => job[s].pc # "idle" /\ job'[s].on = job[s].on
  BY <1>1 DEF PastCache
<1>17. owed' \in BOOLEAN BY <1>1 DEF SeatInv
<1>18. calm' => ~Sells' BY <1>15 DEF Sells
<1> QED BY <1>1, <1>13, <1>14, <1>15, <1>16, <1>17, <1>18, Announces

LEMMA PayCounts ==
  ASSUME BillingInv, BillingInv', SeatInv, NEW session \in sessions, Pay(session), calm' => calm, UNCHANGED <<app, high, owed>>
  PROVE  SeatInv'
<1>1. StripeTypes /\ emitted \in Nat /\ minted \in Nat BY DEF BillingInv, BillingTypes, StripeTypes
<1>2. PICK x : x = Len(subs) + 1 OBVIOUS
<1>3. x \in Nat /\ x = Len(subs) + 1 /\ SubIds = 1..Len(subs) /\ Len(subs) \in Nat BY <1>1, <1>2 DEF StripeTypes, SubIds
<1>4. session.plan \in PaidPlans /\ session.qty \in Nat BY <1>1 DEF StripeTypes, Session
<1>5. PICK base : base = [id |-> minted + 1, plan |-> session.plan] OBVIOUS
<1>6. PICK paid : paid = [status |-> "active", bases |-> <<base>>,
                          seat |-> IF session.qty > 0 THEN minted + 2 ELSE NoItem, qty |-> session.qty]
  OBVIOUS
<1>7. PICK born : born = [paid EXCEPT !.status = "incomplete"] OBVIOUS
<1>8. PICK e1, e2, e3 : /\ e1 = Event("created", emitted + 1, x, born, None)
                        /\ e2 = Event("updated", emitted + 2, x, paid, None)
                        /\ e3 = Event("completed", emitted + 3, x, None, session.plan)
  OBVIOUS
<1>9. /\ subs' = Append(subs, paid) /\ events' = events \cup {e1, e2, e3}
      /\ UNCHANGED <<memory, org, cache, roll, processed, job, high, owed>>
  BY <1>2, <1>5, <1>6, <1>7, <1>8 DEF Pay, app
<1>10. /\ e1.seq = emitted + 1
       /\ e2.op = "updated" /\ e2.seq = emitted + 2 /\ e2.sub = x /\ e2.snap = paid
       /\ e3.op = "completed" /\ e3.seq = emitted + 3 /\ e3.sub = x /\ e3.plan = session.plan
  BY <1>8 DEF Event
<1>11. /\ paid.seat = (IF session.qty > 0 THEN minted + 2 ELSE NoItem) /\ paid.qty = session.qty /\ paid.bases = <<base>>
       /\ base.plan = session.plan
  BY <1>5, <1>6
<1>12. paid.seat = NoItem => paid.qty = 0 BY <1>1, <1>4, <1>11 DEF NoItem
<1>13. /\ Bought' = x /\ SubIds' = SubIds \cup {x} /\ x \notin SubIds /\ subs'[x] = paid
       /\ \A u \in SubIds : subs'[u] = subs[u]
  <2>1. paid \in Sub
    <3>1. base \in [id : Nat, plan : PaidPlans] BY <1>1, <1>4, <1>5
    <3>2. <<base>> \in Seq([id : Nat, plan : PaidPlans]) BY <3>1
    <3> QED BY <1>1, <1>4, <1>6, <3>2 DEF Sub, NoItem
  <2>2. subs \in Seq(Sub) BY <1>1 DEF StripeTypes
  <2>3. subs' \in Seq(Sub) /\ Len(subs') = x /\ subs'[x] = paid BY <1>3, <1>9, <2>1, <2>2
  <2>4. SubIds' = 1..x BY <2>3 DEF SubIds
  <2>5. \A u \in 1..Len(subs) : subs'[u] = subs[u] BY <1>9, <2>1, <2>2
  <2> QED BY <1>3, <2>3, <2>4, <2>5 DEF Bought
<1>14. PlanAt(x)' = session.plan
  <2>1. Last(<<base>>) = base BY DEF Last
  <2> QED BY <1>11, <1>13, <2>1 DEF PlanAt
<1>15. Current(e2)' /\ Current(e3)' BY <1>10, <1>13, <1>14 DEF Current
<1>16. \A f \in events : f.seq \in 1..emitted BY <1>1 DEF StripeTypes, Tells
<1>17. \A f, g \in events' : f.seq = g.seq => f = g \/ (f \in events /\ g \in events) BY <1>1, <1>9, <1>10, <1>16
<1>18. ASSUME calm' PROVE EventsStay' /\ NoSeatNoBill' /\ AnswersCount' /\ \A s \in Slots : Aims(job[s])'
  <2>1. InOrder BY <1>18 DEF SeatInv
  <2>2. EventsStay' BY <1>9, <2>1 DEF InOrder, EventsStay, Handling, WasProcessed
  <2>3. NoSeatNoBill' BY <1>12, <1>13, <2>1 DEF InOrder, NoSeatNoBill
  <2>4. AnswersCount' BY <1>9, <2>1 DEF InOrder, AnswersCount
  <2>5. \A s \in Slots : Aims(job[s])' BY <1>9, <2>1 DEF InOrder, Aims, Overage, Seats
  <2> QED BY <2>2, <2>3, <2>4, <2>5
<1>19. \E e \in events' : e.op = "updated" /\ e.seq > emitted /\ \A f \in events' : f.seq >= e.seq => Current(f)'
  <2>1. \A f \in events' : f.seq >= e2.seq => f \in {e2, e3} BY <1>1, <1>9, <1>10, <1>16
  <2>2. e2 \in events' /\ e2.seq > emitted BY <1>1, <1>9, <1>10
  <2> QED BY <1>10, <1>15, <2>1, <2>2
<1>20. \A s \in Slots : OnLatest(job[s])' => Carries(job[s])'
  <2>1. SUFFICES ASSUME NEW s \in Slots, OnLatest(job[s])' PROVE Carries(job[s])' OBVIOUS
  <2>2. CASE job[s].pc = "idle" BY <1>9, <2>2 DEF Carries
  <2>3. CASE job[s].pc # "idle"
    <3>1. job[s].on.op = "updated" /\ job[s].on.sub = x BY <1>9, <1>13, <2>1 DEF OnLatest, Current
    <3>2. OnEvent(job[s].on) BY <3>1 DEF OnEvent, EventTypes
    <3> QED BY <1>13, <2>3, <3>1, <3>2, Ages
  <2> QED BY <2>2, <2>3
<1>21. \A s \in Slots : job'[s].pc \in PastCache /\ OnEvent(job'[s].on) => job[s].pc # "idle" /\ job'[s].on = job[s].on
  BY <1>9 DEF PastCache
<1>22. owed' \in BOOLEAN BY <1>9 DEF SeatInv
<1> QED BY <1>9, <1>17, <1>18, <1>19, <1>20, <1>21, <1>22, Announces

LEMMA CustomerCounts == ASSUME BillingInv, BillingInv', SeatInv, Customer PROVE SeatInv'
<1>1. UNCHANGED <<app, high, owed>> /\ (calm' => calm) BY DEF Customer
<1>2. ASSUME NEW session \in sessions, Pay(session) PROVE SeatInv' BY <1>1, <1>2, PayCounts
<1>3. ASSUME NEW t \in SubIds, Cancel(t) PROVE SeatInv' BY <1>1, <1>3, CancelCounts
<1>4. CASE Forget
  <2>1. UNCHANGED <<subs, events, org, cache, roll, processed, job, high, owed>> /\ memory' = {} BY <1>1, <1>4 DEF Forget, app
  <2> QED BY <1>1, <2>1, NothingCounts
<1> QED BY <1>2, <1>3, <1>4 DEF Customer

\* What a change makes of the seat.
LEMMA SeatUpdated ==
  ASSUME NEW sub \in Sub, NEW change
  PROVE  /\ Updated(sub, change).seat =
              IF change.seat = None THEN sub.seat
              ELSE IF change.seat.deleted THEN NoItem ELSE IF change.seat.id = NoItem THEN minted + 2 ELSE sub.seat
         /\ Updated(sub, change).qty = IF change.seat = None THEN sub.qty ELSE change.seat.qty
BY DEF Updated, Sub

\* Stripe takes a change: one that changes nothing leaves the bill as the roll has
\* it, and any other is announced.
LEMMA PostAcceptedCounts == ASSUME BillingInv, BillingInv', SeatInv, NEW s \in Slots, PostAccepted(s) PROVE SeatInv'
<1>1. PICK r : r = job[s] OBVIOUS
<1>2. r.pc = "post" /\ r.pc \in PastCache /\ r.pc # "idle" BY <1>1 DEF PostAccepted, At, PastCache
<1>3. Knows(r) /\ (calm => \A t \in Slots : t # s => job[t].pc = "idle") BY <1>1, <1>2, Resumes
<1>4. PICK x, change, seat : x = r.change.sub /\ change = r.change /\ seat = change.seat OBVIOUS
<1>5. x \in SubIds /\ seat \in {None} \cup SeatChange BY <1>2, <1>3, <1>4 DEF Knows
<1>6. StripeTypes /\ emitted \in Nat /\ minted \in Nat BY DEF BillingInv, BillingTypes, StripeTypes
<1>7. PICK old, next : old = subs[x] /\ next = Updated(subs[x], change) OBVIOUS
<1>8. old \in Sub BY <1>5, <1>6, <1>7 DEF StripeTypes, SubIds
<1>9. Accept(x, r.key, change) BY <1>1, <1>4 DEF PostAccepted
<1>10. seat # None => seat.id = old.seat BY <1>4, <1>7, <1>9 DEF Accept, Acceptable
<1>11. /\ next.seat = IF seat = None THEN old.seat
                      ELSE IF seat.deleted THEN NoItem ELSE IF seat.id = NoItem THEN minted + 2 ELSE old.seat
       /\ next.qty = IF seat = None THEN old.qty ELSE seat.qty
  BY <1>4, <1>7, <1>8, SeatUpdated
<1>12. PICK m : m = [key |-> r.key, change |-> change, answer |-> next] OBVIOUS
<1>13. /\ subs' = [subs EXCEPT ![x] = next] /\ memory' = memory \cup {m}
       /\ IF next = old THEN events' = events
          ELSE events' = events \cup {Event("updated", emitted + 1, x, next, None)}
  BY <1>7, <1>9, <1>12 DEF Accept
<1>14. /\ Len(subs') = Len(subs) /\ SubIds' = SubIds
       /\ \A u \in SubIds : subs'[u] = IF u = x THEN next ELSE subs[u]
  BY <1>5, <1>6, <1>13 DEF StripeTypes, SubIds
<1>15. UNCHANGED <<org, cache, roll, processed, high, calm>> BY DEF PostAccepted
<1>16. PICK j : /\ job' = [job EXCEPT ![s] = j]
                /\ \/ j = Answered(r, next) /\ owed' = (owed /\ subs' = subs /\ seat = None)
                   \/ j = Ended(r.on) /\ owed' = (owed /\ subs' = subs)
  <2>1. subs'[x] = next BY <1>5, <1>14
  <2> QED BY <1>1, <1>4, <2>1 DEF PostAccepted, Goto
<1>17. owed' \in BOOLEAN BY <1>16
<1>18. /\ j.pc \in {"store", "apply", "mark", "idle"} /\ (j.pc # "idle" => j.on = r.on)
       /\ j = Answered(r, next) /\ Seats(r) => j.pc = "store" /\ j.snap = next /\ j.qty = seat.qty
       /\ j = Answered(r, next) /\ ~Seats(r) => j.pc = "apply" /\ j.sub = x /\ j.snap = next /\ j.forced = None
       /\ j.pc = "apply" => ~Seats(r)
       /\ j = Ended(r.on) => j.pc \in {"mark", "idle"}
  BY <1>4, <1>16 DEF Answered, Applying, Ended, Idle
<1>19. j.pc # "idle" => ~OnLatest(j)
  <2>1. j.pc = "apply" => j.on.op = "change_plan" BY <1>18 DEF Seats
  <2> QED BY <1>18, <2>1 DEF OnLatest, PastCache
<1>20. j.pc = "idle" => Carries(j)' BY DEF Carries
<1>21. Aims(j)' BY <1>18 DEF Aims
<1>22. calm => /\ Aims(r) /\ AnswersCount /\ Handling(r)
               /\ old.seat = NoItem => old.qty = 0
  <2>1. calm => AnswersCount /\ NoSeatNoBill BY DEF SeatInv, InOrder
  <2> QED BY <1>1, <1>3, <1>5, <1>7, <2>1, Stands DEF NoSeatNoBill
<1>23. calm => AnswersCount'
  <2>1. m.change.seat # None => m.answer.qty = m.change.seat.qty BY <1>4, <1>11, <1>12
  <2> QED BY <1>13, <1>22, <2>1 DEF AnswersCount
<1>24. CASE next = old
  <2>1. subs' = subs
    <3>1. \A u \in DOMAIN subs : subs'[u] = subs[u] BY <1>7, <1>14, <1>24 DEF SubIds
    <3>2. subs \in Seq(Sub) /\ DOMAIN subs' = DOMAIN subs BY <1>6, <1>14 DEF StripeTypes, SubIds
    <3>3. subs = [u \in DOMAIN subs |-> subs[u]] BY <3>2
    <3>4. subs' = [u \in DOMAIN subs |-> subs'[u]] BY <1>13, <3>2, <3>3
    <3> QED BY <3>1, <3>3, <3>4
  <2>2. UNCHANGED <<subs, events>> BY <1>13, <1>24, <2>1
  <2>3. ~Newly(j, r) BY <1>2, <1>18 DEF Newly, PastCache
  <2>4. ASSUME calm, Sells, AllSaid PROVE Kept' /\ Fits(j)' /\ Carries(j)'
    <3>1. Kept /\ Fits(r) /\ Carries(r) BY <1>1, <1>3, <2>4, Stands
    <3>2. Bought' = Bought /\ subs'[Bought'] = subs[Bought] /\ Overage' = Overage /\ Right' = Right
      BY <1>15, <2>2 DEF Bought, Overage, Right
    <3>3. Kept' BY <1>15, <3>1, <3>2 DEF Kept
    <3>4. x = Bought /\ old = subs[Bought] BY <1>2, <1>4, <1>7, <3>1 DEF Carries
    <3>5. seat # None => subs[Bought].qty = Overage /\ seat.qty = Overage
      <4>1. SUFFICES ASSUME seat # None PROVE subs[Bought].qty = Overage /\ seat.qty = Overage OBVIOUS
      <4>2. ~seat.deleted
        <5>1. SUFFICES ASSUME seat.deleted PROVE FALSE OBVIOUS
        <5>2. seat.id # NoItem BY <1>2, <1>4, <1>22, <2>4, <4>1, <5>1 DEF Aims
        <5>3. old.seat = NoItem BY <1>11, <1>24, <4>1, <5>1
        <5> QED BY <1>10, <4>1, <5>2, <5>3
      <4>3. seat.qty = Overage BY <1>2, <1>4, <1>22, <2>4, <4>1, <4>2 DEF Aims
      <4> QED BY <1>11, <1>24, <3>4, <4>1, <4>3
    <3>6. Seats(r) => seat # None BY <1>2, <1>4, <1>22, <2>4 DEF Aims
    <3>7. ~Reckoning(r) /\ (Counting(r) => Seats(r)) BY <1>2 DEF Reckoning, Counting
    <3>8. owed \/ subs[Bought].qty = Overage BY <3>1, <3>5, <3>6, <3>7 DEF Fits
    <3>9. CASE j = Answered(r, next)
      <4>1. owed' \/ subs[Bought].qty = Overage BY <1>16, <2>1, <3>5, <3>8
      <4>2. Reckoning(j)' BY <1>18, <3>9 DEF Reckoning, Seats
      <4>3. Fits(j)' BY <3>2, <4>1, <4>2 DEF Fits
      <4>4. CASE Seats(r)
        <5>1. j.pc = "store" /\ j.snap = subs[Bought] /\ j.qty = subs[Bought].qty
          BY <1>18, <1>24, <3>4, <3>5, <3>6, <3>9, <4>4
        <5> QED BY <3>2, <3>3, <4>3, <5>1 DEF Carries
      <4>5. CASE ~Seats(r)
        <5>1. j.pc = "apply" /\ j.sub = Bought /\ j.snap = subs[Bought] /\ j.forced = None
          BY <1>18, <1>24, <3>4, <3>9, <4>5
        <5> QED BY <3>2, <3>3, <4>3, <5>1 DEF Carries, Seen
      <4> QED BY <4>4, <4>5
    <3>10. CASE j = Ended(r.on) /\ owed' = (owed /\ subs' = subs)
      <4>1. owed' = owed BY <2>1, <3>10, <1>17 DEF SeatInv
      <4>2. owed \/ cache.qty \in {None, subs[Bought].qty} BY <3>1, <3>7 DEF Fits
      <4>3. Fits(j)' BY <1>15, <3>2, <3>8, <4>1, <4>2 DEF Fits
      <4>4. Carries(j)' BY <1>18, <3>10 DEF Carries
      <4> QED BY <3>3, <4>3, <4>4
    <3> QED BY <1>16, <3>9, <3>10
  <2>5. CASE calm
    <3>1. high' \in Int /\ high' >= high BY <1>15 DEF BillingInv, BillingTypes, HistoryTypes
    <3>2. calm' => calm /\ \A t \in Slots : t # s => job[t].pc = "idle" BY <1>3, <2>5
    <3>3. Handling(j) BY <1>2, <1>18, <1>22, <2>5 DEF Handling
    <3>4. calm' /\ Sells /\ (AllSaid \/ Newly(j, r)) => Kept' /\ Fits(j)' /\ Carries(j)' BY <2>3, <2>4, <2>5
    <3>5. OnLatest(j) => Carries(j)' BY <1>19, <1>20
    <3>6. UNCHANGED <<subs, events, processed>> /\ AnswersCount' BY <1>15, <1>23, <2>2, <2>5
    <3> QED BY <1>1, <1>16, <1>17, <1>21, <3>1, <3>2, <3>3, <3>4, <3>5, <3>6, Turns
  <2>6. CASE ~calm BY <1>15, <1>17, <2>6 DEF SeatInv
  <2> QED BY <2>5, <2>6
<1>25. CASE next # old
  <2>1. PICK e : e = Event("updated", emitted + 1, x, next, None) OBVIOUS
  <2>2. e.op = "updated" /\ e.seq = emitted + 1 /\ e.sub = x /\ e.snap = next BY <2>1 DEF Event
  <2>3. events' = events \cup {e} BY <1>13, <1>25, <2>1
  <2>4. \A f \in events : f.seq \in 1..emitted BY <1>6 DEF StripeTypes, Tells
  <2>5. \A f, g \in events' : f.seq = g.seq => f = g \/ (f \in events /\ g \in events) BY <1>6, <2>2, <2>3, <2>4
  <2>6. job'[s] = j /\ \A t \in Slots : t # s => job'[t] = job[t] BY <1>16 DEF BillingInv, BillingTypes, JobTypes
  <2>7. ASSUME calm' PROVE EventsStay' /\ NoSeatNoBill' /\ AnswersCount' /\ \A t \in Slots : Aims(job[t])'
    <3>1. calm /\ InOrder BY <1>15, <2>7 DEF SeatInv
    <3>2. \A t \in Slots : t # s => job'[t].pc = "idle" BY <1>3, <2>6, <3>1
    <3>3. EventsStay'
      <4>1. Handling(j)' BY <1>2, <1>15, <1>18, <1>22, <2>3, <3>1 DEF Handling, WasProcessed
      <4> QED BY <2>6, <3>2, <4>1 DEF EventsStay, Handling
    <3>4. next.seat = NoItem => next.qty = 0
      <4>1. SUFFICES ASSUME next.seat = NoItem PROVE next.qty = 0 OBVIOUS
      <4>2. CASE seat = None BY <1>11, <1>22, <3>1, <4>1, <4>2
      <4>3. CASE seat # None /\ seat.deleted BY <1>2, <1>4, <1>11, <1>22, <3>1, <4>3 DEF Aims
      <4>4. CASE seat # None /\ ~seat.deleted
        <5>1. minted + 2 # NoItem BY <1>6 DEF NoItem
        <5> QED BY <1>10, <1>11, <4>1, <4>4, <5>1
      <4> QED BY <4>2, <4>3, <4>4
    <3>5. NoSeatNoBill' BY <1>14, <3>1, <3>4 DEF InOrder, NoSeatNoBill
    <3>6. \A t \in Slots : Aims(job[t])' BY <1>21, <2>6, <3>2 DEF Aims
    <3> QED BY <1>23, <3>1, <3>3, <3>5, <3>6
  <2>8. \A t \in Slots : job'[t].pc \in PastCache /\ OnEvent(job'[t].on) => job[t].pc # "idle" /\ job'[t].on = job[t].on
    <3>1. ASSUME NEW t \in Slots, job'[t].pc \in PastCache PROVE job[t].pc # "idle" /\ job'[t].on = job[t].on
      <4>1. CASE t = s BY <1>1, <1>2, <1>18, <2>6, <3>1, <4>1 DEF PastCache
      <4>2. CASE t # s BY <2>6, <3>1, <4>2 DEF PastCache
      <4> QED BY <4>1, <4>2
    <3> QED BY <3>1
  <2>9. ASSUME calm', Bought' \in Live'
        PROVE  \E u \in events' : u.op = "updated" /\ u.seq > emitted /\ \A f \in events' : f.seq >= u.seq => Current(f)'
    <3>1. x = Bought'
      <4>1. old.status = "active"
        <5>1. old.status \in {"active", "canceled"} BY <1>5, <1>6, <1>7 DEF StripeTypes
        <5>2. old.status # "canceled" BY <1>7, <1>9 DEF Accept, Acceptable
        <5> QED BY <5>1, <5>2
      <4>2. x \in Live BY <1>5, <1>7, <4>1 DEF Live
      <4> QED BY <1>14, <1>15, <2>9, <4>2 DEF BillingInv, Orderly, Bought
    <3>2. Current(e)' BY <1>5, <1>14, <2>2, <3>1 DEF Current
    <3>3. \A f \in events' : f.seq >= e.seq => f = e BY <1>6, <2>2, <2>3, <2>4
    <3>4. e \in events' /\ e.seq > emitted BY <1>6, <2>2, <2>3
    <3> QED BY <2>2, <3>2, <3>3, <3>4
  <2>10. calm' => \A t \in Slots : OnLatest(job[t])' => Carries(job[t])'
    <3>1. SUFFICES ASSUME calm', NEW t \in Slots, OnLatest(job[t])' PROVE Carries(job[t])' OBVIOUS
    <3>2. CASE job'[t].pc = "idle" BY <3>2 DEF Carries
    <3>3. CASE job'[t].pc # "idle"
      <4>1. t = s /\ job'[t] = j BY <1>3, <1>15, <2>6, <3>1, <3>3
      <4>2. j.on.op = "updated" /\ j.pc \notin PastCache BY <3>1, <4>1 DEF OnLatest
      <4>3. j.pc = "apply" BY <1>18, <3>3, <4>1, <4>2 DEF PastCache
      <4> QED BY <1>18, <4>2, <4>3 DEF Seats
    <3> QED BY <3>2, <3>3
  <2>11. UNCHANGED <<processed, high, calm>> BY <1>15
  <2> QED BY <1>17, <2>5, <2>7, <2>8, <2>9, <2>10, <2>11, Announces
<1> QED BY <1>24, <1>25

-----------------------------------------------------------------------------
LEMMA SeatStays == ASSUME BillingInv, BillingInv', SeatInv, [Next]_vars PROVE SeatInv'
<1>1. ASSUME NEW plan \in PaidPlans, Checkout(plan) PROVE SeatInv'
  <2>1. UNCHANGED <<subs, events, org, cache, roll, processed, job, high, owed, calm, memory>> BY <1>1 DEF Checkout, app, history
  <2> QED BY <2>1, NothingCounts
<1>2. CASE Customer BY <1>2, CustomerCounts
<1>3. CASE Crash BY <1>3, CrashCounts
<1>4. ASSUME NEW s \in Slots, Call(s) PROVE SeatInv'
  <2>1. ASSUME NEW plan \in PaidPlans, ChangePlan(s, plan) PROVE SeatInv' BY <2>1, ChangePlanCounts
  <2>2. CASE Sync(s) BY <2>2, SyncCounts
  <2>3. ASSUME NEW t \in SubIds, SyncSession(s, t) PROVE SeatInv' BY <2>3, SyncSessionCounts
  <2>4. ASSUME NEW via \in {"invite", "sso", "agent"}, Join(s, via) PROVE SeatInv' BY <2>4, JoinCounts
  <2>5. CASE RemoveMember(s) BY <2>5, RemoveMemberCounts
  <2> QED BY <1>4, <2>1, <2>2, <2>3, <2>4, <2>5 DEF Call
<1>5. ASSUME NEW s \in Slots, Handle(s) PROVE SeatInv'
  <2>1. CASE FetchSubscription(s) BY <2>1, FetchSubscriptionCounts
  <2>2. CASE ReadOrg(s) BY <2>2, ReadOrgCounts
  <2>3. CASE WriteOrg(s) BY <2>3, WriteOrgCounts
  <2>4. CASE WriteCache(s) BY <2>4, WriteCacheCounts
  <2>5. CASE SyncSeats(s) BY <2>5, SyncSeatsCounts
  <2>6. CASE PostAccepted(s) BY <2>6, PostAcceptedCounts
  <2>7. CASE PostRecalled(s) BY <2>7, PostRecalledCounts
  <2>8. CASE PostRefused(s) BY <2>8, PostRefusedCounts
  <2>9. CASE StoreSeats(s) BY <2>9, StoreSeatsCounts
  <2>10. CASE MarkProcessed(s) BY <2>10, MarkProcessedCounts
  <2>11. CASE InsertMember(s) BY <2>11, InsertMemberCounts
  <2> QED BY <1>5, <2>1, <2>2, <2>3, <2>4, <2>5, <2>6, <2>7, <2>8, <2>9, <2>10, <2>11 DEF Handle
<1>6. ASSUME NEW s \in Slots, FailApplying(s) PROVE SeatInv' BY <1>6, FailApplyingCounts
<1>7. ASSUME NEW s \in Slots, FailSeats(s) PROVE SeatInv' BY <1>7, FailSeatsCounts
<1>8. ASSUME NEW s \in Slots, NEW e \in events, Deliver(s, e) PROVE SeatInv' BY <1>8, DeliverCounts
<1>9. ASSUME NEW s \in Slots, NEW e \in events, Duplicate(s, e) PROVE SeatInv' BY <1>9, DuplicateCounts
<1>10. CASE UNCHANGED vars
  <2>1. UNCHANGED <<subs, events, org, cache, roll, processed, job, high, owed, calm, memory>>
    BY <1>10 DEF vars, stripe, app, history
  <2> QED BY <2>1, NothingCounts
<1>11. ASSUME NEW s \in Slots,
              Call(s) \/ Handle(s) \/ FailApplying(s) \/ FailSeats(s) \/ \E e \in events : Deliver(s, e) \/ Duplicate(s, e)
       PROVE  SeatInv'
  BY <1>4, <1>5, <1>6, <1>7, <1>8, <1>9, <1>11
<1> QED BY Zenon, <1>1, <1>2, <1>3, <1>10, <1>11 DEF Next

LEMMA SeatsHold == Spec => [](BillingInv /\ SeatInv)
<1>1. Init => BillingInv /\ SeatInv BY BillingStarts, SeatsStart
<1>2. BillingInv /\ SeatInv /\ [Next]_vars => BillingInv' /\ SeatInv' BY BillingStays, SeatStays
<1> QED BY <1>1, <1>2, PTL DEF Spec

\* On Business the seats billed are the seats taken past the included ones, once
\* everything was said and wherever no failure left one owed: neither an older
\* quantity in a late `updated`, nor one Stripe recalls for a day, nor the
\* quantity the cache remembers ever talks Stripe or PTD out of it.
THEOREM BillStands == Spec => []BillFollowsRoll
<1>1. BillingInv /\ SeatInv => BillFollowsRoll
  <2>1. SUFFICES ASSUME BillingInv, SeatInv, calm, ~owed, Settled, NEW t \in Live, PlanAt(t) = "business"
                 PROVE  subs[t].qty = SeatOverage("business", roll.humans)
    BY DEF BillFollowsRoll
  <2>2. t = Bought BY <2>1 DEF BillingInv, Orderly, Bought
  <2>3. Sells /\ InOrder BY <2>1, <2>2 DEF Sells, SeatInv
  <2>4. AllSaid BY <2>1 DEF Settled, AllSaid
  <2>5. Synced BY <2>3, <2>4 DEF InOrder
  <2>6. ~Counting(Idle) /\ \A s \in Slots : ~Counting(job[s]) BY <2>1 DEF Settled, Quiet, At, Counting, Idle
  <2> QED BY <2>1, <2>2, <2>5, <2>6 DEF Synced, Fits, Overage
<1> QED BY <1>1, SeatsHold, PTL
=============================================================================
