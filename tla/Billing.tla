------------------------------ MODULE Billing -------------------------------
(* The hosted organization and its subscription: the plan column, the cached  *)
(* item ids, the seats, and the handlers that keep them equal to Stripe: the  *)
(* webhook, the owner's actions and every path that moves a seat. |Slots|     *)
(* handlers interleave at their awaits; events come late, twice and out of    *)
(* order; Stripe and the database fail; the process restarts.                 *)
(*                                                                            *)
(* One interval is sold, and a subscription carries its base item from the    *)
(* day it is bought; the two metered items never move and are left out.       *)
EXTENDS Stripe

CONSTANTS
  Slots,            \* handlers that can be in flight at once
  Ops,              \* what this instance lets happen
  FreeMemberLimit, TeamHumanSeats, IncludedHumanSeats, MemberCap,
  ProcessedLimit,
  MaxInputs         \* bound: acts of people and of Stripe, and crashes

ASSUME LimitsAssumption ==
  /\ {FreeMemberLimit, TeamHumanSeats, IncludedHumanSeats, MemberCap} \subseteq Nat
  /\ {ProcessedLimit, MaxSubs, MaxInputs} \subseteq Nat

VARIABLES
  org,          \* organizations: plan and stripeSubscriptionId
  cache,        \* the org_integrations row of kind `billing`, or None
  roll,         \* memberships: humans and agents
  processed,    \* the event ids this process has handled, oldest first
  job,          \* the handler in each slot
  inputs,       \* acts so far, for the bound
  high,         \* history: the latest event begun
  calm,         \* history: events came in order, one handler at a time, none failed
  owed          \* history: a seat moved, and Stripe was not told or was not heard

app == <<org, cache, roll, processed, job>>
history == <<inputs, high, calm, owed>>
vars == <<stripe, app, history>>

Plans == PaidPlans \cup {"free"}
CacheRow == [interval : {"month", None}, base : Nat, seat : Nat, qty : Nat \cup {None}]
Empty == [interval |-> None, base |-> NoItem, seat |-> NoItem, qty |-> None]
NoSub == 0
EventTypes == {"created", "updated", "completed", "deleted"}
Idle == [pc |-> "idle"]
At(s, pc) == job[s].pc = pc
Goto(s, next) == job' = [job EXCEPT ![s] = next]
Quiet == \A s \in Slots : At(s, "idle")

\* A missing value is no plan, number, row or item.
ASSUME NoneIsNothing ==
  /\ None \notin Plans /\ None \notin Nat
  /\ None \notin CacheRow /\ None \notin [id : Nat, qty : Nat, deleted : BOOLEAN]

\* An act of the world outside, when the bound allows one.
Input(op) == op \in Ops /\ inputs < MaxInputs /\ inputs' = inputs + 1

-----------------------------------------------------------------------------
(* Reading a subscription *)

\* Mutant: `active` falls through to the default of the switch.
SubscriptionHealth_Bug(status) ==
  IF status \in {"trialing", "past_due"} THEN "healthy"
  ELSE IF status \in {"canceled", "unpaid", "incomplete_expired"} THEN "dead"
  ELSE "unknown"

\* Paid for, over, or mid-flight: wait for the next event.
SubscriptionHealth(status) ==
  IF status \in {"active", "trialing", "past_due"} THEN "healthy"
  ELSE IF status \in {"canceled", "unpaid", "incomplete_expired"} THEN "dead"
  ELSE "unknown"

\* The plan is what the last base price sells; the items, by what they bill.
SubscriptionShape(snap) ==
  LET priced == snap.bases # <<>>
  IN [interval |-> IF priced THEN "month" ELSE None,
      plan |-> IF priced THEN Last(snap.bases).plan ELSE None,
      base |-> IF priced THEN Last(snap.bases).id ELSE NoItem,
      seat |-> snap.seat,
      qty |-> IF snap.seat = NoItem THEN None ELSE snap.qty]

SeatOverage(plan, humans) ==
  IF plan = "business" /\ humans > IncludedHumanSeats THEN humans - IncludedHumanSeats ELSE 0

ReadBillingState == IF cache = None THEN Empty ELSE cache

\* A patch's items are merged one by one: an item it lacks keeps its old id.
Merge(patch) ==
  LET Item(new, old) == IF new = NoItem THEN old ELSE new
      old == ReadBillingState
  IN [interval |-> patch.interval, qty |-> patch.qty,
      base |-> Item(patch.base, old.base), seat |-> Item(patch.seat, old.seat)]

\* Mutant: a plan already on the row wins over the price.
PlanOf_Bug(snap, forced) ==
  IF forced # None THEN forced
  ELSE IF SubscriptionHealth(snap.status) = "dead" THEN "free"
  ELSE IF SubscriptionHealth(snap.status) = "unknown" \/ org.plan # "free" THEN org.plan
  ELSE IF snap.bases = <<>> THEN "team" ELSE SubscriptionShape(snap).plan

\* What applySubscriptionState decides, from the row as it reads it.
PlanOf(snap, forced) ==
  LET shape == SubscriptionShape(snap)
  IN IF forced # None THEN forced
     ELSE CASE SubscriptionHealth(snap.status) = "dead" -> "free"
            [] SubscriptionHealth(snap.status) = "unknown" -> org.plan
            [] OTHER -> IF shape.plan # None THEN shape.plan
                        ELSE IF org.plan = "free" THEN "team" ELSE org.plan

-----------------------------------------------------------------------------
(* applySubscriptionState, and what runs after it *)

Applying(on, sub, snap, forced) ==
  [pc |-> "apply", on |-> on, sub |-> sub, snap |-> snap, forced |-> forced]

\* The end of a handler: the webhook still has to remember the event.
Ended(on) == IF on.op \in EventTypes THEN [pc |-> "mark", on |-> on] ELSE Idle

\* The row is read, and compared with what it should become.
ReadOrg(s) ==
  /\ At(s, "apply")
  /\ LET plan == PlanOf(job[s].snap, job[s].forced)
         next == [plan |-> plan, sub |-> IF plan = "free" THEN NoSub ELSE job[s].sub]
     IN Goto(s, [pc |-> "org", on |-> job[s].on, snap |-> job[s].snap,
                 next |-> next, changed |-> next # org])
  /\ UNCHANGED <<stripe, org, cache, roll, processed, history>>

WriteOrg(s) ==
  /\ At(s, "org")
  /\ org' = IF job[s].changed THEN job[s].next ELSE org
  /\ Goto(s, [pc |-> "cache", on |-> job[s].on, snap |-> job[s].snap, plan |-> job[s].next.plan])
  /\ UNCHANGED <<stripe, cache, roll, processed, history>>

\* Mutant: the row survives the subscription.
Cached_Bug(snap, plan) == Merge(SubscriptionShape(snap))

\* A free organization has no row; any other has the items merged in.
Cached(snap, plan) == IF plan = "free" THEN None ELSE Merge(SubscriptionShape(snap))

\* Mutant: the webhook leaves the seats to the paths that move them.
AfterApply_Bug(on, plan) == Ended(on)

\* An `updated` of a Business subscription goes on to the seats.
AfterApply(on, plan) ==
  IF on.op = "updated" /\ plan = "business" THEN [pc |-> "seats", on |-> on] ELSE Ended(on)

WriteCache(s) ==
  /\ At(s, "cache")
  /\ cache' = Cached(job[s].snap, job[s].plan)
  /\ Goto(s, AfterApply(job[s].on, job[s].plan))
  /\ UNCHANGED <<stripe, org, roll, processed, history>>

-----------------------------------------------------------------------------
(* syncSeatQuantity *)

\* It reads the organization, the roll and the cache, and asks Stripe only for a
\* quantity it does not remember having set.
SyncSeats(s) ==
  /\ At(s, "seats")
  /\ LET state == ReadBillingState
         quantity == SeatOverage(org.plan, roll.humans)
         billed == org.plan = "business" /\ org.sub # NoSub
         unchanged == state.qty = quantity /\ (quantity = 0 \/ state.seat # NoItem)
         nothing == state.seat = NoItem /\ quantity = 0
     IN /\ cache' = IF billed /\ ~unchanged /\ nothing THEN [state EXCEPT !.qty = 0] ELSE cache
        /\ Goto(s, IF ~billed \/ unchanged \/ nothing THEN Ended(job[s].on)
                   ELSE [pc |-> "post", on |-> job[s].on,
                         key |-> <<"seats", org.sub, "business", quantity>>,
                         change |-> [sub |-> org.sub, base |-> None,
                                     seat |-> [id |-> state.seat, qty |-> quantity, deleted |-> FALSE]]])
  /\ UNCHANGED <<stripe, org, roll, processed, history>>

\* Stripe's answer, kept; an error is only logged.
StoreSeats(s) ==
  /\ At(s, "store")
  /\ LET shape == SubscriptionShape(job[s].snap)
     IN cache' = Merge([shape EXCEPT !.interval = ReadBillingState.interval,
                                     !.qty = IF @ = None THEN job[s].qty ELSE @])
  /\ Goto(s, Ended(job[s].on))
  /\ UNCHANGED <<stripe, org, roll, processed, history>>

-----------------------------------------------------------------------------
(* The POST that moves a subscription's items, and its outcomes *)

Seats(j) == j.on.op # "change_plan"

Answered(j, snap) ==
  IF Seats(j) THEN [pc |-> "store", on |-> j.on, snap |-> snap, qty |-> j.change.seat.qty]
  ELSE Applying(j.on, j.change.sub, snap, None)

Outage == "outage" \in Ops

\* Stripe applies it; PTD may not hear so. What changed comes back as an `updated`;
\* that nothing changed is only in the answer.
PostAccepted(s) ==
  /\ At(s, "post")
  /\ LET j == job[s]
     IN /\ Accept(j.change.sub, j.key, j.change)
        /\ \/ /\ Goto(s, Answered(j, subs'[j.change.sub]))
              /\ owed' = (owed /\ subs' = subs /\ j.change.seat = None)
           \/ /\ Outage /\ Goto(s, Ended(j.on))
              /\ owed' = (owed /\ subs' = subs)
  /\ UNCHANGED <<org, cache, roll, processed, inputs, high, calm>>

\* Stripe answers what it answered the first time.
PostRecalled(s) ==
  /\ At(s, "post")
  /\ \E m \in Remembered(job[s].key) :
       /\ Recall(job[s].key, job[s].change, m.answer)
       /\ Goto(s, Answered(job[s], m.answer))
       /\ LET stale == m.answer # subs[job[s].change.sub]
          IN /\ owed' = (owed \/ stale)
             /\ calm' = (calm /\ (stale => Seats(job[s])))
  /\ UNCHANGED <<org, cache, roll, processed, inputs, high>>

PostRefused(s) ==
  /\ At(s, "post")
  /\ \/ Outage
     \/ Remembered(job[s].key) = {} /\ ~Acceptable(subs[job[s].change.sub], job[s].change)
     \/ \E m \in Remembered(job[s].key) : m.change # job[s].change
  /\ Goto(s, Ended(job[s].on))
  /\ owed' = (owed \/ Seats(job[s]))
  /\ UNCHANGED <<stripe, org, cache, roll, processed, inputs, high, calm>>

-----------------------------------------------------------------------------
(* The webhook *)

WasProcessed(seq) == \E i \in DOMAIN processed : processed[i] = seq

\* Stripe takes a 200 as the end of an event, if the answer reaches it.
Answer(e) == events' = events \ {e} \/ ("lost" \in Ops /\ events' = events)

Duplicate(s, e) ==
  /\ At(s, "idle") /\ e \in events /\ WasProcessed(e.seq)
  /\ Answer(e)
  /\ UNCHANGED <<sessions, subs, emitted, minted, memory, app, history>>

Deliver(s, e) ==
  /\ At(s, "idle") /\ e \in events /\ ~WasProcessed(e.seq)
  /\ Goto(s, IF e.op = "completed" THEN [pc |-> "fetch", on |-> e]
             ELSE Applying(e, e.sub, e.snap, IF e.op = "deleted" THEN "free" ELSE None))
  /\ calm' = (calm /\ Quiet /\ e.seq >= high)
  /\ high' = IF e.seq > high THEN e.seq ELSE high
  /\ UNCHANGED <<stripe, org, cache, roll, processed, inputs, owed>>

\* A completed checkout reads the subscription; if that fails, or applying it
\* does, the plan written in the session's metadata is granted.
Granted(e) ==
  Applying(e, e.sub, [status |-> "active", bases |-> <<>>, seat |-> NoItem, qty |-> 0], e.plan)

FetchSubscription(s) ==
  /\ At(s, "fetch")
  /\ \/ Goto(s, Applying(job[s].on, job[s].on.sub, subs[job[s].on.sub], None))
     \/ Outage /\ Goto(s, Granted(job[s].on))
  /\ UNCHANGED <<stripe, org, cache, roll, processed, history>>

\* Mutant: one id too many is kept.
Remember_Bug(seq) ==
  LET all == Append(processed, seq)
  IN IF Len(all) > ProcessedLimit + 1 THEN Tail(all) ELSE all

\* The oldest ids are forgotten past the limit.
Remember(seq) ==
  LET all == Append(processed, seq)
  IN IF Len(all) > ProcessedLimit THEN Tail(all) ELSE all

MarkProcessed(s) ==
  /\ At(s, "mark")
  /\ processed' = IF WasProcessed(job[s].on.seq) THEN processed ELSE Remember(job[s].on.seq)
  /\ Answer(job[s].on)
  /\ Goto(s, Idle)
  /\ UNCHANGED <<sessions, subs, emitted, minted, memory, org, cache, roll, history>>

\* The database fails under a handler that applies a subscription. The webhook
\* still answers 200, without remembering the event: Stripe will not send it again.
FailApplying(s) ==
  /\ \E pc \in {"apply", "org", "cache"} : At(s, pc)
  /\ Input("fail")
  /\ LET on == job[s].on
         retried == on.op = "completed" /\ job[s].snap.bases # <<>>
     IN /\ Goto(s, IF retried THEN Granted(on) ELSE Idle)
        /\ events' = IF on.op \in EventTypes /\ ~retried THEN events \ {on} ELSE events
        /\ calm' = (calm /\ retried)
  /\ UNCHANGED <<sessions, subs, emitted, minted, memory, org, cache, roll, processed, high, owed>>

\* The database, or Stripe's configuration, fails a seat sync, which swallows it.
FailSeats(s) ==
  /\ At(s, "seats") \/ At(s, "store")
  /\ Input("fail")
  /\ Goto(s, Ended(job[s].on))
  /\ owed' = TRUE
  /\ UNCHANGED <<stripe, org, cache, roll, processed, high, calm>>

\* A restart forgets the events handled and every handler in flight.
Crash ==
  /\ Input("crash")
  /\ processed' = <<>>
  /\ job' = [s \in Slots |-> Idle]
  /\ owed' = (owed \/ ~Quiet)
  /\ UNCHANGED <<stripe, org, cache, roll, high, calm>>

-----------------------------------------------------------------------------
(* The owner's actions *)

Begin(s, op, next, current) ==
  /\ At(s, "idle") /\ Input(op) /\ Goto(s, next)
  /\ calm' = (calm /\ Quiet /\ current)
  /\ UNCHANGED <<stripe, org, cache, processed, high>>

\* Bound: one session open at a time, as many as there are subscriptions to buy.
Checkout(plan) ==
  /\ ~(org.sub # NoSub /\ org.plan # "free")
  /\ sessions = {} /\ Len(subs) < MaxSubs
  /\ sessions' = sessions \cup {[plan |-> plan, qty |-> SeatOverage(plan, roll.humans)]}
  /\ UNCHANGED <<subs, events, emitted, minted, memory, app, history>>

\* The base item is replaced in place when its id is known; the seat item is set
\* on Business and removed on Team.
ChangePlan(s, plan) ==
  /\ org.sub # NoSub
  /\ ~(org.plan = plan /\ ReadBillingState.interval = "month")
  /\ LET state == ReadBillingState
         seats == SeatOverage(plan, roll.humans)
         change == [sub |-> org.sub,
                    base |-> [id |-> state.base, plan |-> plan],
                    seat |-> IF state.seat = NoItem /\ seats = 0 THEN None
                             ELSE [id |-> state.seat, qty |-> seats, deleted |-> plan # "business"]]
     IN Begin(s, "change_plan", [pc |-> "post", on |-> [op |-> "change_plan"],
                                 key |-> <<"plan", NoSub, plan, seats>>, change |-> change], TRUE)
  /\ UNCHANGED <<roll, owed>>

\* billing.sync: the subscription on file, else the healthiest, newest first.
\* billing.status reads the one on file in the same way.
Sync(s) ==
  /\ SubIds # {}
  /\ LET t == IF org.sub # NoSub THEN org.sub
              ELSE IF Live # {} THEN Newest(Live) ELSE Newest(SubIds)
     IN Begin(s, "sync", Applying([op |-> "sync"], t, subs[t], None), TRUE)
  /\ UNCHANGED <<roll, owed>>

\* billing.sync with the session id of a checkout's redirect, today's or an old one.
SyncSession(s, t) ==
  /\ Begin(s, "redirect", Applying([op |-> "sync"], t, subs[t], None), t = Newest(SubIds))
  /\ UNCHANGED <<roll, owed>>

-----------------------------------------------------------------------------
(* The seats *)

Members == roll.humans + roll.agents

WithinPlan(human) ==
  /\ Members < IF org.plan = "free" THEN FreeMemberLimit ELSE MemberCap
  /\ human => CASE org.plan = "free" -> roll.humans < FreeMemberLimit
                 [] org.plan = "team" -> roll.humans < TeamHumanSeats
                 [] OTHER -> TRUE

\* An invitation accepted, an agent registered, or an invitation accepted by
\* signing in: the last one tells nobody.
Join(s, via) ==
  /\ WithinPlan(via # "agent")
  /\ Begin(s, via, [pc |-> "insert", on |-> [op |-> via]], TRUE)
  /\ UNCHANGED <<roll, owed>>

InsertMember(s) ==
  /\ At(s, "insert")
  /\ LET via == job[s].on.op
     IN /\ roll' = IF via = "agent" THEN [roll EXCEPT !.agents = @ + 1]
                   ELSE [roll EXCEPT !.humans = @ + 1]
        /\ Goto(s, IF via = "sso" THEN Idle ELSE [pc |-> "seats", on |-> job[s].on])
        /\ owed' = (owed \/ via = "sso")
  /\ UNCHANGED <<stripe, org, cache, processed, inputs, high, calm>>

\* The owner stays.
RemoveMember(s) ==
  /\ \/ roll.humans > 1 /\ roll' = [roll EXCEPT !.humans = @ - 1]
     \/ roll.agents > 0 /\ roll' = [roll EXCEPT !.agents = @ - 1]
  /\ Begin(s, "remove", [pc |-> "seats", on |-> [op |-> "remove"]], TRUE)
  /\ UNCHANGED owed

-----------------------------------------------------------------------------
Init ==
  /\ sessions = {} /\ subs = <<>> /\ events = {} /\ memory = {}
  /\ emitted = 0 /\ minted = 0
  /\ org = [plan |-> "free", sub |-> NoSub]
  /\ cache = None
  /\ roll = [humans |-> 1, agents |-> 0]
  /\ processed = <<>>
  /\ job = [s \in Slots |-> Idle]
  /\ inputs = 0 /\ high = 0 /\ calm = TRUE /\ owed = FALSE

\* The customer and Stripe act on their own. Two subscriptions alive at once are
\* no longer one truth.
Customer ==
  /\ \/ \E session \in sessions : Pay(session) /\ Input("pay")
     \/ \E t \in SubIds : Cancel(t) /\ Input("cancel")
     \/ Forget /\ Input("day")
  /\ calm' = (calm /\ Cardinality(Live') <= 1)
  /\ UNCHANGED <<app, high, owed>>

Call(s) ==
  \/ \E plan \in PaidPlans : ChangePlan(s, plan)
  \/ Sync(s)
  \/ \E t \in SubIds : SyncSession(s, t)
  \/ \E via \in {"invite", "sso", "agent"} : Join(s, via)
  \/ RemoveMember(s)

Handle(s) ==
  \/ FetchSubscription(s) \/ ReadOrg(s) \/ WriteOrg(s) \/ WriteCache(s)
  \/ SyncSeats(s) \/ PostAccepted(s) \/ PostRecalled(s) \/ PostRefused(s) \/ StoreSeats(s)
  \/ MarkProcessed(s) \/ InsertMember(s)

Next ==
  \/ \E plan \in PaidPlans : Checkout(plan)
  \/ Customer
  \/ Crash
  \/ \E s \in Slots :
       \/ Call(s) \/ Handle(s) \/ FailApplying(s) \/ FailSeats(s)
       \/ \E e \in events : Deliver(s, e) \/ Duplicate(s, e)

Spec == Init /\ [][Next]_vars

\* Handlers are resumed, and Stripe keeps sending an event it has no answer to.
FairSpec ==
  /\ Spec
  /\ \A s \in Slots : WF_vars(Handle(s))
  /\ \A type \in EventTypes :
       SF_vars(\E s \in Slots, e \in events : e.op = type /\ Deliver(s, e))
-----------------------------------------------------------------------------
\* Every variable keeps to what the schema and Stripe's objects can hold.
TypeOK ==
  /\ sessions \subseteq Session /\ subs \in Seq(Sub) /\ Len(subs) <= MaxSubs
  /\ org \in [plan : Plans, sub : SubIds \cup {NoSub}]
  /\ cache \in {None} \cup CacheRow
  /\ roll \in [humans : Nat \ {0}, agents : Nat]
  /\ processed \in Seq(1..emitted) /\ Len(processed) <= ProcessedLimit
  /\ \A e \in events : e.op \in EventTypes /\ e.seq \in 1..emitted /\ e.sub \in SubIds
  /\ \A m \in memory : m.answer \in Sub /\ m.change.sub \in SubIds
  /\ \A s \in Slots : job[s].pc \in {"idle", "fetch", "apply", "org", "cache", "seats", "post",
                                     "store", "mark", "insert"}
  /\ high <= emitted /\ inputs <= MaxInputs

\* Everything has been said: nobody is handling anything, no event is on its way.
Settled == Quiet /\ events = {}

PlanAt(t) == Last(subs[t].bases).plan

\* The price is the truth: once every event was delivered in order and handled,
\* the plan column names the plan of the one live subscription, or free. It is
\* the derivation docs/billing.md promises, through restarts, outages, answers
\* lost and syncs that run ahead of the events.
PlanAgrees ==
  calm /\ Settled =>
    /\ Live = {} => org.plan = "free"
    /\ \A t \in Live : org = [plan |-> PlanAt(t), sub |-> t]

\* A free organization remembers no items and a paying one does: the row exists
\* exactly when the plan is paid, whatever order writes came in.
FreeKeepsNothing ==
  calm /\ Settled => (org.plan = "free" <=> cache = None)

\* On Business, the seats billed are the seats taken past the included ones,
\* wherever every change of the roll got through to Stripe and its answer back: a
\* late `updated`, carrying an older quantity into the cache, never talks Stripe
\* back into it.
BillFollowsRoll ==
  calm /\ ~owed /\ Settled =>
    \A t \in Live : PlanAt(t) = "business" =>
      subs[t].qty = SeatOverage("business", roll.humans)

\* A customer who pays is unlocked, whatever is lost on the way.
PaidIsUnlocked ==
  (calm /\ org.plan = "free" /\ Live # {}) ~> (org.plan # "free" \/ Live = {} \/ ~calm)

\* docs/billing.md: the bill follows the roll without anybody reconciling
\* anything. Events in order, one handler at a time, nothing failing.
SeatsFollowRoll ==
  calm /\ Settled =>
    \A t \in Live : PlanAt(t) = "business" =>
      subs[t].qty = SeatOverage("business", roll.humans)

\* state.ts: the cache is rebuilt by every webhook and by billing.sync, so once
\* everything was said in order it names no item Stripe has removed.
ItemsAreLive ==
  calm /\ Settled /\ cache # None /\ org.sub # NoSub => cache.seat \in {NoItem, subs[org.sub].seat}
=============================================================================
