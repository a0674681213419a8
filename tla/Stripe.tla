------------------------------- MODULE Stripe -------------------------------
(* What Stripe does for one customer, as far as server/billing relies on it:  *)
(* the subscriptions and their items, the checkout sessions still open, the   *)
(* events it keeps sending until they are answered 200, and its memory of the *)
(* idempotency keys. External: this code is not in the repository, and each   *)
(* definition is read off what the callers in server/billing send and expect. *)
EXTENDS Integers, Sequences, SequencesExt, FiniteSets

CONSTANTS
  None,
  MaxSubs       \* bound: subscriptions ever bought

VARIABLES
  sessions,     \* checkout sessions nobody has paid
  subs,         \* subscriptions, oldest first
  events,       \* events not yet answered 200
  emitted,      \* events ever sent: the next one's place in the order
  minted,       \* item ids ever handed out
  memory        \* what each idempotency key asked, and was answered

stripe == <<sessions, subs, events, emitted, minted, memory>>

PaidPlans == {"team", "business"}
NoItem == 0

Sub == [status : {"incomplete", "active", "canceled"},
        bases : Seq([id : Nat, plan : PaidPlans]), seat : Nat, qty : Nat]

Session == [plan : PaidPlans, qty : Nat]

SubIds == DOMAIN subs
Live == {s \in SubIds : subs[s].status = "active"}
Newest(S) == CHOOSE s \in S : \A t \in S : t <= s

Event(type, seq, s, snap, plan) ==
  [op |-> type, seq |-> seq, sub |-> s, snap |-> snap, plan |-> plan]

\* The customer pays. The subscription is born incomplete and becomes active;
\* the session's own event carries the plan PTD wrote in its metadata.
Pay(session) ==
  /\ session \in sessions /\ Len(subs) < MaxSubs
  /\ LET s == Len(subs) + 1
         paid == [status |-> "active", bases |-> <<[id |-> minted + 1, plan |-> session.plan]>>,
                  seat |-> IF session.qty > 0 THEN minted + 2 ELSE NoItem, qty |-> session.qty]
     IN /\ subs' = Append(subs, paid)
        /\ events' = events \cup
             {Event("created", emitted + 1, s, [paid EXCEPT !.status = "incomplete"], None),
              Event("updated", emitted + 2, s, paid, None),
              Event("completed", emitted + 3, s, None, session.plan)}
  /\ sessions' = sessions \ {session}
  /\ emitted' = emitted + 3
  /\ minted' = minted + 2
  /\ UNCHANGED memory

\* Cancelled in the portal, or unpaid for good.
Cancel(s) ==
  /\ s \in Live
  /\ subs' = [subs EXCEPT ![s].status = "canceled"]
  /\ events' = events \cup {Event("deleted", emitted + 1, s, subs'[s], None)}
  /\ emitted' = emitted + 1
  /\ UNCHANGED <<sessions, minted, memory>>

\* A key is remembered for a day.
Forget == memory # {} /\ memory' = {} /\ UNCHANGED <<sessions, subs, events, emitted, minted>>

\* One update of a subscription's items. An item is named by its id or added;
\* one price sits on a subscription at most once.
Updated(sub, change) ==
  [sub EXCEPT
     !.bases = IF change.base = None THEN @
               ELSE IF change.base.id = NoItem
               THEN Append(@, [change.base EXCEPT !.id = minted + 1])
               ELSE [i \in DOMAIN @ |-> IF @[i].id = change.base.id THEN change.base ELSE @[i]],
     !.seat = IF change.seat = None THEN @
              ELSE IF change.seat.deleted THEN NoItem
              ELSE IF change.seat.id = NoItem THEN minted + 2 ELSE @,
     !.qty = IF change.seat = None THEN @ ELSE change.seat.qty]

Acceptable(sub, change) ==
  /\ sub.status # "canceled"
  /\ change.base # None =>
       change.base.id \in {NoItem} \cup {sub.bases[i].id : i \in DOMAIN sub.bases}
  /\ change.seat # None => change.seat.id = sub.seat
  /\ LET plans == [i \in DOMAIN Updated(sub, change).bases |-> Updated(sub, change).bases[i].plan]
     IN IsInjective(plans)

Remembered(key) == {m \in memory : m.key = key}

\* POST /v1/subscriptions/<s> with a key Stripe has not seen: it is applied,
\* remembered, and announced if it changed anything.
Accept(s, key, change) ==
  /\ Remembered(key) = {}
  /\ Acceptable(subs[s], change)
  /\ LET next == Updated(subs[s], change)
     IN /\ subs' = [subs EXCEPT ![s] = next]
        /\ memory' = memory \cup {[key |-> key, change |-> change, answer |-> next]}
        /\ IF next = subs[s]
           THEN UNCHANGED <<events, emitted>>
           ELSE /\ events' = events \cup {Event("updated", emitted + 1, s, next, None)}
                /\ emitted' = emitted + 1
        /\ minted' = IF next.seat > minted \/ Len(next.bases) > Len(subs[s].bases)
                     THEN minted + 2 ELSE minted
  /\ UNCHANGED sessions

\* The same key and the same body are answered from memory, and do nothing.
Recall(key, change, answer) ==
  /\ [key |-> key, change |-> change, answer |-> answer] \in memory
  /\ UNCHANGED stripe
=============================================================================
