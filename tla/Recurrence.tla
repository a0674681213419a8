----------------------------- MODULE Recurrence -----------------------------
(* Recurring cards: the rules kept by server/plan/recurrences.ts and the        *)
(* scheduler of server/plan/scheduler.ts, which every server process runs once  *)
(* a minute against the same database.  One action per await.                   *)
(* The calendar is a parameter: Calendar.tla is the code's.                     *)
EXTENDS Integers, Sequences, FiniteSets, FiniteSetsExt, SequencesExt

CONSTANTS
  Times,           \* bound: the moments of an instance
  Rules,
  Tasks,           \* cards that may be templates
  Servers,         \* server processes with the scheduler enabled
  Editors,         \* requests in flight that set, clear or delete
  MaxEdits,        \* bound: calls that set or clear a rule or delete a card
  MaxMishaps,      \* bound: failed clones, failed ticks and restarts
  DayOf(_),        \* the date of a moment
  After(_, _),     \* nextRunAfter(rule, from)
  Later(_, _, _)   \* catchUp(rule, from, now)

\* assumption: one request at a time edits rules.  Two in flight would make two
\* rows of one card (recurrences.ts:95), and rows holds one.
ASSUME OneEditAtATime == \A d, e \in Editors : d = e

ASSUME TimesRun == 0 \in Times /\ \A at \in Times : at \in Nat /\ 0..at \subseteq Times

ASSUME CalendarMovesOn ==
  \A rule \in Rules, from \in Times :
    /\ After(rule, from) \in Int /\ After(rule, from) > from
    /\ \A at \in Times : Later(rule, from, at) \in Int /\ Later(rule, from, at) > at

VARIABLES
  now,        \* the clock
  templates,  \* the cards of Tasks that exist
  rows,       \* task_recurrences: by the template's id, the rows of one card
  cards,      \* the cards the schedule made: template, slot and key suffix
  server,     \* the tick in flight in each server, and its loop variables
  editor,     \* the handler in flight in each request
  consumed,   \* history: the slots each claim consumed
  astray,     \* history: the cards whose schedule went back (DueAgain, StoreRule)
  edits, mishaps

recurrenceVars == <<now, templates, rows, cards, server, editor, consumed, astray, edits, mishaps>>

Resting == [pc |-> "rest"]
Row == [rule : Rules, next : Int, active : BOOLEAN]

RecurrenceInit ==
  /\ now = 0 /\ templates = Tasks
  /\ rows = <<>> /\ cards = {} /\ consumed = {} /\ astray = {}
  /\ server = [v \in Servers |-> Resting] /\ editor = [e \in Editors |-> Resting]
  /\ edits = 0 /\ mishaps = 0

Ticking(v) == server[v].pc # "rest"
Step(v, r) == server' = [server EXCEPT ![v] = r]
Edit(e, r) == editor' = [editor EXCEPT ![e] = r]
Unwritten == UNCHANGED <<templates, rows, cards, consumed, astray>>
-----------------------------------------------------------------------------
ClockMoves ==
  /\ now + 1 \in Times
  /\ now' = now + 1
  /\ UNCHANGED <<templates, rows, cards, server, editor, consumed, astray, edits, mishaps>>

Due(at) == {t \in DOMAIN rows : rows[t].active /\ rows[t].next <= at}

\* tick reads the clock and the rows that are due, oldest first.  The guard of
\* `running` is that the server rests.  A tick with nothing due ends at once.
StartTick(v) ==
  /\ ~Ticking(v) /\ Due(now) # {}
  /\ \E order \in SetToAllKPermutations(Due(now)) :
       /\ Len(order) = Cardinality(Due(now))
       /\ \A i, j \in DOMAIN order : i < j => rows[order[i]].next <= rows[order[j]].next
       /\ Step(v, [pc |-> "claim", at |-> now,
                   due |-> [i \in DOMAIN order |->
                              LET t == order[i] IN [task |-> t, rule |-> rows[t].rule, next |-> rows[t].next]]])
  /\ Unwritten /\ UNCHANGED <<now, editor, edits, mishaps>>

NextRow(r) == IF Len(r.due) = 1 THEN Resting ELSE [pc |-> "claim", at |-> r.at, due |-> Tail(r.due)]

\* The row read is due again at a slot other than the one read: another tick,
\* at an earlier moment, claimed that one, and the row has come due since.
DueAgain(row, at) == rows[row.task].next # row.next /\ rows[row.task].next <= at

\* The claim is the UPDATE: it takes the row if it is still active and due, at
\* whatever slot the row stands by then; the slot cloned is the one read.
Claims(v, taken, otherwise) ==
  LET r == server[v]
      row == Head(r.due)
  IN
  /\ r.pc = "claim"
  /\ IF taken
     THEN /\ rows' = [rows EXCEPT ![row.task].next = Later(row.rule, row.next, r.at)]
          /\ consumed' = consumed \cup {<<row.task, row.next>>}
          /\ astray' = astray \cup {t \in {row.task} : DueAgain(row, r.at)}
          /\ Step(v, [r EXCEPT !.pc = "template"])
     ELSE Step(v, otherwise) /\ UNCHANGED <<rows, consumed, astray>>
  /\ UNCHANGED <<now, templates, cards, editor, edits, mishaps>>

\* Mutant: the claim does not ask whether the row is still due.
Claim_Bug(v) ==
  Claims(v, LET t == Head(server[v].due).task IN t \in DOMAIN rows /\ rows[t].active, NextRow(server[v]))

\* Mutant: a tick that lost a claim returns with its flag up.
Claim_Sticks(v) ==
  Claims(v, Head(server[v].due).task \in Due(server[v].at), [pc |-> "stuck", at |-> server[v].at])

Claim(v) == Claims(v, Head(server[v].due).task \in Due(server[v].at), NextRow(server[v]))

\* cloneTemplate: a template that is gone ends the clone (its row went with it,
\* so the row the code would deactivate is not there).
ReadTemplate(v) ==
  LET r == server[v] IN
  /\ r.pc = "template"
  /\ Step(v, IF Head(r.due).task \in templates THEN [r EXCEPT !.pc = "insert"] ELSE NextRow(r))
  /\ Unwritten /\ UNCHANGED <<now, editor, edits, mishaps>>

\* freeKey: the first suffix no card of that template and day has.
FreeKey(t, slot) ==
  Min((1..(Cardinality(cards) + 1)) \
      {c.key : c \in {c \in cards : c.task = t /\ DayOf(c.slot) = DayOf(slot)}})

\* The keys are read and the card inserted in one step.
InsertCard(v) ==
  LET r == server[v]
      row == Head(r.due)
  IN
  /\ r.pc = "insert"
  /\ cards' = cards \cup {[task |-> row.task, slot |-> row.next, key |-> FreeKey(row.task, row.next)]}
  /\ Step(v, NextRow(r))
  /\ UNCHANGED <<now, templates, rows, editor, consumed, astray, edits, mishaps>>

Mishap == mishaps < MaxMishaps /\ mishaps' = mishaps + 1

\* A clone that throws is logged, and the loop goes on.
\* Mutant: the loop tries the row once more from the insert.
CloneFails_Bug(v) ==
  LET r == server[v]
      row == Head(r.due)
  IN
  /\ r.pc = "insert" /\ Mishap
  /\ cards' = cards \cup {[task |-> row.task, slot |-> row.next, key |-> FreeKey(row.task, row.next)]}
  /\ Step(v, r)
  /\ UNCHANGED <<now, templates, rows, editor, consumed, astray, edits>>

CloneFails(v) ==
  /\ server[v].pc \in {"template", "insert"} /\ Mishap
  /\ Step(v, NextRow(server[v]))
  /\ Unwritten /\ UNCHANGED <<now, editor, edits>>

\* Anything else that throws ends the tick; `finally` lets the next one start.
TickFails(v) ==
  /\ server[v].pc = "claim" /\ Mishap
  /\ Step(v, Resting)
  /\ Unwritten /\ UNCHANGED <<now, editor, edits>>

\* The process is replaced: its tick is lost where it stood.
Restart(v) ==
  /\ Ticking(v) /\ Mishap
  /\ Step(v, Resting)
  /\ Unwritten /\ UNCHANGED <<now, editor, edits>>
-----------------------------------------------------------------------------
\* setRecurrence reads the card and the row it has, and computes the next
\* firing from the clock; then it updates that row, or inserts one.
SetRecurrence(e, t, rule) ==
  /\ editor[e].pc = "rest" /\ edits < MaxEdits /\ edits' = edits + 1
  /\ t \in templates
  /\ Edit(e, [pc |-> "set", task |-> t, rule |-> rule, next |-> After(rule, now)])
  /\ Unwritten /\ UNCHANGED <<now, server, mishaps>>

\* The rows with that of card t written.
WithRow(t, row) == [u \in DOMAIN rows \cup {t} |-> IF u = t THEN row ELSE rows[u]]

\* The slot computed from the clock has passed before it is written.
Passed(r) == astray' = astray \cup {t \in {r.task} : r.next <= now}

\* Mutant: the row of a card deleted meanwhile is written.
StoreRule_Bug(e) ==
  LET r == editor[e] IN
  /\ r.pc = "set"
  /\ rows' = WithRow(r.task, [rule |-> r.rule, next |-> r.next, active |-> TRUE])
  /\ Passed(r)
  /\ Edit(e, Resting)
  /\ UNCHANGED <<now, templates, cards, server, consumed, edits, mishaps>>

\* A card deleted meanwhile refuses the insert and leaves nothing to update.
StoreRule(e) ==
  LET r == editor[e] IN
  /\ r.pc = "set"
  /\ rows' = IF r.task \in templates
             THEN WithRow(r.task, [rule |-> r.rule, next |-> r.next, active |-> TRUE]) ELSE rows
  /\ Passed(r)
  /\ Edit(e, Resting)
  /\ UNCHANGED <<now, templates, cards, server, consumed, edits, mishaps>>

ClearRecurrence(e, t) ==
  /\ editor[e].pc = "rest" /\ edits < MaxEdits /\ edits' = edits + 1
  /\ t \in DOMAIN rows /\ rows[t].active
  /\ Edit(e, [pc |-> "clear", task |-> t])
  /\ Unwritten /\ UNCHANGED <<now, server, mishaps>>

Deactivate(e) ==
  LET t == editor[e].task IN
  /\ editor[e].pc = "clear"
  /\ rows' = IF t \in DOMAIN rows THEN [rows EXCEPT ![t].active = FALSE] ELSE rows
  /\ Edit(e, Resting)
  /\ UNCHANGED <<now, templates, cards, server, consumed, astray, edits, mishaps>>

\* The process that serves the request is replaced.
Abandon(e) ==
  /\ editor[e].pc # "rest" /\ Mishap
  /\ Edit(e, Resting)
  /\ Unwritten /\ UNCHANGED <<now, server, edits>>

\* task.delete on a template: the foreign key takes the row with the card.
DeleteTemplate(t) ==
  /\ t \in templates /\ edits < MaxEdits /\ edits' = edits + 1
  /\ templates' = templates \ {t}
  /\ rows' = [u \in DOMAIN rows \ {t} |-> rows[u]]
  /\ UNCHANGED <<now, cards, server, editor, consumed, astray, mishaps>>

Tick(v) == StartTick(v) \/ Claim(v) \/ ReadTemplate(v) \/ InsertCard(v)

RecurrenceNext ==
  \/ ClockMoves
  \/ \E v \in Servers : Tick(v) \/ CloneFails(v) \/ TickFails(v) \/ Restart(v)
  \/ \E e \in Editors : \/ \E t \in Tasks, rule \in Rules : SetRecurrence(e, t, rule)
                        \/ \E t \in Tasks : ClearRecurrence(e, t)
                        \/ StoreRule(e) \/ Deactivate(e) \/ Abandon(e)
  \/ \E t \in Tasks : DeleteTemplate(t)

\* setInterval keeps calling tick, and every await returns.
RecurrenceFairness == \A v \in Servers : WF_recurrenceVars(Tick(v))

RecurrenceSpec == RecurrenceInit /\ [][RecurrenceNext]_recurrenceVars /\ RecurrenceFairness
-----------------------------------------------------------------------------
RecurrenceTypeOK ==
  /\ now \in Times /\ templates \subseteq Tasks /\ astray \subseteq Tasks
  /\ DOMAIN rows \subseteq templates /\ \A t \in DOMAIN rows : rows[t] \in Row
  /\ \A c \in cards : <<c.task, c.slot>> \in consumed /\ c.key \in Nat

\* A rule that is due does not stay due: some server claims it, or somebody
\* clears it, moves it or deletes its card, whatever ticks failed before
\* (scheduler.ts, tick resets its guard in `finally`).
RuleFires ==
  \A t \in Tasks : (t \in Due(now)) ~> (t \notin Due(now))

\* How many cards of its slot had come when this one did.
Copies(card) ==
  Cardinality({c \in cards : c.task = card.task /\ c.slot = card.slot /\ c.key <= card.key})

\* However many servers tick, at whatever moments, and restart or fail, the
\* schedule of a card is an at-most-once delivery of its slots: in order, at most
\* one card for a slot, claimed before it is cloned (scheduler.ts:14-20).  That is
\* so until the card goes astray, in one of two overlaps the code allows: a tick
\* holds the row until a later slot of it is due too, another tick having claimed
\* the one it holds, and claims it again (scheduler.ts:87-115); or a rule is
\* written after the first slot computed for it has passed.  AtMostOnce forsakes
\* that card and keeps its promise to the others.
Firings == INSTANCE AtMostOnce WITH
  Sources <- Tasks,
  forsaken <- astray,
  last <- [t \in Tasks |->
             IF t \in astray THEN -1 ELSE Max({-1} \cup {c[2] : c \in {c \in consumed : c[1] = t}})],
  pending <- {p \in {<<Head(server[v].due).task, Head(server[v].due).next>> :
                       v \in {v \in Servers : server[v].pc \in {"template", "insert"}}} : p[1] \notin astray},
  delivered <- {<<c.task, c.slot, Copies(c)>> : c \in {c \in cards : c.task \notin astray}}
FiresAtMostOnce == Firings!Spec
=============================================================================
