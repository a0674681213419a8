------------------------------- MODULE Board -------------------------------
(* The Plan board of one organization: the mutations of server/actions/plan.ts *)
(* on cards, the forward push they persist (applyCascade in server/plan/       *)
(* taskOps.ts), and the lanes, apps and attachments of server/plan/            *)
(* streamOps.ts.  A handler first reads (its reads are one step), then writes  *)
(* one row per await; the process may stop between any two of its awaits.      *)
EXTENDS Cascade

CONSTANTS
  Slots,      \* requests the process works on at the same time
  Usages,     \* bound: what the callers of one behaviour use, and how often
  MaxCards,   \* bound: cards ever created
  Orders,     \* row orders an unsorted SELECT may return
  Starts, Dues, Durs,  \* the dates and durations callers give
  DatePatches, LanePatches,  \* the bodies callers give task.update
  Lanes, Apps,         \* streams and apps of the organization
  Members,    \* members a card may be assigned to
  Manager,    \* a caller with the manager role
  None

VARIABLES
  board,      \* tasks: the columns of each card that exists
  nextCard,   \* the next serial id
  attached,   \* stream_apps: pairs of a lane and an app
  detaching,  \* pairs a detach removed and has not (yet) cleared from the cards
  req,        \* the handler in flight in each slot
  usage,      \* bound: the usage of this behaviour
  calls       \* bound: calls made

boardVars == <<board, nextCard, attached, detaching, req, usage, calls>>

CardIds == 1..MaxCards
Statuses == {"backlog", "in-progress", "completed"}
Day == Nat \cup {NoDay}
Card == [start : Day, due : Day, dur : Nat, deps : SUBSET CardIds, status : Statuses,
         done : BOOLEAN, lane : Lanes \cup {None}, app : Apps \cup {None},
         owner : Members \cup {None}]

\* What the columns a caller of task.update may patch hold.
Column == [start |-> Day, due |-> Day, dur |-> Nat, deps |-> SUBSET CardIds, done |-> BOOLEAN,
           lane |-> Lanes \cup {None}, app |-> Apps \cup {None}]
IsPatch(p) == DOMAIN p \subseteq DOMAIN Column /\ \A f \in DOMAIN p : p[f] \in Column[f]

\* A SELECT returns every row, in any order.
ASSUME BoardAssumption ==
  /\ MaxCards \in Nat
  /\ Starts \subseteq Day /\ Dues \subseteq Day /\ Durs \subseteq Nat
  /\ \A p \in DatePatches \cup LanePatches : IsPatch(p)
  /\ \A order \in Orders : order \in Seq(CardIds) /\ Range(order) = CardIds
  /\ \A u \in Usages : u.cards \in 0..MaxCards /\ u.calls \in Nat

Idle == [pc |-> "idle"]
At(s, pc) == req[s].pc = pc
Quiet == \A s \in Slots : At(s, "idle")
Proceed(s, r) == req' = [req EXCEPT ![s] = r]

Begin(s, op, r) ==
  /\ op \in usage.ops /\ At(s, "idle") /\ calls < usage.calls
  /\ calls' = calls + 1
  /\ UNCHANGED usage
  /\ Proceed(s, r)

\* One row of columns written over another.
Over(columns, row) ==
  [f \in DOMAIN columns \cup DOMAIN row |-> IF f \in DOMAIN columns THEN columns[f] ELSE row[f]]

Reads == UNCHANGED <<board, nextCard, attached, detaching>>
Writes(b) == board' = b /\ UNCHANGED <<nextCard, attached, detaching, usage, calls>>

BoardInit ==
  /\ board = <<>> /\ nextCard = 1
  /\ attached = {} /\ detaching = {}
  /\ req = [s \in Slots |-> Idle]
  /\ usage \in Usages /\ calls = 0
-----------------------------------------------------------------------------
\* The lane and the app a card would carry must belong together.
PairIsLegal(lane, app) == app = None \/ lane = None \/ <<lane, app>> \in attached

\* task.create: a card with a start date is on the timeline, one without is in
\* the backlog.
Create(s, start, due, dur, deps, lane, app) ==
  /\ nextCard <= usage.cards
  /\ deps \subseteq DOMAIN board
  /\ PairIsLegal(lane, app)
  /\ Begin(s, "create",
           [pc |-> "insert",
            row |-> [start |-> start, due |-> due, dur |-> dur, deps |-> deps,
                     status |-> IF start = NoDay THEN "backlog" ELSE "in-progress",
                     done |-> FALSE, lane |-> lane, app |-> app, owner |-> None]])
  /\ Reads

Insert(s) ==
  /\ At(s, "insert")
  /\ board' = Over(board, [c \in {nextCard} |-> req[s].row])
  /\ nextCard' = nextCard + 1
  /\ Proceed(s, IF req[s].row.start = NoDay THEN Idle ELSE [pc |-> "cascade", root |-> nextCard])
  /\ UNCHANGED <<attached, detaching, usage, calls>>

\* deriveStatus: a completed card keeps its status.
\* Mutant: clearing the start leaves a card marked in progress.
DeriveStatus_Bug(card, start) ==
  IF card.done THEN card.status
  ELSE IF start # NoDay /\ card.status = "backlog" THEN "in-progress"
  ELSE card.status

DeriveStatus(card, start) ==
  IF card.done THEN card.status
  ELSE IF start # NoDay /\ card.status = "backlog" THEN "in-progress"
  ELSE IF start = NoDay /\ card.status = "in-progress" THEN "backlog"
  ELSE card.status

\* A status is written when it changes.
WithStatus(columns, card, status) ==
  IF status = card.status THEN columns ELSE Over([status |-> status], columns)

\* The columns task.update assigns.  The status derived from a new start wins
\* over the one completed: true sets.
\* Mutant: a status the board does not know.
Assigned_Bug(card, patch) ==
  IF "done" \in DOMAIN patch /\ patch.done THEN Over([status |-> "done"], patch) ELSE patch

Assigned(card, patch) ==
  LET derived == IF "start" \in DOMAIN patch THEN DeriveStatus(card, patch.start) ELSE card.status
  IN IF derived = card.status /\ "done" \in DOMAIN patch /\ patch.done
     THEN Over([status |-> "completed"], patch) ELSE WithStatus(patch, card, derived)

\* An UPDATE of one row: a row that is gone is not written.
Set(c, columns) == IF c \in DOMAIN board THEN [board EXCEPT ![c] = Over(columns, @)] ELSE board

\* task.update
Update(s, c, patch) ==
  LET columns == Assigned(board[c], patch)
      next == Over(columns, board[c])
  IN
  /\ PairIsLegal(next.lane, next.app)
  /\ "deps" \in DOMAIN patch => /\ patch.deps \subseteq DOMAIN board \ {c}
                                /\ ~WouldCreateCycle(board, c, patch.deps)
  /\ Begin(s, "update", [pc |-> "update", root |-> c, was |-> board[c], columns |-> columns])
  /\ Reads

TimeChanged(was, is) == \E f \in {"start", "due", "dur"} : was[f] # is[f]

UpdateWrite(s) ==
  LET r == req[s]
      cascades == r.root \in DOMAIN board
                  /\ (TimeChanged(r.was, Over(r.columns, board[r.root])) \/ "deps" \in DOMAIN r.columns)
  IN
  /\ At(s, "update")
  /\ Writes(Set(r.root, r.columns))
  /\ Proceed(s, IF cascades THEN [pc |-> "cascade", root |-> r.root] ELSE Idle)

\* task.schedule, task.unschedule and task.set_dependencies write, then push.
Schedule(s, c, start, dur) ==
  LET status == IF board[c].done THEN board[c].status ELSE "in-progress"
      dates == IF dur = 0 THEN [start |-> start] ELSE [start |-> start, dur |-> dur]
  IN
  /\ start # NoDay
  /\ Begin(s, "schedule", [pc |-> "write", root |-> c,
                           columns |-> WithStatus(dates, board[c], status)])
  /\ Reads

Unschedule(s, c) ==
  LET status == DeriveStatus(board[c], NoDay) IN
  /\ board[c].start # NoDay
  /\ Begin(s, "unschedule", [pc |-> "write", root |-> c,
                             columns |-> WithStatus([start |-> NoDay], board[c], status)])
  /\ Reads

SetDependencies(s, c, deps) ==
  /\ deps \subseteq DOMAIN board \ {c}
  /\ ~WouldCreateCycle(board, c, deps)
  /\ Begin(s, "set_dependencies", [pc |-> "write", root |-> c, columns |-> [deps |-> deps]])
  /\ Reads

Write(s) ==
  /\ At(s, "write")
  /\ Writes(Set(req[s].root, req[s].columns))
  /\ Proceed(s, [pc |-> "cascade", root |-> req[s].root])

\* The row a push writes.
Pushed(card, is) ==
  WithStatus([start |-> is.start, due |-> is.due], card, DeriveStatus(card, is.start))

\* applyCascade reads every card and computes the pushes,
ApplyCascade(s) ==
  /\ At(s, "cascade")
  /\ \E order \in Orders :
       LET walk == CascadeFrom(board, req[s].root, order) IN
       Proceed(s, [pc |-> "shift", root |-> req[s].root, moved |-> Range(walk.moved),
                   todo |-> [i \in DOMAIN walk.moved |->
                     [card |-> walk.moved[i],
                      columns |-> Pushed(board[walk.moved[i]], walk.board[walk.moved[i]])]]])
  /\ Reads /\ UNCHANGED <<usage, calls>>

\* and writes them one row at a time.
Shift(s) ==
  LET change == Head(req[s].todo) IN
  /\ At(s, "shift") /\ req[s].todo # <<>>
  /\ Writes(Set(change.card, change.columns))
  /\ Proceed(s, [req[s] EXCEPT !.todo = Tail(@)])

Answer(s) ==
  /\ At(s, "shift") /\ req[s].todo = <<>>
  /\ Proceed(s, Idle)
  /\ Reads /\ UNCHANGED <<usage, calls>>

\* task.set_assignee
SetAssignee(s, c, who) ==
  /\ board[c].owner # who
  /\ Begin(s, "set_assignee", [pc |-> "set", root |-> c, columns |-> [owner |-> who]])
  /\ Reads

\* task.complete: a member only their own card.
Complete(s, c, caller) ==
  /\ caller = Manager \/ board[c].owner = caller
  /\ ~board[c].done
  /\ Begin(s, "complete", [pc |-> "set", root |-> c,
                           columns |-> [done |-> TRUE, status |-> "completed"]])
  /\ Reads

SetColumns(s) ==
  /\ At(s, "set")
  /\ Writes(Set(req[s].root, req[s].columns))
  /\ Proceed(s, Idle)

Dependents(c) == {d \in DOMAIN board \ {c} : c \in board[d].deps}

\* task.delete takes the card out of every dependent's list as it read them,
\* one row at a time, and deletes the row last.
Delete(s, c) ==
  /\ Begin(s, "delete", [pc |-> "strip", root |-> c,
                         todo |-> [d \in Dependents(c) |-> board[d].deps \ {c}]])
  /\ Reads

Strip(s) ==
  LET r == req[s] IN
  /\ At(s, "strip")
  /\ \E d \in DOMAIN r.todo :
       /\ Writes(Set(d, [deps |-> r.todo[d]]))
       /\ Proceed(s, [r EXCEPT !.todo = [e \in DOMAIN r.todo \ {d} |-> r.todo[e]]])

Drop(s) ==
  LET r == req[s] IN
  /\ At(s, "strip") /\ DOMAIN r.todo = {}
  /\ Writes([c \in DOMAIN board \ {r.root} |-> board[c]])
  /\ Proceed(s, Idle)
-----------------------------------------------------------------------------
\* stream.attach_app
AttachApp(s, lane, app) ==
  /\ <<lane, app>> \notin attached
  /\ Begin(s, "attach", Idle)
  /\ attached' = attached \cup {<<lane, app>>}
  /\ UNCHANGED <<board, nextCard, detaching>>

\* stream.detach_app deletes the attachment, then clears the app from each card
\* of the lane that carries it.  The clean-up runs whether or not the pair was
\* attached, so a call repeated after a restart finishes it.
\* Mutant: a pair that is not attached any more is answered at once.
DetachApp_Bug(s, lane, app) ==
  /\ Begin(s, "detach", IF <<lane, app>> \in attached
                        THEN [pc |-> "orphans", lane |-> lane, app |-> app] ELSE Idle)
  /\ attached' = attached \ {<<lane, app>>}
  /\ detaching' = IF <<lane, app>> \in attached
                  THEN detaching \cup {<<lane, app>>} ELSE detaching \ {<<lane, app>>}
  /\ UNCHANGED <<board, nextCard>>

DetachApp(s, lane, app) ==
  /\ Begin(s, "detach", [pc |-> "orphans", lane |-> lane, app |-> app])
  /\ attached' = attached \ {<<lane, app>>}
  /\ detaching' = detaching \cup {<<lane, app>>}
  /\ UNCHANGED <<board, nextCard>>

Orphans(s) ==
  LET r == req[s] IN
  /\ At(s, "orphans")
  /\ Proceed(s, [pc |-> "clear", lane |-> r.lane, app |-> r.app,
                 todo |-> {c \in DOMAIN board : board[c].lane = r.lane /\ board[c].app = r.app}])
  /\ Reads /\ UNCHANGED <<usage, calls>>

ClearApp(s) ==
  LET r == req[s] IN
  /\ At(s, "clear")
  /\ \E c \in r.todo : Writes(Set(c, [app |-> None])) /\ Proceed(s, [r EXCEPT !.todo = @ \ {c}])

Detached(s) ==
  LET r == req[s] IN
  /\ At(s, "clear") /\ r.todo = {}
  /\ detaching' = detaching \ {<<r.lane, r.app>>}
  /\ Proceed(s, Idle)
  /\ UNCHANGED <<board, nextCard, attached, usage, calls>>

\* stream.move_tasks: a card whose app the target lane does not have loses it;
\* the lane is asked before each write.
MoveTasks(s, from, to) ==
  /\ from # to
  /\ Begin(s, "move", [pc |-> "move", to |-> to,
                       todo |-> [c \in {c \in DOMAIN board : board[c].lane = from} |-> board[c].app]])
  /\ Reads

MovedTo(app, to) ==
  IF PairIsLegal(to, app) THEN [lane |-> to] ELSE [lane |-> to, app |-> None]

MoveOne(s) ==
  LET r == req[s] IN
  /\ At(s, "move")
  /\ \E c \in DOMAIN r.todo :
       /\ Writes(Set(c, MovedTo(r.todo[c], r.to)))
       /\ Proceed(s, [r EXCEPT !.todo = [d \in DOMAIN @ \ {c} |-> @[d]]])

Moved(s) ==
  /\ At(s, "move") /\ DOMAIN req[s].todo = {}
  /\ Proceed(s, Idle)
  /\ Reads /\ UNCHANGED <<usage, calls>>
-----------------------------------------------------------------------------
\* bound: a caller of lanes gives no dates, and one about dates no lanes.
Given(topic, values, default) == IF topic \in usage.topics THEN values ELSE {default}

Call(s) ==
  \/ \E start \in Given("dates", Starts, NoDay), dur \in Given("dates", Durs, 0),
        due \in Given("dates", Dues, NoDay), deps \in Given("dates", SUBSET CardIds, {}),
        lane \in Given("lanes", Lanes \cup {None}, None),
        app \in Given("lanes", Apps \cup {None}, None) :
       Create(s, start, due, dur, deps, lane, app)
  \/ \E c \in DOMAIN board :
       \/ \E patch \in Given("dates", DatePatches, <<>>) \cup Given("lanes", LanePatches, <<>>) : Update(s, c, patch)
       \/ \E start \in Starts, dur \in Durs : Schedule(s, c, start, dur)
       \/ Unschedule(s, c)
       \/ \E deps \in SUBSET CardIds : SetDependencies(s, c, deps)
       \/ \E who \in Members \cup {None} : SetAssignee(s, c, who)
       \/ \E caller \in Members \cup {Manager} : Complete(s, c, caller)
       \/ Delete(s, c)
  \/ \E lane \in Lanes, app \in Apps : AttachApp(s, lane, app) \/ DetachApp(s, lane, app)
  \/ \E from \in Lanes \cup {None}, to \in Lanes \cup {None} : MoveTasks(s, from, to)

Handle(s) ==
  \/ Insert(s) \/ UpdateWrite(s) \/ Write(s) \/ SetColumns(s)
  \/ ApplyCascade(s) \/ Shift(s) \/ Answer(s)
  \/ Strip(s) \/ Drop(s)
  \/ Orphans(s) \/ ClearApp(s) \/ Detached(s)
  \/ MoveOne(s) \/ Moved(s)

\* The process is replaced: every handler in flight is lost where it stood.
Crash ==
  /\ "crash" \in usage.ops /\ ~Quiet
  /\ req' = [s \in Slots |-> Idle]
  /\ UNCHANGED <<board, nextCard, attached, detaching, usage, calls>>

BoardNext == Crash \/ \E s \in Slots : Call(s) \/ Handle(s)

BoardSpec == BoardInit /\ [][BoardNext]_boardVars
-----------------------------------------------------------------------------
BoardTypeOK ==
  /\ DOMAIN board \subseteq 1..(nextCard - 1) /\ nextCard \in 1..(MaxCards + 1)
  /\ \A c \in DOMAIN board : board[c] \in Card
  /\ attached \subseteq Lanes \X Apps /\ detaching \subseteq Lanes \X Apps
  /\ usage \in Usages /\ calls \in 0..usage.calls

\* Whatever the edits and wherever the process stopped, no card waits for
\* itself and none waits for a card that is gone: dependencies are checked
\* before they are written (cascade.ts:15) and stripped before a card is deleted
\* (plan.ts, task.delete).
DepsSound ==
  /\ \A c \in DOMAIN board : board[c].deps \subseteq DOMAIN board
  /\ \A c \in DOMAIN board :
       c \notin Reached([d \in DOMAIN board |-> board[d].deps], board[c].deps)

\* A card nobody edited is only ever moved later ("we only push forward, never
\* pull backward", cascade.ts:12-13), and never onto or off the timeline.
NeverPulledBack ==
  [][\A s \in Slots, c \in DOMAIN board \cap DOMAIN board' :
       At(s, "shift") => \/ board'[c].start = board[c].start
                         \/ board[c].start # NoDay /\ board'[c].start > board[c].start]_boardVars

\* When the push has been written, the edited card's own dependents start no
\* earlier than it ends, whatever else happened to them during the walk.
DependentsClear ==
  \A s \in Slots : At(s, "shift") /\ req[s].todo = <<>> /\ board[req[s].root].start # NoDay =>
    \A c \in Dependents(req[s].root) :
      board[c].start # NoDay => board[c].start >= CascadeEnd(board[req[s].root])

\* On a board where no card waits for two others, the push is exactly what the
\* dates call for: behind the edited card and every pushed one, dependents are
\* clear, and a pushed card starts the day its dependency ends, not later.
PushIsExact ==
  \A s \in Slots :
    At(s, "shift") /\ req[s].todo = <<>> /\ (\A c \in DOMAIN board : Cardinality(board[c].deps) <= 1)
    => LET r == req[s] IN
       /\ \A d \in r.moved : \A c \in Dependents(d) :
            board[c].start # NoDay => board[c].start >= CascadeEnd(board[d])
       /\ \A c \in r.moved : \A d \in board[c].deps : board[c].start = CascadeEnd(board[d])

\* Both: what a push leaves behind is right where one walk can make it right.
PushIsSound == DependentsClear /\ PushIsExact

\* As cascade.ts:4-6 has it, and of every board: every task that
\* transitively depends on the edited one ends up on or after the latest end of
\* its dependencies.  The walk visits a card once, so a card moved a second
\* time, by a longer path, does not push its own dependents again.
PushReaches ==
  \A s \in Slots : At(s, "shift") /\ req[s].todo = <<>> =>
    \A d \in req[s].moved : \A c \in Dependents(d) :
      board[c].start # NoDay => board[c].start >= CascadeEnd(board[d])

\* The board's rule for a card nobody gave a status: the backlog holds exactly
\* the cards that were never put on the timeline (deriveStatus, taskOps.ts).
StatusFollowsDates ==
  \A c \in DOMAIN board :
    /\ board[c].status = "backlog" => board[c].start = NoDay
    /\ board[c].status = "in-progress" => board[c].start # NoDay

\* The float the critical_path action reports is the slack a card really has:
\* k days' delay moves the finish of the plan exactly when the float is less
\* than k, and the cards with none are the ones that drag it (taskOps.ts, CPM).
Delayed(c, k, today) ==
  LET es == ForwardPass(board, today) IN [board EXCEPT ![c].start = es[c] + k]
FloatIsSlack ==
  Quiet /\ board # <<>> =>
    LET es == ForwardPass(board, 0)
        float == FloatDays(board, 0)
        Pushes(c, k) == LET later == Delayed(c, k, 0)
                        IN Finish(later, ForwardPass(later, 0)) > Finish(board, es)
    IN \A c \in DOMAIN board : ~Pushes(c, float[c]) /\ Pushes(c, float[c] + 1)

\* The length the critical_path action reports is that of the longest chain.
CriticalIsLongest ==
  LET Chains == {p \in SetToAllKPermutations(DOMAIN board) :
                   \A i \in 1..(Len(p) - 1) : p[i] \in board[p[i + 1]].deps}
      Weight(p) == FoldLeft(LAMBDA n, c : n + board[c].dur, 0, p)
  IN Quiet => CriticalLength(board) = Max({0} \cup {Weight(p) : p \in Chains})

\* What the critical_path action answers is true of the board.
ScheduleIsTrue == FloatIsSlack /\ CriticalIsLongest

\* A card in a lane carries an app of that lane (taskOps.ts, assertAppOnStream),
\* except for a pair whose detach is running or was cut short by a restart; a
\* detach that returns has repaired what an earlier one left.
AppsMatchLane ==
  \A c \in DOMAIN board :
    PairIsLegal(board[c].lane, board[c].app) \/ <<board[c].lane, board[c].app>> \in detaching
=============================================================================
