------------------------------- MODULE Cascade -------------------------------
(* The schedule arithmetic of the Plan board, as pure operators over a board:  *)
(* a function from the ids of the cards that exist to their columns.  The      *)
(* forward push of server/cascade.ts (client/src/features/plan/cascade.ts is   *)
(* the same code), the cycle test every dependency edit runs first, and the    *)
(* readings of server/plan/taskOps.ts: the longest chain and the two passes of *)
(* the critical-path method.  Days are whole numbers; a start or a due date    *)
(* may be NoDay, and a duration of 0 is the column's null.                     *)
EXTENDS Integers, Sequences, FiniteSets, FiniteSetsExt, SequencesExt, TLC

NoDay == -1

Started(board) == {c \in DOMAIN board : board[c].start # NoDay}

\* The end the cascade gives a dependency: its due date does not count.
CascadeEnd(card) == card.start + card.dur

\* Mutant: a dependency without a duration does not count.
DepEnds_Bug(board, c) ==
  {CascadeEnd(board[d]) : d \in {d \in board[c].deps \cap Started(board) : board[d].dur > 0}}

DepEnds(board, c) == {CascadeEnd(board[d]) : d \in board[c].deps \cap Started(board)}

\* The changes are a Map: a card keeps the place of its first move.
AddOnce(seq, c) == IF c \in Range(seq) THEN seq ELSE Append(seq, c)

\* Mutant: a dependent that already starts late enough is moved all the same.
PushDependent_Pulls(walk, c) ==
  LET ends == DepEnds(walk.board, c)
      card == walk.board[c]
  IN IF card.start = NoDay \/ ends = {} \/ card.start = Max(ends) THEN walk
     ELSE [walk EXCEPT !.board[c].start = Max(ends),
                       !.board[c].due = IF card.due # NoDay /\ card.dur > 0
                                        THEN Max(ends) + card.dur ELSE NoDay,
                       !.moved = AddOnce(@, c), !.queue = Append(@, c)]

\* Mutant: a pushed card is not queued, so the push stops after one hop.
PushDependent_OneHop(walk, c) ==
  LET ends == DepEnds(walk.board, c)
      card == walk.board[c]
  IN IF card.start = NoDay \/ ends = {} \/ card.start >= Max(ends) THEN walk
     ELSE [walk EXCEPT !.board[c].start = Max(ends),
                       !.board[c].due = IF card.due # NoDay /\ card.dur > 0
                                        THEN Max(ends) + card.dur ELSE NoDay,
                       !.moved = AddOnce(@, c)]

\* A scheduled dependent that starts before the last of its dependencies ends
\* is moved to that end, and joins the queue.  A due date is carried along only
\* when the card has a duration.
PushDependent(walk, c) ==
  LET ends == DepEnds(walk.board, c)
      card == walk.board[c]
  IN IF card.start = NoDay \/ ends = {} \/ card.start >= Max(ends) THEN walk
     ELSE [walk EXCEPT !.board[c].start = Max(ends),
                       !.board[c].due = IF card.due # NoDay /\ card.dur > 0
                                        THEN Max(ends) + card.dur ELSE NoDay,
                       !.moved = AddOnce(@, c), !.queue = Append(@, c)]

\* The next card of the queue: skipped when it was visited before, and its
\* dependents pushed in the order of the rows.
Visit(walk, order) ==
  LET c    == Head(walk.queue)
      rest == [walk EXCEPT !.queue = Tail(@)]
      Follow(w, d) == IF d \in DOMAIN w.board /\ c \in w.board[d].deps THEN PushDependent(w, d) ELSE w
  IN IF c \in walk.seen THEN rest ELSE FoldLeft(Follow, [rest EXCEPT !.seen = @ \cup {c}], order)

\* The breadth-first walk from the edited card over the rows in the order the
\* database returned them.  A visit queues each dependent at most once and a
\* card is visited once, so n * n + 1 turns of the loop empty the queue.
CascadeFrom(board, root, order) ==
  LET n == Cardinality(DOMAIN board)
      Turn(walk, i) == IF walk.queue = <<>> THEN walk ELSE Visit(walk, order)
  IN FoldLeft(Turn, [board |-> board, moved |-> <<>>, seen |-> {}, queue |-> <<root>>],
              [i \in 1..(n * n + 1) |-> i])

\* The cards reached from a set of cards by following dependencies, with the
\* new list of one card in place of its old one.
DepsAfter(board, c, new) == [d \in DOMAIN board |-> IF d = c THEN new ELSE board[d].deps]

Reached(deps, from) ==
  LET Step(S, i) == S \cup UNION {deps[d] : d \in S \cap DOMAIN deps}
  IN FoldLeft(Step, from, [i \in 1..Cardinality(DOMAIN deps) |-> i])

\* Mutant: only a direct back edge is refused.
WouldCreateCycle_Bug(board, c, new) == c \in new \/ \E d \in new : c \in board[d].deps

WouldCreateCycle(board, c, new) == c \in Reached(DepsAfter(board, c, new), new)
-----------------------------------------------------------------------------
\* A Map from cards to numbers, with the number of one card set.
Noted(map, c, n) == [d \in DOMAIN map \cup {c} |-> IF d = c THEN n ELSE map[d]]

\* The card that ends the longest chain of work, by estimated durations; a
\* card whose dependencies weigh nothing starts its own chain.
LongestTo(board, order) ==
  LET Extend(best, c) ==
        Noted(best, c, board[c].dur + Max({0} \cup {best[d] : d \in board[c].deps \cap DOMAIN best}))
  IN FoldLeft(Extend, <<>>, order)

ById(cards) == [i \in 1..Cardinality(cards) |->
                  CHOOSE c \in cards : Cardinality({d \in cards : d < c}) = i - 1]

\* Dependencies first, and what is left over by a cycle appended by id.
TopoOrder(board) ==
  LET Ready(placed) == {c \in DOMAIN board \ placed :
                          (board[c].deps \cap DOMAIN board) \ {c} \subseteq placed}
      Place(order, i) == LET ready == Ready(Range(order))
                         IN IF ready = {} THEN order ELSE Append(order, Min(ready))
      sorted == FoldLeft(Place, <<>>, [i \in 1..Cardinality(DOMAIN board) |-> i])
  IN sorted \o ById(DOMAIN board \ Range(sorted))

\* Mutant: the longest chain forgets the chains that end before its last card.
CriticalLength_Bug(board) == Max({0} \cup {board[c].dur : c \in DOMAIN board})

CriticalLength(board) ==
  LET best == LongestTo(board, TopoOrder(board)) IN Max({0} \cup Range(best))

\* In the two passes an unknown duration is one day.
DurationDays(card) == IF card.dur > 0 THEN card.dur ELSE 1

ForwardPass(board, today) ==
  LET Own(c) == IF board[c].start = NoDay THEN today ELSE board[c].start
      Start(es, c) ==
        Noted(es, c, Max({Own(c)} \cup {es[d] + DurationDays(board[d]) :
                                           d \in board[c].deps \cap DOMAIN es}))
  IN FoldLeft(Start, <<>>, TopoOrder(board))

Finish(board, es) == Max({es[c] + DurationDays(board[c]) : c \in DOMAIN board})

\* Mutant: the backward pass looks at one successor's earliest start.
BackwardPass_Bug(board, es) ==
  LET finish == Finish(board, es)
      Latest(ls, c) ==
        LET next == {es[s] : s \in {s \in DOMAIN ls : c \in board[s].deps}}
        IN Noted(ls, c, Max({es[c], Min({finish} \cup next) - DurationDays(board[c])}))
  IN FoldLeft(Latest, <<>>, Reverse(TopoOrder(board)))

BackwardPass(board, es) ==
  LET finish == Finish(board, es)
      Latest(ls, c) ==
        LET next == {ls[s] : s \in {s \in DOMAIN ls : c \in board[s].deps}}
        IN Noted(ls, c, Max({es[c], Min({finish} \cup next) - DurationDays(board[c])}))
  IN FoldLeft(Latest, <<>>, Reverse(TopoOrder(board)))

FloatDays(board, today) ==
  LET es == ForwardPass(board, today)
      ls == BackwardPass(board, es)
  IN [c \in DOMAIN board |-> ls[c] - es[c]]
=============================================================================
