----------------------------- MODULE BoardProofs -----------------------------
(* The Plan board, for any number of cards, dates, lanes and apps, when the      *)
(* server handles requests one at a time, and wherever it stops in between: what *)
(* cards wait for, where a push leaves them, the lane and app they carry, the    *)
(* status their dates give them, the schedule read off them.                     *)
EXTENDS Board, FoldLemmas
-----------------------------------------------------------------------------
\* Following dependencies until nothing is added takes no more steps than there
\* are cards: the cards reached are the least closed set around where it starts.
Closed(deps, C) == \A d \in C \cap DOMAIN deps : deps[d] \subseteq C

Onward(deps, S) == S \cup UNION {deps[d] : d \in S \cap DOMAIN deps}

LEMMA ReachedChain ==
  ASSUME NEW deps, NEW from, IsFiniteSet(DOMAIN deps)
  PROVE  \E chain \in [0..Cardinality(DOMAIN deps) -> SUBSET (from \cup UNION {deps[d] : d \in DOMAIN deps})] :
           /\ chain[0] = from /\ chain[Cardinality(DOMAIN deps)] = Reached(deps, from)
           /\ \A k \in 0..(Cardinality(DOMAIN deps) - 1) : chain[k + 1] = Onward(deps, chain[k])
<1>1. PICK n : n = Cardinality(DOMAIN deps) OBVIOUS
<1>2. n \in Nat BY <1>1, FS_CardinalityType
<1>3. PICK V : V = SUBSET (from \cup UNION {deps[d] : d \in DOMAIN deps}) OBVIOUS
<1>4. \A S \in V : Onward(deps, S) \in V BY <1>3 DEF Onward
<1>5. from \in V BY <1>3
<1> DEFINE F == [p \in V \X (1..n) |-> Onward(deps, p[1])]
<1>6. F \in [V \X (1..n) -> V] BY <1>4
<1>7. PICK h \in [SUBSET (1..n) -> V] : FoldsBy(h, n, from, F)
  <2> HIDE DEF F
  <2> QED BY <1>2, <1>5, <1>6, FoldExists
<1> DEFINE P(it) == it = [s \in SUBSET (1..n) |-> IF s = {} THEN from ELSE Onward(deps, it[s \ {Max(s)}])]
<1>8. P(h)
  <2>1. \A s \in SUBSET (1..n) : h[s] = IF s = {} THEN from ELSE Onward(deps, h[s \ {Max(s)}])
    <3> SUFFICES ASSUME NEW s \in SUBSET (1..n), s # {} PROVE h[s] = Onward(deps, h[s \ {Max(s)}])
      BY <1>7 DEF FoldsBy
    <3>1. Max(s) \in 1..n BY <1>2, GreatestIs
    <3>2. h[s \ {Max(s)}] \in V OBVIOUS
    <3> QED BY <1>7, <3>1, <3>2 DEF FoldsBy
  <2> QED BY <2>1
<1>9. PICK it : it = (CHOOSE g : P(g)) OBVIOUS
<1>10. P(it) BY <1>8, <1>9
<1>11. Reached(deps, from) = it[1..n]
  BY <1>1, <1>9 DEF Reached, FoldLeft, MapThenFoldSet, Onward
<1>12. FoldsWithin(V, n, from, F, it)
  <2>1. it[{}] = from BY <1>10
  <2>2. ASSUME NEW s \in SUBSET (1..n), s # {}, it[s \ {Max(s)}] \in V
        PROVE  it[s] = F[<<it[s \ {Max(s)}], Max(s)>>]
    <3>1. Max(s) \in 1..n BY <1>2, <2>2, GreatestIs
    <3> QED BY <1>10, <2>2, <3>1
  <2> HIDE DEF F, P
  <2> QED BY <2>1, <2>2 DEF FoldsWithin
<1>13. PICK chain \in [0..n -> V] : ChainOf(chain, n, from, F, it[1..n])
  <2> HIDE DEF F, P
  <2> QED BY <1>2, <1>5, <1>6, <1>12, FoldRuns
<1>14. chain[0] = from /\ chain[n] = it[1..n] BY <1>13 DEF ChainOf
<1>15. \A k \in 0..(n - 1) : chain[k + 1] = Onward(deps, chain[k])
  <2>1. \A k \in 0..(n - 1) : <<chain[k], k + 1>> \in V \X (1..n) BY <1>2
  <2> QED BY <1>13, <2>1 DEF ChainOf
<1> HIDE DEF F, P
<1> QED BY <1>1, <1>3, <1>11, <1>13, <1>14, <1>15

LEMMA ReachedIs ==
  ASSUME NEW deps, NEW from, IsFiniteSet(DOMAIN deps)
  PROVE  /\ from \subseteq Reached(deps, from) /\ Closed(deps, Reached(deps, from))
         /\ \A C : from \subseteq C /\ Closed(deps, C) => Reached(deps, from) \subseteq C
<1>1. PICK n : n = Cardinality(DOMAIN deps) OBVIOUS
<1>2. n \in Nat BY <1>1, FS_CardinalityType
<1>3. PICK chain \in [0..n -> SUBSET (from \cup UNION {deps[d] : d \in DOMAIN deps})] :
        /\ chain[0] = from /\ chain[n] = Reached(deps, from)
        /\ \A k \in 0..(n - 1) : chain[k + 1] = Onward(deps, chain[k])
  BY <1>1, ReachedChain
<1> DEFINE D == DOMAIN deps
           T(k) == chain[k] \cap D
           Grows == {k \in 0..n : Closed(deps, chain[k]) \/ Cardinality(T(k)) >= k + 1}
<1>4. \A k \in 0..n : IsFiniteSet(T(k)) /\ Cardinality(T(k)) \in Nat /\ Cardinality(T(k)) <= n
  <2> SUFFICES ASSUME NEW k \in 0..n
               PROVE IsFiniteSet(T(k)) /\ Cardinality(T(k)) \in Nat /\ Cardinality(T(k)) <= n OBVIOUS
  <2>1. T(k) \subseteq D OBVIOUS
  <2> HIDE DEF T, D
  <2>2. IsFiniteSet(D) BY DEF D
  <2>3. IsFiniteSet(T(k)) /\ Cardinality(T(k)) <= Cardinality(D) BY <2>1, <2>2, FS_Subset
  <2> QED BY <1>1, <2>3, FS_CardinalityType DEF D
<1>5. 0 \in Grows
  <2>1. CASE T(0) = {} BY <1>2, <2>1 DEF Closed
  <2>2. CASE T(0) # {}
    <3>1. Cardinality(T(0)) # 0
      <4>1. 0 \in 0..n BY <1>2
      <4> HIDE DEF T
      <4> QED BY <1>4, <2>2, <4>1, FS_EmptySet
    <3>2. 0 \in 0..n BY <1>2
    <3> QED BY <1>4, <3>1, <3>2
  <2> QED BY <2>1, <2>2
<1>6. ASSUME NEW k \in 0..(n - 1), k \in Grows PROVE k + 1 \in Grows
  <2>1. chain[k + 1] = Onward(deps, chain[k]) /\ k \in 0..n /\ k + 1 \in 0..n BY <1>2, <1>3
  <2>2. CASE Closed(deps, chain[k])
    <3>1. chain[k + 1] = chain[k] BY <2>1, <2>2 DEF Onward, Closed
    <3> QED BY <2>1, <2>2, <3>1
  <2>3. CASE T(k + 1) = T(k)
    <3>1. Closed(deps, chain[k + 1]) BY <2>1, <2>3 DEF Onward, Closed
    <3> QED BY <2>1, <3>1
  <2>4. CASE ~Closed(deps, chain[k]) /\ T(k + 1) # T(k)
    <3>1. Cardinality(T(k)) >= k + 1 BY <1>6, <2>4
    <3>2. T(k) \subseteq T(k + 1) BY <2>1 DEF Onward
    <3>3. Cardinality(T(k)) < Cardinality(T(k + 1))
      <4> HIDE DEF T
      <4>1. IsFiniteSet(T(k + 1)) BY <1>4, <2>1
      <4>2. Cardinality(T(k)) <= Cardinality(T(k + 1)) BY <3>2, <4>1, FS_Subset
      <4>3. Cardinality(T(k)) # Cardinality(T(k + 1)) BY <3>2, <4>1, <2>4, FS_Subset
      <4>4. Cardinality(T(k)) \in Nat /\ Cardinality(T(k + 1)) \in Nat BY <1>4, <2>1
      <4> QED BY <4>2, <4>3, <4>4
    <3>4. Cardinality(T(k)) \in Nat /\ Cardinality(T(k + 1)) \in Nat BY <1>4, <2>1
    <3> HIDE DEF T
    <3>5. Cardinality(T(k + 1)) >= (k + 1) + 1 BY <3>1, <3>3, <3>4
    <3> QED BY <2>1, <3>5 DEF T
  <2> QED BY <2>2, <2>3, <2>4
<1>7. Closed(deps, chain[n])
  <2>1. n \in Grows
    <3> HIDE DEF Grows
    <3>1. \A k \in 0..n : k \in Grows BY <1>2, <1>5, <1>6, CountingTo
    <3> QED BY <1>2, <3>1
  <2>2. n \in 0..n BY <1>2
  <2>3. ~(Cardinality(T(n)) >= n + 1)
    <3> HIDE DEF T
    <3> QED BY <1>2, <1>4, <2>2
  <2> QED BY <2>1, <2>3
<1>8. from \subseteq chain[n]
  <2> DEFINE S == {k \in 0..n : from \subseteq chain[k]}
  <2>1. 0 \in S BY <1>2, <1>3
  <2>2. \A k \in 0..(n - 1) : k \in S => k + 1 \in S BY <1>2, <1>3 DEF Onward
  <2> HIDE DEF S
  <2>3. n \in S
    <3>1. \A k \in 0..n : k \in S BY <1>2, <2>1, <2>2, CountingTo
    <3> QED BY <1>2, <3>1
  <2> QED BY <2>3 DEF S
<1>9. ASSUME NEW C, from \subseteq C, Closed(deps, C) PROVE chain[n] \subseteq C
  <2> DEFINE S == {k \in 0..n : chain[k] \subseteq C}
  <2>1. 0 \in S BY <1>2, <1>3, <1>9
  <2>2. \A k \in 0..(n - 1) : k \in S => k + 1 \in S
    <3> SUFFICES ASSUME NEW k \in 0..(n - 1), k \in S PROVE k + 1 \in S OBVIOUS
    <3>1. chain[k + 1] = Onward(deps, chain[k]) /\ k + 1 \in 0..n BY <1>2, <1>3
    <3> QED BY <1>9, <3>1 DEF Onward, Closed
  <2> HIDE DEF S
  <2>3. n \in S
    <3>1. \A k \in 0..n : k \in S BY <1>2, <2>1, <2>2, CountingTo
    <3> QED BY <1>2, <3>1
  <2> QED BY <2>3 DEF S
<1> QED BY <1>3, <1>7, <1>8, <1>9

-----------------------------------------------------------------------------
\* A board where nothing waits for itself: each card lies outside a closed set
\* that holds what it waits for.
NoLoop(deps) == \A c \in DOMAIN deps : c \notin Reached(deps, deps[c])

LEMMA NoLoopIs ==
  ASSUME NEW deps, IsFiniteSet(DOMAIN deps), NEW c \in DOMAIN deps
  PROVE  c \notin Reached(deps, deps[c]) <=> \E C : deps[c] \subseteq C /\ Closed(deps, C) /\ c \notin C
BY ReachedIs

\* Giving one card a new list that does not lead back to it closes no loop.
LEMMA EditedNoLoop ==
  ASSUME NEW deps, NEW c \in DOMAIN deps, NEW new, NEW after, IsFiniteSet(DOMAIN deps), NoLoop(deps),
         after = [d \in DOMAIN deps |-> IF d = c THEN new ELSE deps[d]], c \notin Reached(after, new)
  PROVE  NoLoop(after)
<1> DEFINE R == Reached(after, new)
<1>1. new \subseteq R /\ Closed(after, R) BY ReachedIs
<1>2. Closed(deps, R) BY <1>1 DEF Closed
<1> SUFFICES ASSUME NEW d \in DOMAIN deps PROVE d \notin Reached(after, after[d])
  BY DEF NoLoop
<1>3. CASE d = c BY <1>3
<1>4. CASE d # c
  <2> DEFINE C == Reached(deps, deps[d])
  <2>1. deps[d] \subseteq C /\ Closed(deps, C) /\ d \notin C BY ReachedIs DEF NoLoop
  <2>2. CASE c \notin C
    <3>1. Closed(after, C) BY <2>1, <2>2 DEF Closed
    <3> HIDE DEF C
    <3> QED BY <1>4, <2>1, <3>1, NoLoopIs
  <2>3. CASE c \in C
    <3>1. Closed(after, C \cup R) BY <1>1, <2>1 DEF Closed
    <3>2. d \notin R
      <4> SUFFICES ASSUME d \in R PROVE FALSE OBVIOUS
      <4>1. deps[d] \subseteq R BY <1>2 DEF Closed
      <4>2. C \subseteq R BY <1>2, <4>1, ReachedIs
      <4> QED BY <2>3, <4>2
    <3> HIDE DEF C, R
    <3> QED BY <1>4, <2>1, <3>1, <3>2, NoLoopIs
  <2> QED BY <2>2, <2>3
<1> QED BY <1>3, <1>4

\* Neither does waiting for less, nor a card nobody waits for that comes or goes.
LEMMA ShortenedNoLoop ==
  ASSUME NEW deps, NEW after, IsFiniteSet(DOMAIN deps), NoLoop(deps),
         DOMAIN after \subseteq DOMAIN deps, \A d \in DOMAIN after : after[d] \subseteq deps[d]
  PROVE  NoLoop(after)
<1> SUFFICES ASSUME NEW d \in DOMAIN after PROVE d \notin Reached(after, after[d]) BY DEF NoLoop
<1>1. IsFiniteSet(DOMAIN after) BY FS_Subset
<1>2. PICK C : deps[d] \subseteq C /\ Closed(deps, C) /\ d \notin C BY NoLoopIs DEF NoLoop
<1>3. after[d] \subseteq C /\ Closed(after, C) BY <1>2 DEF Closed
<1> QED BY <1>1, <1>2, <1>3, NoLoopIs

LEMMA NewNoLoop ==
  ASSUME NEW deps, NEW n, NEW after, IsFiniteSet(DOMAIN deps), NoLoop(deps), n \notin DOMAIN deps,
         DOMAIN after = DOMAIN deps \cup {n}, \A d \in DOMAIN deps : after[d] = deps[d],
         \A d \in DOMAIN after : after[d] \subseteq DOMAIN deps
  PROVE  NoLoop(after)
<1> SUFFICES ASSUME NEW d \in DOMAIN after PROVE d \notin Reached(after, after[d]) BY DEF NoLoop
<1>1. IsFiniteSet(DOMAIN after) BY FS_AddElement
<1>2. CASE d = n
  <2>1. Closed(after, DOMAIN deps) BY DEF Closed
  <2> QED BY <1>1, <1>2, <2>1, NoLoopIs
<1>3. CASE d # n
  <2>1. PICK C : deps[d] \subseteq C /\ Closed(deps, C) /\ d \notin C BY <1>3, NoLoopIs DEF NoLoop
  <2>2. Closed(after, C \ {n}) BY <2>1 DEF Closed
  <2>3. after[d] \subseteq C \ {n} BY <1>3, <2>1
  <2> QED BY <1>1, <2>1, <2>2, <2>3, NoLoopIs
<1> QED BY <1>2, <1>3
-----------------------------------------------------------------------------
Fields == {"start", "due", "dur", "deps", "status", "done", "lane", "app", "owner"}
Kind == [start |-> Day, due |-> Day, dur |-> Nat, deps |-> SUBSET CardIds, status |-> Statuses,
         done |-> BOOLEAN, lane |-> Lanes \cup {None}, app |-> Apps \cup {None}, owner |-> Members \cup {None}]
IsColumns(p) == DOMAIN p \subseteq Fields /\ \A f \in DOMAIN p : p[f] \in Kind[f]

LEMMA CardFields == ASSUME NEW r \in Card PROVE DOMAIN r = Fields /\ \A f \in Fields : r[f] \in Kind[f]
BY DEF Card, Fields, Kind

LEMMA CardIs == ASSUME NEW r, DOMAIN r = Fields, r = [f \in Fields |-> r[f]], \A f \in Fields : r[f] \in Kind[f] PROVE r \in Card
<1>1. r = [start |-> r.start, due |-> r.due, dur |-> r.dur, deps |-> r.deps, status |-> r.status, done |-> r.done,
           lane |-> r.lane, app |-> r.app, owner |-> r.owner] BY DEF Fields
<1>2. r.start \in Day /\ r.due \in Day /\ r.dur \in Nat /\ r.deps \in SUBSET CardIds /\ r.status \in Statuses
      /\ r.done \in BOOLEAN /\ r.lane \in Lanes \cup {None} /\ r.app \in Apps \cup {None} /\ r.owner \in Members \cup {None}
   BY DEF Fields, Kind
<1> QED BY <1>1, <1>2 DEF Card

LEMMA OverIs == ASSUME NEW p, NEW r \in Card, IsColumns(p)
  PROVE Over(p, r) \in Card /\ \A f \in Fields : Over(p, r)[f] = IF f \in DOMAIN p THEN p[f] ELSE r[f]
<1> DEFINE q == Over(p, r)
<1>1. DOMAIN q = Fields BY CardFields DEF Over, IsColumns
<1>2. \A f \in Fields : q[f] = IF f \in DOMAIN p THEN p[f] ELSE r[f] BY CardFields DEF Over, IsColumns
<1>3. q = [f \in Fields |-> q[f]]
  <2>1. DOMAIN p \cup DOMAIN r = Fields BY CardFields DEF IsColumns
  <2> QED BY <2>1 DEF Over
<1>4. \A f \in Fields : q[f] \in Kind[f] BY <1>2, CardFields DEF IsColumns
<1> HIDE DEF q
<1>5. q \in Card BY <1>1, <1>3, <1>4, CardIs
<1> QED BY <1>2, <1>5 DEF q
-----------------------------------------------------------------------------
\* What a handler knows between its awaits, when it is the only one.
LegalIn(att, lane, app) == app = None \/ lane = None \/ <<lane, app>> \in att
CoveredIn(att, det, card) == LegalIn(att, card.lane, card.app) \/ <<card.lane, card.app>> \in det

\* The columns about to be written keep the board sound.
Writing(r, b, att, det) ==
  /\ r.root \in DOMAIN b /\ IsColumns(r.columns)
  /\ CoveredIn(att, det, Over(r.columns, b[r.root]))
  /\ "deps" \in DOMAIN r.columns =>
       r.columns.deps \subseteq DOMAIN b \ {r.root} /\ ~WouldCreateCycle(b, r.root, r.columns.deps)

\* The rows of a push that are left to write move cards of the timeline later.
Pushing(todo, b) ==
  /\ todo \in Seq(Range(todo))
  /\ \A i \in DOMAIN todo :
       LET c == todo[i].card
           p == todo[i].columns
       IN /\ c \in DOMAIN b /\ IsColumns(p)
          /\ "start" \in DOMAIN p /\ DOMAIN p \subseteq {"start", "due", "status"}
          /\ b[c].start # NoDay /\ p.start # NoDay /\ p.start >= b[c].start
  /\ \A i, j \in DOMAIN todo : todo[i].card = todo[j].card => todo[i] = todo[j]

\* Who waits for the card that goes is still to be told.
Stripping(r, b) ==
  /\ r.root \in DOMAIN b /\ DOMAIN r.todo \subseteq DOMAIN b
  /\ \A d \in DOMAIN r.todo : r.todo[d] \subseteq b[d].deps \ {r.root}
  /\ \A d \in DOMAIN b \ DOMAIN r.todo : d # r.root => r.root \notin b[d].deps

Knows(r, b, att, det) ==
  /\ r.pc = "insert" => r.row \in Card /\ r.row.deps \subseteq DOMAIN b /\ LegalIn(att, r.row.lane, r.row.app)
  /\ r.pc \in {"update", "write", "set"} => Writing(r, b, att, det)
  /\ r.pc = "cascade" => r.root \in Nat
  /\ r.pc = "shift" => Pushing(r.todo, b)
  /\ r.pc = "strip" => Stripping(r, b)
  /\ r.pc = "orphans" => <<r.lane, r.app>> \in det
  /\ r.pc = "clear" => /\ r.todo \subseteq DOMAIN b
                       /\ \A c \in DOMAIN b :
                            b[c].lane = r.lane /\ b[c].app = r.app /\ r.app # None => c \in r.todo
  /\ r.pc = "move" => /\ r.to \in Lanes \cup {None} /\ DOMAIN r.todo \subseteq DOMAIN b
                      /\ \A c \in DOMAIN r.todo : r.todo[c] = b[c].app

OneRequest == \A s, t \in Slots : s = t

BoardTypes ==
  /\ board \in [DOMAIN board -> Card] /\ nextCard \in Nat \ {0} /\ DOMAIN board \subseteq 1..(nextCard - 1)
  /\ req = [s \in Slots |-> req[s]]

BoardInv ==
  /\ BoardTypes /\ DepsSound /\ AppsMatchLane
  /\ \A s \in Slots : Knows(req[s], board, attached, detaching)

DepsOf(b) == [d \in DOMAIN b |-> b[d].deps]

LEMMA DepsSoundIs ==
  DepsSound <=> (\A c \in DOMAIN board : board[c].deps \subseteq DOMAIN board) /\ NoLoop(DepsOf(board))
BY DEF DepsSound, NoLoop, DepsOf

LEMMA AppsMatchIs == AppsMatchLane <=> \A c \in DOMAIN board : CoveredIn(attached, detaching, board[c])
BY DEF AppsMatchLane, CoveredIn, LegalIn, PairIsLegal

LEMMA CardsFinite == ASSUME BoardTypes PROVE IsFiniteSet(DOMAIN board)
<1>1. nextCard - 1 \in Nat BY DEF BoardTypes
<1>2. IsFiniteSet(1..(nextCard - 1)) BY <1>1, FS_Interval
<1> QED BY <1>2, FS_Subset DEF BoardTypes

\* A handler that goes on changes its own slot; an idle one knows nothing.
LEMMA ProceedKeeps ==
  ASSUME OneRequest, BoardInv, NEW s \in Slots, NEW r, Proceed(s, r), nextCard' \in Nat \ {0},
         board' \in [DOMAIN board' -> Card], DOMAIN board' \subseteq 1..(nextCard' - 1),
         DepsSound', AppsMatchLane', Knows(r, board', attached', detaching')
  PROVE  BoardInv'
<1>1. req' = [t \in Slots |-> r] BY DEF Proceed, BoardInv, BoardTypes, OneRequest
<1>2. BoardTypes' BY <1>1 DEF BoardTypes
<1>3. (\A t \in Slots : Knows(req[t], board, attached, detaching))'
  <2>1. \A t \in Slots : req'[t] = r BY <1>1
  <2> QED BY <2>1 DEF Knows
<1> QED BY <1>2, <1>3 DEF BoardInv

LEMMA IdleKnows == ASSUME NEW b, NEW att, NEW det PROVE Knows(Idle, b, att, det)
BY DEF Knows, Idle

LEMMA ReadsKeep ==
  ASSUME OneRequest, BoardInv, NEW s \in Slots, NEW r, Proceed(s, r), Reads,
         Knows(r, board, attached, detaching)
  PROVE  BoardInv'
<1>1. DepsSound' BY DEF BoardInv, DepsSound, Reads
<1>2. AppsMatchLane' BY DEF BoardInv, AppsMatchLane, PairIsLegal, Reads
<1>3. /\ nextCard' \in Nat \ {0} /\ board' \in [DOMAIN board' -> Card]
      /\ DOMAIN board' \subseteq 1..(nextCard' - 1) /\ Knows(r, board', attached', detaching')
  BY DEF BoardInv, BoardTypes, Reads
<1> QED BY <1>1, <1>2, <1>3, ProceedKeeps

\* An UPDATE of one row.
LEMMA SetIs ==
  ASSUME BoardTypes, NEW c \in DOMAIN board, NEW p, IsColumns(p)
  PROVE  /\ Set(c, p) \in [DOMAIN board -> Card] /\ DOMAIN Set(c, p) = DOMAIN board
         /\ Set(c, p)[c] = Over(p, board[c])
         /\ \A d \in DOMAIN board : d # c => Set(c, p)[d] = board[d]
<1>1. board[c] \in Card /\ Over(p, board[c]) \in Card BY OverIs DEF BoardTypes
<1> QED BY <1>1 DEF Set, BoardTypes

LEMMA WriteKeeps ==
  ASSUME OneRequest, BoardInv, NEW s \in Slots, NEW r, Proceed(s, r),
         NEW c \in DOMAIN board, NEW p, IsColumns(p), Writes(Set(c, p)),
         CoveredIn(attached, detaching, Over(p, board[c])),
         "deps" \in DOMAIN p =>
           \/ p.deps \subseteq board[c].deps
           \/ p.deps \subseteq DOMAIN board \ {c} /\ ~WouldCreateCycle(board, c, p.deps),
         Knows(r, Set(c, p), attached, detaching)
  PROVE  BoardInv'
<1>1. /\ board' \in [DOMAIN board -> Card] /\ DOMAIN board' = DOMAIN board
      /\ board'[c] = Over(p, board[c]) /\ \A d \in DOMAIN board : d # c => board'[d] = board[d]
  BY SetIs DEF BoardInv, Writes
<1>2. nextCard' = nextCard /\ attached' = attached /\ detaching' = detaching BY DEF Writes
<1>3. DepsSound'
  <2>1. board'[c].deps = IF "deps" \in DOMAIN p THEN p.deps ELSE board[c].deps
    BY <1>1, OverIs DEF Fields, BoardInv, BoardTypes
  <2>2. \A d \in DOMAIN board : board[d].deps \subseteq DOMAIN board BY DEF BoardInv, DepsSound
  <2>3. \A d \in DOMAIN board' : board'[d].deps \subseteq DOMAIN board' BY <1>1, <2>1, <2>2
  <2>4. NoLoop(DepsOf(board)) BY DepsSoundIs DEF BoardInv
  <2>5. IsFiniteSet(DOMAIN DepsOf(board)) BY CardsFinite DEF BoardInv, DepsOf
  <2>6. NoLoop(DepsOf(board'))
    <3>1. CASE board'[c].deps \subseteq board[c].deps
      <4>1. /\ DOMAIN DepsOf(board') \subseteq DOMAIN DepsOf(board)
            /\ \A d \in DOMAIN DepsOf(board') : DepsOf(board')[d] \subseteq DepsOf(board)[d]
        BY <1>1, <3>1 DEF DepsOf
      <4> QED BY <2>4, <2>5, <4>1, ShortenedNoLoop
    <3>2. CASE "deps" \in DOMAIN p /\ ~WouldCreateCycle(board, c, p.deps)
      <4>1. DepsOf(board') = [d \in DOMAIN DepsOf(board) |-> IF d = c THEN p.deps ELSE DepsOf(board)[d]]
        BY <1>1, <2>1, <3>2 DEF DepsOf
      <4>2. DepsAfter(board, c, p.deps) = DepsOf(board')
        BY <1>1, <2>1, <3>2 DEF DepsOf, DepsAfter
      <4>3. c \notin Reached(DepsOf(board'), p.deps) BY <3>2, <4>2 DEF WouldCreateCycle
      <4>4. c \in DOMAIN DepsOf(board) BY DEF DepsOf
      <4> QED BY <2>4, <2>5, <4>1, <4>3, <4>4, EditedNoLoop
    <3> QED BY <2>1, <3>1, <3>2
  <2>7. DepsSound' <=> (\A d \in DOMAIN board' : board'[d].deps \subseteq DOMAIN board') /\ NoLoop(DepsOf(board'))
    BY DEF DepsSound, NoLoop, DepsOf
  <2> QED BY <2>3, <2>6, <2>7
<1>4. AppsMatchLane'
  <2>1. \A d \in DOMAIN board : CoveredIn(attached, detaching, board[d]) BY AppsMatchIs DEF BoardInv
  <2>2. \A d \in DOMAIN board' : CoveredIn(attached', detaching', board'[d]) BY <1>1, <1>2, <2>1
  <2> QED BY <2>2 DEF AppsMatchLane, CoveredIn, LegalIn, PairIsLegal
<1>5. DOMAIN board' \subseteq 1..(nextCard' - 1) /\ nextCard' \in Nat \ {0} BY <1>1, <1>2 DEF BoardInv, BoardTypes
<1>6. Knows(r, board', attached', detaching') BY <1>2 DEF Writes
<1> QED BY <1>1, <1>3, <1>4, <1>5, <1>6, ProceedKeeps
-----------------------------------------------------------------------------
\* The columns the handlers write.
LEMMA StatusIs ==
  ASSUME NEW p, IsColumns(p), NEW card, NEW status \in Statuses
  PROVE  LET q == WithStatus(p, card, status) IN
         /\ IsColumns(q) /\ DOMAIN p \subseteq DOMAIN q /\ DOMAIN q \subseteq DOMAIN p \cup {"status"}
         /\ \A f \in DOMAIN p \ {"status"} : q[f] = p[f]
         /\ "status" \in DOMAIN q \ DOMAIN p => q["status"] = status
         /\ "status" \notin DOMAIN q => status = card.status
<1>1. CASE status = card.status BY <1>1 DEF WithStatus
<1>2. CASE status # card.status
  <2> DEFINE one == [status |-> status]
             q == Over(one, p)
  <2>1. DOMAIN one = {"status"} /\ one["status"] = status OBVIOUS
  <2> HIDE DEF one
  <2>2. DOMAIN q = DOMAIN p \cup {"status"} BY <2>1 DEF Over
  <2>3. q["status"] = status /\ \A f \in DOMAIN p \ {"status"} : q[f] = p[f] BY <2>1 DEF Over
  <2>4. WithStatus(p, card, status) = q BY <1>2 DEF WithStatus, one
  <2> HIDE DEF q
  <2>5. IsColumns(q)
    <3>1. DOMAIN q \subseteq Fields BY <2>2 DEF IsColumns, Fields
    <3>2. Kind["status"] = Statuses BY DEF Kind
    <3>3. \A f \in DOMAIN q : q[f] \in Kind[f] BY <2>2, <2>3, <3>2 DEF IsColumns
    <3> QED BY <3>1, <3>3 DEF IsColumns
  <2> QED BY <2>2, <2>3, <2>4, <2>5
<1> QED BY <1>1, <1>2

LEMMA DeriveIs ==
  ASSUME NEW card \in Card, NEW start \in Day
  PROVE  DeriveStatus(card, start) \in Statuses
BY DEF DeriveStatus, Card, Statuses

LEMMA PatchIs ==
  ASSUME NEW p, IsPatch(p) \/ p = <<>>
  PROVE  IsColumns(p) /\ "status" \notin DOMAIN p
BY DEF IsPatch, Column, IsColumns, Fields, Kind

LEMMA AssignedIs ==
  ASSUME NEW card \in Card, NEW p, IsPatch(p) \/ p = <<>>
  PROVE  LET q == Assigned(card, p) IN
         /\ IsColumns(q) /\ DOMAIN p \subseteq DOMAIN q /\ DOMAIN q \subseteq DOMAIN p \cup {"status"}
         /\ \A f \in DOMAIN p : q[f] = p[f]
<1>1. IsColumns(p) /\ "status" \notin DOMAIN p BY PatchIs
<1> DEFINE derived == IF "start" \in DOMAIN p THEN DeriveStatus(card, p.start) ELSE card.status
<1>2. derived \in Statuses
  <2>1. card.status \in Statuses BY DEF Card
  <2>2. "start" \in DOMAIN p => p.start \in Day BY <1>1 DEF IsColumns, Kind
  <2> QED BY <2>1, <2>2, DeriveIs
<1>3. CASE derived = card.status /\ "done" \in DOMAIN p /\ p.done
  <2> DEFINE one == [status |-> "completed"]
             q == Over(one, p)
  <2>1. DOMAIN one = {"status"} /\ one["status"] = "completed" OBVIOUS
  <2>2. Assigned(card, p) = q BY <1>3 DEF Assigned
  <2> HIDE DEF one
  <2>3. DOMAIN q = DOMAIN p \cup {"status"} BY <2>1 DEF Over
  <2>4. q["status"] = "completed" /\ \A f \in DOMAIN p : q[f] = p[f] BY <1>1, <2>1 DEF Over
  <2> HIDE DEF q
  <2>5. IsColumns(q)
    <3>1. DOMAIN q \subseteq Fields BY <1>1, <2>3 DEF IsColumns, Fields
    <3>2. Kind["status"] = Statuses /\ "completed" \in Statuses BY DEF Kind, Statuses
    <3>3. \A f \in DOMAIN q : q[f] \in Kind[f] BY <1>1, <2>3, <2>4, <3>2 DEF IsColumns
    <3> QED BY <3>1, <3>3 DEF IsColumns
  <2> QED BY <2>2, <2>3, <2>4, <2>5
<1>4. CASE ~(derived = card.status /\ "done" \in DOMAIN p /\ p.done)
  <2>1. Assigned(card, p) = WithStatus(p, card, derived) BY <1>4 DEF Assigned
  <2> HIDE DEF derived
  <2> QED BY <1>1, <1>2, <2>1, StatusIs
<1> QED BY <1>3, <1>4

\* Columns without a lane and an app leave the card where its lane is.
LEMMA LaneStays ==
  ASSUME BoardInv, NEW c \in DOMAIN board, NEW p, IsColumns(p), {"lane", "app"} \cap DOMAIN p = {}
  PROVE  CoveredIn(attached, detaching, Over(p, board[c]))
<1>1. board[c] \in Card BY DEF BoardInv, BoardTypes
<1>2. Over(p, board[c]).lane = board[c].lane /\ Over(p, board[c]).app = board[c].app
  BY <1>1, OverIs DEF Fields
<1>3. CoveredIn(attached, detaching, board[c]) BY AppsMatchIs DEF BoardInv
<1> QED BY <1>2, <1>3 DEF CoveredIn

LEMMA WritingIs ==
  ASSUME BoardInv, NEW c \in DOMAIN board, NEW p, IsColumns(p), {"lane", "app", "deps"} \cap DOMAIN p = {},
         NEW r, r.root = c, r.columns = p
  PROVE  Writing(r, board, attached, detaching)
<1>1. {"lane", "app"} \cap DOMAIN p = {} OBVIOUS
<1> QED BY <1>1, LaneStays DEF Writing
-----------------------------------------------------------------------------
\* The calls.
LEMMA CallReads ==
  ASSUME OneRequest, BoardInv, NEW s \in Slots, NEW op, NEW r, Begin(s, op, r), Reads,
         Knows(r, board, attached, detaching)
  PROVE  BoardInv'
BY ReadsKeep DEF Begin

LEMMA CreateKeeps ==
  ASSUME OneRequest, BoardInv, NEW s \in Slots, NEW start \in Day, NEW due \in Day, NEW dur \in Nat,
         NEW deps \in SUBSET CardIds, NEW lane \in Lanes \cup {None}, NEW app \in Apps \cup {None},
         Create(s, start, due, dur, deps, lane, app)
  PROVE  BoardInv'
<1> DEFINE status == IF start = NoDay THEN "backlog" ELSE "in-progress"
           row == [start |-> start, due |-> due, dur |-> dur, deps |-> deps, status |-> status,
                   done |-> FALSE, lane |-> lane, app |-> app, owner |-> None]
           r == [pc |-> "insert", row |-> row]
<1>1. row \in Card BY DEF Card, Statuses
<1>2. row.deps \subseteq DOMAIN board /\ LegalIn(attached, row.lane, row.app) BY DEF Create, PairIsLegal, LegalIn
<1>3. Knows(r, board, attached, detaching) BY <1>1, <1>2 DEF Knows
<1>4. Begin(s, "create", r) /\ Reads BY DEF Create
<1> HIDE DEF r
<1> QED BY <1>3, <1>4, CallReads

LEMMA UpdateKeeps ==
  ASSUME OneRequest, BoardInv, NEW s \in Slots, NEW c \in DOMAIN board, NEW patch,
         IsPatch(patch) \/ patch = <<>>, Update(s, c, patch)
  PROVE  BoardInv'
<1> DEFINE columns == Assigned(board[c], patch)
           r == [pc |-> "update", root |-> c, was |-> board[c], columns |-> columns]
<1>1. board[c] \in Card BY DEF BoardInv, BoardTypes
<1>2. /\ IsColumns(columns) /\ DOMAIN columns \subseteq DOMAIN patch \cup {"status"}
      /\ \A f \in DOMAIN patch : columns[f] = patch[f]
  BY <1>1, AssignedIs
<1>3. CoveredIn(attached, detaching, Over(columns, board[c])) BY DEF Update, CoveredIn, PairIsLegal, LegalIn
<1>4. "deps" \in DOMAIN columns =>
        columns.deps \subseteq DOMAIN board \ {c} /\ ~WouldCreateCycle(board, c, columns.deps)
  BY <1>2 DEF Update
<1>5. Begin(s, "update", r) /\ Reads BY DEF Update
<1> HIDE DEF columns
<1>6. Knows(r, board, attached, detaching) BY <1>2, <1>3, <1>4 DEF Knows, Writing
<1> HIDE DEF r
<1> QED BY <1>5, <1>6, CallReads

LEMMA ScheduleKeeps ==
  ASSUME OneRequest, BoardInv, NEW s \in Slots, NEW c \in DOMAIN board, NEW start \in Day, NEW dur \in Nat,
         Schedule(s, c, start, dur)
  PROVE  BoardInv'
<1> DEFINE status == IF board[c].done THEN board[c].status ELSE "in-progress"
           dates == IF dur = 0 THEN [start |-> start] ELSE [start |-> start, dur |-> dur]
           columns == WithStatus(dates, board[c], status)
           r == [pc |-> "write", root |-> c, columns |-> columns]
<1>1. status \in Statuses BY DEF BoardInv, BoardTypes, Card, Statuses
<1>2. IsColumns(dates) /\ DOMAIN dates \subseteq {"start", "dur"} BY DEF IsColumns, Fields, Kind
<1>3. IsColumns(columns) /\ DOMAIN columns \subseteq {"start", "dur", "status"}
  <2> HIDE DEF status, dates
  <2> QED BY <1>1, <1>2, StatusIs
<1>4. Begin(s, "schedule", r) /\ Reads BY DEF Schedule
<1> HIDE DEF columns
<1>5. Writing(r, board, attached, detaching) BY <1>3, WritingIs
<1>6. Knows(r, board, attached, detaching) BY <1>5 DEF Knows
<1> HIDE DEF r
<1> QED BY <1>4, <1>6, CallReads

LEMMA UnscheduleKeeps ==
  ASSUME OneRequest, BoardInv, NEW s \in Slots, NEW c \in DOMAIN board, Unschedule(s, c)
  PROVE  BoardInv'
<1> DEFINE status == DeriveStatus(board[c], NoDay)
           dates == [start |-> NoDay]
           columns == WithStatus(dates, board[c], status)
           r == [pc |-> "write", root |-> c, columns |-> columns]
<1>1. status \in Statuses BY DeriveIs DEF BoardInv, BoardTypes, Day
<1>2. IsColumns(dates) /\ DOMAIN dates \subseteq {"start"} BY DEF IsColumns, Fields, Kind, Day
<1>3. IsColumns(columns) /\ DOMAIN columns \subseteq {"start", "status"}
  <2> HIDE DEF status, dates
  <2> QED BY <1>1, <1>2, StatusIs
<1>4. Begin(s, "unschedule", r) /\ Reads BY DEF Unschedule
<1> HIDE DEF columns
<1>5. Writing(r, board, attached, detaching) BY <1>3, WritingIs
<1>6. Knows(r, board, attached, detaching) BY <1>5 DEF Knows
<1> HIDE DEF r
<1> QED BY <1>4, <1>6, CallReads

LEMMA SetDependenciesKeeps ==
  ASSUME OneRequest, BoardInv, NEW s \in Slots, NEW c \in DOMAIN board, NEW deps \in SUBSET CardIds,
         SetDependencies(s, c, deps)
  PROVE  BoardInv'
<1> DEFINE columns == [deps |-> deps]
           r == [pc |-> "write", root |-> c, columns |-> columns]
<1>1. IsColumns(columns) /\ DOMAIN columns = {"deps"} BY DEF IsColumns, Fields, Kind
<1>2. {"lane", "app"} \cap DOMAIN columns = {} BY <1>1
<1>3. Begin(s, "set_dependencies", r) /\ Reads BY DEF SetDependencies
<1>4. columns.deps \subseteq DOMAIN board \ {c} /\ ~WouldCreateCycle(board, c, columns.deps) BY DEF SetDependencies
<1> HIDE DEF columns
<1>5. Writing(r, board, attached, detaching) BY <1>1, <1>2, <1>4, LaneStays DEF Writing
<1>6. Knows(r, board, attached, detaching) BY <1>5 DEF Knows
<1> HIDE DEF r
<1> QED BY <1>3, <1>6, CallReads

LEMMA SetAssigneeKeeps ==
  ASSUME OneRequest, BoardInv, NEW s \in Slots, NEW c \in DOMAIN board, NEW who \in Members \cup {None},
         SetAssignee(s, c, who)
  PROVE  BoardInv'
<1> DEFINE columns == [owner |-> who]
           r == [pc |-> "set", root |-> c, columns |-> columns]
<1>1. IsColumns(columns) /\ DOMAIN columns = {"owner"} BY DEF IsColumns, Fields, Kind
<1>2. Begin(s, "set_assignee", r) /\ Reads BY DEF SetAssignee
<1> HIDE DEF columns
<1>3. Writing(r, board, attached, detaching) BY <1>1, WritingIs
<1>4. Knows(r, board, attached, detaching) BY <1>3 DEF Knows
<1> HIDE DEF r
<1> QED BY <1>2, <1>4, CallReads

LEMMA CompleteKeeps ==
  ASSUME OneRequest, BoardInv, NEW s \in Slots, NEW c \in DOMAIN board, NEW caller, Complete(s, c, caller)
  PROVE  BoardInv'
<1> DEFINE columns == [done |-> TRUE, status |-> "completed"]
           r == [pc |-> "set", root |-> c, columns |-> columns]
<1>1. IsColumns(columns) /\ DOMAIN columns = {"done", "status"}
  <2>1. Kind["status"] = Statuses /\ "completed" \in Statuses /\ Kind["done"] = BOOLEAN BY DEF Kind, Statuses
  <2>2. /\ DOMAIN columns = {"done", "status"}
        /\ columns["done"] = TRUE /\ columns["status"] = "completed" OBVIOUS
  <2> HIDE DEF columns
  <2> QED BY <2>1, <2>2 DEF IsColumns, Fields
<1>2. Begin(s, "complete", r) /\ Reads BY DEF Complete
<1> HIDE DEF columns
<1>3. Writing(r, board, attached, detaching) BY <1>1, WritingIs
<1>4. Knows(r, board, attached, detaching) BY <1>3 DEF Knows
<1> HIDE DEF r
<1> QED BY <1>2, <1>4, CallReads

LEMMA DeleteKeeps ==
  ASSUME OneRequest, BoardInv, NEW s \in Slots, NEW c \in DOMAIN board, Delete(s, c)
  PROVE  BoardInv'
<1> DEFINE todo == [d \in Dependents(c) |-> board[d].deps \ {c}]
           r == [pc |-> "strip", root |-> c, todo |-> todo]
<1>1. Begin(s, "delete", r) /\ Reads BY DEF Delete
<1>2. /\ DOMAIN todo \subseteq DOMAIN board /\ \A d \in DOMAIN todo : todo[d] \subseteq board[d].deps \ {c}
      /\ \A d \in DOMAIN board \ DOMAIN todo : d # c => c \notin board[d].deps
  BY DEF Dependents
<1> HIDE DEF todo
<1>3. Knows(r, board, attached, detaching) BY <1>2 DEF Knows, Stripping
<1> HIDE DEF r
<1> QED BY <1>1, <1>3, CallReads

LEMMA MoveKeeps ==
  ASSUME OneRequest, BoardInv, NEW s \in Slots, NEW from, NEW to \in Lanes \cup {None}, MoveTasks(s, from, to)
  PROVE  BoardInv'
<1> DEFINE todo == [c \in {c \in DOMAIN board : board[c].lane = from} |-> board[c].app]
           r == [pc |-> "move", to |-> to, todo |-> todo]
<1>1. Begin(s, "move", r) /\ Reads BY DEF MoveTasks
<1>2. DOMAIN todo \subseteq DOMAIN board /\ \A c \in DOMAIN todo : todo[c] = board[c].app OBVIOUS
<1> HIDE DEF todo
<1>3. Knows(r, board, attached, detaching) BY <1>2 DEF Knows
<1> HIDE DEF r
<1> QED BY <1>1, <1>3, CallReads

LEMMA AttachKeeps ==
  ASSUME OneRequest, BoardInv, NEW s \in Slots, NEW lane, NEW app, AttachApp(s, lane, app)
  PROVE  BoardInv'
<1>1. Proceed(s, Idle) /\ UNCHANGED <<board, nextCard, detaching>> /\ attached' = attached \cup {<<lane, app>>}
  BY DEF AttachApp, Begin
<1>2. DepsSound' BY <1>1 DEF BoardInv, DepsSound
<1>3. AppsMatchLane' BY <1>1 DEF BoardInv, AppsMatchLane, PairIsLegal
<1>4. /\ nextCard' \in Nat \ {0} /\ board' \in [DOMAIN board' -> Card]
      /\ DOMAIN board' \subseteq 1..(nextCard' - 1)
  BY <1>1 DEF BoardInv, BoardTypes
<1> QED BY <1>1, <1>2, <1>3, <1>4, IdleKnows, ProceedKeeps

LEMMA DetachKeeps ==
  ASSUME OneRequest, BoardInv, NEW s \in Slots, NEW lane, NEW app, DetachApp(s, lane, app)
  PROVE  BoardInv'
<1> DEFINE r == [pc |-> "orphans", lane |-> lane, app |-> app]
<1>1. /\ Proceed(s, r) /\ UNCHANGED <<board, nextCard>>
      /\ attached' = attached \ {<<lane, app>>} /\ detaching' = detaching \cup {<<lane, app>>}
  BY DEF DetachApp, Begin
<1>2. DepsSound' BY <1>1 DEF BoardInv, DepsSound
<1>3. AppsMatchLane' BY <1>1 DEF BoardInv, AppsMatchLane, PairIsLegal
<1>4. /\ nextCard' \in Nat \ {0} /\ board' \in [DOMAIN board' -> Card]
      /\ DOMAIN board' \subseteq 1..(nextCard' - 1)
  BY <1>1 DEF BoardInv, BoardTypes
<1>5. Knows(r, board', attached', detaching') BY <1>1 DEF Knows
<1> HIDE DEF r
<1> QED BY <1>1, <1>2, <1>3, <1>4, <1>5, ProceedKeeps
-----------------------------------------------------------------------------
\* The handlers.
LEMMA InsertKeeps ==
  ASSUME OneRequest, BoardInv, NEW s \in Slots, Insert(s)
  PROVE  BoardInv'
<1>1. PICK row, n, b : row = req[s].row /\ n = nextCard /\ b = board OBVIOUS
<1>2. row \in Card /\ row.deps \subseteq DOMAIN b /\ LegalIn(attached, row.lane, row.app)
  BY <1>1 DEF Insert, At, BoardInv, Knows
<1>3. PICK r : Proceed(s, r) /\ (r = Idle \/ r = [pc |-> "cascade", root |-> n]) BY <1>1 DEF Insert
<1>4. UNCHANGED <<attached, detaching>> /\ nextCard' = n + 1 BY <1>1 DEF Insert
<1>5. n \in Nat \ {0} /\ DOMAIN b \subseteq 1..(n - 1) /\ b \in [DOMAIN b -> Card] BY <1>1 DEF BoardInv, BoardTypes
<1>6. n \notin DOMAIN b BY <1>5
<1>7. /\ DOMAIN board' = DOMAIN b \cup {n} /\ board' \in [DOMAIN board' -> Card]
      /\ board'[n] = row /\ \A c \in DOMAIN b : board'[c] = b[c]
  <2>1. board' = Over(b, [c \in {n} |-> row]) BY <1>1 DEF Insert
  <2> QED BY <1>2, <1>5, <1>6, <2>1 DEF Over
<1>8. DepsSound'
  <2>1. (\A c \in DOMAIN b : b[c].deps \subseteq DOMAIN b) /\ NoLoop(DepsOf(b)) BY <1>1, DepsSoundIs DEF BoardInv
  <2>2. IsFiniteSet(DOMAIN DepsOf(b)) BY <1>1, CardsFinite DEF BoardInv, DepsOf
  <2>3. \A c \in DOMAIN board' : board'[c].deps \subseteq DOMAIN b BY <1>2, <1>7, <2>1
  <2>4. NoLoop(DepsOf(board'))
    <3>1. /\ n \notin DOMAIN DepsOf(b) /\ DOMAIN DepsOf(board') = DOMAIN DepsOf(b) \cup {n}
          /\ \A c \in DOMAIN DepsOf(b) : DepsOf(board')[c] = DepsOf(b)[c]
          /\ \A c \in DOMAIN DepsOf(board') : DepsOf(board')[c] \subseteq DOMAIN DepsOf(b)
      BY <1>6, <1>7, <2>3 DEF DepsOf
    <3> QED BY <2>1, <2>2, <3>1, NewNoLoop
  <2>5. DepsSound' <=> (\A d \in DOMAIN board' : board'[d].deps \subseteq DOMAIN board') /\ NoLoop(DepsOf(board'))
    BY DEF DepsSound, NoLoop, DepsOf
  <2> QED BY <1>7, <2>3, <2>4, <2>5
<1>9. AppsMatchLane'
  <2>1. \A d \in DOMAIN b : CoveredIn(attached, detaching, b[d]) BY <1>1, AppsMatchIs DEF BoardInv
  <2>2. \A d \in DOMAIN board' : CoveredIn(attached', detaching', board'[d])
    BY <1>2, <1>4, <1>7, <2>1 DEF CoveredIn
  <2> QED BY <2>2 DEF AppsMatchLane, CoveredIn, LegalIn, PairIsLegal
<1>10. DOMAIN board' \subseteq 1..(nextCard' - 1) /\ nextCard' \in Nat \ {0} BY <1>4, <1>5, <1>7
<1>11. Knows(r, board', attached', detaching')
  <2>1. CASE r = Idle BY <2>1, IdleKnows
  <2>2. CASE r = [pc |-> "cascade", root |-> n] BY <1>5, <2>2 DEF Knows
  <2> QED BY <1>3, <2>1, <2>2
<1> QED BY <1>3, <1>7, <1>8, <1>9, <1>10, <1>11, ProceedKeeps

\* The three handlers that write the columns they were given.
LEMMA WrittenKeeps ==
  ASSUME OneRequest, BoardInv, NEW s \in Slots, req[s].pc \in {"update", "write", "set"},
         NEW r, Proceed(s, r), Writes(Set(req[s].root, req[s].columns)),
         r = Idle \/ r = [pc |-> "cascade", root |-> req[s].root]
  PROVE  BoardInv'
<1>1. PICK c, p : c = req[s].root /\ p = req[s].columns OBVIOUS
<1>2. Writing(req[s], board, attached, detaching) BY DEF BoardInv, Knows
<1>3. /\ c \in DOMAIN board /\ IsColumns(p) /\ CoveredIn(attached, detaching, Over(p, board[c]))
      /\ "deps" \in DOMAIN p => p.deps \subseteq DOMAIN board \ {c} /\ ~WouldCreateCycle(board, c, p.deps)
  BY <1>1, <1>2 DEF Writing
<1>4. c \in Nat BY <1>3 DEF BoardInv, BoardTypes
<1>5. Knows(r, Set(c, p), attached, detaching)
  <2>1. CASE r = Idle BY <2>1, IdleKnows
  <2>2. CASE r = [pc |-> "cascade", root |-> c] BY <1>4, <2>2 DEF Knows
  <2> QED BY <1>1, <2>1, <2>2
<1>6. Writes(Set(c, p)) BY <1>1
<1> QED BY <1>3, <1>5, <1>6, WriteKeeps

LEMMA WritesKeep ==
  ASSUME OneRequest, BoardInv, NEW s \in Slots, UpdateWrite(s) \/ Write(s) \/ SetColumns(s)
  PROVE  BoardInv'
<1>1. CASE UpdateWrite(s)
  <2>1. req[s].pc = "update" /\ Writes(Set(req[s].root, req[s].columns)) BY <1>1 DEF UpdateWrite, At
  <2>2. PICK r : Proceed(s, r) /\ (r = Idle \/ r = [pc |-> "cascade", root |-> req[s].root])
    BY <1>1 DEF UpdateWrite
  <2> QED BY <2>1, <2>2, WrittenKeeps
<1>2. CASE Write(s)
  <2>1. req[s].pc = "write" /\ Writes(Set(req[s].root, req[s].columns)) BY <1>2 DEF Write, At
  <2>2. PICK r : Proceed(s, r) /\ r = [pc |-> "cascade", root |-> req[s].root] BY <1>2 DEF Write
  <2> QED BY <2>1, <2>2, WrittenKeeps
<1>3. CASE SetColumns(s)
  <2>1. req[s].pc = "set" /\ Writes(Set(req[s].root, req[s].columns)) BY <1>3 DEF SetColumns, At
  <2>2. PICK r : Proceed(s, r) /\ r = Idle BY <1>3 DEF SetColumns
  <2> QED BY <2>1, <2>2, WrittenKeeps
<1> QED BY <1>1, <1>2, <1>3

LEMMA ShiftKeeps ==
  ASSUME OneRequest, BoardInv, NEW s \in Slots, Shift(s)
  PROVE  BoardInv'
<1>1. PICK todo : todo = req[s].todo OBVIOUS
<1>2. Pushing(todo, board) /\ todo # <<>> BY <1>1 DEF Shift, At, BoardInv, Knows
<1>3. PICK c, p : c = Head(todo).card /\ p = Head(todo).columns OBVIOUS
<1>4. /\ todo \in Seq(Range(todo)) /\ 1 \in DOMAIN todo /\ Head(todo) = todo[1] BY <1>2 DEF Pushing
<1>5. /\ c \in DOMAIN board /\ IsColumns(p) /\ DOMAIN p \subseteq {"start", "due", "status"}
  BY <1>2, <1>3, <1>4 DEF Pushing
<1>6. CoveredIn(attached, detaching, Over(p, board[c]))
  <2>1. {"lane", "app"} \cap DOMAIN p = {} BY <1>5
  <2> QED BY <1>5, <2>1, LaneStays
<1>7. PICK rest : rest = Tail(todo) OBVIOUS
<1> DEFINE r == [req[s] EXCEPT !.todo = rest]
<1>8. Proceed(s, r) /\ Writes(Set(c, p)) BY <1>1, <1>3, <1>7 DEF Shift
<1>9. r.pc = "shift" /\ r.todo = rest BY <1>1, <1>2 DEF Shift, At
<1>10. PICK b : b = Set(c, p) OBVIOUS
<1>11. /\ DOMAIN b = DOMAIN board /\ b[c] = Over(p, board[c])
       /\ \A d \in DOMAIN board : d # c => b[d] = board[d]
  BY <1>5, <1>10, SetIs DEF BoardInv
<1>12. b[c].start = p.start
  <2>1. "start" \in DOMAIN p BY <1>2, <1>3, <1>4 DEF Pushing
  <2>2. board[c] \in Card BY <1>5 DEF BoardInv, BoardTypes
  <2> QED BY <1>5, <1>11, <2>1, <2>2, OverIs DEF Fields
<1>13. /\ rest \in Seq(Range(todo)) /\ DOMAIN rest = 1..(Len(todo) - 1) /\ DOMAIN todo = 1..Len(todo)
       /\ \A i \in DOMAIN rest : i + 1 \in DOMAIN todo /\ rest[i] = todo[i + 1]
  BY <1>2, <1>4, <1>7
<1>14. Pushing(rest, b)
  <2>1. rest \in Seq(Range(rest))
    <3>1. \A i \in DOMAIN rest : rest[i] \in Range(rest) BY DEF Range
    <3> QED BY <1>13, <3>1
  <2>2. ASSUME NEW i \in DOMAIN rest
        PROVE  LET d == rest[i].card
                   q == rest[i].columns
               IN /\ d \in DOMAIN b /\ IsColumns(q)
                  /\ "start" \in DOMAIN q /\ DOMAIN q \subseteq {"start", "due", "status"}
                  /\ b[d].start # NoDay /\ q.start # NoDay /\ q.start >= b[d].start
    <3>1. PICK d, q : d = rest[i].card /\ q = rest[i].columns OBVIOUS
    <3>2. i + 1 \in DOMAIN todo /\ d = todo[i + 1].card /\ q = todo[i + 1].columns BY <1>13, <3>1
    <3>3. /\ d \in DOMAIN board /\ IsColumns(q)
          /\ "start" \in DOMAIN q /\ DOMAIN q \subseteq {"start", "due", "status"}
          /\ board[d].start # NoDay /\ q.start # NoDay /\ q.start >= board[d].start
      BY <1>2, <3>2 DEF Pushing
    <3>4. CASE d # c BY <1>11, <3>1, <3>3, <3>4
    <3>5. CASE d = c
      <4>1. q = p BY <1>2, <1>3, <1>4, <3>2, <3>5 DEF Pushing
      <4>2. q.start \in Int BY <3>3 DEF IsColumns, Kind, Day, NoDay
      <4> QED BY <1>11, <1>12, <3>1, <3>3, <3>5, <4>1, <4>2
    <3> QED BY <3>4, <3>5
  <2>3. \A i, j \in DOMAIN rest : rest[i].card = rest[j].card => rest[i] = rest[j]
    BY <1>2, <1>13 DEF Pushing
  <2> QED BY <2>1, <2>2, <2>3 DEF Pushing
<1>15. Knows(r, b, attached, detaching) BY <1>9, <1>14 DEF Knows
<1>16. "deps" \notin DOMAIN p BY <1>5
<1> HIDE DEF r
<1> QED BY <1>5, <1>6, <1>8, <1>10, <1>15, <1>16, WriteKeeps

LEMMA AnswersKeep ==
  ASSUME OneRequest, BoardInv, NEW s \in Slots, Answer(s) \/ Moved(s)
  PROVE  BoardInv'
<1>1. Proceed(s, Idle) /\ Reads BY DEF Answer, Moved
<1> QED BY <1>1, IdleKnows, ReadsKeep

LEMMA StripKeeps ==
  ASSUME OneRequest, BoardInv, NEW s \in Slots, Strip(s)
  PROVE  BoardInv'
<1>1. PICK root, todo : root = req[s].root /\ todo = req[s].todo OBVIOUS
<1>2. Stripping([root |-> root, todo |-> todo], board) BY <1>1 DEF Strip, At, BoardInv, Knows, Stripping
<1>3. /\ root \in DOMAIN board /\ DOMAIN todo \subseteq DOMAIN board
      /\ \A d \in DOMAIN todo : todo[d] \subseteq board[d].deps \ {root}
      /\ \A d \in DOMAIN board \ DOMAIN todo : d # root => root \notin board[d].deps
  BY <1>2 DEF Stripping
<1>4. PICK d \in DOMAIN todo :
        /\ Writes(Set(d, [deps |-> todo[d]]))
        /\ Proceed(s, [req[s] EXCEPT !.todo = [e \in DOMAIN todo \ {d} |-> todo[e]]])
  BY <1>1 DEF Strip
<1> DEFINE p == [deps |-> todo[d]]
           left == [e \in DOMAIN todo \ {d} |-> todo[e]]
           r == [req[s] EXCEPT !.todo = left]
<1>5. r.pc = "strip" /\ r.root = root /\ r.todo = left BY <1>1 DEF Strip, At
<1>6. d \in DOMAIN board /\ board[d] \in Card BY <1>3 DEF BoardInv, BoardTypes
<1>7. DOMAIN p = {"deps"} /\ p.deps = todo[d] /\ IsColumns(p)
  <2>1. todo[d] \in SUBSET CardIds BY <1>3, <1>6 DEF Card
  <2> QED BY <2>1 DEF IsColumns, Fields, Kind
<1>8. CoveredIn(attached, detaching, Over(p, board[d]))
  <2>1. {"lane", "app"} \cap DOMAIN p = {} BY <1>7
  <2> HIDE DEF p
  <2> QED BY <1>6, <1>7, <2>1, LaneStays
<1>9. p.deps \subseteq board[d].deps BY <1>3, <1>7
<1>10. Proceed(s, r) /\ Writes(Set(d, p)) BY <1>4
<1> HIDE DEF p, r
<1>11. PICK b : b = Set(d, p) OBVIOUS
<1>12. /\ DOMAIN b = DOMAIN board /\ b[d] = Over(p, board[d])
       /\ \A e \in DOMAIN board : e # d => b[e] = board[e]
  BY <1>6, <1>7, <1>11, SetIs DEF BoardInv
<1>13. b[d].deps = todo[d] BY <1>6, <1>7, <1>12, OverIs DEF Fields
<1>14. Stripping(r, b) BY <1>3, <1>5, <1>12, <1>13 DEF Stripping
<1>15. Knows(r, b, attached, detaching) BY <1>5, <1>14 DEF Knows
<1> QED BY <1>6, <1>7, <1>8, <1>9, <1>10, <1>11, <1>15, WriteKeeps

LEMMA DropKeeps ==
  ASSUME OneRequest, BoardInv, NEW s \in Slots, Drop(s)
  PROVE  BoardInv'
<1>1. PICK root, b : root = req[s].root /\ b = board OBVIOUS
<1>2. /\ root \in DOMAIN b
      /\ \A d \in DOMAIN b : d # root => root \notin b[d].deps
  BY <1>1 DEF Drop, At, BoardInv, Knows, Stripping
<1>3. /\ board' = [c \in DOMAIN b \ {root} |-> b[c]] /\ Proceed(s, Idle)
      /\ UNCHANGED <<nextCard, attached, detaching>>
  BY <1>1 DEF Drop, Writes
<1>4. DepsSound'
  <2>1. (\A c \in DOMAIN b : b[c].deps \subseteq DOMAIN b) /\ NoLoop(DepsOf(b)) BY <1>1, DepsSoundIs DEF BoardInv
  <2>2. IsFiniteSet(DOMAIN DepsOf(b)) BY <1>1, CardsFinite DEF BoardInv, DepsOf
  <2>3. \A c \in DOMAIN board' : board'[c].deps \subseteq DOMAIN board' BY <1>2, <1>3, <2>1
  <2>4. /\ DOMAIN DepsOf(board') \subseteq DOMAIN DepsOf(b)
        /\ \A d \in DOMAIN DepsOf(board') : DepsOf(board')[d] \subseteq DepsOf(b)[d]
    BY <1>3 DEF DepsOf
  <2>5. NoLoop(DepsOf(board')) BY <2>1, <2>2, <2>4, ShortenedNoLoop
  <2>6. DepsSound' <=> (\A d \in DOMAIN board' : board'[d].deps \subseteq DOMAIN board') /\ NoLoop(DepsOf(board'))
    BY DEF DepsSound, NoLoop, DepsOf
  <2> QED BY <2>3, <2>5, <2>6
<1>5. AppsMatchLane' BY <1>1, <1>3 DEF BoardInv, AppsMatchLane, PairIsLegal
<1>6. /\ nextCard' \in Nat \ {0} /\ board' \in [DOMAIN board' -> Card]
      /\ DOMAIN board' \subseteq 1..(nextCard' - 1)
  BY <1>1, <1>3 DEF BoardInv, BoardTypes
<1> QED BY <1>3, <1>4, <1>5, <1>6, IdleKnows, ProceedKeeps

LEMMA OrphansKeeps ==
  ASSUME OneRequest, BoardInv, NEW s \in Slots, Orphans(s)
  PROVE  BoardInv'
<1>1. PICK lane, app : lane = req[s].lane /\ app = req[s].app OBVIOUS
<1> DEFINE todo == {c \in DOMAIN board : board[c].lane = lane /\ board[c].app = app}
           r == [pc |-> "clear", lane |-> lane, app |-> app, todo |-> todo]
<1>2. Proceed(s, r) /\ Reads BY <1>1 DEF Orphans
<1>3. Knows(r, board, attached, detaching) BY DEF Knows
<1> HIDE DEF r
<1> QED BY <1>2, <1>3, ReadsKeep

LEMMA ClearKeeps ==
  ASSUME OneRequest, BoardInv, NEW s \in Slots, ClearApp(s)
  PROVE  BoardInv'
<1>1. PICK lane, app, todo : lane = req[s].lane /\ app = req[s].app /\ todo = req[s].todo OBVIOUS
<1>2. /\ todo \subseteq DOMAIN board
      /\ \A c \in DOMAIN board : board[c].lane = lane /\ board[c].app = app /\ app # None => c \in todo
  BY <1>1 DEF ClearApp, At, BoardInv, Knows
<1>3. PICK c \in todo : Writes(Set(c, [app |-> None])) /\ Proceed(s, [req[s] EXCEPT !.todo = @ \ {c}])
  BY <1>1 DEF ClearApp
<1> DEFINE p == [app |-> None]
           r == [req[s] EXCEPT !.todo = @ \ {c}]
<1>4. r.pc = "clear" /\ r.lane = lane /\ r.app = app /\ r.todo = todo \ {c} BY <1>1 DEF ClearApp, At
<1>5. c \in DOMAIN board /\ board[c] \in Card BY <1>2 DEF BoardInv, BoardTypes
<1>6. DOMAIN p = {"app"} /\ p.app = None /\ IsColumns(p) BY DEF IsColumns, Fields, Kind
<1>7. Proceed(s, r) /\ Writes(Set(c, p)) BY <1>3
<1> HIDE DEF p, r
<1>8. Over(p, board[c]).app = None /\ Over(p, board[c]).lane = board[c].lane BY <1>5, <1>6, OverIs DEF Fields
<1>9. CoveredIn(attached, detaching, Over(p, board[c])) BY <1>8 DEF CoveredIn, LegalIn
<1>10. PICK b : b = Set(c, p) OBVIOUS
<1>11. /\ DOMAIN b = DOMAIN board /\ b[c] = Over(p, board[c])
       /\ \A e \in DOMAIN board : e # c => b[e] = board[e]
  BY <1>5, <1>6, <1>10, SetIs DEF BoardInv
<1>12. ASSUME NEW d \in DOMAIN b, b[d].lane = lane, b[d].app = app, app # None PROVE d \in todo \ {c}
  <2>1. d # c BY <1>8, <1>11, <1>12
  <2> QED BY <1>2, <1>11, <1>12, <2>1
<1>13. Knows(r, b, attached, detaching) BY <1>2, <1>4, <1>11, <1>12 DEF Knows
<1>14. "deps" \notin DOMAIN p BY <1>6
<1> QED BY <1>5, <1>6, <1>7, <1>9, <1>10, <1>13, <1>14, WriteKeeps

LEMMA DetachedKeeps ==
  ASSUME OneRequest, BoardInv, NEW s \in Slots, Detached(s)
  PROVE  BoardInv'
<1>1. PICK lane, app : lane = req[s].lane /\ app = req[s].app OBVIOUS
<1>2. \A c \in DOMAIN board : ~(board[c].lane = lane /\ board[c].app = app /\ app # None)
  BY <1>1 DEF Detached, At, BoardInv, Knows
<1>3. /\ UNCHANGED <<board, nextCard, attached>> /\ Proceed(s, Idle)
      /\ detaching' = detaching \ {<<lane, app>>}
  BY <1>1 DEF Detached
<1>4. DepsSound' BY <1>3 DEF BoardInv, DepsSound
<1>5. AppsMatchLane' BY <1>2, <1>3 DEF BoardInv, AppsMatchLane, PairIsLegal
<1>6. /\ nextCard' \in Nat \ {0} /\ board' \in [DOMAIN board' -> Card]
      /\ DOMAIN board' \subseteq 1..(nextCard' - 1)
  BY <1>3 DEF BoardInv, BoardTypes
<1> QED BY <1>3, <1>4, <1>5, <1>6, IdleKnows, ProceedKeeps

LEMMA MoveOneKeeps ==
  ASSUME OneRequest, BoardInv, NEW s \in Slots, MoveOne(s)
  PROVE  BoardInv'
<1>1. PICK to, todo : to = req[s].to /\ todo = req[s].todo OBVIOUS
<1>2. /\ to \in Lanes \cup {None} /\ DOMAIN todo \subseteq DOMAIN board
      /\ \A c \in DOMAIN todo : todo[c] = board[c].app
  BY <1>1 DEF MoveOne, At, BoardInv, Knows
<1>3. PICK c \in DOMAIN todo :
        /\ Writes(Set(c, MovedTo(todo[c], to)))
        /\ Proceed(s, [req[s] EXCEPT !.todo = [d \in DOMAIN @ \ {c} |-> @[d]]])
  BY <1>1 DEF MoveOne
<1> DEFINE left == [d \in DOMAIN todo \ {c} |-> todo[d]]
           r == [req[s] EXCEPT !.todo = left]
           p == MovedTo(todo[c], to)
<1>4. r.pc = "move" /\ r.to = to /\ r.todo = left BY <1>1 DEF MoveOne, At
<1>5. c \in DOMAIN board /\ board[c] \in Card /\ todo[c] = board[c].app BY <1>2 DEF BoardInv, BoardTypes
<1>6. /\ IsColumns(p) /\ DOMAIN p \subseteq {"lane", "app"}
      /\ "lane" \in DOMAIN p /\ p.lane = to /\ ("app" \in DOMAIN p => p.app = None)
      /\ "app" \notin DOMAIN p => LegalIn(attached, to, todo[c])
  <2>1. CASE PairIsLegal(to, todo[c])
    <3>1. p = [lane |-> to] BY <2>1 DEF MovedTo
    <3> HIDE DEF p
    <3> QED BY <1>2, <2>1, <3>1 DEF IsColumns, Fields, Kind, PairIsLegal, LegalIn
  <2>2. CASE ~PairIsLegal(to, todo[c])
    <3>1. p = [lane |-> to, app |-> None] BY <2>2 DEF MovedTo
    <3> HIDE DEF p
    <3>2. DOMAIN p = {"lane", "app"} /\ p.lane = to /\ p.app = None BY <3>1
    <3>3. Kind["lane"] = Lanes \cup {None} /\ Kind["app"] = Apps \cup {None} BY DEF Kind
    <3> QED BY <1>2, <3>2, <3>3 DEF IsColumns, Fields
  <2> QED BY <2>1, <2>2
<1>7. Proceed(s, r) /\ Writes(Set(c, p)) BY <1>1, <1>3
<1> HIDE DEF p, r
<1>8. /\ Over(p, board[c]).lane = to
      /\ Over(p, board[c]).app = IF "app" \in DOMAIN p THEN None ELSE todo[c]
  <2>1. \A f \in Fields : Over(p, board[c])[f] = IF f \in DOMAIN p THEN p[f] ELSE board[c][f]
    BY <1>5, <1>6, OverIs
  <2>2. "lane" \in Fields /\ "app" \in Fields BY DEF Fields
  <2>3. Over(p, board[c])["lane"] = to BY <1>6, <2>1, <2>2
  <2>4. Over(p, board[c])["app"] = IF "app" \in DOMAIN p THEN None ELSE todo[c] BY <1>5, <1>6, <2>1, <2>2
  <2> QED BY <2>3, <2>4
<1>9. CoveredIn(attached, detaching, Over(p, board[c])) BY <1>6, <1>8 DEF CoveredIn, LegalIn
<1>10. PICK b : b = Set(c, p) OBVIOUS
<1>11. /\ DOMAIN b = DOMAIN board
       /\ \A e \in DOMAIN board : e # c => b[e] = board[e]
  BY <1>5, <1>6, <1>10, SetIs DEF BoardInv
<1>12. Knows(r, b, attached, detaching) BY <1>2, <1>4, <1>11 DEF Knows
<1>13. "deps" \notin DOMAIN p BY <1>6
<1> QED BY <1>5, <1>6, <1>7, <1>9, <1>10, <1>12, <1>13, WriteKeeps

LEMMA CrashKeeps ==
  ASSUME OneRequest, BoardInv, Crash
  PROVE  BoardInv'
<1>1. req' = [s \in Slots |-> Idle] /\ UNCHANGED <<board, nextCard, attached, detaching>> BY DEF Crash
<1>2. BoardTypes' /\ DepsSound' /\ AppsMatchLane'
  <2>1. BoardTypes' BY <1>1 DEF BoardInv, BoardTypes
  <2>2. DepsSound' BY <1>1 DEF BoardInv, DepsSound
  <2>3. AppsMatchLane' BY <1>1 DEF BoardInv, AppsMatchLane, PairIsLegal
  <2> QED BY <2>1, <2>2, <2>3
<1>3. (\A s \in Slots : Knows(req[s], board, attached, detaching))'
  <2>1. \A s \in Slots : req'[s] = Idle BY <1>1
  <2> QED BY <2>1, IdleKnows
<1> QED BY <1>2, <1>3 DEF BoardInv
-----------------------------------------------------------------------------
\* The push, as far as it has come: a card of the board keeps what it waits for
\* and starts where it did or, if it was on the timeline, later.
NoEarlier(b, w) ==
  \A c \in DOMAIN b :
    /\ w[c].deps = b[c].deps /\ w[c].dur = b[c].dur
    /\ \/ w[c].start = b[c].start
       \/ b[c].start # NoDay /\ w[c].start # NoDay /\ w[c].start >= b[c].start

Walks(b) ==
  {w \in [board : [DOMAIN b -> Card], moved : Seq(DOMAIN b), seen : SUBSET Nat, queue : Seq(Nat)] :
     NoEarlier(b, w.board) /\ \A c \in Range(w.moved) : b[c].start # NoDay}

LEMMA EndsAre ==
  ASSUME NEW b, b \in [DOMAIN b -> Card], IsFiniteSet(DOMAIN b), NEW c \in DOMAIN b
  PROVE  DepEnds(b, c) \subseteq Nat /\ IsFiniteSet(DepEnds(b, c))
<1> DEFINE D == b[c].deps \cap Started(b)
           End(d) == CascadeEnd(b[d])
<1>1. D \subseteq DOMAIN b /\ IsFiniteSet(D)
  <2>1. D \subseteq DOMAIN b BY DEF Started
  <2> QED BY <2>1, FS_Subset
<1>2. \A d \in D : End(d) \in Nat
  <2> SUFFICES ASSUME NEW d \in D PROVE End(d) \in Nat OBVIOUS
  <2>1. b[d] \in Card /\ b[d].start # NoDay BY <1>1 DEF Started
  <2>2. b[d].start \in Nat /\ b[d].dur \in Nat BY <2>1 DEF Card, Day
  <2> QED BY <2>2 DEF CascadeEnd
<1>3. DepEnds(b, c) = {End(d) : d \in D} BY DEF DepEnds
<1>4. IsFiniteSet({End(d) : d \in D})
  <2> DEFINE f == [d \in D |-> End(d)]
  <2> HIDE DEF D, End
  <2>1. DOMAIN f = D /\ Range(f) = {End(d) : d \in D} BY DEF Range
  <2> HIDE DEF f
  <2> QED BY <1>1, <2>1, ImageFinite
<1> HIDE DEF D, End
<1> QED BY <1>2, <1>3, <1>4

LEMMA PushKeeps ==
  ASSUME NEW b, b \in [DOMAIN b -> Card], IsFiniteSet(DOMAIN b), DOMAIN b \subseteq Nat, NEW w \in Walks(b), NEW c \in DOMAIN b
  PROVE  PushDependent(w, c) \in Walks(b)
<1> DEFINE ends == DepEnds(w.board, c)
           card == w.board[c]
<1>1. /\ w.board \in [DOMAIN b -> Card] /\ w.moved \in Seq(DOMAIN b) /\ w.seen \in SUBSET Nat /\ w.queue \in Seq(Nat)
      /\ w = [board |-> w.board, moved |-> w.moved, seen |-> w.seen, queue |-> w.queue]
      /\ NoEarlier(b, w.board) /\ \A d \in Range(w.moved) : b[d].start # NoDay
  BY DEF Walks
<1>2. CASE card.start = NoDay \/ ends = {} \/ card.start >= Max(ends) BY <1>2 DEF PushDependent
<1>3. CASE ~(card.start = NoDay \/ ends = {} \/ card.start >= Max(ends))
  <2>1. ends \subseteq Nat /\ IsFiniteSet(ends) /\ DOMAIN w.board = DOMAIN b BY <1>1, EndsAre
  <2>2. PICK top : top = Max(ends) OBVIOUS
  <2>3. top \in Nat
    <3> HIDE DEF ends
    <3>1. ends \subseteq Int BY <2>1
    <3>2. Max(ends) \in ends BY <1>3, <2>1, <3>1, MaxIs
    <3> QED BY <2>1, <2>2, <3>2
  <2>4. card \in Card /\ card.start \in Nat /\ card.dur \in Nat /\ top >= card.start
    <3>1. card \in Card BY <1>1
    <3>2. card.start \in Nat /\ card.dur \in Nat BY <1>3, <3>1 DEF Card, Day
    <3> QED BY <1>3, <2>2, <2>3, <3>1, <3>2
  <2>5. PICK due : due = IF card.due # NoDay /\ card.dur > 0 THEN top + card.dur ELSE NoDay OBVIOUS
  <2>6. due \in Day BY <2>3, <2>4, <2>5 DEF Day
  <2> DEFINE after == [w.board EXCEPT ![c] = [@ EXCEPT !.start = top, !.due = due]]
             moved == AddOnce(w.moved, c)
             queue == Append(w.queue, c)
  <2>7. PushDependent(w, c) = [board |-> after, moved |-> moved, seen |-> w.seen, queue |-> queue]
    <3>1. PushDependent(w, c) = [w EXCEPT !.board = [w.board EXCEPT ![c] = [[@ EXCEPT !.start = top] EXCEPT !.due = due]],
                                          !.moved = moved, !.queue = queue]
      BY <1>1, <1>3, <2>2, <2>5 DEF PushDependent
    <3> QED BY <1>1, <3>1
  <2>8. after \in [DOMAIN b -> Card]
    <3>1. [card EXCEPT !.start = top, !.due = due] \in Card
      <4> HIDE DEF card
      <4> QED BY <2>3, <2>4, <2>6 DEF Card, Day
    <3> QED BY <1>1, <3>1
  <2>9. NoEarlier(b, after)
    <3> SUFFICES ASSUME NEW d \in DOMAIN b
                 PROVE  /\ after[d].deps = b[d].deps /\ after[d].dur = b[d].dur
                        /\ \/ after[d].start = b[d].start
                           \/ b[d].start # NoDay /\ after[d].start # NoDay /\ after[d].start >= b[d].start
      BY DEF NoEarlier
    <3>1. CASE d # c BY <1>1, <3>1 DEF NoEarlier
    <3>2. CASE d = c
      <4>1. after[c] = [card EXCEPT !.start = top, !.due = due] BY <1>1
      <4>2. after[c].deps = card.deps /\ after[c].dur = card.dur /\ after[c].start = top
        <5> HIDE DEF card, after
        <5> QED BY <2>4, <4>1 DEF Card
      <4>3. b[c].start # NoDay /\ b[c].start \in Nat /\ card.start >= b[c].start
        <5>1. b[c] \in Card OBVIOUS
        <5>2. b[c].start \in Day BY <5>1 DEF Card
        <5> QED BY <1>1, <1>3, <2>4, <5>2 DEF NoEarlier, Day
      <4>4. top # NoDay /\ top >= b[c].start BY <2>3, <2>4, <4>3 DEF NoDay
      <4>5. card.deps = b[c].deps /\ card.dur = b[c].dur BY <1>1 DEF NoEarlier
      <4> HIDE DEF after, card
      <4> QED BY <3>2, <4>2, <4>3, <4>4, <4>5
    <3> QED BY <3>1, <3>2
  <2>10. moved \in Seq(DOMAIN b) /\ \A d \in Range(moved) : b[d].start # NoDay
    <3>1. b[c].start # NoDay BY <1>1, <1>3 DEF NoEarlier
    <3>2. CASE c \in Range(w.moved) BY <1>1, <3>2 DEF AddOnce
    <3>3. CASE c \notin Range(w.moved)
      <4>1. moved = Append(w.moved, c) BY <3>3 DEF AddOnce
      <4>2. \A d \in Range(moved) : d \in Range(w.moved) \/ d = c BY <1>1, <4>1 DEF Range
      <4> QED BY <1>1, <3>1, <4>1, <4>2
    <3> QED BY <3>2, <3>3
  <2>11. queue \in Seq(Nat) BY <1>1
  <2> HIDE DEF after, moved, queue
  <2> QED BY <1>1, <2>7, <2>8, <2>9, <2>10, <2>11 DEF Walks
<1> QED BY <1>2, <1>3

\* One visit, over the rows in their order.
Follow(c, w, d) == IF d \in DOMAIN w.board /\ c \in w.board[d].deps THEN PushDependent(w, d) ELSE w

VisitedBy(chain, b, w, order, c) ==
  /\ chain \in [0..Len(order) -> Walks(b)]
  /\ chain[0] = [board |-> w.board, moved |-> w.moved, seen |-> w.seen \cup {c}, queue |-> Tail(w.queue)]
  /\ chain[Len(order)] = Visit(w, order)
  /\ \A k \in 0..(Len(order) - 1) : chain[k + 1] = Follow(c, chain[k], order[k + 1])

LEMMA VisitRuns ==
  ASSUME NEW b, b \in [DOMAIN b -> Card], IsFiniteSet(DOMAIN b), DOMAIN b \subseteq Nat,
         NEW w \in Walks(b), w.queue # <<>>, NEW order \in Seq(CardIds), NEW c, c = Head(w.queue)
  PROVE  /\ c \in w.seen => Visit(w, order) = [board |-> w.board, moved |-> w.moved, seen |-> w.seen, queue |-> Tail(w.queue)]
         /\ c \notin w.seen =>
              \E chain : VisitedBy(chain, b, w, order, c)
<1>1. PICK V : V = Walks(b) OBVIOUS
<1>2. PICK n : n = Len(order) OBVIOUS
<1>3. n \in Nat /\ DOMAIN order = 1..n BY <1>2
<1> DEFINE rest == [w EXCEPT !.queue = Tail(@)]
           base == [rest EXCEPT !.seen = @ \cup {c}]
<1>4. /\ rest = [board |-> w.board, moved |-> w.moved, seen |-> w.seen, queue |-> Tail(w.queue)]
      /\ base = [board |-> w.board, moved |-> w.moved, seen |-> w.seen \cup {c}, queue |-> Tail(w.queue)]
      /\ rest \in V /\ base \in V
  <2>1. /\ w.queue \in Seq(Nat) /\ w = [board |-> w.board, moved |-> w.moved, seen |-> w.seen, queue |-> w.queue]
        /\ w.board \in [DOMAIN b -> Card] /\ w.moved \in Seq(DOMAIN b) /\ w.seen \in SUBSET Nat
        /\ NoEarlier(b, w.board) /\ \A d \in Range(w.moved) : b[d].start # NoDay
    BY DEF Walks
  <2>2. c \in Nat /\ Tail(w.queue) \in Seq(Nat) BY <2>1
  <2>3. PICK a, m, x, q : a = w.board /\ m = w.moved /\ x = w.seen /\ q = w.queue OBVIOUS
  <2>4. w = [board |-> a, moved |-> m, seen |-> x, queue |-> q] BY <2>1, <2>3
  <2>5. PICK y, z : y = Tail(q) /\ z = x \cup {c} OBVIOUS
  <2>6. w.queue = q BY <2>3
  <2>7. rest = [w EXCEPT !.queue = y] BY <2>5, <2>6
  <2>8. rest = [board |-> a, moved |-> m, seen |-> x, queue |-> y] BY <2>4, <2>7
  <2>9. rest.seen = x BY <2>8
  <2> HIDE DEF rest
  <2>10. base = [rest EXCEPT !.seen = z] BY <2>5, <2>9
  <2>11. base = [board |-> a, moved |-> m, seen |-> z, queue |-> y] BY <2>8, <2>10
  <2> HIDE DEF rest, base
  <2> QED BY <1>1, <2>1, <2>2, <2>3, <2>8, <2>11, <2>5 DEF Walks
<1> HIDE DEF rest, base
<1>5. CASE c \in w.seen
  <2>1. Visit(w, order) = rest BY <1>5 DEF Visit, rest
  <2> QED BY <1>4, <1>5, <2>1
<1>6. CASE c \notin w.seen
  <2>1. \A x \in V, d \in CardIds : Follow(c, x, d) \in V
    <3>1. \A x \in V : DOMAIN x.board = DOMAIN b BY <1>1 DEF Walks
    <3> QED BY <1>1, <3>1, PushKeeps DEF Follow
  <2> DEFINE F == [p \in V \X (1..n) |-> Follow(c, p[1], order[p[2]])]
             P(it) == it = [s \in SUBSET (1..n) |->
                              IF s = {} THEN base ELSE Follow(c, it[s \ {Max(s)}], order[Max(s)])]
  <2>2. F \in [V \X (1..n) -> V]
    <3>1. \A i \in 1..n : order[i] \in CardIds BY <1>3
    <3> QED BY <2>1, <3>1
  <2>3. PICK h \in [SUBSET (1..n) -> V] : FoldsBy(h, n, base, F)
    <3> HIDE DEF F
    <3> QED BY <1>3, <1>4, <2>2, FoldExists
  <2>4. P(h)
    <3>1. \A s \in SUBSET (1..n) : h[s] = IF s = {} THEN base ELSE Follow(c, h[s \ {Max(s)}], order[Max(s)])
      <4> SUFFICES ASSUME NEW s \in SUBSET (1..n), s # {} PROVE h[s] = Follow(c, h[s \ {Max(s)}], order[Max(s)])
        BY <2>3 DEF FoldsBy
      <4>1. Max(s) \in 1..n BY <1>3, GreatestIs
      <4>2. h[s \ {Max(s)}] \in V OBVIOUS
      <4> QED BY <2>3, <4>1, <4>2 DEF FoldsBy
    <3> QED BY <3>1
  <2>5. PICK it : it = (CHOOSE g : P(g)) OBVIOUS
  <2>6. P(it) BY <2>4, <2>5
  <2>7. Visit(w, order) = it[1..n]
    BY <1>3, <1>6, <2>5 DEF Visit, FoldLeft, MapThenFoldSet, Follow, rest, base
  <2>8. FoldsWithin(V, n, base, F, it)
    <3>1. it[{}] = base BY <2>6
    <3>2. ASSUME NEW s \in SUBSET (1..n), s # {}, it[s \ {Max(s)}] \in V
          PROVE  it[s] = F[<<it[s \ {Max(s)}], Max(s)>>]
      <4>1. Max(s) \in 1..n BY <1>3, <3>2, GreatestIs
      <4> QED BY <2>6, <3>2, <4>1
    <3> HIDE DEF F, P
    <3> QED BY <3>1, <3>2 DEF FoldsWithin
  <2>9. PICK chain \in [0..n -> V] : ChainOf(chain, n, base, F, it[1..n])
    <3> HIDE DEF F, P
    <3> QED BY <1>3, <1>4, <2>2, <2>8, FoldRuns
  <2>10. chain[0] = base /\ chain[n] = it[1..n] BY <2>9 DEF ChainOf
  <2>11. \A k \in 0..(n - 1) : chain[k + 1] = Follow(c, chain[k], order[k + 1])
    <3>1. \A k \in 0..(n - 1) : <<chain[k], k + 1>> \in V \X (1..n) BY <1>3
    <3> QED BY <2>9, <3>1 DEF ChainOf
  <2> HIDE DEF F, P
  <2>12. VisitedBy(chain, b, w, order, c) BY <1>1, <1>2, <1>4, <2>7, <2>10, <2>11 DEF VisitedBy
  <2> QED BY <1>6, <2>12
<1> QED BY <1>5, <1>6

LEMMA VisitKeeps ==
  ASSUME NEW b, b \in [DOMAIN b -> Card], IsFiniteSet(DOMAIN b), DOMAIN b \subseteq Nat,
         NEW w \in Walks(b), w.queue # <<>>, NEW order \in Seq(CardIds)
  PROVE  Visit(w, order) \in Walks(b)
<1>1. PICK c, a : c = Head(w.queue) /\ a = Visit(w, order) OBVIOUS
<1>2. CASE c \in w.seen
  <2>1. a = [board |-> w.board, moved |-> w.moved, seen |-> w.seen, queue |-> Tail(w.queue)]
    BY <1>1, <1>2, VisitRuns
  <2>2. Tail(w.queue) \in Seq(Nat) BY DEF Walks
  <2> QED BY <1>1, <2>1, <2>2 DEF Walks
<1>3. CASE c \notin w.seen
  <2>1. PICK chain : VisitedBy(chain, b, w, order, c) BY <1>1, <1>3, VisitRuns
  <2>2. Len(order) \in 0..Len(order)
    <3>1. Len(order) \in Nat OBVIOUS
    <3> QED BY <3>1
  <2> QED BY <1>1, <2>1, <2>2 DEF VisitedBy
<1> QED BY <1>2, <1>3

\* The whole walk.
TurnOf(w, order) == IF w.queue = <<>> THEN w ELSE Visit(w, order)

LEMMA CascadeRuns ==
  ASSUME NEW b, b \in [DOMAIN b -> Card], IsFiniteSet(DOMAIN b), DOMAIN b \subseteq Nat,
         NEW root \in Nat, NEW order \in Seq(CardIds), NEW n, n = Cardinality(DOMAIN b) * Cardinality(DOMAIN b) + 1
  PROVE  \E chain \in [0..n -> Walks(b)] :
           /\ chain[0] = [board |-> b, moved |-> <<>>, seen |-> {}, queue |-> <<root>>]
           /\ chain[n] = CascadeFrom(b, root, order)
           /\ \A k \in 0..(n - 1) : chain[k + 1] = TurnOf(chain[k], order)
<1>1. PICK size : size = Cardinality(DOMAIN b) OBVIOUS
<1>2. n = size * size + 1 BY <1>1
<1>3. size \in Nat /\ n \in Nat
  <2>1. size \in Nat BY <1>1, FS_CardinalityType
  <2>2. size * size \in Nat BY <2>1
  <2> QED BY <1>2, <2>1, <2>2
<1>4. PICK V : V = Walks(b) OBVIOUS
<1> DEFINE base == [board |-> b, moved |-> <<>>, seen |-> {}, queue |-> <<root>>]
<1>5. base \in V
  <2>1. NoEarlier(b, b) BY DEF NoEarlier
  <2>2. base \in [board : [DOMAIN b -> Card], moved : Seq(DOMAIN b), seen : SUBSET Nat, queue : Seq(Nat)] OBVIOUS
  <2>3. base.board = b /\ base.moved = <<>> OBVIOUS
  <2>4. Range(base.moved) = {} BY DEF Range
  <2> HIDE DEF base
  <2> QED BY <1>4, <2>1, <2>2, <2>3, <2>4 DEF Walks
<1> HIDE DEF base
<1>6. \A x \in V : TurnOf(x, order) \in V BY <1>4, VisitKeeps DEF TurnOf
<1> DEFINE F == [p \in V \X (1..n) |-> TurnOf(p[1], order)]
           P(it) == it = [s \in SUBSET (1..n) |-> IF s = {} THEN base ELSE TurnOf(it[s \ {Max(s)}], order)]
<1>7. F \in [V \X (1..n) -> V] BY <1>6
<1>8. PICK h \in [SUBSET (1..n) -> V] : FoldsBy(h, n, base, F)
  <2> HIDE DEF F
  <2> QED BY <1>3, <1>5, <1>7, FoldExists
<1>9. P(h)
  <2>1. \A s \in SUBSET (1..n) : h[s] = IF s = {} THEN base ELSE TurnOf(h[s \ {Max(s)}], order)
    <3> SUFFICES ASSUME NEW s \in SUBSET (1..n), s # {} PROVE h[s] = TurnOf(h[s \ {Max(s)}], order)
      BY <1>8 DEF FoldsBy
    <3>1. Max(s) \in 1..n BY <1>3, GreatestIs
    <3>2. h[s \ {Max(s)}] \in V OBVIOUS
    <3> QED BY <1>8, <3>1, <3>2 DEF FoldsBy
  <2> QED BY <2>1
<1>10. PICK it : it = (CHOOSE g : P(g)) OBVIOUS
<1>11. P(it) BY <1>9, <1>10
<1>12. CascadeFrom(b, root, order) = it[1..n]
  BY <1>1, <1>2, <1>10 DEF CascadeFrom, FoldLeft, MapThenFoldSet, TurnOf, base
<1>13. FoldsWithin(V, n, base, F, it)
  <2>1. it[{}] = base BY <1>11
  <2>2. ASSUME NEW s \in SUBSET (1..n), s # {}, it[s \ {Max(s)}] \in V
        PROVE  it[s] = F[<<it[s \ {Max(s)}], Max(s)>>]
    <3>1. Max(s) \in 1..n BY <1>3, <2>2, GreatestIs
    <3> QED BY <1>11, <2>2, <3>1
  <2> HIDE DEF F, P
  <2> QED BY <2>1, <2>2 DEF FoldsWithin
<1>14. PICK chain \in [0..n -> V] : ChainOf(chain, n, base, F, it[1..n])
  <2> HIDE DEF F, P
  <2> QED BY <1>3, <1>5, <1>7, <1>13, FoldRuns
<1>15. chain[0] = base /\ chain[n] = it[1..n] BY <1>14 DEF ChainOf
<1>16. \A k \in 0..(n - 1) : chain[k + 1] = TurnOf(chain[k], order)
  <2>1. \A k \in 0..(n - 1) : <<chain[k], k + 1>> \in V \X (1..n) BY <1>3
  <2> QED BY <1>14, <2>1 DEF ChainOf
<1> HIDE DEF F, P
<1> QED BY <1>4, <1>12, <1>15, <1>16 DEF base

LEMMA CascadeKeeps ==
  ASSUME NEW b, b \in [DOMAIN b -> Card], IsFiniteSet(DOMAIN b), DOMAIN b \subseteq Nat,
         NEW root \in Nat, NEW order \in Seq(CardIds)
  PROVE  CascadeFrom(b, root, order) \in Walks(b)
<1>1. PICK size, n : size = Cardinality(DOMAIN b) /\ n = size * size + 1 OBVIOUS
<1>2. n \in Nat
  <2>1. size \in Nat BY <1>1, FS_CardinalityType
  <2>2. size * size \in Nat BY <2>1
  <2> QED BY <1>1, <2>2
<1>3. PICK chain \in [0..n -> Walks(b)] : chain[n] = CascadeFrom(b, root, order) BY <1>1, CascadeRuns
<1>4. n \in 0..n BY <1>2
<1> QED BY <1>3, <1>4

\* What the push has to write.
LEMMA PushedIs ==
  ASSUME NEW card \in Card, NEW is \in Card
  PROVE  LET q == Pushed(card, is) IN
         /\ IsColumns(q) /\ "start" \in DOMAIN q /\ DOMAIN q \subseteq {"start", "due", "status"}
         /\ q.start = is.start
<1> DEFINE p == [start |-> is.start, due |-> is.due]
           status == DeriveStatus(card, is.start)
           q == Pushed(card, is)
<1>1. is.start \in Day /\ is.due \in Day BY DEF Card
<1>2. DOMAIN p = {"start", "due"} /\ p["start"] = is.start /\ p["due"] = is.due OBVIOUS
<1>3. IsColumns(p)
  <2>1. Kind["start"] = Day /\ Kind["due"] = Day BY DEF Kind
  <2> HIDE DEF p
  <2> QED BY <1>1, <1>2, <2>1 DEF IsColumns, Fields
<1>4. status \in Statuses BY <1>1, DeriveIs
<1>5. q = WithStatus(p, card, status) BY DEF Pushed
<1> HIDE DEF p, status, q
<1>6. /\ IsColumns(q) /\ DOMAIN p \subseteq DOMAIN q /\ DOMAIN q \subseteq DOMAIN p \cup {"status"}
      /\ \A f \in DOMAIN p \ {"status"} : q[f] = p[f]
  BY <1>3, <1>4, <1>5, StatusIs
<1>7. q["start"] = is.start BY <1>2, <1>6
<1>8. "start" \in DOMAIN q /\ DOMAIN q \subseteq {"start", "due", "status"} BY <1>2, <1>6
<1> QED BY <1>6, <1>7, <1>8 DEF q

LEMMA ApplyCascadeKeeps ==
  ASSUME OneRequest, BoardInv, NEW s \in Slots, ApplyCascade(s)
  PROVE  BoardInv'
<1>1. PICK b : b = board OBVIOUS
<1>2. b \in [DOMAIN b -> Card] /\ IsFiniteSet(DOMAIN b) /\ DOMAIN b \subseteq Nat
  <2>1. BoardTypes BY DEF BoardInv
  <2> QED BY <1>1, <2>1, CardsFinite DEF BoardTypes
<1>3. PICK root : root = req[s].root OBVIOUS
<1>4. root \in Nat BY <1>3 DEF ApplyCascade, At, BoardInv, Knows
<1>5. PICK order \in Orders :
        LET walk == CascadeFrom(board, req[s].root, order) IN
        Proceed(s, [pc |-> "shift", root |-> req[s].root, moved |-> Range(walk.moved),
                    todo |-> [i \in DOMAIN walk.moved |->
                      [card |-> walk.moved[i],
                       columns |-> Pushed(board[walk.moved[i]], walk.board[walk.moved[i]])]]])
  BY DEF ApplyCascade
<1>6. PICK walk : walk = CascadeFrom(b, root, order) OBVIOUS
<1>7. walk \in Walks(b)
  <2>1. order \in Seq(CardIds) BY <1>5, BoardAssumption
  <2> QED BY <1>2, <1>4, <1>6, <2>1, CascadeKeeps
<1>8. PICK moved, after : moved = walk.moved /\ after = walk.board OBVIOUS
<1>9. /\ moved \in Seq(DOMAIN b) /\ after \in [DOMAIN b -> Card] /\ NoEarlier(b, after)
      /\ \A c \in Range(moved) : b[c].start # NoDay
  BY <1>7, <1>8 DEF Walks
<1> DEFINE todo == [i \in DOMAIN moved |-> [card |-> moved[i], columns |-> Pushed(b[moved[i]], after[moved[i]])]]
           r == [pc |-> "shift", root |-> root, moved |-> Range(moved), todo |-> todo]
<1>10. Proceed(s, r) BY <1>1, <1>3, <1>5, <1>6, <1>8
<1>11. r.pc = "shift" /\ r.todo = todo OBVIOUS
<1> HIDE DEF r
<1>12. DOMAIN todo = DOMAIN moved /\ \A i \in DOMAIN todo : todo[i].card = moved[i] /\ todo[i].columns = Pushed(b[moved[i]], after[moved[i]])
  OBVIOUS
<1>13. \A i, j \in DOMAIN todo : todo[i].card = todo[j].card => todo[i] = todo[j] OBVIOUS
<1>14. todo \in Seq(Range(todo))
  <2>1. Len(moved) \in Nat /\ DOMAIN moved = 1..Len(moved) BY <1>9
  <2>2. PICK n : n = Len(moved) OBVIOUS
  <2>3. DOMAIN todo = 1..n /\ n \in Nat /\ todo = [i \in 1..n |-> todo[i]] BY <2>1, <2>2
  <2>4. \A i \in 1..n : todo[i] \in Range(todo) BY <2>3 DEF Range
  <2> HIDE DEF todo
  <2>5. todo \in [1..n -> Range(todo)] BY <2>3, <2>4
  <2> QED BY <2>3, <2>5
<1> HIDE DEF todo
<1>15. ASSUME NEW i \in DOMAIN todo
       PROVE  LET c == todo[i].card
                  p == todo[i].columns
              IN /\ c \in DOMAIN b /\ IsColumns(p)
                 /\ "start" \in DOMAIN p /\ DOMAIN p \subseteq {"start", "due", "status"}
                 /\ b[c].start # NoDay /\ p.start # NoDay /\ p.start >= b[c].start
  <2>1. PICK c, p : c = todo[i].card /\ p = todo[i].columns OBVIOUS
  <2>2. c = moved[i] /\ p = Pushed(b[c], after[c]) BY <1>12, <2>1
  <2>3. i \in DOMAIN moved BY <1>12
  <2>4. c \in DOMAIN b /\ c \in Range(moved) BY <1>9, <2>2, <2>3 DEF Range
  <2>5. b[c] \in Card /\ after[c] \in Card BY <1>2, <1>9, <2>4
  <2>6. /\ IsColumns(p) /\ "start" \in DOMAIN p /\ DOMAIN p \subseteq {"start", "due", "status"}
        /\ p.start = after[c].start
    BY <2>2, <2>5, PushedIs
  <2>7. b[c].start # NoDay BY <1>9, <2>4
  <2>8. b[c].start \in Nat
    <3>1. b[c].start \in Day BY <2>5 DEF Card
    <3> QED BY <2>7, <3>1 DEF Day
  <2>9. after[c].start # NoDay /\ after[c].start >= b[c].start BY <1>9, <2>4, <2>7, <2>8 DEF NoEarlier
  <2> QED BY <2>1, <2>4, <2>6, <2>7, <2>9
<1>16. Pushing(todo, b) BY <1>13, <1>14, <1>15 DEF Pushing
<1>17. Knows(r, board, attached, detaching) BY <1>1, <1>11, <1>16 DEF Knows
<1>18. Reads BY DEF ApplyCascade
<1> QED BY <1>10, <1>17, <1>18, ReadsKeep

LEMMA InitKeeps == ASSUME BoardInit PROVE BoardInv
<1>1. board = <<>> /\ DOMAIN board = {} BY DEF BoardInit
<1>2. BoardTypes
  <2>1. board \in [DOMAIN board -> Card] BY <1>1
  <2>2. nextCard = 1 /\ req = [s \in Slots |-> Idle] BY DEF BoardInit
  <2> QED BY <1>1, <2>1, <2>2 DEF BoardTypes
<1>3. DepsSound /\ AppsMatchLane BY <1>1 DEF DepsSound, AppsMatchLane
<1>4. \A s \in Slots : req[s] = Idle BY DEF BoardInit
<1> QED BY <1>2, <1>3, <1>4, IdleKnows DEF BoardInv

LEMMA CallKeeps ==
  ASSUME OneRequest, BoardInv, NEW s \in Slots, Call(s)
  PROVE  BoardInv'
<1>1. ASSUME NEW start \in Given("dates", Starts, NoDay), NEW dur \in Given("dates", Durs, 0),
             NEW due \in Given("dates", Dues, NoDay), NEW deps \in Given("dates", SUBSET CardIds, {}),
             NEW lane \in Given("lanes", Lanes \cup {None}, None),
             NEW app \in Given("lanes", Apps \cup {None}, None),
             Create(s, start, due, dur, deps, lane, app)
      PROVE  BoardInv'
  <2>1. start \in Day /\ due \in Day /\ dur \in Nat BY BoardAssumption DEF Given, Day
  <2>2. deps \in SUBSET CardIds /\ lane \in Lanes \cup {None} /\ app \in Apps \cup {None} BY DEF Given
  <2> QED BY <1>1, <2>1, <2>2, CreateKeeps
<1>2. ASSUME NEW c \in DOMAIN board,
             NEW patch \in Given("dates", DatePatches, <<>>) \cup Given("lanes", LanePatches, <<>>),
             Update(s, c, patch)
      PROVE  BoardInv'
  <2>1. IsPatch(patch) \/ patch = <<>> BY BoardAssumption DEF Given
  <2> QED BY <1>2, <2>1, UpdateKeeps
<1>3. ASSUME NEW c \in DOMAIN board, NEW start \in Starts, NEW dur \in Durs, Schedule(s, c, start, dur)
      PROVE  BoardInv'
  <2>1. start \in Day /\ dur \in Nat BY BoardAssumption
  <2> QED BY <1>3, <2>1, ScheduleKeeps
<1>4. ASSUME NEW c \in DOMAIN board,
             \/ Unschedule(s, c)
             \/ \E deps \in SUBSET CardIds : SetDependencies(s, c, deps)
             \/ \E who \in Members \cup {None} : SetAssignee(s, c, who)
             \/ \E caller \in Members \cup {Manager} : Complete(s, c, caller)
             \/ Delete(s, c)
      PROVE  BoardInv'
  BY <1>4, UnscheduleKeeps, SetDependenciesKeeps, SetAssigneeKeeps, CompleteKeeps, DeleteKeeps
<1>5. ASSUME NEW lane \in Lanes, NEW app \in Apps, AttachApp(s, lane, app) \/ DetachApp(s, lane, app)
      PROVE  BoardInv'
  BY <1>5, AttachKeeps, DetachKeeps
<1>6. ASSUME NEW from \in Lanes \cup {None}, NEW to \in Lanes \cup {None}, MoveTasks(s, from, to)
      PROVE  BoardInv'
  BY <1>6, MoveKeeps
<1> QED BY <1>1, <1>2, <1>3, <1>4, <1>5, <1>6 DEF Call

LEMMA NextKeeps ==
  ASSUME OneRequest, BoardInv, [BoardNext]_boardVars
  PROVE  BoardInv'
<1>1. CASE UNCHANGED boardVars
  <2>1. BoardTypes' /\ DepsSound' /\ AppsMatchLane' /\ (\A s \in Slots : Knows(req[s], board, attached, detaching))'
    BY <1>1 DEF boardVars, BoardInv, BoardTypes, DepsSound, AppsMatchLane, PairIsLegal
  <2> QED BY <2>1 DEF BoardInv
<1>2. CASE Crash BY <1>2, CrashKeeps
<1>3. ASSUME NEW s \in Slots, Call(s) PROVE BoardInv' BY <1>3, CallKeeps
<1>4. ASSUME NEW s \in Slots, Handle(s) PROVE BoardInv'
  BY <1>4, InsertKeeps, WritesKeep, ApplyCascadeKeeps, ShiftKeeps, AnswersKeep, StripKeeps, DropKeeps,
     OrphansKeeps, ClearKeeps, DetachedKeeps, MoveOneKeeps DEF Handle
<1> QED BY <1>1, <1>2, <1>3, <1>4 DEF BoardNext

\* One row of a push moves its card later, and touches no other.
LEMMA ShiftPushes ==
  ASSUME BoardInv, NEW s \in Slots, Shift(s), NEW c \in DOMAIN board
  PROVE  board'[c].start = board[c].start \/ (board[c].start # NoDay /\ board'[c].start > board[c].start)
<1>1. PICK todo : todo = req[s].todo OBVIOUS
<1>2. Pushing(todo, board) /\ todo # <<>> BY <1>1 DEF Shift, At, BoardInv, Knows
<1>3. PICK d, p : d = Head(todo).card /\ p = Head(todo).columns OBVIOUS
<1>4. /\ todo \in Seq(Range(todo)) /\ 1 \in DOMAIN todo /\ Head(todo) = todo[1] BY <1>2 DEF Pushing
<1>5. /\ d \in DOMAIN board /\ IsColumns(p) /\ "start" \in DOMAIN p
      /\ board[d].start # NoDay /\ p.start # NoDay /\ p.start >= board[d].start
  BY <1>2, <1>3, <1>4 DEF Pushing
<1>6. board' = Set(d, p) BY <1>1, <1>3 DEF Shift, Writes
<1>7. /\ board'[d] = Over(p, board[d]) /\ \A e \in DOMAIN board : e # d => board'[e] = board[e]
  BY <1>5, <1>6, SetIs DEF BoardInv
<1>8. board[d] \in Card BY <1>5 DEF BoardInv, BoardTypes
<1>9. board'[d].start = p.start BY <1>5, <1>7, <1>8, OverIs DEF Fields
<1>10. p.start \in Int /\ board[d].start \in Int
  <2>1. p.start \in Day BY <1>5 DEF IsColumns, Kind
  <2>2. board[d].start \in Day BY <1>8 DEF Card
  <2> QED BY <2>1, <2>2 DEF Day, NoDay
<1> QED BY <1>5, <1>7, <1>9, <1>10

LEMMA NextPushes ==
  ASSUME OneRequest, BoardInv, [BoardNext]_boardVars, NEW s \in Slots, At(s, "shift"),
         NEW c \in DOMAIN board \cap DOMAIN board'
  PROVE  board'[c].start = board[c].start \/ (board[c].start # NoDay /\ board'[c].start > board[c].start)
<1>1. CASE UNCHANGED boardVars \/ Crash BY <1>1 DEF boardVars, Crash
<1>2. CASE \E t \in Slots : Call(t) \/ Handle(t)
  <2>1. Call(s) \/ Handle(s) BY <1>2 DEF OneRequest
  <2>2. ~Call(s)
    BY DEF Call, Create, Update, Schedule, Unschedule, SetDependencies, SetAssignee, Complete, Delete,
           AttachApp, DetachApp, MoveTasks, Begin, At
  <2>3. Shift(s) \/ Answer(s)
    BY <2>1, <2>2 DEF Handle, At, Insert, UpdateWrite, Write, SetColumns, ApplyCascade, Strip, Drop,
                      Orphans, ClearApp, Detached, MoveOne, Moved
  <2>4. CASE Shift(s) BY <2>4, ShiftPushes
  <2>5. CASE Answer(s) BY <2>5 DEF Answer, Reads
  <2> QED BY <2>3, <2>4, <2>5
<1> QED BY <1>1, <1>2 DEF BoardNext
-----------------------------------------------------------------------------
\* Every edit, push and clean-up of server/actions/plan.ts and plan/streamOps.ts
\* keeps what the next ones rest on.
THEOREM BoardInductive == OneRequest => (BoardSpec => []BoardInv)
<1> SUFFICES ASSUME OneRequest PROVE BoardSpec => []BoardInv OBVIOUS
<1>1. BoardInit => BoardInv BY InitKeeps
<1>2. BoardInv /\ [BoardNext]_boardVars => BoardInv' BY NextKeeps
<1> QED BY <1>1, <1>2, PTL DEF BoardSpec

\* No card waits for itself, however far round, or for a card that is gone: the
\* cycle test of task.update and task.set_dependencies sees every loop, and
\* task.delete tells every dependent before the row goes.
THEOREM DependenciesStand == OneRequest => (BoardSpec => []DepsSound)
<1> SUFFICES ASSUME OneRequest PROVE BoardSpec => []DepsSound OBVIOUS
<1>1. BoardSpec => []BoardInv BY BoardInductive
<1>2. BoardInv => DepsSound BY DEF BoardInv
<1> QED BY <1>1, <1>2, PTL

\* A card carries an app its lane has, but while stream.detach_app clears one and
\* after a restart cut it short: task.update, stream.move_tasks and the clean-up
\* agree on it.
THEOREM LanesStand == OneRequest => (BoardSpec => []AppsMatchLane)
<1> SUFFICES ASSUME OneRequest PROVE BoardSpec => []AppsMatchLane OBVIOUS
<1>1. BoardSpec => []BoardInv BY BoardInductive
<1>2. BoardInv => AppsMatchLane BY DEF BoardInv
<1> QED BY <1>1, <1>2, PTL

\* The push of applyCascade moves cards later, and no card onto the timeline or
\* off it, whatever the order of the rows and wherever it stops.
THEOREM PushesForward == OneRequest => (BoardSpec => NeverPulledBack)
<1> SUFFICES ASSUME OneRequest PROVE BoardSpec => NeverPulledBack OBVIOUS
<1> DEFINE Forward ==
      \A s \in Slots, c \in DOMAIN board \cap DOMAIN board' :
        At(s, "shift") => \/ board'[c].start = board[c].start
                          \/ board[c].start # NoDay /\ board'[c].start > board[c].start
<1>1. BoardSpec => []BoardInv BY BoardInductive
<1>2. BoardInv /\ [BoardNext]_boardVars => [Forward]_boardVars
  <2> SUFFICES ASSUME BoardInv, [BoardNext]_boardVars PROVE Forward OBVIOUS
  <2> QED BY NextPushes
<1> QED BY <1>1, <1>2, PTL DEF BoardSpec, NeverPulledBack
-----------------------------------------------------------------------------
\* The lane of the board a card's status puts it in, over the dates it has.
Placed(card) ==
  /\ card.status = "backlog" => card.start = NoDay
  /\ card.status = "in-progress" => card.start # NoDay
  /\ card.done => card.status = "completed"

PlacedIn(r, b) ==
  /\ r.pc = "insert" => Placed(r.row)
  /\ r.pc \in {"update", "write", "set"} => Placed(Over(r.columns, b[r.root]))
  /\ r.pc = "shift" => \A i \in DOMAIN r.todo : Placed(Over(r.todo[i].columns, b[r.todo[i].card]))

PlacedInv ==
  /\ BoardInv
  /\ \A c \in DOMAIN board : Placed(board[c])
  /\ \A s \in Slots : PlacedIn(req[s], board)

\* One call of task.update does not both complete a card and give it a start.
DatesApart == \A p \in DatePatches \cup LanePatches : ~({"start", "done"} \subseteq DOMAIN p)

LEMMA OverSets ==
  ASSUME NEW r \in Card, NEW p, IsColumns(p)
  PROVE  /\ Over(p, r).start = IF "start" \in DOMAIN p THEN p.start ELSE r.start
         /\ Over(p, r).done = IF "done" \in DOMAIN p THEN p.done ELSE r.done
         /\ Over(p, r).status = IF "status" \in DOMAIN p THEN p.status ELSE r.status
<1>1. "start" \in Fields /\ "done" \in Fields /\ "status" \in Fields BY DEF Fields
<1>2. \A f \in Fields : Over(p, r)[f] = IF f \in DOMAIN p THEN p[f] ELSE r[f] BY OverIs
<1>3. Over(p, r)["start"] = IF "start" \in DOMAIN p THEN p["start"] ELSE r["start"] BY <1>1, <1>2
<1>4. Over(p, r)["done"] = IF "done" \in DOMAIN p THEN p["done"] ELSE r["done"] BY <1>1, <1>2
<1>5. Over(p, r)["status"] = IF "status" \in DOMAIN p THEN p["status"] ELSE r["status"] BY <1>1, <1>2
<1> QED BY <1>3, <1>4, <1>5

LEMMA PlaceStays ==
  ASSUME NEW r \in Card, NEW p, IsColumns(p), {"start", "done", "status"} \cap DOMAIN p = {}, Placed(r)
  PROVE  Placed(Over(p, r))
<1>1. Over(p, r).start = r.start /\ Over(p, r).done = r.done /\ Over(p, r).status = r.status BY OverSets
<1> QED BY <1>1 DEF Placed

LEMMA StatusSets ==
  ASSUME NEW card \in Card, NEW p, IsColumns(p), "status" \notin DOMAIN p, NEW status \in Statuses
  PROVE  LET n == Over(WithStatus(p, card, status), card) IN
         /\ n.status = status
         /\ n.start = IF "start" \in DOMAIN p THEN p.start ELSE card.start
         /\ n.done = IF "done" \in DOMAIN p THEN p.done ELSE card.done
<1>1. PICK q : q = WithStatus(p, card, status) OBVIOUS
<1>2. /\ IsColumns(q) /\ DOMAIN p \subseteq DOMAIN q /\ DOMAIN q \subseteq DOMAIN p \cup {"status"}
      /\ \A f \in DOMAIN p \ {"status"} : q[f] = p[f]
      /\ "status" \in DOMAIN q \ DOMAIN p => q["status"] = status
      /\ "status" \notin DOMAIN q => status = card.status
  BY <1>1, StatusIs
<1>3. /\ Over(q, card).start = IF "start" \in DOMAIN q THEN q.start ELSE card.start
      /\ Over(q, card).done = IF "done" \in DOMAIN q THEN q.done ELSE card.done
      /\ Over(q, card).status = IF "status" \in DOMAIN q THEN q.status ELSE card.status
  BY <1>2, OverSets
<1>4. ("start" \in DOMAIN q <=> "start" \in DOMAIN p) /\ ("done" \in DOMAIN q <=> "done" \in DOMAIN p) BY <1>2
<1>5. ("start" \in DOMAIN p => q["start"] = p["start"]) /\ ("done" \in DOMAIN p => q["done"] = p["done"]) BY <1>2
<1> QED BY <1>1, <1>2, <1>3, <1>4, <1>5

LEMMA DerivePlaces ==
  ASSUME NEW card \in Card, Placed(card), NEW start \in Day, NEW n,
         n.status = DeriveStatus(card, start), n.start = start, n.done = card.done
  PROVE  Placed(n)
BY DEF Placed, DeriveStatus, Card, Statuses

LEMMA AssignedPlaces ==
  ASSUME NEW card \in Card, Placed(card), NEW p, IsPatch(p) \/ p = <<>>, ~({"start", "done"} \subseteq DOMAIN p)
  PROVE  Placed(Over(Assigned(card, p), card))
<1>1. IsColumns(p) /\ "status" \notin DOMAIN p BY PatchIs
<1> DEFINE derived == IF "start" \in DOMAIN p THEN DeriveStatus(card, p.start) ELSE card.status
<1>2. card.status \in Statuses /\ card.done \in BOOLEAN BY DEF Card
<1>3. "start" \in DOMAIN p => p.start \in Day BY <1>1 DEF IsColumns, Kind
<1>4. "done" \in DOMAIN p => p.done \in BOOLEAN BY <1>1 DEF IsColumns, Kind
<1>5. derived \in Statuses BY <1>2, <1>3, DeriveIs
<1>6. CASE derived = card.status /\ "done" \in DOMAIN p /\ p.done
  <2> DEFINE one == [status |-> "completed"]
             q == Over(one, p)
  <2>1. DOMAIN one = {"status"} /\ one["status"] = "completed" OBVIOUS
  <2>2. Assigned(card, p) = q BY <1>6 DEF Assigned
  <2> HIDE DEF one
  <2>3. "status" \in DOMAIN q /\ q["status"] = "completed" BY <2>1 DEF Over
  <2> HIDE DEF q
  <2>4. IsColumns(q) BY <2>2, AssignedIs
  <2>5. Over(q, card).status = "completed" BY <2>3, <2>4, OverSets
  <2> QED BY <2>2, <2>5 DEF Placed
<1>7. CASE ~(derived = card.status /\ "done" \in DOMAIN p /\ p.done)
  <2>1. Assigned(card, p) = WithStatus(p, card, derived) BY <1>7 DEF Assigned
  <2>2. PICK st : st = derived OBVIOUS
  <2>3. PICK n : n = Over(Assigned(card, p), card) OBVIOUS
  <2>4. /\ n.status = st
        /\ n.start = IF "start" \in DOMAIN p THEN p.start ELSE card.start
        /\ n.done = IF "done" \in DOMAIN p THEN p.done ELSE card.done
    <3> HIDE DEF derived
    <3> QED BY <1>1, <1>5, <2>1, <2>2, <2>3, StatusSets
  <2>5. CASE "start" \in DOMAIN p
    <3>1. "done" \notin DOMAIN p BY <2>5
    <3>2. n.status = DeriveStatus(card, p.start) /\ n.start = p.start /\ n.done = card.done
      BY <2>2, <2>4, <2>5, <3>1
    <3> QED BY <1>3, <2>3, <2>5, <3>2, DerivePlaces
  <2>6. CASE "start" \notin DOMAIN p
    <3>1. n.status = card.status /\ n.start = card.start BY <2>2, <2>4, <2>6
    <3>2. n.done => card.done BY <1>4, <1>7, <2>4, <2>6
    <3> QED BY <2>3, <3>1, <3>2 DEF Placed
  <2> QED BY <2>5, <2>6
<1> QED BY <1>6, <1>7
-----------------------------------------------------------------------------
\* Every step leaves the cards where their dates put them.
LEMMA CallPlaces ==
  ASSUME OneRequest, PlacedInv, BoardInv', NEW s \in Slots, NEW op, NEW r, Begin(s, op, r), board' = board,
         PlacedIn(r, board)
  PROVE  PlacedInv'
<1>1. req' = [t \in Slots |-> r] BY DEF Begin, Proceed, PlacedInv, BoardInv, BoardTypes, OneRequest
<1>2. (\A t \in Slots : PlacedIn(req[t], board))'
  <2>1. \A t \in Slots : req'[t] = r BY <1>1
  <2> QED BY <2>1 DEF PlacedIn
<1>3. (\A c \in DOMAIN board : Placed(board[c]))' BY DEF PlacedInv, Placed
<1> QED BY <1>2, <1>3 DEF PlacedInv

LEMMA StepPlaces ==
  ASSUME OneRequest, PlacedInv, BoardInv', NEW s \in Slots, NEW r, Proceed(s, r),
         \A c \in DOMAIN board' : Placed(board'[c]), PlacedIn(r, board')
  PROVE  PlacedInv'
<1>1. req' = [t \in Slots |-> r] BY DEF Proceed, PlacedInv, BoardInv, BoardTypes, OneRequest
<1>2. (\A t \in Slots : PlacedIn(req[t], board))'
  <2>1. \A t \in Slots : req'[t] = r BY <1>1
  <2> QED BY <2>1 DEF PlacedIn
<1>3. (\A c \in DOMAIN board : Placed(board[c]))' BY DEF Placed
<1> QED BY <1>2, <1>3 DEF PlacedInv

LEMMA IdlePlaces == ASSUME NEW b PROVE PlacedIn(Idle, b)
BY DEF PlacedIn, Idle

\* An UPDATE of one row that leaves its card where its dates put it.
LEMMA SetPlaces ==
  ASSUME OneRequest, PlacedInv, BoardInv', NEW s \in Slots, NEW r, Proceed(s, r),
         NEW c \in DOMAIN board, NEW p, IsColumns(p), Writes(Set(c, p)),
         Placed(Over(p, board[c])), PlacedIn(r, Set(c, p))
  PROVE  PlacedInv'
<1>1. /\ board' = Set(c, p) /\ DOMAIN board' = DOMAIN board
      /\ board'[c] = Over(p, board[c]) /\ \A d \in DOMAIN board : d # c => board'[d] = board[d]
  BY SetIs DEF PlacedInv, BoardInv, Writes
<1>2. \A d \in DOMAIN board' : Placed(board'[d]) BY <1>1 DEF PlacedInv
<1>3. PlacedIn(r, board') BY <1>1
<1> QED BY <1>2, <1>3, StepPlaces

LEMMA UpdatePlaces ==
  ASSUME OneRequest, DatesApart, PlacedInv, BoardInv', NEW s \in Slots, NEW c \in DOMAIN board,
         NEW patch \in Given("dates", DatePatches, <<>>) \cup Given("lanes", LanePatches, <<>>),
         Update(s, c, patch)
  PROVE  PlacedInv'
<1> DEFINE columns == Assigned(board[c], patch)
           r == [pc |-> "update", root |-> c, was |-> board[c], columns |-> columns]
<1>1. board[c] \in Card /\ Placed(board[c]) BY DEF PlacedInv, BoardInv, BoardTypes
<1>2. IsPatch(patch) \/ patch = <<>> BY BoardAssumption DEF Given
<1>3. ~({"start", "done"} \subseteq DOMAIN patch)
  <2>1. CASE patch \in DatePatches \cup LanePatches BY <2>1 DEF DatesApart
  <2>2. CASE patch = <<>> BY <2>2
  <2> QED BY <2>1, <2>2 DEF Given
<1>4. Placed(Over(columns, board[c])) BY <1>1, <1>2, <1>3, AssignedPlaces
<1>5. Begin(s, "update", r) /\ board' = board BY DEF Update, Reads
<1> HIDE DEF columns
<1>6. PlacedIn(r, board) BY <1>4 DEF PlacedIn
<1> HIDE DEF r
<1> QED BY <1>5, <1>6, CallPlaces

LEMMA SchedulePlaces ==
  ASSUME OneRequest, PlacedInv, BoardInv', NEW s \in Slots, NEW c \in DOMAIN board,
         NEW start \in Day, NEW dur \in Nat, Schedule(s, c, start, dur)
  PROVE  PlacedInv'
<1> DEFINE status == IF board[c].done THEN board[c].status ELSE "in-progress"
           dates == IF dur = 0 THEN [start |-> start] ELSE [start |-> start, dur |-> dur]
           columns == WithStatus(dates, board[c], status)
           r == [pc |-> "write", root |-> c, columns |-> columns]
<1>1. board[c] \in Card /\ Placed(board[c]) BY DEF PlacedInv, BoardInv, BoardTypes
<1>2. status \in Statuses BY <1>1 DEF Card, Statuses
<1>3. /\ IsColumns(dates) /\ "status" \notin DOMAIN dates /\ "done" \notin DOMAIN dates
      /\ "start" \in DOMAIN dates /\ dates.start = start
  BY DEF IsColumns, Fields, Kind
<1>4. PICK n : n = Over(columns, board[c]) OBVIOUS
<1>5. n.status = status /\ n.start = start /\ n.done = board[c].done
  <2> HIDE DEF status, dates
  <2> QED BY <1>1, <1>2, <1>3, <1>4, StatusSets
<1>6. Placed(n)
  <2>1. start # NoDay BY DEF Schedule
  <2>2. board[c].done => board[c].status = "completed" BY <1>1 DEF Placed
  <2> QED BY <1>5, <2>1, <2>2 DEF Placed
<1>7. Begin(s, "schedule", r) /\ board' = board BY DEF Schedule, Reads
<1> HIDE DEF columns
<1>8. PlacedIn(r, board) BY <1>4, <1>6 DEF PlacedIn
<1> HIDE DEF r
<1> QED BY <1>7, <1>8, CallPlaces

LEMMA UnschedulePlaces ==
  ASSUME OneRequest, PlacedInv, BoardInv', NEW s \in Slots, NEW c \in DOMAIN board, Unschedule(s, c)
  PROVE  PlacedInv'
<1> DEFINE status == DeriveStatus(board[c], NoDay)
           dates == [start |-> NoDay]
           columns == WithStatus(dates, board[c], status)
           r == [pc |-> "write", root |-> c, columns |-> columns]
<1>1. board[c] \in Card /\ Placed(board[c]) BY DEF PlacedInv, BoardInv, BoardTypes
<1>2. NoDay \in Day BY DEF Day
<1>3. status \in Statuses BY <1>1, <1>2, DeriveIs
<1>4. /\ IsColumns(dates) /\ "status" \notin DOMAIN dates /\ "done" \notin DOMAIN dates
      /\ "start" \in DOMAIN dates /\ dates.start = NoDay
  BY <1>2 DEF IsColumns, Fields, Kind
<1>5. PICK n : n = Over(columns, board[c]) OBVIOUS
<1>6. n.status = status /\ n.start = NoDay /\ n.done = board[c].done
  <2> HIDE DEF status, dates
  <2> QED BY <1>1, <1>3, <1>4, <1>5, StatusSets
<1>7. Placed(n)
  <2> HIDE DEF columns
  <2> QED BY <1>1, <1>2, <1>6, DerivePlaces
<1>8. Begin(s, "unschedule", r) /\ board' = board BY DEF Unschedule, Reads
<1> HIDE DEF columns
<1>9. PlacedIn(r, board) BY <1>5, <1>7 DEF PlacedIn
<1> HIDE DEF r
<1> QED BY <1>8, <1>9, CallPlaces

LEMMA CompletePlaces ==
  ASSUME OneRequest, PlacedInv, BoardInv', NEW s \in Slots, NEW c \in DOMAIN board, NEW caller,
         Complete(s, c, caller)
  PROVE  PlacedInv'
<1> DEFINE columns == [done |-> TRUE, status |-> "completed"]
           r == [pc |-> "set", root |-> c, columns |-> columns]
<1>1. board[c] \in Card BY DEF PlacedInv, BoardInv, BoardTypes
<1>2. IsColumns(columns) /\ "status" \in DOMAIN columns /\ columns.status = "completed"
  <2>1. Kind["status"] = Statuses /\ "completed" \in Statuses /\ Kind["done"] = BOOLEAN BY DEF Kind, Statuses
  <2>2. /\ DOMAIN columns = {"done", "status"}
        /\ columns["done"] = TRUE /\ columns["status"] = "completed" OBVIOUS
  <2> HIDE DEF columns
  <2> QED BY <2>1, <2>2 DEF IsColumns, Fields
<1>3. Begin(s, "complete", r) /\ board' = board BY DEF Complete, Reads
<1> HIDE DEF columns
<1>4. Placed(Over(columns, board[c]))
  <2>1. Over(columns, board[c]).status = "completed" BY <1>1, <1>2, OverSets
  <2> QED BY <2>1 DEF Placed
<1>5. PlacedIn(r, board) BY <1>4 DEF PlacedIn
<1> HIDE DEF r
<1> QED BY <1>3, <1>5, CallPlaces

\* A call whose columns say nothing of dates and status.
LEMMA OthersPlace ==
  ASSUME OneRequest, PlacedInv, BoardInv', NEW s \in Slots, NEW c \in DOMAIN board, NEW p, IsColumns(p),
         {"start", "done", "status"} \cap DOMAIN p = {}, NEW op, NEW pc,
         Begin(s, op, [pc |-> pc, root |-> c, columns |-> p]), board' = board,
         pc \in {"write", "set"}
  PROVE  PlacedInv'
<1>1. board[c] \in Card /\ Placed(board[c]) BY DEF PlacedInv, BoardInv, BoardTypes
<1>2. Placed(Over(p, board[c])) BY <1>1, PlaceStays
<1>3. PICK r : r = [pc |-> pc, root |-> c, columns |-> p] OBVIOUS
<1>4. r.root = c /\ r.columns = p /\ r.pc = pc BY <1>3
<1>5. PlacedIn(r, board) BY <1>2, <1>4 DEF PlacedIn
<1> QED BY <1>3, <1>5, CallPlaces

LEMMA CreatePlaces ==
  ASSUME OneRequest, PlacedInv, BoardInv', NEW s \in Slots, NEW start, NEW due, NEW dur, NEW deps, NEW lane, NEW app,
         Create(s, start, due, dur, deps, lane, app)
  PROVE  PlacedInv'
<1> DEFINE row == [start |-> start, due |-> due, dur |-> dur, deps |-> deps,
                   status |-> IF start = NoDay THEN "backlog" ELSE "in-progress",
                   done |-> FALSE, lane |-> lane, app |-> app, owner |-> None]
           r == [pc |-> "insert", row |-> row]
<1>1. Begin(s, "create", r) /\ board' = board BY DEF Create, Reads
<1>2. Placed(row) BY DEF Placed
<1> HIDE DEF row
<1>3. PlacedIn(r, board) BY <1>2 DEF PlacedIn
<1> HIDE DEF r
<1> QED BY <1>1, <1>3, CallPlaces

\* The calls that begin without columns or a row to write.
LEMMA PlainPlaces ==
  ASSUME OneRequest, PlacedInv, BoardInv', NEW s \in Slots, NEW op, NEW r, Begin(s, op, r), board' = board,
         r.pc \in {"idle", "strip", "orphans", "move"}
  PROVE  PlacedInv'
<1>1. PlacedIn(r, board) BY DEF PlacedIn
<1> QED BY <1>1, CallPlaces

LEMMA CallsPlace ==
  ASSUME OneRequest, DatesApart, PlacedInv, BoardInv', NEW s \in Slots, Call(s)
  PROVE  PlacedInv'
<1>1. ASSUME NEW start, NEW due, NEW dur, NEW deps, NEW lane, NEW app, Create(s, start, due, dur, deps, lane, app)
      PROVE  PlacedInv' BY <1>1, CreatePlaces
<1>2. ASSUME NEW c \in DOMAIN board,
             NEW patch \in Given("dates", DatePatches, <<>>) \cup Given("lanes", LanePatches, <<>>),
             Update(s, c, patch)
      PROVE  PlacedInv' BY <1>2, UpdatePlaces
<1>3. ASSUME NEW c \in DOMAIN board, NEW start \in Starts, NEW dur \in Durs, Schedule(s, c, start, dur)
      PROVE  PlacedInv'
  <2>1. start \in Day /\ dur \in Nat BY BoardAssumption
  <2> QED BY <1>3, <2>1, SchedulePlaces
<1>4. ASSUME NEW c \in DOMAIN board, NEW deps \in SUBSET CardIds, SetDependencies(s, c, deps) PROVE PlacedInv'
  <2>1. PICK p : p = [deps |-> deps] OBVIOUS
  <2>2. IsColumns(p) /\ {"start", "done", "status"} \cap DOMAIN p = {} BY <2>1 DEF IsColumns, Fields, Kind
  <2>3. Begin(s, "set_dependencies", [pc |-> "write", root |-> c, columns |-> p]) /\ board' = board
    BY <1>4, <2>1 DEF SetDependencies, Reads
  <2> QED BY <2>2, <2>3, OthersPlace
<1>5. ASSUME NEW c \in DOMAIN board, NEW who \in Members \cup {None}, SetAssignee(s, c, who) PROVE PlacedInv'
  <2>1. PICK p : p = [owner |-> who] OBVIOUS
  <2>2. IsColumns(p) /\ {"start", "done", "status"} \cap DOMAIN p = {} BY <2>1 DEF IsColumns, Fields, Kind
  <2>3. Begin(s, "set_assignee", [pc |-> "set", root |-> c, columns |-> p]) /\ board' = board
    BY <1>5, <2>1 DEF SetAssignee, Reads
  <2> QED BY <2>2, <2>3, OthersPlace
<1>6. ASSUME NEW c \in DOMAIN board, Delete(s, c) PROVE PlacedInv'
  <2>1. PICK r : r.pc = "strip" /\ Begin(s, "delete", r) BY <1>6 DEF Delete
  <2> QED BY <1>6, <2>1, PlainPlaces DEF Delete, Reads
<1>7. ASSUME NEW lane, NEW app, AttachApp(s, lane, app) \/ DetachApp(s, lane, app) PROVE PlacedInv'
  <2>1. CASE AttachApp(s, lane, app)
    <3>1. Begin(s, "attach", Idle) /\ board' = board /\ Idle.pc = "idle" BY <2>1 DEF AttachApp, Idle
    <3> QED BY <3>1, PlainPlaces
  <2>2. CASE DetachApp(s, lane, app)
    <3>1. PICK r : r.pc = "orphans" /\ Begin(s, "detach", r) BY <2>2 DEF DetachApp
    <3> QED BY <2>2, <3>1, PlainPlaces DEF DetachApp
  <2> QED BY <1>7, <2>1, <2>2
<1>8. ASSUME NEW from, NEW to, MoveTasks(s, from, to) PROVE PlacedInv'
  <2>1. PICK r : r.pc = "move" /\ Begin(s, "move", r) BY <1>8 DEF MoveTasks
  <2> QED BY <1>8, <2>1, PlainPlaces DEF MoveTasks, Reads
<1>9. ASSUME NEW c \in DOMAIN board,
             \/ Unschedule(s, c)
             \/ \E caller \in Members \cup {Manager} : Complete(s, c, caller)
      PROVE  PlacedInv'
  BY <1>9, UnschedulePlaces, CompletePlaces
<1> QED BY <1>1, <1>2, <1>3, <1>4, <1>5, <1>6, <1>7, <1>8, <1>9 DEF Call
-----------------------------------------------------------------------------
\* The handlers.
LEMMA InsertPlaces ==
  ASSUME OneRequest, PlacedInv, BoardInv', NEW s \in Slots, Insert(s)
  PROVE  PlacedInv'
<1>1. PICK row, n : row = req[s].row /\ n = nextCard OBVIOUS
<1>2. Placed(row) BY <1>1 DEF Insert, At, PlacedInv, PlacedIn
<1>3. board' = Over(board, [c \in {n} |-> row]) BY <1>1 DEF Insert
<1>4. \A c \in DOMAIN board' : Placed(board'[c])
  <2>1. DOMAIN board' = DOMAIN board \cup {n} BY <1>3 DEF Over
  <2>2. \A c \in DOMAIN board' : board'[c] = IF c \in DOMAIN board THEN board[c] ELSE row
    BY <1>3, <2>1 DEF Over
  <2> QED BY <1>2, <2>1, <2>2 DEF PlacedInv
<1>5. PICK r : Proceed(s, r) /\ r.pc \in {"idle", "cascade"} BY DEF Insert, Idle
<1>6. PlacedIn(r, board') BY <1>5 DEF PlacedIn
<1> QED BY <1>4, <1>5, <1>6, StepPlaces

LEMMA WritesPlace ==
  ASSUME OneRequest, PlacedInv, BoardInv', NEW s \in Slots, UpdateWrite(s) \/ Write(s) \/ SetColumns(s)
  PROVE  PlacedInv'
<1>1. PICK c, p : c = req[s].root /\ p = req[s].columns OBVIOUS
<1>2. req[s].pc \in {"update", "write", "set"} BY DEF UpdateWrite, Write, SetColumns, At
<1>3. Writing(req[s], board, attached, detaching) /\ Placed(Over(p, board[c]))
  BY <1>1, <1>2 DEF PlacedInv, PlacedIn, BoardInv, Knows
<1>4. c \in DOMAIN board /\ IsColumns(p) BY <1>1, <1>3 DEF Writing
<1>5. Writes(Set(c, p)) BY <1>1 DEF UpdateWrite, Write, SetColumns
<1>6. PICK r : Proceed(s, r) /\ r.pc \in {"idle", "cascade"} BY DEF UpdateWrite, Write, SetColumns, Idle
<1>7. PlacedIn(r, Set(c, p)) BY <1>6 DEF PlacedIn
<1> QED BY <1>3, <1>4, <1>5, <1>6, <1>7, SetPlaces

LEMMA ApplyCascadePlaces ==
  ASSUME OneRequest, PlacedInv, BoardInv', NEW s \in Slots, ApplyCascade(s)
  PROVE  PlacedInv'
<1>1. board' = board BY DEF ApplyCascade, Reads
<1>2. PICK b : b = board OBVIOUS
<1>3. PICK order \in Orders :
        LET walk == CascadeFrom(board, req[s].root, order) IN
        Proceed(s, [pc |-> "shift", root |-> req[s].root, moved |-> Range(walk.moved),
                    todo |-> [i \in DOMAIN walk.moved |->
                      [card |-> walk.moved[i],
                       columns |-> Pushed(board[walk.moved[i]], walk.board[walk.moved[i]])]]])
  BY DEF ApplyCascade
<1>4. PICK root, walk : root = req[s].root /\ walk = CascadeFrom(b, root, order) OBVIOUS
<1>5. /\ b \in [DOMAIN b -> Card] /\ walk \in Walks(b)
  <2>1. BoardInv /\ BoardTypes BY DEF PlacedInv, BoardInv
  <2>2. order \in Seq(CardIds) BY <1>3, BoardAssumption
  <2>3. root \in Nat BY <1>4, <2>1 DEF ApplyCascade, At, BoardInv, Knows
  <2>4. b \in [DOMAIN b -> Card] /\ IsFiniteSet(DOMAIN b) /\ DOMAIN b \subseteq Nat
    BY <1>2, <2>1, CardsFinite DEF BoardTypes
  <2> QED BY <1>4, <2>2, <2>3, <2>4, CascadeKeeps
<1>6. PICK moved, after : moved = walk.moved /\ after = walk.board OBVIOUS
<1>7. /\ moved \in Seq(DOMAIN b) /\ after \in [DOMAIN b -> Card] /\ NoEarlier(b, after)
      /\ \A c \in Range(moved) : b[c].start # NoDay
  BY <1>5, <1>6 DEF Walks
<1> DEFINE todo == [i \in DOMAIN moved |-> [card |-> moved[i], columns |-> Pushed(b[moved[i]], after[moved[i]])]]
           r == [pc |-> "shift", root |-> root, moved |-> Range(moved), todo |-> todo]
<1>8. Proceed(s, r) BY <1>2, <1>3, <1>4, <1>6
<1>9. r.pc = "shift" /\ r.todo = todo OBVIOUS
<1> HIDE DEF r
<1>10. ASSUME NEW i \in DOMAIN todo PROVE Placed(Over(todo[i].columns, b[todo[i].card]))
  <2>1. PICK c, p : c = todo[i].card /\ p = todo[i].columns OBVIOUS
  <2>2. i \in DOMAIN moved /\ c = moved[i] /\ p = Pushed(b[c], after[c]) BY <2>1
  <2>3. c \in DOMAIN b /\ c \in Range(moved) BY <1>7, <2>2 DEF Range
  <2>4. b[c] \in Card /\ after[c] \in Card /\ Placed(b[c])
    BY <1>2, <1>5, <1>7, <2>3 DEF PlacedInv
  <2> DEFINE dates == [start |-> after[c].start, due |-> after[c].due]
             status == DeriveStatus(b[c], after[c].start)
  <2>5. after[c].start \in Day /\ after[c].due \in Day BY <2>4 DEF Card
  <2>6. /\ IsColumns(dates) /\ "status" \notin DOMAIN dates /\ "done" \notin DOMAIN dates
        /\ "start" \in DOMAIN dates /\ dates.start = after[c].start
    BY <2>5 DEF IsColumns, Fields, Kind
  <2>7. status \in Statuses BY <2>4, <2>5, DeriveIs
  <2>8. p = WithStatus(dates, b[c], status) BY <2>2 DEF Pushed
  <2>9. PICK n : n = Over(p, b[c]) OBVIOUS
  <2>10. n.status = status /\ n.start = after[c].start /\ n.done = b[c].done
    <3> HIDE DEF dates, status
    <3> QED BY <2>4, <2>6, <2>7, <2>8, <2>9, StatusSets
  <2>11. Placed(n) BY <2>4, <2>5, <2>10, DerivePlaces
  <2> HIDE DEF todo
  <2> QED BY <2>1, <2>9, <2>11
<1> HIDE DEF todo
<1>11. PlacedIn(r, board) BY <1>2, <1>9, <1>10 DEF PlacedIn
<1>12. \A c \in DOMAIN board' : Placed(board'[c]) BY <1>1 DEF PlacedInv
<1> QED BY <1>1, <1>8, <1>11, <1>12, StepPlaces

LEMMA ShiftPlaces ==
  ASSUME OneRequest, PlacedInv, BoardInv', NEW s \in Slots, Shift(s)
  PROVE  PlacedInv'
<1>1. PICK todo : todo = req[s].todo OBVIOUS
<1>2. Pushing(todo, board) /\ todo # <<>> BY <1>1 DEF Shift, At, PlacedInv, BoardInv, Knows
<1>3. PICK c, p : c = Head(todo).card /\ p = Head(todo).columns OBVIOUS
<1>4. /\ todo \in Seq(Range(todo)) /\ 1 \in DOMAIN todo /\ Head(todo) = todo[1] BY <1>2 DEF Pushing
<1>5. c \in DOMAIN board /\ IsColumns(p) BY <1>2, <1>3, <1>4 DEF Pushing
<1>6. \A i \in DOMAIN todo : Placed(Over(todo[i].columns, board[todo[i].card]))
  BY <1>1 DEF PlacedInv, PlacedIn, Shift, At
<1>7. Placed(Over(p, board[c])) BY <1>3, <1>4, <1>6
<1>8. PICK rest : rest = Tail(todo) OBVIOUS
<1> DEFINE r == [req[s] EXCEPT !.todo = rest]
<1>9. Proceed(s, r) /\ Writes(Set(c, p)) BY <1>1, <1>3, <1>8 DEF Shift
<1>10. r.pc = "shift" /\ r.todo = rest BY <1>1, <1>2 DEF Shift, At
<1>11. PICK b : b = Set(c, p) OBVIOUS
<1>12. /\ DOMAIN b = DOMAIN board /\ b[c] = Over(p, board[c])
       /\ \A d \in DOMAIN board : d # c => b[d] = board[d]
  BY <1>5, <1>11, SetIs DEF PlacedInv, BoardInv
<1>13. \A i \in DOMAIN rest : i + 1 \in DOMAIN todo /\ rest[i] = todo[i + 1] BY <1>2, <1>4, <1>8
<1>14. ASSUME NEW i \in DOMAIN rest PROVE Placed(Over(rest[i].columns, b[rest[i].card]))
  <2>1. PICK d, q : d = rest[i].card /\ q = rest[i].columns OBVIOUS
  <2>2. i + 1 \in DOMAIN todo /\ d = todo[i + 1].card /\ q = todo[i + 1].columns BY <1>13, <2>1
  <2>3. Placed(Over(q, board[d])) /\ d \in DOMAIN board BY <1>2, <1>6, <2>2 DEF Pushing
  <2>4. CASE d # c BY <1>12, <2>1, <2>3, <2>4
  <2>5. CASE d = c
    <3>1. q = p BY <1>2, <1>3, <1>4, <2>2, <2>5 DEF Pushing
    <3>2. board[c] \in Card BY <1>5 DEF PlacedInv, BoardInv, BoardTypes
    <3>3. PICK m : m = Over(p, board[c]) OBVIOUS
    <3>4. m \in Card BY <1>5, <3>2, <3>3, OverIs
    <3>5. /\ Over(p, m).start = m.start /\ Over(p, m).done = m.done /\ Over(p, m).status = m.status
      BY <1>5, <3>2, <3>3, <3>4, OverSets
    <3>6. Placed(Over(p, m)) BY <1>7, <3>3, <3>5 DEF Placed
    <3> QED BY <1>12, <2>1, <2>5, <3>1, <3>3, <3>6
  <2> QED BY <2>4, <2>5
<1>15. PlacedIn(r, Set(c, p)) BY <1>10, <1>11, <1>14 DEF PlacedIn
<1> HIDE DEF r
<1> QED BY <1>5, <1>7, <1>9, <1>15, SetPlaces

\* The handlers that write a list, a lane or an app.
LEMMA OtherWritesPlace ==
  ASSUME OneRequest, PlacedInv, BoardInv', NEW s \in Slots, NEW r, Proceed(s, r), r.pc \in {"strip", "clear", "move"},
         NEW c \in DOMAIN board, NEW p, IsColumns(p), {"start", "done", "status"} \cap DOMAIN p = {},
         Writes(Set(c, p))
  PROVE  PlacedInv'
<1>1. board[c] \in Card /\ Placed(board[c]) BY DEF PlacedInv, BoardInv, BoardTypes
<1>2. Placed(Over(p, board[c])) BY <1>1, PlaceStays
<1>3. PlacedIn(r, Set(c, p)) BY DEF PlacedIn
<1> QED BY <1>2, <1>3, SetPlaces

LEMMA RestPlace ==
  ASSUME OneRequest, PlacedInv, BoardInv', NEW s \in Slots, NEW r, Proceed(s, r), r.pc \in {"idle", "clear"},
         DOMAIN board' \subseteq DOMAIN board, \A c \in DOMAIN board' : board'[c] = board[c]
  PROVE  PlacedInv'
<1>1. \A c \in DOMAIN board' : Placed(board'[c]) BY DEF PlacedInv
<1>2. PlacedIn(r, board') BY DEF PlacedIn
<1> QED BY <1>1, <1>2, StepPlaces

LEMMA StripPlaces ==
  ASSUME OneRequest, PlacedInv, BoardInv', NEW s \in Slots, Strip(s)
  PROVE  PlacedInv'
<1>1. PICK todo : todo = req[s].todo OBVIOUS
<1>2. PICK d \in DOMAIN todo :
        /\ Writes(Set(d, [deps |-> todo[d]]))
        /\ Proceed(s, [req[s] EXCEPT !.todo = [e \in DOMAIN todo \ {d} |-> todo[e]]])
  BY <1>1 DEF Strip
<1>3. Stripping(req[s], board) /\ req[s].pc = "strip" BY DEF Strip, At, PlacedInv, BoardInv, Knows
<1>4. d \in DOMAIN board /\ todo[d] \subseteq board[d].deps /\ board[d] \in Card
  BY <1>1, <1>3 DEF Stripping, PlacedInv, BoardInv, BoardTypes
<1>5. PICK p : p = [deps |-> todo[d]] OBVIOUS
<1>6. IsColumns(p) /\ {"start", "done", "status"} \cap DOMAIN p = {}
  <2>1. todo[d] \in SUBSET CardIds BY <1>4 DEF Card
  <2> QED BY <1>5, <2>1 DEF IsColumns, Fields, Kind
<1>7. PICK left : left = [e \in DOMAIN todo \ {d} |-> todo[e]] OBVIOUS
<1>8. PICK r : r = [req[s] EXCEPT !.todo = left] OBVIOUS
<1>9. r.pc = "strip" BY <1>3, <1>8
<1> QED BY <1>2, <1>4, <1>5, <1>6, <1>7, <1>8, <1>9, OtherWritesPlace

LEMMA ClearPlaces ==
  ASSUME OneRequest, PlacedInv, BoardInv', NEW s \in Slots, ClearApp(s)
  PROVE  PlacedInv'
<1>1. PICK c \in req[s].todo : Writes(Set(c, [app |-> None])) /\ Proceed(s, [req[s] EXCEPT !.todo = @ \ {c}])
  BY DEF ClearApp
<1>2. c \in DOMAIN board /\ req[s].pc = "clear" BY <1>1 DEF ClearApp, At, PlacedInv, BoardInv, Knows
<1>3. PICK p : p = [app |-> None] OBVIOUS
<1>4. IsColumns(p) /\ {"start", "done", "status"} \cap DOMAIN p = {} BY <1>3 DEF IsColumns, Fields, Kind
<1>5. PICK r : r = [req[s] EXCEPT !.todo = @ \ {c}] OBVIOUS
<1>6. r.pc = "clear" BY <1>2, <1>5
<1> QED BY <1>1, <1>2, <1>3, <1>4, <1>5, <1>6, OtherWritesPlace

LEMMA MoveOnePlaces ==
  ASSUME OneRequest, PlacedInv, BoardInv', NEW s \in Slots, MoveOne(s)
  PROVE  PlacedInv'
<1>1. PICK to, todo : to = req[s].to /\ todo = req[s].todo OBVIOUS
<1>2. /\ to \in Lanes \cup {None} /\ DOMAIN todo \subseteq DOMAIN board /\ req[s].pc = "move"
  BY <1>1 DEF MoveOne, At, PlacedInv, BoardInv, Knows
<1>3. PICK c \in DOMAIN todo :
        /\ Writes(Set(c, MovedTo(todo[c], to)))
        /\ Proceed(s, [req[s] EXCEPT !.todo = [d \in DOMAIN @ \ {c} |-> @[d]]])
  BY <1>1 DEF MoveOne
<1>4. PICK p : p = MovedTo(todo[c], to) OBVIOUS
<1>5. IsColumns(p) /\ {"start", "done", "status"} \cap DOMAIN p = {}
  <2>1. Kind["lane"] = Lanes \cup {None} /\ Kind["app"] = Apps \cup {None} BY DEF Kind
  <2>2. p = [lane |-> to] \/ p = [lane |-> to, app |-> None] BY <1>4 DEF MovedTo
  <2>3. /\ DOMAIN p \subseteq {"lane", "app"} /\ ("lane" \in DOMAIN p => p["lane"] = to)
        /\ ("app" \in DOMAIN p => p["app"] = None) BY <2>2
  <2> QED BY <1>2, <2>1, <2>3 DEF IsColumns, Fields
<1>6. PICK left : left = [d \in DOMAIN todo \ {c} |-> todo[d]] OBVIOUS
<1>7. PICK r : r = [req[s] EXCEPT !.todo = left] OBVIOUS
<1>8. r.pc = "move" /\ Proceed(s, r) BY <1>1, <1>2, <1>3, <1>6, <1>7
<1>9. c \in DOMAIN board /\ Writes(Set(c, p)) BY <1>2, <1>3, <1>4
<1> QED BY <1>5, <1>8, <1>9, OtherWritesPlace

LEMMA HandlesPlace ==
  ASSUME OneRequest, PlacedInv, BoardInv', NEW s \in Slots, Handle(s)
  PROVE  PlacedInv'
<1>1. CASE Drop(s)
  <2>1. PICK gone : gone = req[s].root OBVIOUS
  <2>2. board' = [c \in DOMAIN board \ {gone} |-> board[c]] /\ Proceed(s, Idle) BY <1>1, <2>1 DEF Drop, Writes
  <2>3. Idle.pc = "idle" BY DEF Idle
  <2> QED BY <2>2, <2>3, RestPlace
<1>2. CASE Answer(s) \/ Moved(s) \/ Orphans(s) \/ Detached(s)
  <2>1. board' = board BY <1>2 DEF Answer, Moved, Orphans, Detached, Reads
  <2>2. PICK r : Proceed(s, r) /\ r.pc \in {"idle", "clear"} BY <1>2 DEF Answer, Moved, Orphans, Detached, Idle
  <2> QED BY <2>1, <2>2, RestPlace
<1> QED BY <1>1, <1>2, InsertPlaces, WritesPlace, ApplyCascadePlaces, ShiftPlaces, StripPlaces, ClearPlaces,
           MoveOnePlaces DEF Handle
-----------------------------------------------------------------------------
\* The backlog holds the cards without a start and the lane in progress those with
\* one, after every edit and push: deriveStatus and the statuses the handlers set
\* themselves (taskOps.ts) agree.
THEOREM StatusStands == OneRequest /\ DatesApart => (BoardSpec => []StatusFollowsDates)
<1> SUFFICES ASSUME OneRequest, DatesApart PROVE BoardSpec => []StatusFollowsDates OBVIOUS
<1>1. BoardInit => PlacedInv
  <2> SUFFICES ASSUME BoardInit PROVE PlacedInv OBVIOUS
  <2>1. DOMAIN board = {} /\ \A s \in Slots : req[s] = Idle BY DEF BoardInit
  <2> QED BY <2>1, InitKeeps, IdlePlaces DEF PlacedInv
<1>2. PlacedInv /\ [BoardNext]_boardVars => PlacedInv'
  <2> SUFFICES ASSUME PlacedInv, [BoardNext]_boardVars PROVE PlacedInv' OBVIOUS
  <2>1. BoardInv' BY NextKeeps DEF PlacedInv
  <2>2. CASE UNCHANGED boardVars \/ Crash
    <3>1. board' = board BY <2>2 DEF boardVars, Crash
    <3>2. (\A c \in DOMAIN board : Placed(board[c]))' BY <3>1 DEF PlacedInv, Placed
    <3>3. (\A s \in Slots : PlacedIn(req[s], board))'
      <4>1. CASE UNCHANGED boardVars BY <4>1 DEF boardVars, PlacedInv, PlacedIn
      <4>2. CASE Crash
        <5>1. \A s \in Slots : req'[s] = Idle BY <4>2 DEF Crash
        <5> QED BY <5>1, IdlePlaces
      <4> QED BY <2>2, <4>1, <4>2
    <3> QED BY <2>1, <3>2, <3>3 DEF PlacedInv
  <2>3. ASSUME NEW s \in Slots, Call(s) \/ Handle(s) PROVE PlacedInv' BY <2>1, <2>3, CallsPlace, HandlesPlace
  <2> QED BY <2>2, <2>3 DEF BoardNext
<1>3. PlacedInv => StatusFollowsDates BY DEF PlacedInv, Placed, StatusFollowsDates
<1> QED BY <1>1, <1>2, <1>3, PTL DEF BoardSpec
-----------------------------------------------------------------------------
\* The columns hold what their types say, and the bounds bound.
TypedInv ==
  /\ BoardInv /\ BoardTypeOK
  /\ \A s \in Slots : req[s].pc = "insert" => nextCard <= usage.cards

LEMMA StepTypes ==
  ASSUME OneRequest, TypedInv, BoardInv', NEW s \in Slots, NEW r, Proceed(s, r), r.pc = "insert" => nextCard' <= usage.cards,
         nextCard' \in 1..(MaxCards + 1), attached' \subseteq Lanes \X Apps, detaching' \subseteq Lanes \X Apps,
         usage' = usage, calls' \in 0..usage.calls
  PROVE  TypedInv'
<1>1. req' = [t \in Slots |-> r] BY DEF Proceed, TypedInv, BoardInv, BoardTypes, OneRequest
<1>2. (\A t \in Slots : req[t].pc = "insert" => nextCard <= usage.cards)' BY <1>1
<1>3. /\ DOMAIN board' \subseteq 1..(nextCard' - 1) /\ board' \in [DOMAIN board' -> Card]
  BY DEF BoardInv, BoardTypes
<1>4. BoardTypeOK'
  <2>1. usage \in Usages BY DEF TypedInv, BoardTypeOK
  <2>2. \A c \in DOMAIN board' : board'[c] \in Card BY <1>3
  <2> QED BY <1>3, <2>1, <2>2 DEF BoardTypeOK
<1> QED BY <1>2, <1>4 DEF TypedInv

LEMMA TypedFacts ==
  ASSUME TypedInv
  PROVE  /\ nextCard \in 1..(MaxCards + 1) /\ attached \subseteq Lanes \X Apps /\ detaching \subseteq Lanes \X Apps
         /\ usage \in Usages /\ usage.cards \in 0..MaxCards /\ usage.calls \in Nat /\ calls \in 0..usage.calls
         /\ MaxCards \in Nat
BY BoardAssumption DEF TypedInv, BoardTypeOK

LEMMA CallTypes ==
  ASSUME OneRequest, TypedInv, BoardInv', NEW s \in Slots, NEW op, NEW r, Begin(s, op, r),
         r.pc = "insert" => nextCard' <= usage.cards, nextCard' = nextCard,
         attached' \subseteq Lanes \X Apps, detaching' \subseteq Lanes \X Apps
  PROVE  TypedInv'
<1>1. Proceed(s, r) /\ usage' = usage /\ calls' = calls + 1 /\ calls < usage.calls BY DEF Begin
<1>2. nextCard' \in 1..(MaxCards + 1) /\ calls' \in 0..usage.calls BY <1>1, TypedFacts
<1> QED BY <1>1, <1>2, StepTypes

LEMMA CallsType ==
  ASSUME OneRequest, TypedInv, BoardInv', NEW s \in Slots, Call(s)
  PROVE  TypedInv'
<1>1. attached \subseteq Lanes \X Apps /\ detaching \subseteq Lanes \X Apps BY TypedFacts
<1>2. ASSUME NEW op, NEW r, Begin(s, op, r), r.pc # "insert", Reads PROVE TypedInv'
  BY <1>1, <1>2, CallTypes DEF Reads
<1>3. ASSUME NEW start, NEW due, NEW dur, NEW deps, NEW lane, NEW app, Create(s, start, due, dur, deps, lane, app)
      PROVE  TypedInv'
  <2>1. PICK r : Begin(s, "create", r) /\ Reads /\ nextCard <= usage.cards BY <1>3 DEF Create
  <2> QED BY <1>1, <2>1, CallTypes DEF Reads
<1>4. ASSUME NEW c, NEW patch, Update(s, c, patch) PROVE TypedInv'
  <2>1. PICK op, r : Begin(s, op, r) /\ r.pc # "insert" /\ Reads BY <1>4 DEF Update
  <2> QED BY <1>2, <2>1
<1>5. ASSUME NEW c, NEW start, NEW dur, Schedule(s, c, start, dur) PROVE TypedInv'
  <2>1. PICK op, r : Begin(s, op, r) /\ r.pc # "insert" /\ Reads BY <1>5 DEF Schedule
  <2> QED BY <1>2, <2>1
<1>6. ASSUME NEW c, Unschedule(s, c) PROVE TypedInv'
  <2>1. PICK op, r : Begin(s, op, r) /\ r.pc # "insert" /\ Reads BY <1>6 DEF Unschedule
  <2> QED BY <1>2, <2>1
<1>7. ASSUME NEW c, NEW deps, SetDependencies(s, c, deps) PROVE TypedInv'
  <2>1. PICK op, r : Begin(s, op, r) /\ r.pc # "insert" /\ Reads BY <1>7 DEF SetDependencies
  <2> QED BY <1>2, <2>1
<1>8. ASSUME NEW c, NEW who, SetAssignee(s, c, who) \/ Complete(s, c, who) PROVE TypedInv'
  <2>1. PICK op, r : Begin(s, op, r) /\ r.pc # "insert" /\ Reads BY <1>8 DEF SetAssignee, Complete
  <2> QED BY <1>2, <2>1
<1>9. ASSUME NEW c, Delete(s, c) PROVE TypedInv'
  <2>1. PICK op, r : Begin(s, op, r) /\ r.pc # "insert" /\ Reads BY <1>9 DEF Delete
  <2> QED BY <1>2, <2>1
<1>10. ASSUME NEW lane \in Lanes, NEW app \in Apps, AttachApp(s, lane, app) \/ DetachApp(s, lane, app) PROVE TypedInv'
  <2>1. PICK op, r : Begin(s, op, r) /\ r.pc # "insert" BY <1>10 DEF AttachApp, DetachApp, Idle
  <2>2. nextCard' = nextCard /\ attached' \subseteq Lanes \X Apps /\ detaching' \subseteq Lanes \X Apps
    BY <1>1, <1>10 DEF AttachApp, DetachApp
  <2> QED BY <2>1, <2>2, CallTypes
<1>11. ASSUME NEW from, NEW to, MoveTasks(s, from, to) PROVE TypedInv'
  <2>1. PICK op, r : Begin(s, op, r) /\ r.pc # "insert" /\ Reads BY <1>11 DEF MoveTasks
  <2> QED BY <1>2, <2>1
<1> QED BY <1>3, <1>4, <1>5, <1>6, <1>7, <1>8, <1>9, <1>10, <1>11 DEF Call

LEMMA HandlesType ==
  ASSUME OneRequest, TypedInv, BoardInv', NEW s \in Slots, Handle(s)
  PROVE  TypedInv'
<1>1. CASE Insert(s)
  <2>1. nextCard <= usage.cards /\ nextCard' = nextCard + 1 BY <1>1 DEF Insert, At, TypedInv
  <2>2. nextCard' \in 1..(MaxCards + 1) BY <2>1, TypedFacts
  <2>3. UNCHANGED <<attached, detaching, usage, calls>> BY <1>1 DEF Insert
  <2>4. PICK r : Proceed(s, r) /\ r.pc # "insert" BY <1>1 DEF Insert, Idle
  <2> QED BY <2>2, <2>3, <2>4, StepTypes, TypedFacts
<1>2. ASSUME NEW r, Proceed(s, r), r.pc # "insert", UNCHANGED <<nextCard, attached, usage, calls>>, detaching' \subseteq detaching
      PROVE  TypedInv'
  <2>1. attached' \subseteq Lanes \X Apps /\ detaching' \subseteq Lanes \X Apps BY <1>2, TypedFacts
  <2> QED BY <1>2, <2>1, StepTypes, TypedFacts
<1>3. CASE UpdateWrite(s) \/ Write(s) \/ SetColumns(s) \/ Drop(s)
  <2>1. PICK r : Proceed(s, r) /\ r.pc # "insert" BY <1>3 DEF UpdateWrite, Write, SetColumns, Drop, Idle
  <2>2. UNCHANGED <<nextCard, attached, detaching, usage, calls>>
    BY <1>3 DEF UpdateWrite, Write, SetColumns, Drop, Writes
  <2> QED BY <1>2, <2>1, <2>2
<1>4. CASE ApplyCascade(s) \/ Orphans(s) \/ Answer(s) \/ Moved(s) \/ Detached(s)
  <2>1. \E r : Proceed(s, r) /\ r.pc # "insert"
    <3>1. CASE ApplyCascade(s) BY <3>1 DEF ApplyCascade
    <3>2. CASE Orphans(s) BY <3>2 DEF Orphans
    <3>3. CASE Answer(s) \/ Moved(s) \/ Detached(s) BY <3>3 DEF Answer, Moved, Detached, Idle
    <3> QED BY <1>4, <3>1, <3>2, <3>3
  <2>2. UNCHANGED <<nextCard, attached, usage, calls>> /\ detaching' \subseteq detaching
    BY <1>4 DEF ApplyCascade, Orphans, Answer, Moved, Detached, Reads
  <2> QED BY <1>2, <2>1, <2>2
<1>5. CASE Shift(s)
  <2>1. PICK r : r = [req[s] EXCEPT !.todo = Tail(req[s].todo)] OBVIOUS
  <2>2. Proceed(s, r) /\ r.pc # "insert" BY <1>5, <2>1 DEF Shift, At
  <2>3. UNCHANGED <<nextCard, attached, detaching, usage, calls>> BY <1>5 DEF Shift, Writes
  <2> QED BY <1>2, <2>2, <2>3
<1>6. CASE Strip(s) \/ ClearApp(s) \/ MoveOne(s)
  <2>1. PICK todo : Proceed(s, [req[s] EXCEPT !.todo = todo]) BY <1>6 DEF Strip, ClearApp, MoveOne
  <2>2. PICK r : r = [req[s] EXCEPT !.todo = todo] OBVIOUS
  <2>3. Proceed(s, r) /\ r.pc # "insert" BY <1>6, <2>1, <2>2 DEF Strip, ClearApp, MoveOne, At
  <2>4. UNCHANGED <<nextCard, attached, detaching, usage, calls>> BY <1>6 DEF Strip, ClearApp, MoveOne, Writes
  <2> QED BY <1>2, <2>3, <2>4
<1> QED BY <1>1, <1>3, <1>4, <1>5, <1>6 DEF Handle

LEMMA InitTypes == ASSUME BoardInit PROVE TypedInv
<1>1. /\ board = <<>> /\ DOMAIN board = {} /\ nextCard = 1 /\ attached = {} /\ detaching = {}
      /\ usage \in Usages /\ calls = 0 /\ req = [s \in Slots |-> Idle]
  BY DEF BoardInit
<1>2. BoardTypeOK BY <1>1, BoardAssumption DEF BoardTypeOK
<1>3. \A s \in Slots : req[s].pc # "insert" BY <1>1 DEF Idle
<1> QED BY <1>2, <1>3, InitKeeps DEF TypedInv

LEMMA NextTypes ==
  ASSUME OneRequest, TypedInv, [BoardNext]_boardVars
  PROVE  TypedInv'
<1>1. BoardInv' BY NextKeeps DEF TypedInv
<1>2. CASE UNCHANGED boardVars BY <1>1, <1>2 DEF boardVars, TypedInv, BoardTypeOK
<1>3. CASE Crash
  <2>1. req' = [s \in Slots |-> Idle] /\ UNCHANGED <<board, nextCard, attached, detaching, usage, calls>>
    BY <1>3 DEF Crash
  <2>2. BoardTypeOK' BY <2>1 DEF TypedInv, BoardTypeOK
  <2>3. (\A s \in Slots : req[s].pc = "insert" => nextCard <= usage.cards)' BY <2>1 DEF Idle
  <2> QED BY <1>1, <2>2, <2>3 DEF TypedInv
<1>4. ASSUME NEW s \in Slots, Call(s) \/ Handle(s) PROVE TypedInv' BY <1>1, <1>4, CallsType, HandlesType
<1> QED BY <1>2, <1>3, <1>4 DEF BoardNext

\* Whatever is called and wherever it stops, the rows hold the columns their table
\* has (db/schema.ts), and no call writes a lane or an app of nobody's.
THEOREM BoardTyped == OneRequest => (BoardSpec => []BoardTypeOK)
<1> SUFFICES ASSUME OneRequest PROVE BoardSpec => []BoardTypeOK OBVIOUS
<1>1. BoardInit => TypedInv BY InitTypes
<1>2. TypedInv /\ [BoardNext]_boardVars => TypedInv' BY NextTypes
<1>3. TypedInv => BoardTypeOK BY DEF TypedInv
<1> QED BY <1>1, <1>2, <1>3, PTL DEF BoardSpec
-----------------------------------------------------------------------------
\* What one push does, and leaves behind.
LEMMA PushIs ==
  ASSUME NEW b, b \in [DOMAIN b -> Card], IsFiniteSet(DOMAIN b), NEW w \in Walks(b), NEW c \in DOMAIN b,
         NEW a, a = PushDependent(w, c)
  PROVE  /\ a.seen = w.seen /\ \A d \in DOMAIN b : d # c => a.board[d] = w.board[d]
         /\ \A d \in b[c].deps : d \in DOMAIN b /\ d # c /\ a.board[c].start # NoDay /\ w.board[d].start # NoDay
                                 => a.board[c].start >= CascadeEnd(w.board[d])
         /\ \/ a = w
            \/ /\ a.queue = Append(w.queue, c) /\ a.moved = AddOnce(w.moved, c)
               /\ w.board[c].start # NoDay /\ a.board[c].start > w.board[c].start
               /\ a.board[c].start \in DepEnds(w.board, c)
<1> DEFINE ends == DepEnds(w.board, c)
           card == w.board[c]
<1>1. /\ w.board \in [DOMAIN b -> Card] /\ DOMAIN w.board = DOMAIN b
      /\ w = [board |-> w.board, moved |-> w.moved, seen |-> w.seen, queue |-> w.queue]
      /\ NoEarlier(b, w.board)
  BY DEF Walks
<1>2. ends \subseteq Nat /\ IsFiniteSet(ends) BY <1>1, EndsAre
<1>3. ends # {} => Max(ends) \in ends /\ \A n \in ends : Max(ends) >= n
  <2> HIDE DEF ends
  <2>1. ends \subseteq Int BY <1>2
  <2> QED BY <1>2, <2>1, MaxIs
<1>4. \A d \in b[c].deps : d \in DOMAIN b /\ w.board[d].start # NoDay => CascadeEnd(w.board[d]) \in ends
  <2>1. w.board[c].deps = b[c].deps BY <1>1 DEF NoEarlier
  <2> QED BY <1>1, <2>1 DEF DepEnds, Started
<1>5. card.start # NoDay => card.start \in Nat
  <2>1. card \in Card BY <1>1
  <2> QED BY <2>1 DEF Card, Day
<1>6. CASE card.start = NoDay \/ ends = {} \/ card.start >= Max(ends)
  <2>1. a = w BY <1>6 DEF PushDependent
  <2>2. ASSUME NEW d \in b[c].deps, d \in DOMAIN b, a.board[c].start # NoDay, w.board[d].start # NoDay
        PROVE  a.board[c].start >= CascadeEnd(w.board[d])
    <3>1. PICK e, top : e = CascadeEnd(w.board[d]) /\ top = Max(ends) OBVIOUS
    <3>2. e \in ends BY <1>4, <2>2, <3>1
    <3>3. card.start >= top /\ top >= e /\ card.start \in Nat /\ top \in Nat /\ e \in Nat
      BY <1>2, <1>3, <1>5, <1>6, <2>1, <2>2, <3>1, <3>2
    <3> QED BY <2>1, <3>1, <3>3
  <2> QED BY <2>1, <2>2
<1>7. CASE ~(card.start = NoDay \/ ends = {} \/ card.start >= Max(ends))
  <2>1. PICK top : top = Max(ends) OBVIOUS
  <2>2. PICK due : due = IF card.due # NoDay /\ card.dur > 0 THEN top + card.dur ELSE NoDay OBVIOUS
  <2> DEFINE after == [w.board EXCEPT ![c] = [@ EXCEPT !.start = top, !.due = due]]
             moved == AddOnce(w.moved, c)
             queue == Append(w.queue, c)
  <2>3. a = [board |-> after, moved |-> moved, seen |-> w.seen, queue |-> queue]
    <3>1. a = [w EXCEPT !.board = [w.board EXCEPT ![c] = [[@ EXCEPT !.start = top] EXCEPT !.due = due]],
                        !.moved = moved, !.queue = queue]
      BY <1>1, <1>7, <2>1, <2>2 DEF PushDependent
    <3> QED BY <1>1, <3>1
  <2>4. after[c].start = top
    <3>1. after[c] = [card EXCEPT !.start = top, !.due = due] BY <1>1
    <3>2. card \in Card BY <1>1
    <3> HIDE DEF after, card
    <3> QED BY <3>1, <3>2 DEF Card
  <2>5. \A d \in DOMAIN b : d # c => after[d] = w.board[d] BY <1>1
  <2>6. top \in ends /\ top \in Nat /\ card.start \in Nat /\ top > card.start BY <1>2, <1>3, <1>5, <1>7, <2>1
  <2>7. a.board = after /\ a.moved = moved /\ a.queue = queue /\ a.seen = w.seen BY <2>3
  <2> HIDE DEF after, ends
  <2>8. \A d \in b[c].deps : d \in DOMAIN b /\ w.board[d].start # NoDay => top >= CascadeEnd(w.board[d])
    BY <1>3, <1>4, <1>7, <2>1
  <2> QED BY <1>7, <2>4, <2>5, <2>6, <2>7, <2>8 DEF ends
<1> QED BY <1>6, <1>7
LEMMA ListIs ==
  ASSUME NEW V, NEW q \in Seq(V), NEW c
  PROVE  Range(q) \subseteq V /\ Range(Append(q, c)) = Range(q) \cup {c}
<1>1. PICK n : n = Len(q) OBVIOUS
<1>2. n \in Nat /\ DOMAIN q = 1..n /\ \A i \in 1..n : q[i] \in V BY <1>1
<1>3. DOMAIN Append(q, c) = 1..(n + 1) /\ Append(q, c)[n + 1] = c
      /\ \A i \in 1..n : Append(q, c)[i] = q[i]
  BY <1>1
<1>4. 1..(n + 1) = 1..n \cup {n + 1} BY <1>2
<1>5. n + 1 \notin 1..n BY <1>2
<1> QED BY <1>2, <1>3, <1>4, <1>5 DEF Range

LEMMA OnlyOne ==
  ASSUME NEW S, IsFiniteSet(S), Cardinality(S) <= 1, NEW x \in S, NEW y \in S
  PROVE  x = y
<1> SUFFICES ASSUME x # y PROVE FALSE OBVIOUS
<1>1. IsFiniteSet(S \ {x}) /\ Cardinality(S \ {x}) = Cardinality(S) - 1 BY FS_RemoveElement
<1>2. Cardinality(S) \in Nat BY FS_CardinalityType
<1>3. Cardinality(S \ {x}) \in Nat BY <1>1, FS_CardinalityType
<1>4. Cardinality(S \ {x}) = 0 BY <1>1, <1>2, <1>3
<1>5. S \ {x} = {} BY <1>1, <1>4, FS_EmptySet
<1> QED BY <1>5

\* A board to push over from a card that lies outside R, what it waits for.
Ground(b, root, R) ==
  /\ b \in [DOMAIN b -> Card] /\ IsFiniteSet(DOMAIN b) /\ DOMAIN b \subseteq Nat
  /\ \A c \in DOMAIN b : b[c].deps \subseteq DOMAIN b /\ c \notin b[c].deps
  /\ root \in DOMAIN b /\ root \notin R /\ b[root].deps \subseteq R
  /\ \A c \in R \cap DOMAIN b : b[c].deps \subseteq R

One(b) == \A c \in DOMAIN b : Cardinality(b[c].deps) <= 1

\* Behind a card d, the cards of C start no earlier than it ends.
Behind(b, w, d, C) ==
  \A c \in C : d \in b[c].deps /\ w.board[c].start # NoDay /\ w.board[d].start # NoDay
               => w.board[c].start >= CascadeEnd(w.board[d])

\* While x is visited and its dependents in P are done.
Scope(b, x, P, d) == IF d = x THEN P ELSE DOMAIN b

Straight(b, root, x, P, w) ==
  /\ Range(w.moved) \cup {root} = w.seen \cup Range(w.queue)
  /\ Range(w.queue) \cap w.seen = {}
  /\ \A i, j \in DOMAIN w.queue : w.queue[i] = w.queue[j] => i = j
  /\ \A c \in Range(w.moved) :
       b[c].deps \subseteq w.seen /\ \A d \in b[c].deps : w.board[c].start = CascadeEnd(w.board[d])
  /\ \A d \in w.seen : Behind(b, w, d, Scope(b, x, P, d))

Tracks(b, root, R, x, P, w) ==
  /\ w \in Walks(b) /\ (w.seen \cup Range(w.queue)) \cap R = {}
  /\ w.board[root].start = b[root].start
  /\ \A c \in DOMAIN b : w.board[c].start # b[c].start => c \in Range(w.moved)
  /\ root \in w.seen => Behind(b, w, root, Scope(b, x, P, root))
  /\ One(b) => Straight(b, root, x, P, w)

\* A push leaves clear behind a card what was clear behind it.
LEMMA BehindStays ==
  ASSUME NEW b, NEW root, NEW R, Ground(b, root, R), NEW w \in Walks(b), NEW c \in DOMAIN b,
         NEW a, a = PushDependent(w, c), a \in Walks(b),
         NEW d \in DOMAIN b, a.board[d] = w.board[d], NEW C \in SUBSET (DOMAIN b), Behind(b, w, d, C)
  PROVE  Behind(b, a, d, C \cup {c})
<1> SUFFICES ASSUME NEW e \in C \cup {c}, d \in b[e].deps, a.board[e].start # NoDay, a.board[d].start # NoDay
             PROVE  a.board[e].start >= CascadeEnd(a.board[d])
  BY DEF Behind
<1>1. b \in [DOMAIN b -> Card] /\ IsFiniteSet(DOMAIN b) BY DEF Ground
<1>2. CASE e = c
  <2>1. d # c BY <1>2 DEF Ground
  <2> QED BY <1>1, <1>2, <2>1, PushIs
<1>3. CASE e # c
  <2>1. a.board[e] = w.board[e] BY <1>1, <1>3, PushIs
  <2> QED BY <1>3, <2>1 DEF Behind
<1> QED BY <1>2, <1>3

\* A push from a card that is not in R moves neither the edited card nor R.
LEMMA PushTracks ==
  ASSUME NEW b, NEW root, NEW R, Ground(b, root, R), NEW x \in DOMAIN b, NEW P \in SUBSET (DOMAIN b),
         NEW w, Tracks(b, root, R, x, P, w), x \in w.seen, NEW c \in DOMAIN b, x \in b[c].deps
  PROVE  LET a == PushDependent(w, c) IN Tracks(b, root, R, x, P \cup {c}, a) /\ a.seen = w.seen
<1>1. PICK a : a = PushDependent(w, c) OBVIOUS
<1>2. b \in [DOMAIN b -> Card] /\ IsFiniteSet(DOMAIN b) /\ DOMAIN b \subseteq Nat BY DEF Ground
<1>3. w \in Walks(b) BY DEF Tracks
<1>4. a \in Walks(b) BY <1>1, <1>2, <1>3, PushKeeps
<1>5. /\ a.seen = w.seen /\ \A d \in DOMAIN b : d # c => a.board[d] = w.board[d]
      /\ \/ a = w
         \/ /\ a.queue = Append(w.queue, c) /\ a.moved = AddOnce(w.moved, c)
            /\ w.board[c].start # NoDay /\ a.board[c].start > w.board[c].start
            /\ a.board[c].start \in DepEnds(w.board, c)
  BY <1>1, <1>2, <1>3, PushIs
<1>6. c \notin R /\ c # root /\ x # c BY DEF Ground, Tracks
<1>7. (a.seen \cup Range(a.queue)) \cap R = {}
  <2>1. CASE a = w BY <2>1 DEF Tracks
  <2>2. CASE a.queue = Append(w.queue, c)
    <3>1. w.queue \in Seq(Nat) BY <1>3 DEF Walks
    <3>2. \A d \in Range(a.queue) : d \in Range(w.queue) \/ d = c BY <2>2, <3>1 DEF Range
    <3> QED BY <1>5, <1>6, <3>2 DEF Tracks
  <2> QED BY <1>5, <2>1, <2>2
<1>8. root \in DOMAIN b /\ a.board[root] = w.board[root] /\ a.board[x] = w.board[x] BY <1>5, <1>6 DEF Ground
<1>9. \A d \in DOMAIN b : a.board[d] = w.board[d] /\ Behind(b, w, d, Scope(b, x, P, d))
                          => Behind(b, a, d, Scope(b, x, P \cup {c}, d))
  <2> SUFFICES ASSUME NEW d \in DOMAIN b, a.board[d] = w.board[d], Behind(b, w, d, Scope(b, x, P, d))
               PROVE  Behind(b, a, d, Scope(b, x, P \cup {c}, d)) OBVIOUS
  <2>1. Scope(b, x, P, d) \in SUBSET (DOMAIN b) BY DEF Scope
  <2>2. Behind(b, a, d, Scope(b, x, P, d) \cup {c}) BY <1>1, <1>3, <1>4, <2>1, BehindStays
  <2>3. Scope(b, x, P \cup {c}, d) \subseteq Scope(b, x, P, d) \cup {c} BY DEF Scope
  <2> QED BY <2>2, <2>3 DEF Behind
<1>10. root \in a.seen => Behind(b, a, root, Scope(b, x, P \cup {c}, root))
  BY <1>5, <1>8, <1>9 DEF Tracks
<1>11. ASSUME One(b) PROVE Straight(b, root, x, P \cup {c}, a)
  <2>1. Straight(b, root, x, P, w) BY <1>11 DEF Tracks
  <2>2. \A d \in b[c].deps : d = x
    <3>1. IsFiniteSet(b[c].deps)
      <4>1. b[c].deps \subseteq DOMAIN b BY DEF Ground
      <4> QED BY <1>2, <4>1, FS_Subset
    <3>2. Cardinality(b[c].deps) <= 1 BY <1>11 DEF One
    <3> QED BY <3>1, <3>2, OnlyOne
  <2>3. w.seen \subseteq DOMAIN b
    <3>1. Range(w.moved) \subseteq DOMAIN b BY <1>3 DEF Walks, Range
    <3> QED BY <1>8, <2>1, <3>1 DEF Straight
  <2>4. CASE a = w
    <3>1. \A d \in w.seen : Behind(b, a, d, Scope(b, x, P \cup {c}, d)) BY <1>9, <2>1, <2>3, <2>4 DEF Straight
    <3> QED BY <2>1, <2>4, <3>1 DEF Straight
  <2>5. CASE a # w
    <3>1. /\ a.queue = Append(w.queue, c) /\ a.moved = AddOnce(w.moved, c)
          /\ a.board[c].start > w.board[c].start /\ a.board[c].start \in DepEnds(w.board, c)
      BY <1>5, <2>5
    <3>2. a.board[c].start = CascadeEnd(w.board[x])
      <4>1. w.board[c].deps = b[c].deps BY <1>3 DEF Walks, NoEarlier
      <4>2. \A n \in DepEnds(w.board, c) : n = CascadeEnd(w.board[x]) BY <2>2, <4>1 DEF DepEnds
      <4> QED BY <3>1, <4>2
    <3>3. c \notin Range(w.moved)
      <4> SUFFICES ASSUME c \in Range(w.moved) PROVE FALSE OBVIOUS
      <4>1. w.board[c].start = CascadeEnd(w.board[x]) BY <2>1 DEF Straight
      <4>2. w.board[c].start \in Int
        <5>1. w.board[c] \in Card BY <1>3 DEF Walks
        <5> QED BY <5>1 DEF Card, Day, NoDay
      <4> QED BY <3>1, <3>2, <4>1, <4>2
    <3>4. c \notin w.seen \cup Range(w.queue) BY <1>6, <2>1, <3>3 DEF Straight
    <3>5. w.queue \in Seq(Nat) /\ w.moved \in Seq(DOMAIN b) BY <1>3 DEF Walks
    <3>6. a.moved = Append(w.moved, c) BY <3>1, <3>3 DEF AddOnce
    <3>7. Range(a.queue) = Range(w.queue) \cup {c} /\ Range(a.moved) = Range(w.moved) \cup {c}
      BY <3>1, <3>5, <3>6, ListIs
    <3>8. \A i, j \in DOMAIN a.queue : a.queue[i] = a.queue[j] => i = j
      <4>1. \A i \in DOMAIN w.queue : w.queue[i] # c BY <3>4 DEF Range
      <4>2. \A i, j \in DOMAIN w.queue : w.queue[i] = w.queue[j] => i = j BY <2>1 DEF Straight
      <4> QED BY <3>1, <3>5, <4>1, <4>2
    <3>9. ASSUME NEW e \in Range(a.moved)
          PROVE  b[e].deps \subseteq a.seen /\ \A d \in b[e].deps : a.board[e].start = CascadeEnd(a.board[d])
      <4>1. CASE e = c BY <1>5, <1>8, <2>2, <3>2, <4>1
      <4>2. CASE e # c
        <5>1. e \in Range(w.moved) /\ e \in DOMAIN b BY <3>5, <3>7, <4>2, ListIs
        <5>2. b[e].deps \subseteq w.seen /\ \A d \in b[e].deps : w.board[e].start = CascadeEnd(w.board[d])
          BY <2>1, <5>1 DEF Straight
        <5>3. \A d \in b[e].deps : d \in DOMAIN b /\ d # c BY <2>3, <3>4, <5>2
        <5> QED BY <1>5, <4>2, <5>1, <5>2, <5>3
      <4> QED BY <4>1, <4>2
    <3>10. \A d \in a.seen : Behind(b, a, d, Scope(b, x, P \cup {c}, d))
      <4>1. \A d \in w.seen : d \in DOMAIN b /\ d # c BY <2>3, <3>4
      <4>2. \A d \in w.seen : Behind(b, w, d, Scope(b, x, P, d)) BY <2>1 DEF Straight
      <4> QED BY <1>5, <1>9, <4>1, <4>2
    <3>11. /\ Range(a.moved) \cup {root} = a.seen \cup Range(a.queue) /\ Range(a.queue) \cap a.seen = {}
      BY <1>5, <2>1, <3>4, <3>7 DEF Straight
    <3> QED BY <3>8, <3>9, <3>10, <3>11 DEF Straight
  <2> QED BY <2>4, <2>5
<1>12. a.board[root].start = b[root].start BY <1>8 DEF Tracks
<1>13. \A d \in DOMAIN b : a.board[d].start # b[d].start => d \in Range(a.moved)
  <2>1. CASE a = w BY <2>1 DEF Tracks
  <2>2. CASE a.moved = AddOnce(w.moved, c)
    <3>1. w.moved \in Seq(DOMAIN b) BY <1>3 DEF Walks
    <3>2. Range(w.moved) \cup {c} \subseteq Range(a.moved)
      <4>1. CASE c \in Range(w.moved) BY <2>2, <4>1 DEF AddOnce
      <4>2. CASE c \notin Range(w.moved)
        <5>1. a.moved = Append(w.moved, c) BY <2>2, <4>2 DEF AddOnce
        <5> QED BY <3>1, <5>1, ListIs
      <4> QED BY <4>1, <4>2
    <3> QED BY <1>5, <3>2 DEF Tracks
  <2> QED BY <1>5, <2>1, <2>2
<1> QED BY <1>1, <1>4, <1>5, <1>7, <1>10, <1>11, <1>12, <1>13 DEF Tracks
LEMMA QueueIs ==
  ASSUME NEW V, NEW q \in Seq(V), q # <<>>
  PROVE  /\ Head(q) \in Range(q) /\ Range(q) = {Head(q)} \cup Range(Tail(q)) /\ Tail(q) \in Seq(V)
         /\ (\A i, j \in DOMAIN q : q[i] = q[j] => i = j) =>
              Head(q) \notin Range(Tail(q)) /\ \A i, j \in DOMAIN Tail(q) : Tail(q)[i] = Tail(q)[j] => i = j
<1>1. PICK n, t : n = Len(q) /\ t = Tail(q) OBVIOUS
<1>2. n \in Nat \ {0} /\ DOMAIN q = 1..n /\ Head(q) = q[1] /\ t \in Seq(V) BY <1>1
<1>3. DOMAIN t = 1..(n - 1) /\ \A i \in 1..(n - 1) : t[i] = q[i + 1] BY <1>1, <1>2
<1>4. 1 \in 1..n /\ \A i \in 1..(n - 1) : i + 1 \in 1..n /\ i + 1 # 1 BY <1>2
<1>5. \A i \in 1..n : i = 1 \/ (i - 1 \in 1..(n - 1) /\ (i - 1) + 1 = i) BY <1>2
<1>6. Range(q) = {q[1]} \cup Range(t)
  <2>1. \A i \in 1..n : q[i] = q[1] \/ q[i] \in Range(t)
    <3> SUFFICES ASSUME NEW i \in 1..n, i # 1 PROVE q[i] \in Range(t) OBVIOUS
    <3>1. i - 1 \in 1..(n - 1) /\ t[i - 1] = q[i] BY <1>3, <1>5
    <3> QED BY <1>3, <3>1 DEF Range
  <2>2. Range(t) \subseteq Range(q) BY <1>2, <1>3, <1>4 DEF Range
  <2> QED BY <1>2, <1>4, <2>1, <2>2 DEF Range
<1>7. (\A i, j \in DOMAIN q : q[i] = q[j] => i = j) =>
        q[1] \notin Range(t) /\ \A i, j \in DOMAIN t : t[i] = t[j] => i = j
  <2> SUFFICES ASSUME \A i, j \in DOMAIN q : q[i] = q[j] => i = j
               PROVE  q[1] \notin Range(t) /\ \A i, j \in DOMAIN t : t[i] = t[j] => i = j OBVIOUS
  <2>1. q[1] \notin Range(t) BY <1>2, <1>3, <1>4 DEF Range
  <2>2. \A i, j \in 1..(n - 1) : q[i + 1] = q[j + 1] => i + 1 = j + 1 BY <1>2, <1>4
  <2> QED BY <1>3, <2>1, <2>2
<1>8. PICK h : h = Head(q) OBVIOUS
<1>9. h = q[1] /\ h \in Range(q) BY <1>2, <1>6, <1>8
<1>10. /\ Range(q) = {h} \cup Range(t) /\ h \in Range(q)
       /\ (\A i, j \in DOMAIN q : q[i] = q[j] => i = j) =>
            h \notin Range(t) /\ \A i, j \in DOMAIN t : t[i] = t[j] => i = j
  BY <1>6, <1>7, <1>9
<1> QED BY <1>1, <1>2, <1>8, <1>10

\* What holds before a visit, with the visited card taken off the queue.
LEMMA VisitBegins ==
  ASSUME NEW b, NEW root, NEW R, Ground(b, root, R), NEW w, Tracks(b, root, R, root, DOMAIN b, w), w.queue # <<>>,
         NEW x, x = Head(w.queue), NEW a \in Walks(b),
         a.board = w.board, a.moved = w.moved, a.seen = w.seen \cup {x}, a.queue = Tail(w.queue)
  PROVE  Tracks(b, root, R, x, {}, a)
<1>1. w.queue \in Seq(Nat) BY DEF Tracks, Walks
<1>2. /\ x \in Range(w.queue) /\ Range(w.queue) = {x} \cup Range(a.queue)
      /\ (\A i, j \in DOMAIN w.queue : w.queue[i] = w.queue[j] => i = j) =>
           x \notin Range(a.queue) /\ \A i, j \in DOMAIN a.queue : a.queue[i] = a.queue[j] => i = j
  <2>1. PICK q, t : q = w.queue /\ t = a.queue OBVIOUS
  <2>2. q \in Seq(Nat) /\ q # <<>> /\ x = Head(q) /\ t = Tail(q) BY <1>1, <2>1
  <2>3. /\ x \in Range(q) /\ Range(q) = {x} \cup Range(t)
        /\ (\A i, j \in DOMAIN q : q[i] = q[j] => i = j) =>
             x \notin Range(t) /\ \A i, j \in DOMAIN t : t[i] = t[j] => i = j
    BY <2>2, QueueIs
  <2> QED BY <2>1, <2>3
<1>3. (a.seen \cup Range(a.queue)) \cap R = {} BY <1>2 DEF Tracks
<1>4. \A d : Behind(b, w, d, Scope(b, root, DOMAIN b, d)) => Behind(b, a, d, Scope(b, x, {}, d))
  BY DEF Behind, Scope
<1>5. Behind(b, a, x, Scope(b, x, {}, x)) BY DEF Behind, Scope
<1>6. root \in a.seen => Behind(b, a, root, Scope(b, x, {}, root)) BY <1>4, <1>5 DEF Tracks
<1>7. ASSUME One(b) PROVE Straight(b, root, x, {}, a)
  <2>1. Straight(b, root, root, DOMAIN b, w) BY <1>7 DEF Tracks
  <2>2. Range(a.moved) \cup {root} = a.seen \cup Range(a.queue) BY <1>2, <2>1 DEF Straight
  <2>3. /\ Range(a.queue) \cap a.seen = {}
        /\ \A i, j \in DOMAIN a.queue : a.queue[i] = a.queue[j] => i = j
    BY <1>2, <2>1 DEF Straight
  <2>4. \A c \in Range(a.moved) :
          b[c].deps \subseteq a.seen /\ \A d \in b[c].deps : a.board[c].start = CascadeEnd(a.board[d])
    BY <2>1 DEF Straight
  <2>5. \A d \in a.seen : Behind(b, a, d, Scope(b, x, {}, d)) BY <1>4, <1>5, <2>1 DEF Straight
  <2> QED BY <2>2, <2>3, <2>4, <2>5 DEF Straight
<1> QED BY <1>3, <1>6, <1>7 DEF Tracks

LEMMA VisitTracks ==
  ASSUME NEW b, NEW root, NEW R, Ground(b, root, R), NEW order \in Seq(CardIds), DOMAIN b \subseteq Range(order),
         NEW w, Tracks(b, root, R, root, DOMAIN b, w), w.queue # <<>>
  PROVE  LET a == Visit(w, order) IN
         Tracks(b, root, R, root, DOMAIN b, a) /\ a.seen = w.seen \cup {Head(w.queue)}
<1>1. PICK x, a, n : x = Head(w.queue) /\ a = Visit(w, order) /\ n = Len(order) OBVIOUS
<1>2. b \in [DOMAIN b -> Card] /\ IsFiniteSet(DOMAIN b) /\ DOMAIN b \subseteq Nat BY DEF Ground
<1>3. w \in Walks(b) BY DEF Tracks
<1>4. CASE x \in w.seen
  <2>1. a = [board |-> w.board, moved |-> w.moved, seen |-> w.seen, queue |-> Tail(w.queue)]
    BY <1>1, <1>2, <1>3, <1>4, VisitRuns
  <2>2. w.queue \in Seq(Nat) BY <1>3 DEF Walks
  <2>3. Tail(w.queue) \in Seq(Nat) /\ x \in Range(w.queue) /\ Range(w.queue) = {x} \cup Range(Tail(w.queue))
    BY <1>1, <2>2, QueueIs
  <2>4. a \in Walks(b) BY <1>3, <2>1, <2>3 DEF Walks
  <2>5. a.board = w.board /\ a.moved = w.moved /\ a.seen = w.seen /\ a.queue = Tail(w.queue) BY <2>1
  <2>6. ~One(b) BY <1>4, <2>3 DEF Tracks, Straight
  <2>7. (a.seen \cup Range(a.queue)) \cap R = {} BY <2>3, <2>5 DEF Tracks
  <2>8. root \in a.seen => Behind(b, a, root, Scope(b, root, DOMAIN b, root)) BY <2>5 DEF Tracks, Behind
  <2>9. a.board[root].start = b[root].start /\ \A d \in DOMAIN b : a.board[d].start # b[d].start => d \in Range(a.moved)
    BY <2>5 DEF Tracks
  <2>10. Tracks(b, root, R, root, DOMAIN b, a) BY <2>4, <2>6, <2>7, <2>8, <2>9 DEF Tracks
  <2> QED BY <1>1, <1>4, <2>5, <2>10
<1>5. CASE x \notin w.seen
  <2>1. PICK chain : VisitedBy(chain, b, w, order, x) BY <1>1, <1>2, <1>3, <1>5, VisitRuns
  <2>2. n \in Nat /\ DOMAIN order = 1..n BY <1>1
  <2>3. /\ chain \in [0..n -> Walks(b)] /\ chain[n] = a
        /\ chain[0] = [board |-> w.board, moved |-> w.moved, seen |-> w.seen \cup {x}, queue |-> Tail(w.queue)]
        /\ \A k \in 0..(n - 1) : chain[k + 1] = Follow(x, chain[k], order[k + 1])
    BY <1>1, <2>1 DEF VisitedBy
  <2> DEFINE P(k) == {order[i] : i \in 1..k} \cap DOMAIN b
             S == {k \in 0..n : Tracks(b, root, R, x, P(k), chain[k]) /\ chain[k].seen = w.seen \cup {x}}
  <2>4. 0 \in S
    <3>1. P(0) = {} OBVIOUS
    <3>2. chain[0] \in Walks(b)
      <4>1. 0 \in 0..n BY <2>2
      <4> QED BY <2>3, <4>1
    <3>3. /\ chain[0].board = w.board /\ chain[0].moved = w.moved
          /\ chain[0].seen = w.seen \cup {x} /\ chain[0].queue = Tail(w.queue) BY <2>3
    <3>4. Tracks(b, root, R, x, {}, chain[0]) BY <1>1, <3>2, <3>3, VisitBegins
    <3>5. 0 \in 0..n BY <2>2
    <3> QED BY <3>1, <3>3, <3>4, <3>5
  <2>5. ASSUME NEW k \in 0..(n - 1), k \in S PROVE k + 1 \in S
    <3>1. k + 1 \in 0..n /\ k + 1 \in 1..n /\ k \in Nat BY <2>2
    <3>2. PICK c, u, v : c = order[k + 1] /\ u = chain[k] /\ v = chain[k + 1] OBVIOUS
    <3>3. v = Follow(x, u, c) BY <2>3, <3>2
    <3>4. Tracks(b, root, R, x, P(k), u) /\ u.seen = w.seen \cup {x} BY <2>5, <3>2
    <3>5. P(k + 1) = IF c \in DOMAIN b THEN P(k) \cup {c} ELSE P(k)
      <4>1. 1..(k + 1) = 1..k \cup {k + 1} BY <3>1
      <4> QED BY <3>2, <4>1
    <3>6. P(k) \in SUBSET (DOMAIN b) OBVIOUS
    <3>7. PICK Q : Q = P(k) OBVIOUS
    <3> HIDE DEF P
    <3>8. DOMAIN u.board = DOMAIN b /\ \A d \in DOMAIN b : u.board[d].deps = b[d].deps
      BY <3>4 DEF Tracks, Walks, NoEarlier
    <3>9. CASE c \in DOMAIN b /\ x \in b[c].deps
      <4>1. v = PushDependent(u, c) BY <3>3, <3>8, <3>9 DEF Follow
      <4>2. x \in DOMAIN b BY <3>9 DEF Ground
      <4>3. x \in u.seen BY <3>4
      <4>4. Tracks(b, root, R, x, Q, u) /\ Q \in SUBSET (DOMAIN b) BY <3>4, <3>6, <3>7
      <4>5. Tracks(b, root, R, x, Q \cup {c}, v) /\ v.seen = u.seen
        BY <3>9, <4>1, <4>2, <4>3, <4>4, PushTracks
      <4> QED BY <3>1, <3>2, <3>4, <3>5, <3>7, <3>9, <4>5
    <3>10. CASE ~(c \in DOMAIN b /\ x \in b[c].deps)
      <4>1. v = u BY <3>3, <3>8, <3>10 DEF Follow
      <4>2. \A d : Behind(b, u, d, Scope(b, x, P(k), d)) => Behind(b, u, d, Scope(b, x, P(k + 1), d))
        BY <3>5, <3>10 DEF Behind, Scope
      <4>3. Tracks(b, root, R, x, P(k + 1), u) BY <3>4, <4>2 DEF Tracks, Straight
      <4> QED BY <3>1, <3>2, <3>4, <4>1, <4>3
    <3> QED BY <3>9, <3>10
  <2>6. n \in S
    <3> HIDE DEF S
    <3>1. \A k \in 0..n : k \in S BY <2>2, <2>4, <2>5, CountingTo
    <3> QED BY <2>2, <3>1
  <2>7. P(n) = DOMAIN b BY <2>2 DEF Range
  <2>8. Tracks(b, root, R, x, DOMAIN b, a) /\ a.seen = w.seen \cup {x} BY <2>3, <2>6, <2>7
  <2>9. \A d : Scope(b, x, DOMAIN b, d) = Scope(b, root, DOMAIN b, d) BY DEF Scope
  <2>10. Tracks(b, root, R, root, DOMAIN b, a) BY <2>8, <2>9 DEF Tracks, Straight
  <2> QED BY <1>1, <2>8, <2>10
<1> QED BY <1>4, <1>5
\* After the first visit the edited card's dependents are clear and stay so; and
\* where each card waits for one other, the walk ends with every push in place.
LEMMA CascadeTracks ==
  ASSUME NEW b, NEW root, NEW R, Ground(b, root, R), NEW order \in Seq(CardIds), DOMAIN b \subseteq Range(order),
         NEW w, w = CascadeFrom(b, root, order)
  PROVE  Tracks(b, root, R, root, DOMAIN b, w) /\ root \in w.seen /\ (One(b) => w.queue = <<>>)
<1>1. PICK size, n : size = Cardinality(DOMAIN b) /\ n = size * size + 1 OBVIOUS
<1>2. b \in [DOMAIN b -> Card] /\ IsFiniteSet(DOMAIN b) /\ DOMAIN b \subseteq Nat /\ root \in DOMAIN b /\ root \in Nat
  BY DEF Ground
<1>3. size \in Nat /\ n \in Nat \ {0} /\ n > size
  <2>1. size \in Nat BY <1>1, <1>2, FS_CardinalityType
  <2>2. size * size \in Nat /\ size * size >= size BY <2>1
  <2> QED BY <1>1, <2>1, <2>2
<1>4. PICK chain \in [0..n -> Walks(b)] :
        /\ chain[0] = [board |-> b, moved |-> <<>>, seen |-> {}, queue |-> <<root>>]
        /\ chain[n] = w
        /\ \A k \in 0..(n - 1) : chain[k + 1] = TurnOf(chain[k], order)
  BY <1>1, <1>2, CascadeRuns
<1> DEFINE T(k) == Tracks(b, root, R, root, DOMAIN b, chain[k])
           Visited(k) == IF k = 0 THEN chain[k].queue = <<root>> ELSE root \in chain[k].seen
           Counts(k) == chain[k].queue = <<>> \/ Cardinality(chain[k].seen) >= k
           S == {k \in 0..n : T(k) /\ Visited(k) /\ (One(b) => Counts(k))}
<1>5. 0 \in S
  <2>1. PICK a : a = chain[0] OBVIOUS
  <2>2. a.board = b /\ a.moved = <<>> /\ a.seen = {} /\ a.queue = <<root>> BY <1>4, <2>1
  <2>3. 0 \in 0..n /\ a \in Walks(b)
    <3>1. 0 \in 0..n BY <1>3
    <3> QED BY <1>4, <2>1, <3>1
  <2>4. Range(a.queue) = {root} /\ Range(a.moved) = {} BY <2>2 DEF Range
  <2>5. \A i, j \in DOMAIN a.queue : a.queue[i] = a.queue[j] => i = j BY <2>2
  <2>6. Straight(b, root, root, DOMAIN b, a) BY <2>2, <2>4, <2>5 DEF Straight
  <2>7. (a.seen \cup Range(a.queue)) \cap R = {} BY <2>2, <2>4 DEF Ground
  <2>8. Tracks(b, root, R, root, DOMAIN b, a) BY <2>2, <2>3, <2>6, <2>7 DEF Tracks
  <2>9. Cardinality(a.seen) >= 0 BY <2>2, FS_EmptySet
  <2> QED BY <2>1, <2>2, <2>3, <2>8, <2>9
<1>6. ASSUME NEW k \in 0..n, T(k), One(b)
      PROVE  IsFiniteSet(chain[k].seen) /\ Cardinality(chain[k].seen) \in Nat /\ Cardinality(chain[k].seen) <= size
  <2>1. PICK a : a = chain[k] OBVIOUS
  <2>2. a.moved \in Seq(DOMAIN b) BY <1>6, <2>1 DEF Tracks, Walks
  <2>3. Range(a.moved) \subseteq DOMAIN b BY <2>2, ListIs
  <2>4. a.seen \subseteq DOMAIN b BY <1>2, <1>6, <2>1, <2>3 DEF Tracks, Straight
  <2>5. IsFiniteSet(a.seen) /\ Cardinality(a.seen) <= size BY <1>1, <1>2, <2>4, FS_Subset
  <2> QED BY <2>1, <2>5, FS_CardinalityType
<1>7. ASSUME NEW k \in 0..(n - 1), k \in S PROVE k + 1 \in S
  <2>1. k \in 0..n /\ k + 1 \in 0..n /\ k + 1 # 0 /\ k \in Nat BY <1>3
  <2>2. PICK u, v : u = chain[k] /\ v = chain[k + 1] OBVIOUS
  <2>3. v = TurnOf(u, order) BY <1>4, <2>2
  <2>4. Tracks(b, root, R, root, DOMAIN b, u) /\ (One(b) => Counts(k)) BY <1>7, <2>2
  <2>5. CASE u.queue = <<>>
    <3>1. v = u BY <2>3, <2>5 DEF TurnOf
    <3>2. root \in u.seen
      <4>1. u.queue # <<root>> BY <2>5
      <4> QED BY <1>7, <2>2, <4>1
    <3> QED BY <2>1, <2>2, <2>4, <2>5, <3>1, <3>2
  <2>6. CASE u.queue # <<>>
    <3>1. v = Visit(u, order) BY <2>3, <2>6 DEF TurnOf
    <3>2. Tracks(b, root, R, root, DOMAIN b, v) /\ v.seen = u.seen \cup {Head(u.queue)}
      BY <2>4, <2>6, <3>1, VisitTracks
    <3>3. root \in v.seen
      <4>1. CASE k = 0
        <5>1. u.queue = <<root>> BY <1>7, <2>2, <4>1
        <5> QED BY <3>2, <5>1
      <4>2. CASE k # 0
        <5>1. root \in u.seen BY <1>7, <2>2, <4>2
        <5> QED BY <3>2, <5>1
      <4> QED BY <4>1, <4>2
    <3>4. ASSUME One(b) PROVE Cardinality(v.seen) >= k + 1
      <4>1. IsFiniteSet(u.seen) /\ Cardinality(u.seen) \in Nat
        <5>1. T(k) BY <2>2, <2>4
        <5> QED BY <1>6, <2>1, <2>2, <3>4, <5>1
      <4>2. Head(u.queue) \notin u.seen
        <5>1. u.queue \in Seq(Nat) BY <2>4 DEF Tracks, Walks
        <5>2. Head(u.queue) \in Range(u.queue) BY <2>6, <5>1, QueueIs
        <5> QED BY <2>4, <3>4, <5>2 DEF Tracks, Straight
      <4>3. Cardinality(v.seen) = Cardinality(u.seen) + 1 BY <3>2, <4>1, <4>2, FS_AddElement
      <4>4. Cardinality(u.seen) >= k BY <2>2, <2>4, <2>6, <3>4
      <4> QED BY <2>1, <4>1, <4>3, <4>4
    <3> QED BY <2>1, <2>2, <3>2, <3>3, <3>4
  <2> QED BY <2>5, <2>6
<1>8. n \in S
  <2> HIDE DEF S
  <2>1. \A k \in 0..n : k \in S BY <1>3, <1>5, <1>7, CountingTo
  <2> QED BY <1>3, <2>1
<1>9. ASSUME One(b) PROVE w.queue = <<>>
  <2>1. Cardinality(chain[n].seen) \in Nat /\ Cardinality(chain[n].seen) <= size BY <1>3, <1>6, <1>8, <1>9
  <2>2. ~(Cardinality(chain[n].seen) >= n) BY <1>3, <2>1
  <2> QED BY <1>4, <1>8, <1>9, <2>2
<1> QED BY <1>3, <1>4, <1>8, <1>9
-----------------------------------------------------------------------------
\* Where a push takes the starts of the cards: what PushIsSound asks of them.
Clear(S, b, d) == \A c \in DOMAIN b : d \in b[c].deps /\ S[c] # NoDay => S[c] >= S[d] + b[d].dur

Leads(S, b, root, moved) ==
  /\ root \in DOMAIN b /\ moved \subseteq DOMAIN b
  /\ S[root] # NoDay => Clear(S, b, root)
  /\ One(b) => \A d \in moved : Clear(S, b, d) /\ \A e \in b[d].deps : S[d] = S[e] + b[e].dur

\* The rows that are left to write take the cards there.
Aims(r, b) ==
  \E S \in [DOMAIN b -> Day] :
    /\ Leads(S, b, r.root, r.moved)
    /\ \A i \in DOMAIN r.todo : r.todo[i].columns.start = S[r.todo[i].card]
    /\ \A c \in DOMAIN b : S[c] # b[c].start => \E i \in DOMAIN r.todo : r.todo[i].card = c

LEMMA GroundIs ==
  ASSUME BoardTypes, DepsSound, NEW root \in DOMAIN board
  PROVE  \E R : Ground(board, root, R)
<1>1. PICK b : b = board OBVIOUS
<1>2. b \in [DOMAIN b -> Card] /\ IsFiniteSet(DOMAIN b) /\ DOMAIN b \subseteq Nat
  BY <1>1, CardsFinite DEF BoardTypes
<1>3. (\A c \in DOMAIN b : b[c].deps \subseteq DOMAIN b) /\ NoLoop(DepsOf(b)) BY <1>1, DepsSoundIs
<1> DEFINE deps == DepsOf(b)
<1>4. DOMAIN deps = DOMAIN b /\ \A c \in DOMAIN b : deps[c] = b[c].deps BY DEF DepsOf
<1> HIDE DEF deps
<1>5. \A c \in DOMAIN b : c \notin b[c].deps
  <2> SUFFICES ASSUME NEW c \in DOMAIN b PROVE c \notin b[c].deps OBVIOUS
  <2>1. deps[c] \subseteq Reached(deps, deps[c]) /\ c \notin Reached(deps, deps[c])
    BY <1>2, <1>3, <1>4, ReachedIs DEF NoLoop, deps
  <2> QED BY <1>4, <2>1
<1>6. PICK R : R = Reached(deps, deps[root]) OBVIOUS
<1>7. root \notin R /\ deps[root] \subseteq R /\ Closed(deps, R)
  BY <1>1, <1>2, <1>3, <1>4, <1>6, ReachedIs DEF NoLoop, deps
<1>8. Ground(b, root, R) BY <1>1, <1>2, <1>3, <1>4, <1>5, <1>7 DEF Ground, Closed
<1> QED BY <1>1, <1>8

LEMMA CascadeAims ==
  ASSUME NEW b, NEW root, NEW R, Ground(b, root, R), NEW order \in Seq(CardIds), DOMAIN b \subseteq Range(order),
         NEW w, w = CascadeFrom(b, root, order)
  PROVE  LET S == [c \in DOMAIN b |-> w.board[c].start] IN
         /\ S \in [DOMAIN b -> Day] /\ Leads(S, b, root, Range(w.moved))
         /\ \A c \in DOMAIN b : S[c] # b[c].start => c \in Range(w.moved)
<1>1. Tracks(b, root, R, root, DOMAIN b, w) /\ root \in w.seen /\ (One(b) => w.queue = <<>>) BY CascadeTracks
<1>2. /\ w.board \in [DOMAIN b -> Card] /\ NoEarlier(b, w.board) /\ w.moved \in Seq(DOMAIN b)
      /\ \A c \in Range(w.moved) : b[c].start # NoDay
  BY <1>1 DEF Tracks, Walks
<1>3. PICK S : S = [c \in DOMAIN b |-> w.board[c].start] OBVIOUS
<1>4. \A c \in DOMAIN b : w.board[c].start \in Day BY <1>2 DEF Card
<1>5. S \in [DOMAIN b -> Day] BY <1>3, <1>4
<1>6. \A d \in DOMAIN b : CascadeEnd(w.board[d]) = S[d] + b[d].dur BY <1>2, <1>3 DEF NoEarlier, CascadeEnd
<1>7. \A d \in DOMAIN b : S[d] # NoDay /\ Behind(b, w, d, DOMAIN b) => Clear(S, b, d)
  BY <1>3, <1>6 DEF Behind, Clear
<1>8. root \in DOMAIN b /\ Behind(b, w, root, DOMAIN b) BY <1>1 DEF Tracks, Scope, Ground
<1>9. Range(w.moved) \subseteq DOMAIN b BY <1>2, ListIs
<1>10. ASSUME One(b), NEW d \in Range(w.moved)
       PROVE  Clear(S, b, d) /\ \A e \in b[d].deps : S[d] = S[e] + b[e].dur
  <2>1. Straight(b, root, root, DOMAIN b, w) /\ w.queue = <<>> BY <1>1, <1>10 DEF Tracks
  <2>2. Range(w.queue) = {} BY <2>1 DEF Range
  <2>3. d \in w.seen /\ d \in DOMAIN b BY <1>9, <1>10, <2>1, <2>2 DEF Straight
  <2>4. Behind(b, w, d, DOMAIN b) BY <2>1, <2>3 DEF Straight, Scope
  <2>5. S[d] # NoDay BY <1>2, <1>3, <1>10, <2>3 DEF NoEarlier
  <2>6. \A e \in b[d].deps : w.board[d].start = CascadeEnd(w.board[e]) BY <1>10, <2>1 DEF Straight
  <2>7. b[d].deps \subseteq DOMAIN b BY <2>3 DEF Ground
  <2>8. \A e \in b[d].deps : S[d] = S[e] + b[e].dur BY <1>3, <1>6, <2>3, <2>6, <2>7
  <2> QED BY <1>7, <2>3, <2>4, <2>5, <2>8
<1>11. Leads(S, b, root, Range(w.moved)) BY <1>7, <1>8, <1>9, <1>10 DEF Leads
<1>12. \A c \in DOMAIN b : S[c] # b[c].start => c \in Range(w.moved) BY <1>1, <1>3 DEF Tracks
<1> QED BY <1>3, <1>5, <1>11, <1>12
-----------------------------------------------------------------------------
Aimed(r, b) ==
  /\ r.pc = "cascade" => r.root \in DOMAIN b
  /\ r.pc = "shift" => Aims(r, b)

AimedInv == TypedInv /\ \A s \in Slots : Aimed(req[s], board)

LEMMA StepAims ==
  ASSUME OneRequest, TypedInv, TypedInv', NEW s \in Slots, NEW r, Proceed(s, r), Aimed(r, board')
  PROVE  AimedInv'
<1>1. req' = [t \in Slots |-> r] BY DEF Proceed, TypedInv, BoardInv, BoardTypes, OneRequest
<1>2. (\A t \in Slots : Aimed(req[t], board))'
  <2>1. \A t \in Slots : req'[t] = r BY <1>1
  <2> QED BY <2>1 DEF Aimed, Aims, Leads, Clear, One
<1> QED BY <1>2 DEF AimedInv

LEMMA CallAims ==
  ASSUME OneRequest, TypedInv, TypedInv', NEW s \in Slots, NEW op, NEW r, Begin(s, op, r), r.pc \notin {"cascade", "shift"}
  PROVE  AimedInv'
<1>1. Proceed(s, r) BY DEF Begin
<1>2. Aimed(r, board') BY DEF Aimed
<1> QED BY <1>1, <1>2, StepAims

LEMMA CallsAim ==
  ASSUME OneRequest, TypedInv, TypedInv', NEW s \in Slots, Call(s)
  PROVE  AimedInv'
<1>1. ASSUME NEW op, NEW r, Begin(s, op, r), r.pc \notin {"cascade", "shift"} PROVE AimedInv' BY <1>1, CallAims
<1>2. ASSUME NEW start, NEW due, NEW dur, NEW deps, NEW lane, NEW app, Create(s, start, due, dur, deps, lane, app)
      PROVE  AimedInv'
  <2>1. PICK op, r : Begin(s, op, r) /\ r.pc \notin {"cascade", "shift"} BY <1>2 DEF Create
  <2> QED BY <1>1, <2>1
<1>3. ASSUME NEW c, NEW patch, Update(s, c, patch) PROVE AimedInv'
  <2>1. PICK op, r : Begin(s, op, r) /\ r.pc \notin {"cascade", "shift"} BY <1>3 DEF Update
  <2> QED BY <1>1, <2>1
<1>4. ASSUME NEW c, NEW start, NEW dur, Schedule(s, c, start, dur) PROVE AimedInv'
  <2>1. PICK op, r : Begin(s, op, r) /\ r.pc \notin {"cascade", "shift"} BY <1>4 DEF Schedule
  <2> QED BY <1>1, <2>1
<1>5. ASSUME NEW c, Unschedule(s, c) PROVE AimedInv'
  <2>1. PICK op, r : Begin(s, op, r) /\ r.pc \notin {"cascade", "shift"} BY <1>5 DEF Unschedule
  <2> QED BY <1>1, <2>1
<1>6. ASSUME NEW c, NEW deps, SetDependencies(s, c, deps) PROVE AimedInv'
  <2>1. PICK op, r : Begin(s, op, r) /\ r.pc \notin {"cascade", "shift"} BY <1>6 DEF SetDependencies
  <2> QED BY <1>1, <2>1
<1>7. ASSUME NEW c, NEW who, SetAssignee(s, c, who) \/ Complete(s, c, who) PROVE AimedInv'
  <2>1. PICK op, r : Begin(s, op, r) /\ r.pc \notin {"cascade", "shift"} BY <1>7 DEF SetAssignee, Complete
  <2> QED BY <1>1, <2>1
<1>8. ASSUME NEW c, Delete(s, c) PROVE AimedInv'
  <2>1. PICK op, r : Begin(s, op, r) /\ r.pc \notin {"cascade", "shift"} BY <1>8 DEF Delete
  <2> QED BY <1>1, <2>1
<1>9. ASSUME NEW lane, NEW app, AttachApp(s, lane, app) \/ DetachApp(s, lane, app) PROVE AimedInv'
  <2>1. PICK op, r : Begin(s, op, r) /\ r.pc \notin {"cascade", "shift"} BY <1>9 DEF AttachApp, DetachApp, Idle
  <2> QED BY <1>1, <2>1
<1>10. ASSUME NEW from, NEW to, MoveTasks(s, from, to) PROVE AimedInv'
  <2>1. PICK op, r : Begin(s, op, r) /\ r.pc \notin {"cascade", "shift"} BY <1>10 DEF MoveTasks
  <2> QED BY <1>1, <2>1
<1> QED BY <1>2, <1>3, <1>4, <1>5, <1>6, <1>7, <1>8, <1>9, <1>10 DEF Call

\* The handlers that push next know a card of the board.
LEMMA EditsAim ==
  ASSUME OneRequest, TypedInv, TypedInv', NEW s \in Slots, Insert(s) \/ UpdateWrite(s) \/ Write(s)
  PROVE  AimedInv'
<1>1. CASE Insert(s)
  <2>1. PICK r : Proceed(s, r) /\ (r = Idle \/ r = [pc |-> "cascade", root |-> nextCard]) BY <1>1 DEF Insert
  <2>2. nextCard \in DOMAIN board' BY <1>1 DEF Insert, Over
  <2>3. Aimed(r, board') BY <2>1, <2>2 DEF Aimed, Idle
  <2> QED BY <2>1, <2>3, StepAims
<1>2. CASE UpdateWrite(s) \/ Write(s)
  <2>1. PICK c, p : c = req[s].root /\ p = req[s].columns OBVIOUS
  <2>2. Writing(req[s], board, attached, detaching)
    BY <1>2 DEF UpdateWrite, Write, At, TypedInv, BoardInv, Knows
  <2>3. c \in DOMAIN board /\ IsColumns(p) BY <2>1, <2>2 DEF Writing
  <2>4. board' = Set(c, p) BY <1>2, <2>1 DEF UpdateWrite, Write, Writes
  <2>5. c \in DOMAIN board' BY <2>3, <2>4, SetIs DEF TypedInv, BoardInv
  <2>6. PICK r : Proceed(s, r) /\ (r = Idle \/ r = [pc |-> "cascade", root |-> c])
    BY <1>2, <2>1 DEF UpdateWrite, Write
  <2>7. Aimed(r, board') BY <2>5, <2>6 DEF Aimed, Idle
  <2> QED BY <2>6, <2>7, StepAims
<1> QED BY <1>1, <1>2

LEMMA ApplyCascadeAims ==
  ASSUME OneRequest, AimedInv, TypedInv', NEW s \in Slots, ApplyCascade(s)
  PROVE  AimedInv'
<1>1. PICK b, root : b = board /\ root = req[s].root OBVIOUS
<1>2. TypedInv /\ BoardTypes /\ DepsSound BY DEF AimedInv, TypedInv, BoardInv
<1>3. root \in DOMAIN b BY <1>1 DEF ApplyCascade, At, AimedInv, Aimed
<1>4. PICK R : Ground(b, root, R) BY <1>1, <1>2, <1>3, GroundIs
<1>5. PICK order \in Orders :
        LET walk == CascadeFrom(board, req[s].root, order) IN
        Proceed(s, [pc |-> "shift", root |-> req[s].root, moved |-> Range(walk.moved),
                    todo |-> [i \in DOMAIN walk.moved |->
                      [card |-> walk.moved[i],
                       columns |-> Pushed(board[walk.moved[i]], walk.board[walk.moved[i]])]]])
  BY DEF ApplyCascade
<1>6. order \in Seq(CardIds) /\ DOMAIN b \subseteq Range(order)
  <2>1. order \in Seq(CardIds) /\ Range(order) = CardIds BY <1>5, BoardAssumption
  <2>2. DOMAIN b \subseteq 1..(nextCard - 1) /\ nextCard \in 1..(MaxCards + 1) /\ MaxCards \in Nat
    BY <1>1, <1>2, TypedFacts DEF BoardTypes
  <2>3. DOMAIN b \subseteq CardIds BY <2>2 DEF CardIds
  <2> QED BY <2>1, <2>3
<1>7. PICK walk : walk = CascadeFrom(b, root, order) OBVIOUS
<1>8. PICK moved, after : moved = walk.moved /\ after = walk.board OBVIOUS
<1>9. /\ moved \in Seq(DOMAIN b) /\ after \in [DOMAIN b -> Card] /\ b \in [DOMAIN b -> Card]
  BY <1>4, <1>6, <1>7, <1>8, CascadeTracks DEF Tracks, Walks, Ground
<1> DEFINE todo == [i \in DOMAIN moved |-> [card |-> moved[i], columns |-> Pushed(b[moved[i]], after[moved[i]])]]
           r == [pc |-> "shift", root |-> root, moved |-> Range(moved), todo |-> todo]
           S == [c \in DOMAIN b |-> after[c].start]
<1>10. Proceed(s, r) BY <1>1, <1>5, <1>7, <1>8
<1>11. r.pc = "shift" /\ r.root = root /\ r.moved = Range(moved) /\ r.todo = todo OBVIOUS
<1>12. /\ S \in [DOMAIN b -> Day] /\ Leads(S, b, root, Range(moved))
       /\ \A c \in DOMAIN b : S[c] # b[c].start => c \in Range(moved)
  BY <1>4, <1>6, <1>7, <1>8, CascadeAims
<1>13. \A i \in DOMAIN todo : todo[i].columns.start = S[todo[i].card]
  <2> SUFFICES ASSUME NEW i \in DOMAIN todo PROVE todo[i].columns.start = S[todo[i].card] OBVIOUS
  <2>1. PICK c : c = moved[i] OBVIOUS
  <2>2. c \in DOMAIN b BY <1>9, <2>1
  <2>3. Pushed(b[c], after[c]).start = after[c].start BY <1>9, <2>2, PushedIs
  <2> QED BY <2>1, <2>2, <2>3
<1>14. \A c \in Range(moved) : \E i \in DOMAIN todo : todo[i].card = c BY DEF Range
<1> HIDE DEF todo, r, S
<1>15. Aims(r, b) BY <1>11, <1>12, <1>13, <1>14 DEF Aims
<1>16. board' = b BY <1>1 DEF ApplyCascade, Reads
<1>17. Aimed(r, board') BY <1>11, <1>15, <1>16 DEF Aimed
<1> QED BY <1>2, <1>10, <1>17, StepAims

\* Where a push leads is a matter of dependencies and durations.
LEMMA LeadsStay ==
  ASSUME NEW S, NEW b, NEW root, NEW moved, Leads(S, b, root, moved), NEW a, DOMAIN a = DOMAIN b,
         \A c \in DOMAIN b : a[c].deps = b[c].deps /\ a[c].dur = b[c].dur,
         \A c \in DOMAIN b : b[c].deps \subseteq DOMAIN b
  PROVE  Leads(S, a, root, moved)
<1>1. One(a) <=> One(b) BY DEF One
<1>2. \A d \in DOMAIN b : Clear(S, b, d) => Clear(S, a, d) BY DEF Clear
<1>3. root \in DOMAIN b /\ moved \subseteq DOMAIN b BY DEF Leads
<1>4. S[root] # NoDay => Clear(S, a, root) BY <1>2, <1>3 DEF Leads
<1>5. ASSUME One(a), NEW d \in moved PROVE Clear(S, a, d) /\ \A e \in a[d].deps : S[d] = S[e] + a[e].dur
  <2>1. Clear(S, b, d) /\ \A e \in b[d].deps : S[d] = S[e] + b[e].dur BY <1>1, <1>5 DEF Leads
  <2>2. a[d].deps = b[d].deps /\ \A e \in b[d].deps : a[e].dur = b[e].dur BY <1>3, <1>5
  <2> QED BY <1>2, <1>3, <1>5, <2>1, <2>2
<1> QED BY <1>3, <1>4, <1>5 DEF Leads

LEMMA ShiftAims ==
  ASSUME OneRequest, AimedInv, TypedInv', NEW s \in Slots, Shift(s)
  PROVE  AimedInv'
<1>1. PICK b, todo : b = board /\ todo = req[s].todo OBVIOUS
<1>2. TypedInv /\ BoardTypes /\ DepsSound BY DEF AimedInv, TypedInv, BoardInv
<1>3. Pushing(todo, b) /\ todo # <<>> BY <1>1, <1>2 DEF Shift, At, TypedInv, BoardInv, Knows
<1>4. PICK S \in [DOMAIN b -> Day] :
        /\ Leads(S, b, req[s].root, req[s].moved)
        /\ \A i \in DOMAIN todo : todo[i].columns.start = S[todo[i].card]
        /\ \A c \in DOMAIN b : S[c] # b[c].start => \E i \in DOMAIN todo : todo[i].card = c
  BY <1>1 DEF AimedInv, Aimed, Aims, Shift, At
<1>5. PICK c, p, rest : c = Head(todo).card /\ p = Head(todo).columns /\ rest = Tail(todo) OBVIOUS
<1>6. /\ todo \in Seq(Range(todo)) /\ 1 \in DOMAIN todo /\ Head(todo) = todo[1] BY <1>3 DEF Pushing
<1>7. /\ c \in DOMAIN b /\ IsColumns(p) /\ "start" \in DOMAIN p /\ DOMAIN p \subseteq {"start", "due", "status"}
  BY <1>3, <1>5, <1>6 DEF Pushing
<1>8. p.start = S[c] BY <1>4, <1>5, <1>6
<1>9. PICK a : a = board' OBVIOUS
<1>10. /\ DOMAIN a = DOMAIN b /\ a[c] = Over(p, b[c]) /\ \A d \in DOMAIN b : d # c => a[d] = b[d]
  <2>1. a = Set(c, p) BY <1>1, <1>5, <1>9 DEF Shift, Writes
  <2> QED BY <1>1, <1>2, <1>7, <2>1, SetIs
<1>11. a[c].start = S[c] /\ a[c].deps = b[c].deps /\ a[c].dur = b[c].dur
  <2>1. b[c] \in Card BY <1>1, <1>2, <1>7 DEF BoardTypes
  <2>2. \A f \in Fields : a[c][f] = IF f \in DOMAIN p THEN p[f] ELSE b[c][f] BY <1>7, <1>10, <2>1, OverIs
  <2>3. "start" \in Fields /\ "deps" \in Fields /\ "dur" \in Fields BY DEF Fields
  <2>4. a[c]["start"] = p["start"] BY <1>7, <2>2, <2>3
  <2>5. a[c]["deps"] = b[c]["deps"] BY <1>7, <2>2, <2>3
  <2>6. a[c]["dur"] = b[c]["dur"] BY <1>7, <2>2, <2>3
  <2> QED BY <1>8, <2>4, <2>5, <2>6
<1>12. Leads(S, a, req[s].root, req[s].moved)
  <2>1. \A d \in DOMAIN b : a[d].deps = b[d].deps /\ a[d].dur = b[d].dur BY <1>10, <1>11
  <2>2. \A d \in DOMAIN b : b[d].deps \subseteq DOMAIN b BY <1>1, <1>2 DEF DepsSound
  <2> QED BY <1>4, <1>10, <2>1, <2>2, LeadsStay
<1>13. /\ DOMAIN todo = 1..Len(todo) /\ DOMAIN rest = 1..(Len(todo) - 1)
       /\ \A i \in DOMAIN rest : i + 1 \in DOMAIN todo /\ rest[i] = todo[i + 1]
       /\ \A i \in DOMAIN todo : i = 1 \/ (i - 1 \in DOMAIN rest /\ rest[i - 1] = todo[i])
  <2>1. PICK n : n = Len(todo) OBVIOUS
  <2>2. n \in Nat \ {0} /\ DOMAIN todo = 1..n BY <1>3, <1>6, <2>1
  <2>3. DOMAIN rest = 1..(n - 1) /\ \A i \in 1..(n - 1) : rest[i] = todo[i + 1] BY <1>5, <1>6, <2>1, <2>2
  <2>4. \A i \in 1..(n - 1) : i + 1 \in 1..n BY <2>2
  <2>5. \A i \in 1..n : i = 1 \/ (i - 1 \in 1..(n - 1) /\ (i - 1) + 1 = i) BY <2>2
  <2>6. \A i \in 1..n : i = 1 \/ (i - 1 \in DOMAIN rest /\ rest[i - 1] = todo[i]) BY <2>3, <2>5
  <2> QED BY <2>1, <2>2, <2>3, <2>4, <2>6
<1>14. \A i \in DOMAIN rest : rest[i].columns.start = S[rest[i].card] BY <1>4, <1>13
<1>15. ASSUME NEW d \in DOMAIN a, S[d] # a[d].start PROVE \E i \in DOMAIN rest : rest[i].card = d
  <2>1. d # c BY <1>11, <1>15
  <2>2. PICK i \in DOMAIN todo : todo[i].card = d BY <1>4, <1>10, <1>15, <2>1
  <2>3. i # 1 BY <1>5, <1>6, <2>1, <2>2
  <2> QED BY <1>13, <2>2, <2>3
<1>16. PICK r : r = [req[s] EXCEPT !.todo = rest] OBVIOUS
<1>17. Proceed(s, r) BY <1>1, <1>5, <1>16 DEF Shift
<1>18. r.pc = "shift" /\ r.todo = rest /\ r.root = req[s].root /\ r.moved = req[s].moved
  <2>1. req[s].pc = "shift" BY DEF Shift, At
  <2>2. "todo" \in DOMAIN req[s] => r.todo = rest BY <1>16
  <2> QED BY <1>16, <2>1, <2>2
<1>19. Aims(r, a) BY <1>4, <1>10, <1>12, <1>14, <1>15, <1>18 DEF Aims
<1>20. Aimed(r, board') BY <1>9, <1>18, <1>19 DEF Aimed
<1> QED BY <1>2, <1>17, <1>20, StepAims

LEMMA RestAim ==
  ASSUME OneRequest, TypedInv, TypedInv', NEW s \in Slots,
         \/ SetColumns(s) \/ Answer(s) \/ Strip(s) \/ Drop(s) \/ Orphans(s) \/ ClearApp(s) \/ Detached(s)
         \/ MoveOne(s) \/ Moved(s)
  PROVE  AimedInv'
<1>1. ASSUME NEW r, Proceed(s, r), r.pc \notin {"cascade", "shift"} PROVE AimedInv'
  <2>1. Aimed(r, board') BY <1>1 DEF Aimed
  <2> QED BY <1>1, <2>1, StepAims
<1>2. CASE SetColumns(s) \/ Answer(s) \/ Drop(s) \/ Detached(s) \/ Moved(s)
  <2>1. Proceed(s, Idle) /\ Idle.pc = "idle" BY <1>2 DEF SetColumns, Answer, Drop, Detached, Moved, Idle
  <2> QED BY <1>1, <2>1
<1>3. CASE Orphans(s)
  <2>1. PICK r : Proceed(s, r) /\ r.pc = "clear" BY <1>3 DEF Orphans
  <2> QED BY <1>1, <2>1
<1>4. CASE Strip(s) \/ ClearApp(s) \/ MoveOne(s)
  <2>1. PICK todo : Proceed(s, [req[s] EXCEPT !.todo = todo]) BY <1>4 DEF Strip, ClearApp, MoveOne
  <2>2. PICK r : r = [req[s] EXCEPT !.todo = todo] OBVIOUS
  <2>3. Proceed(s, r) /\ r.pc \notin {"cascade", "shift"} BY <1>4, <2>1, <2>2 DEF Strip, ClearApp, MoveOne, At
  <2> QED BY <1>1, <2>3
<1> QED BY <1>2, <1>3, <1>4

LEMMA NextAims ==
  ASSUME OneRequest, AimedInv, [BoardNext]_boardVars
  PROVE  AimedInv'
<1>1. TypedInv /\ TypedInv' BY NextTypes DEF AimedInv
<1>2. CASE UNCHANGED boardVars
  <2>1. board' = board /\ req' = req BY <1>2 DEF boardVars
  <2>2. \A s \in Slots : Aimed(req[s], board) BY DEF AimedInv
  <2>3. \A s \in Slots : Aimed(req'[s], board') BY <2>1, <2>2
  <2>4. (\A s \in Slots : Aimed(req[s], board))' BY <2>3 DEF Aimed, Aims, Leads, Clear, One
  <2> QED BY <1>1, <2>4 DEF AimedInv
<1>3. CASE Crash
  <2>1. \A s \in Slots : req'[s] = Idle BY <1>3 DEF Crash
  <2>2. (\A s \in Slots : Aimed(req[s], board))' BY <2>1 DEF Aimed, Idle
  <2> QED BY <1>1, <2>2 DEF AimedInv
<1>4. ASSUME NEW s \in Slots, Call(s) PROVE AimedInv' BY <1>1, <1>4, CallsAim
<1>5. ASSUME NEW s \in Slots, Handle(s) PROVE AimedInv'
  BY <1>1, <1>5, EditsAim, ApplyCascadeAims, ShiftAims, RestAim DEF Handle
<1> QED BY <1>2, <1>3, <1>4, <1>5 DEF BoardNext

LEMMA AimedPush == ASSUME AimedInv PROVE PushIsSound
<1> SUFFICES ASSUME NEW s \in Slots, At(s, "shift"), req[s].todo = <<>>
             PROVE  /\ board[req[s].root].start # NoDay =>
                         \A c \in Dependents(req[s].root) :
                           board[c].start # NoDay => board[c].start >= CascadeEnd(board[req[s].root])
                    /\ One(board) =>
                         /\ \A d \in req[s].moved : \A c \in Dependents(d) :
                              board[c].start # NoDay => board[c].start >= CascadeEnd(board[d])
                         /\ \A c \in req[s].moved : \A d \in board[c].deps : board[c].start = CascadeEnd(board[d])
  BY DEF PushIsSound, DependentsClear, PushIsExact, One
<1>1. PICK b, root, moved : b = board /\ root = req[s].root /\ moved = req[s].moved OBVIOUS
<1>2. PICK S \in [DOMAIN b -> Day] :
        /\ Leads(S, b, root, moved)
        /\ \A c \in DOMAIN b : S[c] # b[c].start => \E i \in DOMAIN req[s].todo : req[s].todo[i].card = c
  BY <1>1 DEF AimedInv, Aimed, Aims, At
<1>3. \A c \in DOMAIN b : S[c] = b[c].start BY <1>2
<1>4. root \in DOMAIN b /\ moved \subseteq DOMAIN b BY <1>2 DEF Leads
<1>5. \A c \in DOMAIN b : b[c].deps \subseteq DOMAIN b BY <1>1 DEF AimedInv, TypedInv, BoardInv, DepsSound
<1>6. ASSUME NEW d \in DOMAIN b, Clear(S, b, d), NEW c \in Dependents(d), b[c].start # NoDay
      PROVE  b[c].start >= CascadeEnd(b[d])
  BY <1>1, <1>3, <1>6 DEF Clear, Dependents, CascadeEnd
<1>7. b[root].start # NoDay => Clear(S, b, root) BY <1>2, <1>3, <1>4 DEF Leads
<1>8. ASSUME One(b), NEW d \in moved
      PROVE  Clear(S, b, d) /\ \A e \in b[d].deps : b[d].start = CascadeEnd(b[e])
  BY <1>2, <1>3, <1>4, <1>5, <1>8 DEF Leads, CascadeEnd
<1> QED BY <1>1, <1>4, <1>6, <1>7, <1>8

\* When the push of applyCascade (server/plan/taskOps.ts) has been written, the
\* edited card's dependents start no earlier than it ends; and where each card
\* waits for one other at most, every card that moved starts the day its
\* dependency ends, with its own dependents clear of it.
THEOREM PushStands == OneRequest => (BoardSpec => []PushIsSound)
<1> SUFFICES ASSUME OneRequest PROVE BoardSpec => []PushIsSound OBVIOUS
<1>1. BoardInit => AimedInv
  <2> SUFFICES ASSUME BoardInit PROVE AimedInv OBVIOUS
  <2>1. \A s \in Slots : req[s] = Idle BY DEF BoardInit
  <2> QED BY <2>1, InitTypes DEF AimedInv, Aimed, Idle
<1>2. AimedInv /\ [BoardNext]_boardVars => AimedInv' BY NextAims
<1>3. AimedInv => PushIsSound BY AimedPush
<1> QED BY <1>1, <1>2, <1>3, PTL DEF BoardSpec
-----------------------------------------------------------------------------
\* What the critical_path action reads: a board where nothing waits for itself
\* or for a card that is gone.
Acyclic(b) ==
  /\ IsFiniteSet(DOMAIN b) /\ DOMAIN b \subseteq Nat
  /\ \A c \in DOMAIN b : b[c].deps \subseteq DOMAIN b
  /\ NoLoop(DepsOf(b))

\* While cards are left, one of them waits for none that is left: the one that
\* reaches the fewest.
LEMMA SomeReady ==
  ASSUME NEW b, Acyclic(b), NEW P \in SUBSET DOMAIN b, P # DOMAIN b
  PROVE  \E c \in DOMAIN b \ P : b[c].deps \subseteq P
<1>1. PICK D : D = DepsOf(b) OBVIOUS
<1>2. DOMAIN D = DOMAIN b /\ \A c \in DOMAIN b : D[c] = b[c].deps BY <1>1 DEF DepsOf
<1>3. IsFiniteSet(DOMAIN D) BY <1>2 DEF Acyclic
<1> DEFINE R(c) == Reached(D, D[c])
<1>4. \A c \in DOMAIN b : D[c] \subseteq R(c) /\ Closed(D, R(c)) /\ \A C : D[c] \subseteq C /\ Closed(D, C) => R(c) \subseteq C
  BY <1>3, ReachedIs
<1>5. \A c \in DOMAIN b : c \notin R(c) BY <1>1, <1>2 DEF Acyclic, NoLoop
<1> HIDE DEF R
<1>6. \A c \in DOMAIN b : R(c) \subseteq DOMAIN b
  <2>1. Closed(D, DOMAIN b) /\ \A c \in DOMAIN b : D[c] \subseteq DOMAIN b BY <1>2 DEF Acyclic, Closed
  <2> QED BY <1>4, <2>1
<1>7. \A c \in DOMAIN b : IsFiniteSet(R(c)) /\ Cardinality(R(c)) \in Nat
  <2> SUFFICES ASSUME NEW c \in DOMAIN b PROVE IsFiniteSet(R(c)) /\ Cardinality(R(c)) \in Nat OBVIOUS
  <2>1. IsFiniteSet(R(c)) BY <1>6, FS_Subset DEF Acyclic
  <2> QED BY <2>1, FS_CardinalityType
<1>8. PICK N : N = {Cardinality(R(c)) : c \in DOMAIN b \ P} OBVIOUS
<1>9. N \in SUBSET Nat /\ N # {} BY <1>7, <1>8
<1>10. PICK c \in DOMAIN b \ P : \A d \in DOMAIN b \ P : Cardinality(R(c)) <= Cardinality(R(d))
  <2>1. Min(N) \in N /\ \A n \in N : Min(N) <= n BY <1>9, LeastIs
  <2> QED BY <1>8, <2>1
<1>11. b[c].deps \subseteq P
  <2> SUFFICES ASSUME NEW d \in b[c].deps, d \notin P PROVE FALSE OBVIOUS
  <2>1. d \in DOMAIN b \ P BY DEF Acyclic
  <2>2. d \in R(c) /\ D[d] \subseteq R(c) /\ Closed(D, R(c)) BY <1>2, <1>4, <2>1 DEF Closed
  <2>3. R(d) \subseteq R(c) /\ d \notin R(d) BY <1>4, <1>5, <2>1, <2>2
  <2>4. Cardinality(R(d)) <= Cardinality(R(c)) /\ Cardinality(R(d)) # Cardinality(R(c))
    BY <1>7, <2>2, <2>3, FS_Subset
  <2>5. Cardinality(R(d)) \in Nat /\ Cardinality(R(c)) \in Nat /\ Cardinality(R(c)) <= Cardinality(R(d))
    BY <1>7, <1>10, <2>1
  <2> QED BY <2>4, <2>5
<1> QED BY <1>11

\* An order of cards: none twice, and what a card waits for before it.
Sorts(o, b) ==
  /\ o \in Seq(DOMAIN b)
  /\ \A i, j \in 1..Len(o) : o[i] = o[j] => i = j
  /\ \A i \in 1..Len(o) : \A d \in b[o[i]].deps : \E j \in 1..(i - 1) : o[j] = d
SortsAll(o, b) == Sorts(o, b) /\ \A c \in DOMAIN b : \E i \in 1..Len(o) : o[i] = c

LEMMA DistinctCount ==
  ASSUME NEW D, NEW o \in Seq(D), \A i, j \in 1..Len(o) : o[i] = o[j] => i = j
  PROVE  Cardinality(Range(o)) = Len(o) /\ Range(o) \subseteq D
<1>1. Len(o) \in Nat /\ DOMAIN o = 1..Len(o) /\ \A i \in 1..Len(o) : o[i] \in D OBVIOUS
<1>2. Range(o) = {o[i] : i \in 1..Len(o)} BY <1>1 DEF Range
<1>3. o \in [1..Len(o) -> Range(o)] BY <1>1, <1>2
<1>4. o \in Bijection(1..Len(o), Range(o)) BY <1>2, <1>3 DEF Bijection, Injection, Surjection, IsInjective
<1>5. ExistsBijection(1..Len(o), Range(o)) BY <1>4 DEF ExistsBijection
<1> QED BY <1>1, <1>2, <1>5, FS_CountingElements

ReadyIn(b, placed) == {c \in DOMAIN b \ placed : (b[c].deps \cap DOMAIN b) \ {c} \subseteq placed}
PlaceIn(b, order) ==
  LET ready == ReadyIn(b, Range(order)) IN IF ready = {} THEN order ELSE Append(order, Min(ready))

LEMMA PlaceIs ==
  ASSUME NEW b, Acyclic(b), NEW o, Sorts(o, b)
  PROVE  /\ PlaceIn(b, o) \in Seq(DOMAIN b)
         /\ Sorts(PlaceIn(b, o), b)
         /\ Range(o) # DOMAIN b => Len(PlaceIn(b, o)) = Len(o) + 1
<1> DEFINE ready == ReadyIn(b, Range(o))
<1>1. o \in Seq(DOMAIN b) /\ Len(o) \in Nat BY DEF Sorts
<1>2. Range(o) = {o[i] : i \in 1..Len(o)} BY <1>1 DEF Range
<1>3. Range(o) \in SUBSET DOMAIN b BY <1>1, <1>2
<1>4. Range(o) # DOMAIN b => ready # {}
  <2> SUFFICES ASSUME Range(o) # DOMAIN b PROVE ready # {} OBVIOUS
  <2>1. PICK c \in DOMAIN b \ Range(o) : b[c].deps \subseteq Range(o) BY <1>3, SomeReady
  <2> QED BY <2>1 DEF ReadyIn
<1>5. CASE ready = {}
  <2>1. PlaceIn(b, o) = o BY <1>5 DEF PlaceIn
  <2> HIDE DEF ready
  <2> QED BY <1>1, <1>4, <1>5, <2>1
<1>6. CASE ready # {}
  <2>1. ready \in SUBSET Nat BY DEF ReadyIn, Acyclic
  <2>2. PICK c : c = Min(ready) OBVIOUS
  <2>3. c \in ready
    <3> HIDE DEF ready
    <3> QED BY <1>6, <2>1, <2>2, LeastIs
  <2>4. c \in DOMAIN b \ Range(o) BY <2>3 DEF ReadyIn
  <2>5. b[c].deps \subseteq Range(o)
    <3> SUFFICES ASSUME NEW d \in b[c].deps PROVE d \in Range(o) OBVIOUS
    <3>1. d \in DOMAIN b BY <2>4 DEF Acyclic
    <3>2. d # c
      <4>1. c \notin Reached(DepsOf(b), DepsOf(b)[c]) BY <2>4 DEF Acyclic, NoLoop, DepsOf
      <4>2. IsFiniteSet(DOMAIN DepsOf(b)) /\ DepsOf(b)[c] = b[c].deps BY <2>4 DEF Acyclic, DepsOf
      <4>3. DepsOf(b)[c] \subseteq Reached(DepsOf(b), DepsOf(b)[c]) BY <4>2, ReachedIs
      <4> QED BY <4>1, <4>2, <4>3
    <3> QED BY <2>3, <3>1, <3>2 DEF ReadyIn
  <2>6. PICK p : p = Append(o, c) OBVIOUS
  <2>7. PlaceIn(b, o) = p BY <1>6, <2>2, <2>6 DEF PlaceIn
  <2>8. /\ p \in Seq(DOMAIN b) /\ Len(p) = Len(o) + 1
        /\ \A i \in 1..Len(o) : p[i] = o[i]
        /\ p[Len(o) + 1] = c
    BY <1>1, <2>4, <2>6
  <2>9. \A i, j \in 1..Len(p) : p[i] = p[j] => i = j
    <3> SUFFICES ASSUME NEW i \in 1..Len(p), NEW j \in 1..Len(p), p[i] = p[j] PROVE i = j OBVIOUS
    <3>1. i \in 1..Len(o) \/ i = Len(o) + 1 BY <1>1, <2>8
    <3>2. j \in 1..Len(o) \/ j = Len(o) + 1 BY <1>1, <2>8
    <3>3. \A k \in 1..Len(o) : p[k] # c BY <1>2, <2>4, <2>8
    <3> QED BY <2>8, <3>1, <3>2, <3>3 DEF Sorts
  <2>10. \A i \in 1..Len(p) : \A d \in b[p[i]].deps : \E j \in 1..(i - 1) : p[j] = d
    <3> SUFFICES ASSUME NEW i \in 1..Len(p), NEW d \in b[p[i]].deps PROVE \E j \in 1..(i - 1) : p[j] = d OBVIOUS
    <3>1. CASE i \in 1..Len(o)
      <4>1. PICK j \in 1..(i - 1) : o[j] = d BY <2>8, <3>1 DEF Sorts
      <4>2. j \in 1..Len(o) BY <1>1, <3>1
      <4> QED BY <2>8, <4>1, <4>2
    <3>2. CASE i = Len(o) + 1
      <4>1. PICK j \in 1..Len(o) : o[j] = d BY <1>2, <2>5, <2>8, <3>2
      <4> QED BY <1>1, <2>8, <3>2, <4>1
    <3> QED BY <1>1, <2>8, <3>1, <3>2
  <2> HIDE DEF ready
  <2> QED BY <2>7, <2>8, <2>9, <2>10 DEF Sorts
<1> HIDE DEF ready
<1> QED BY <1>5, <1>6

LEMMA TopoRuns ==
  ASSUME NEW b, Acyclic(b)
  PROVE  \E o : Sorts(o, b) /\ Range(o) = DOMAIN b /\ TopoOrder(b) = o \o ById(DOMAIN b \ Range(o))
<1>1. PICK n : n = Cardinality(DOMAIN b) OBVIOUS
<1>2. n \in Nat BY <1>1, FS_CardinalityType DEF Acyclic
<1>3. PICK V : V = {o \in Seq(DOMAIN b) : Sorts(o, b)} OBVIOUS
<1>4. \A o \in V : PlaceIn(b, o) \in V BY <1>3, PlaceIs
<1>5. <<>> \in V
  <2>1. <<>> \in Seq(DOMAIN b) /\ Len(<<>>) = 0 /\ 1..0 = {} OBVIOUS
  <2>2. Sorts(<<>>, b) BY <2>1 DEF Sorts
  <2> QED BY <1>3, <2>1, <2>2
<1> DEFINE F == [p \in V \X (1..n) |-> PlaceIn(b, p[1])]
<1>6. F \in [V \X (1..n) -> V] BY <1>4
<1>7. PICK h \in [SUBSET (1..n) -> V] : FoldsBy(h, n, <<>>, F)
  <2> HIDE DEF F
  <2> QED BY <1>2, <1>5, <1>6, FoldExists
<1> DEFINE P(it) == it = [s \in SUBSET (1..n) |-> IF s = {} THEN <<>> ELSE PlaceIn(b, it[s \ {Max(s)}])]
<1>8. P(h)
  <2>1. \A s \in SUBSET (1..n) : h[s] = IF s = {} THEN <<>> ELSE PlaceIn(b, h[s \ {Max(s)}])
    <3> SUFFICES ASSUME NEW s \in SUBSET (1..n), s # {} PROVE h[s] = PlaceIn(b, h[s \ {Max(s)}])
      BY <1>7 DEF FoldsBy
    <3>1. Max(s) \in 1..n BY <1>2, GreatestIs
    <3>2. h[s \ {Max(s)}] \in V OBVIOUS
    <3> QED BY <1>7, <3>1, <3>2 DEF FoldsBy
  <2> QED BY <2>1
<1>9. PICK it : it = (CHOOSE g : P(g)) OBVIOUS
<1>10. P(it) BY <1>8, <1>9
<1>11. PICK o : o = it[1..n] OBVIOUS
<1>12. TopoOrder(b) = o \o ById(DOMAIN b \ Range(o))
  BY <1>1, <1>2, <1>9, <1>11 DEF TopoOrder, FoldLeft, MapThenFoldSet, PlaceIn, ReadyIn
<1>13. FoldsWithin(V, n, <<>>, F, it)
  <2>1. it[{}] = <<>> BY <1>10
  <2>2. ASSUME NEW s \in SUBSET (1..n), s # {}, it[s \ {Max(s)}] \in V
        PROVE  it[s] = F[<<it[s \ {Max(s)}], Max(s)>>]
    <3>1. Max(s) \in 1..n BY <1>2, <2>2, GreatestIs
    <3> QED BY <1>10, <2>2, <3>1
  <2> HIDE DEF F, P
  <2> QED BY <2>1, <2>2 DEF FoldsWithin
<1>14. PICK chain \in [0..n -> V] : ChainOf(chain, n, <<>>, F, it[1..n])
  <2> HIDE DEF F, P
  <2> QED BY <1>2, <1>5, <1>6, <1>13, FoldRuns
<1>15. chain[0] = <<>> /\ chain[n] = o BY <1>11, <1>14 DEF ChainOf
<1>16. \A k \in 0..(n - 1) : chain[k + 1] = PlaceIn(b, chain[k])
  <2>1. \A k \in 0..(n - 1) : <<chain[k], k + 1>> \in V \X (1..n) BY <1>2
  <2> QED BY <1>14, <2>1 DEF ChainOf
<1> HIDE DEF F, P
<1>17. \A k \in 0..n : Sorts(chain[k], b) /\ Cardinality(Range(chain[k])) = Len(chain[k])
                       /\ Range(chain[k]) \subseteq DOMAIN b
  <2> SUFFICES ASSUME NEW k \in 0..n
               PROVE  Sorts(chain[k], b) /\ Cardinality(Range(chain[k])) = Len(chain[k]) /\ Range(chain[k]) \subseteq DOMAIN b
    OBVIOUS
  <2>1. Sorts(chain[k], b) BY <1>3
  <2> QED BY <2>1, DistinctCount DEF Sorts
<1> DEFINE S == {k \in 0..n : Len(chain[k]) = k}
<1>18. 0 \in S BY <1>2, <1>15
<1>19. \A k \in 0..(n - 1) : k \in S => k + 1 \in S
  <2> SUFFICES ASSUME NEW k \in 0..(n - 1), k \in S PROVE k + 1 \in S OBVIOUS
  <2>1. k \in 0..n /\ k + 1 \in 0..n /\ Len(chain[k]) = k BY <1>2
  <2>2. Range(chain[k]) # DOMAIN b BY <1>1, <1>2, <1>17, <2>1
  <2> QED BY <1>16, <1>17, <2>1, <2>2, PlaceIs
<1>20. Len(o) = n
  <2> HIDE DEF S
  <2>1. n \in S
    <3>1. \A k \in 0..n : k \in S BY <1>2, <1>18, <1>19, CountingTo
    <3> QED BY <1>2, <3>1
  <2> QED BY <1>15, <2>1 DEF S
<1>21. Sorts(o, b) /\ Range(o) = DOMAIN b
  <2>1. n \in 0..n BY <1>2
  <2>2. Sorts(o, b) /\ Cardinality(Range(o)) = Len(o) /\ Range(o) \subseteq DOMAIN b BY <1>15, <1>17, <2>1
  <2> QED BY <1>1, <1>20, <2>2, FS_Subset DEF Acyclic
<1> QED BY <1>12, <1>21

LEMMA TopoIs == ASSUME NEW b, Acyclic(b) PROVE SortsAll(TopoOrder(b), b)
<1>1. PICK o : Sorts(o, b) /\ Range(o) = DOMAIN b /\ TopoOrder(b) = o \o ById(DOMAIN b \ Range(o)) BY TopoRuns
<1>2. DOMAIN b \ Range(o) = {} /\ Cardinality({}) = 0 /\ 1..0 = {} BY <1>1, FS_EmptySet
<1>3. ById({}) = <<>> BY <1>2 DEF ById
<1>4. o \in Seq(DOMAIN b) BY <1>1 DEF Sorts
<1>5. TopoOrder(b) = o
  <2>1. TopoOrder(b) = o \o <<>> BY <1>1, <1>2, <1>3
  <2> QED BY <1>4, <2>1
<1>6. Range(o) = {o[i] : i \in 1..Len(o)} BY <1>4 DEF Range
<1> QED BY <1>1, <1>5, <1>6 DEF SortsAll
-----------------------------------------------------------------------------
\* A pass over an order of the cards, as a Map that gets a number for each in
\* turn, worked out of the numbers before it: W says what from what.
Maps(D) == UNION {[S -> Int] : S \in SUBSET D}

Worths(D) == [Maps(D) \X D -> Int]

NotesBy(it, D, o, W) ==
  /\ it[{}] = <<>>
  /\ \A s \in SUBSET (1..Len(o)) :
       s # {} /\ it[s \ {Max(s)}] \in Maps(D) =>
         it[s] = Noted(it[s \ {Max(s)}], o[Max(s)], W[<<it[s \ {Max(s)}], o[Max(s)]>>])

LEMMA NotedIs ==
  ASSUME NEW D, NEW m \in Maps(D), NEW c \in D, NEW v \in Int
  PROVE  Noted(m, c, v) \in Maps(D)
<1>1. PICK S \in SUBSET D : m \in [S -> Int] BY DEF Maps
<1>2. Noted(m, c, v) \in [S \cup {c} -> Int] BY <1>1 DEF Noted
<1> QED BY <1>2 DEF Maps

LEMMA MapIs ==
  ASSUME NEW D, NEW m \in Maps(D)
  PROVE  m = [d \in DOMAIN m |-> m[d]] /\ \A d \in DOMAIN m : m[d] \in Int
<1>1. PICK S \in SUBSET D : m \in [S -> Int] BY DEF Maps
<1> QED BY <1>1

Turning(D, o, W) == [p \in Maps(D) \X (1..Len(o)) |-> Noted(p[1], o[p[2]], W[<<p[1], o[p[2]]>>])]

LEMMA NotesStart ==
  ASSUME NEW D, NEW o \in Seq(D), NEW W \in Worths(D)
  PROVE  /\ Len(o) \in Nat /\ <<>> \in Maps(D)
         /\ Turning(D, o, W) \in [Maps(D) \X (1..Len(o)) -> Maps(D)]
<1>1. Len(o) \in Nat /\ \A i \in 1..Len(o) : o[i] \in D OBVIOUS
<1>2. ASSUME NEW m \in Maps(D), NEW i \in 1..Len(o) PROVE Noted(m, o[i], W[<<m, o[i]>>]) \in Maps(D)
  <2>1. W[<<m, o[i]>>] \in Int BY <1>1 DEF Worths
  <2> QED BY <1>1, <2>1, NotedIs
<1>3. <<>> \in [{} -> Int] OBVIOUS
<1> QED BY <1>1, <1>2, <1>3 DEF Maps, Turning

Notes(h, D, o, W) ==
  /\ h \in [SUBSET (1..Len(o)) -> Maps(D)]
  /\ \A s \in SUBSET (1..Len(o)) :
       /\ s # {} => Max(s) \in 1..Len(o) /\ o[Max(s)] \in D /\ s \ {Max(s)} \in SUBSET (1..Len(o))
       /\ h[s] = IF s = {} THEN <<>>
                 ELSE Noted(h[s \ {Max(s)}], o[Max(s)], W[<<h[s \ {Max(s)}], o[Max(s)]>>])

LEMMA NotesExist ==
  ASSUME NEW D, NEW o \in Seq(D), NEW W \in Worths(D)
  PROVE  \E h : Notes(h, D, o, W)
<1>1. PICK F : F = Turning(D, o, W) OBVIOUS
<1>2. Len(o) \in Nat /\ F \in [Maps(D) \X (1..Len(o)) -> Maps(D)] /\ <<>> \in Maps(D) BY <1>1, NotesStart
<1>3. PICK h \in [SUBSET (1..Len(o)) -> Maps(D)] : FoldsBy(h, Len(o), <<>>, F) BY <1>2, FoldExists
<1>4. ASSUME NEW s \in SUBSET (1..Len(o))
      PROVE  /\ s # {} => Max(s) \in 1..Len(o) /\ o[Max(s)] \in D /\ s \ {Max(s)} \in SUBSET (1..Len(o))
             /\ h[s] = IF s = {} THEN <<>>
                       ELSE Noted(h[s \ {Max(s)}], o[Max(s)], W[<<h[s \ {Max(s)}], o[Max(s)]>>])
  <2>1. CASE s = {} BY <1>3, <2>1 DEF FoldsBy
  <2>2. CASE s # {}
    <3>1. Max(s) \in 1..Len(o) BY <1>2, <2>2, GreatestIs
    <3>2. \A i \in 1..Len(o) : o[i] \in D OBVIOUS
    <3>3. h[s \ {Max(s)}] \in Maps(D) /\ o[Max(s)] \in D /\ s \ {Max(s)} \in SUBSET (1..Len(o)) BY <3>1, <3>2
    <3>4. h[s] = F[<<h[s \ {Max(s)}], Max(s)>>] BY <1>3, <2>2 DEF FoldsBy
    <3> QED BY <1>1, <2>2, <3>1, <3>3, <3>4 DEF Turning
  <2> QED BY <2>1, <2>2
<1> QED BY <1>4 DEF Notes

Runs(chain, D, o, W, last) ==
  /\ chain \in [0..Len(o) -> Maps(D)] /\ chain[0] = <<>> /\ chain[Len(o)] = last
  /\ \A k \in 0..(Len(o) - 1) : chain[k + 1] = Noted(chain[k], o[k + 1], W[<<chain[k], o[k + 1]>>])

LEMMA NotesChain ==
  ASSUME NEW D, NEW o \in Seq(D), NEW W \in Worths(D), NEW it, NotesBy(it, D, o, W)
  PROVE  \E chain : Runs(chain, D, o, W, it[1..Len(o)])
<1>1. PICK F : F = Turning(D, o, W) OBVIOUS
<1>2. Len(o) \in Nat /\ F \in [Maps(D) \X (1..Len(o)) -> Maps(D)] /\ <<>> \in Maps(D) BY <1>1, NotesStart
<1>3. FoldsWithin(Maps(D), Len(o), <<>>, F, it)
  <2>1. it[{}] = <<>> BY DEF NotesBy
  <2>2. ASSUME NEW s \in SUBSET (1..Len(o)), s # {}, it[s \ {Max(s)}] \in Maps(D)
        PROVE  it[s] = F[<<it[s \ {Max(s)}], Max(s)>>]
    <3>1. Max(s) \in 1..Len(o) BY <1>2, <2>2, GreatestIs
    <3>2. it[s] = Noted(it[s \ {Max(s)}], o[Max(s)], W[<<it[s \ {Max(s)}], o[Max(s)]>>]) BY <2>2 DEF NotesBy
    <3> QED BY <1>1, <2>2, <3>1, <3>2 DEF Turning
  <2> QED BY <2>1, <2>2 DEF FoldsWithin
<1>4. PICK chain \in [0..Len(o) -> Maps(D)] : ChainOf(chain, Len(o), <<>>, F, it[1..Len(o)])
  BY <1>2, <1>3, FoldRuns
<1>5. chain[0] = <<>> /\ chain[Len(o)] = it[1..Len(o)] BY <1>4 DEF ChainOf
<1>6. \A k \in 0..(Len(o) - 1) : chain[k + 1] = Noted(chain[k], o[k + 1], W[<<chain[k], o[k + 1]>>])
  <2>1. \A k \in 0..(Len(o) - 1) : <<chain[k], k + 1>> \in Maps(D) \X (1..Len(o))
    <3> SUFFICES ASSUME NEW k \in 0..(Len(o) - 1) PROVE chain[k] \in Maps(D) /\ k + 1 \in 1..Len(o) OBVIOUS
    <3>1. k \in 0..Len(o) /\ k + 1 \in 1..Len(o) BY <1>2
    <3> QED BY <3>1
  <2> QED BY <1>1, <1>4, <2>1 DEF ChainOf, Turning
<1> QED BY <1>5, <1>6 DEF Runs

\* Each member of D once.
Lists(o, D) ==
  /\ o \in Seq(D) /\ \A i, j \in 1..Len(o) : o[i] = o[j] => i = j
  /\ \A c \in D : \E i \in 1..Len(o) : o[i] = c

\* Every number is worked out of those before it.
Filled(e, D, o, W) ==
  /\ e \in [D -> Int]
  /\ \A i \in 1..Len(o) : \E m \in Maps(D) :
       m = [d \in {o[j] : j \in 1..(i - 1)} |-> e[d]] /\ e[o[i]] = W[<<m, o[i]>>]

LEMMA NotesKept ==
  ASSUME NEW D, NEW o, Lists(o, D), NEW W \in Worths(D), NEW e, NEW chain, Runs(chain, D, o, W, e)
  PROVE  Filled(e, D, o, W)
<1>1. PICK n : n = Len(o) OBVIOUS
<1>2. n \in Nat BY <1>1 DEF Lists
<1>3. /\ chain \in [0..n -> Maps(D)] /\ chain[0] = <<>> /\ chain[n] = e
      /\ \A k \in 0..(n - 1) : chain[k + 1] = Noted(chain[k], o[k + 1], W[<<chain[k], o[k + 1]>>])
  BY <1>1 DEF Runs
<1>4. \A k \in 0..n : chain[k] = [d \in DOMAIN chain[k] |-> chain[k][d]] /\ \A d \in DOMAIN chain[k] : chain[k][d] \in Int
  BY <1>3, MapIs
<1> DEFINE G == {k \in 0..n : /\ DOMAIN chain[k] = {o[j] : j \in 1..k}
                             /\ \A j \in 1..k : chain[k][o[j]] = chain[j][o[j]]}
<1>5. 0 \in G
  <2>1. 1..0 = {} /\ DOMAIN <<>> = {} OBVIOUS
  <2> QED BY <1>2, <1>3, <2>1
<1>6. \A k \in 0..(n - 1) : k \in G => k + 1 \in G
  <2> SUFFICES ASSUME NEW k \in 0..(n - 1), k \in G PROVE k + 1 \in G OBVIOUS
  <2>1. k \in Nat /\ k + 1 \in 1..n /\ k + 1 \in 0..n BY <1>2
  <2>2. chain[k + 1] = Noted(chain[k], o[k + 1], W[<<chain[k], o[k + 1]>>]) BY <1>3
  <2>3. 1..(k + 1) = (1..k) \cup {k + 1} BY <2>1
  <2>4. DOMAIN chain[k + 1] = {o[j] : j \in 1..(k + 1)} BY <2>2, <2>3 DEF Noted
  <2>5. ASSUME NEW j \in 1..(k + 1) PROVE chain[k + 1][o[j]] = chain[j][o[j]]
    <3>1. CASE j = k + 1 BY <3>1
    <3>2. CASE j # k + 1
      <4>1. j \in 1..k BY <2>3, <3>2
      <4>5. j \in 1..n BY <1>2, <2>1, <4>1
      <4>2. o[j] # o[k + 1] BY <1>1, <2>1, <3>2, <4>5 DEF Lists
      <4>3. o[j] \in DOMAIN chain[k] /\ chain[k][o[j]] = chain[j][o[j]] BY <4>1
      <4> QED BY <2>2, <4>2, <4>3 DEF Noted
    <3> QED BY <3>1, <3>2
  <2> QED BY <2>1, <2>4, <2>5
<1> HIDE DEF G
<1>7. \A k \in 0..n : k \in G BY <1>2, <1>5, <1>6, CountingTo
<1>8. \A k \in 0..n : DOMAIN chain[k] = {o[j] : j \in 1..k} /\ \A j \in 1..k : chain[k][o[j]] = chain[j][o[j]]
  BY <1>7 DEF G
<1>9. e \in [D -> Int]
  <2>1. n \in 0..n BY <1>2
  <2>2. DOMAIN chain[n] = D
    <3>1. DOMAIN chain[n] = {o[j] : j \in 1..Len(o)} BY <1>1, <1>8, <2>1
    <3>2. \A j \in 1..Len(o) : o[j] \in D BY DEF Lists
    <3> QED BY <3>1, <3>2 DEF Lists
  <2>3. chain[n] = [d \in DOMAIN chain[n] |-> chain[n][d]] /\ \A d \in DOMAIN chain[n] : chain[n][d] \in Int
    BY <1>4, <2>1
  <2>4. chain[n] \in [D -> Int] BY <2>2, <2>3
  <2> QED BY <1>3, <2>4
<1>10. ASSUME NEW i \in 1..n
       PROVE  \E m \in Maps(D) : m = [d \in {o[j] : j \in 1..(i - 1)} |-> e[d]] /\ e[o[i]] = W[<<m, o[i]>>]
  <2>1. i \in 0..n /\ i - 1 \in 0..n /\ i - 1 \in 0..(n - 1) /\ n \in 0..n /\ (i - 1) + 1 = i BY <1>2
  <2>2. chain[i] = Noted(chain[i - 1], o[i], W[<<chain[i - 1], o[i]>>]) BY <1>3, <2>1
  <2>3. chain[i][o[i]] = W[<<chain[i - 1], o[i]>>] BY <2>2 DEF Noted
  <2>4. e[o[i]] = chain[i][o[i]] BY <1>3, <1>8, <2>1
  <2>5. \A j \in 1..(i - 1) : chain[i - 1][o[j]] = e[o[j]]
    <3> SUFFICES ASSUME NEW j \in 1..(i - 1) PROVE chain[i - 1][o[j]] = e[o[j]] OBVIOUS
    <3>1. j \in 1..n BY <1>2
    <3>2. chain[i - 1][o[j]] = chain[j][o[j]] BY <1>8, <2>1
    <3>3. chain[n][o[j]] = chain[j][o[j]] BY <1>8, <2>1, <3>1
    <3> QED BY <1>3, <3>2, <3>3
  <2>6. chain[i - 1] = [d \in {o[j] : j \in 1..(i - 1)} |-> e[d]]
    <3>1. DOMAIN chain[i - 1] = {o[j] : j \in 1..(i - 1)} BY <1>8, <2>1
    <3>2. chain[i - 1] = [d \in DOMAIN chain[i - 1] |-> chain[i - 1][d]] BY <1>4, <2>1
    <3>3. \A d \in {o[j] : j \in 1..(i - 1)} : chain[i - 1][d] = e[d]
      <4> SUFFICES ASSUME NEW j \in 1..(i - 1) PROVE chain[i - 1][o[j]] = e[o[j]] OBVIOUS
      <4> QED BY <2>5
    <3> QED BY <3>1, <3>2, <3>3
  <2>7. chain[i - 1] \in Maps(D) BY <1>3, <2>1
  <2> QED BY <2>3, <2>4, <2>6, <2>7
<1> QED BY <1>1, <1>9, <1>10 DEF Filled

LEMMA NotesRun ==
  ASSUME NEW D, NEW o, Lists(o, D), NEW W \in Worths(D), NEW it, NotesBy(it, D, o, W), NEW e, e = it[1..Len(o)]
  PROVE  Filled(e, D, o, W)
<1>1. o \in Seq(D) BY DEF Lists
<1>2. PICK chain : Runs(chain, D, o, W, e) BY <1>1, NotesChain
<1> QED BY <1>2, NotesKept
-----------------------------------------------------------------------------
\* The greatest and the least of a number and finitely many others.
Values(f, S) == {f[x] : x \in S}

LEMMA ValuesFinite ==
  ASSUME NEW S, IsFiniteSet(S), NEW f, NEW a
  PROVE  IsFiniteSet({a} \cup Values(f, S))
<1>1. PICK g : g = [x \in S |-> f[x]] OBVIOUS
<1>2. IsFiniteSet(DOMAIN g) BY <1>1
<1>3. IsFiniteSet(Range(g)) BY <1>2, ImageFinite
<1>4. Range(g) = Values(f, S) BY <1>1 DEF Range, Values
<1>5. IsFiniteSet(Values(f, S) \cup {a}) BY <1>3, <1>4, FS_AddElement
<1>6. Values(f, S) \cup {a} = {a} \cup Values(f, S) OBVIOUS
<1> QED BY <1>5, <1>6 DEF Runs

LEMMA MostOf ==
  ASSUME NEW S, IsFiniteSet(S), NEW f, \A x \in S : f[x] \in Int, NEW a \in Int, NEW t,
         t = Max({a} \cup Values(f, S))
  PROVE  t \in Int /\ t >= a /\ (\A x \in S : t >= f[x]) /\ (t = a \/ \E x \in S : t = f[x])
<1>1. PICK T : T = {a} \cup Values(f, S) OBVIOUS
<1>2. IsFiniteSet(T) BY <1>1, ValuesFinite
<1>3. T \subseteq Int /\ T # {} BY <1>1 DEF Values
<1>4. Max(T) \in T /\ \A n \in T : Max(T) >= n BY <1>2, <1>3, MaxIs
<1> QED BY <1>1, <1>3, <1>4 DEF Values

LEMMA LeastOf ==
  ASSUME NEW S, IsFiniteSet(S), NEW f, \A x \in S : f[x] \in Int, NEW a \in Int, NEW t,
         t = Min({a} \cup Values(f, S))
  PROVE  t \in Int /\ t <= a /\ (\A x \in S : t <= f[x]) /\ (t = a \/ \E x \in S : t = f[x])
<1>1. PICK g : g = [x \in S |-> 0 - f[x]] OBVIOUS
<1>2. \A x \in S : g[x] \in Int BY <1>1
<1>3. PICK z \in Int : z = 0 - a OBVIOUS
<1>4. PICK m : m = Max({z} \cup Values(g, S)) OBVIOUS
<1>5. m \in Int /\ m >= z /\ (\A x \in S : m >= g[x]) /\ (m = z \/ \E x \in S : m = g[x])
  BY <1>2, <1>4, MostOf
<1>6. PICK u \in Int : u = 0 - m BY <1>5
<1>7. u <= a /\ (\A x \in S : u <= f[x]) /\ (u = a \/ \E x \in S : u = f[x])
  BY <1>1, <1>3, <1>5, <1>6
<1>8. PICK T : T = {a} \cup Values(f, S) OBVIOUS
<1>9. T \subseteq Int /\ u \in T /\ \A n \in T : u <= n BY <1>7, <1>8 DEF Values
<1>10. \A k \in T : (\A n \in T : k <= n) <=> k = u BY <1>9
<1>11. Min(T) = u BY <1>9, <1>10 DEF Min
<1> QED BY <1>7, <1>8, <1>11

LEMMA GreaterOf ==
  ASSUME NEW a \in Int, NEW b \in Int PROVE Max({a, b}) = IF a >= b THEN a ELSE b
<1>1. IsFiniteSet({a, b})
  <2>1. IsFiniteSet({} \cup {a}) BY FS_EmptySet, FS_AddElement
  <2>2. IsFiniteSet(({} \cup {a}) \cup {b}) BY <2>1, FS_AddElement
  <2>3. ({} \cup {a}) \cup {b} = {a, b} OBVIOUS
  <2> QED BY <2>2, <2>3
<1>2. {a, b} \subseteq Int /\ {a, b} # {} OBVIOUS
<1>3. Max({a, b}) \in {a, b} /\ \A n \in {a, b} : Max({a, b}) >= n
  <2> DEFINE T == {a, b}
  <2>1. IsFiniteSet(T) /\ T \subseteq Int /\ T # {} BY <1>1, <1>2
  <2> HIDE DEF T
  <2>2. Max(T) \in T /\ \A n \in T : Max(T) >= n BY <2>1, MaxIs
  <2> QED BY <2>2 DEF T
<1> QED BY <1>3
-----------------------------------------------------------------------------
\* What a card is worth in each of the passes, by what is noted so far.
ChainWorth(b, m, c) == b[c].dur + Max({0} \cup {m[d] : d \in b[c].deps \cap DOMAIN m})
OwnStart(b, c) == IF b[c].start = NoDay THEN 0 ELSE b[c].start
StartWorth(b, m, c) ==
  Max({OwnStart(b, c)} \cup {m[d] + DurationDays(b[d]) : d \in b[c].deps \cap DOMAIN m})
LateWorth(b, es, m, c) ==
  Max({es[c], Min({Finish(b, es)} \cup {m[s] : s \in {s \in DOMAIN m : c \in b[s].deps}}) - DurationDays(b[c])})

Dated(b) == \A c \in DOMAIN b : b[c].dur \in Nat /\ b[c].start \in Int

LEMMA MapFinite ==
  ASSUME NEW D, IsFiniteSet(D), NEW m \in Maps(D)
  PROVE  IsFiniteSet(DOMAIN m) /\ DOMAIN m \subseteq D /\ \A d \in DOMAIN m : m[d] \in Int
<1>1. PICK S \in SUBSET D : m \in [S -> Int] BY DEF Maps
<1>2. IsFiniteSet(S) BY FS_Subset
<1> QED BY <1>1, <1>2

LEMMA CardDays == ASSUME NEW b, Dated(b), NEW c \in DOMAIN b PROVE DurationDays(b[c]) \in Nat \ {0}
BY DEF DurationDays, Dated

LEMMA ChainNumber ==
  ASSUME NEW b, Acyclic(b), Dated(b), NEW m \in Maps(DOMAIN b), NEW c \in DOMAIN b
  PROVE  /\ ChainWorth(b, m, c) \in Int
         /\ ChainWorth(b, m, c) >= b[c].dur
         /\ \A d \in b[c].deps \cap DOMAIN m : ChainWorth(b, m, c) >= b[c].dur + m[d]
         /\ \/ ChainWorth(b, m, c) = b[c].dur
            \/ \E d \in b[c].deps \cap DOMAIN m : ChainWorth(b, m, c) = b[c].dur + m[d]
<1>1. IsFiniteSet(DOMAIN m) /\ \A d \in DOMAIN m : m[d] \in Int BY MapFinite DEF Acyclic
<1>2. PICK S : S = b[c].deps \cap DOMAIN m OBVIOUS
<1>3. IsFiniteSet(S) BY <1>1, <1>2, FS_Subset
<1>4. PICK t : t = Max({0} \cup Values(m, S)) OBVIOUS
<1>5. \A d \in S : m[d] \in Int BY <1>1, <1>2
<1>6. t \in Int /\ t >= 0 /\ (\A d \in S : t >= m[d]) /\ (t = 0 \/ \E d \in S : t = m[d])
  BY <1>3, <1>4, <1>5, MostOf
<1>7. b[c].dur \in Nat BY DEF Dated
<1>8. ChainWorth(b, m, c) = b[c].dur + t BY <1>2, <1>4 DEF ChainWorth, Values
<1> QED BY <1>2, <1>5, <1>6, <1>7, <1>8

LEMMA StartNumber ==
  ASSUME NEW b, Acyclic(b), Dated(b), NEW m \in Maps(DOMAIN b), NEW c \in DOMAIN b
  PROVE  /\ StartWorth(b, m, c) \in Int
         /\ StartWorth(b, m, c) >= OwnStart(b, c)
         /\ \A d \in b[c].deps \cap DOMAIN m : StartWorth(b, m, c) >= m[d] + DurationDays(b[d])
         /\ \/ StartWorth(b, m, c) = OwnStart(b, c)
            \/ \E d \in b[c].deps \cap DOMAIN m : StartWorth(b, m, c) = m[d] + DurationDays(b[d])
<1>1. IsFiniteSet(DOMAIN m) /\ \A d \in DOMAIN m : m[d] \in Int BY MapFinite DEF Acyclic
<1>2. PICK S : S = b[c].deps \cap DOMAIN m OBVIOUS
<1>3. IsFiniteSet(S) BY <1>1, <1>2, FS_Subset
<1>4. PICK f : f = [d \in S |-> m[d] + DurationDays(b[d])] OBVIOUS
<1>5. \A d \in S : f[d] \in Int
  <2> SUFFICES ASSUME NEW d \in S PROVE m[d] + DurationDays(b[d]) \in Int BY <1>4
  <2>1. d \in DOMAIN b BY <1>2 DEF Acyclic
  <2>2. DurationDays(b[d]) \in Nat BY <2>1, CardDays
  <2> QED BY <1>1, <1>2, <2>2
<1>6. PICK a : a = OwnStart(b, c) OBVIOUS
<1>7. a \in Int BY <1>6 DEF OwnStart, Dated
<1>8. PICK t : t = Max({a} \cup Values(f, S)) OBVIOUS
<1>9. t \in Int /\ t >= a /\ (\A d \in S : t >= f[d]) /\ (t = a \/ \E d \in S : t = f[d])
  BY <1>3, <1>5, <1>7, <1>8, MostOf
<1>10. Values(f, S) = {m[d] + DurationDays(b[d]) : d \in S} BY <1>4 DEF Values
<1>11. StartWorth(b, m, c) = t BY <1>2, <1>6, <1>8, <1>10 DEF StartWorth
<1> QED BY <1>2, <1>4, <1>6, <1>9, <1>11

LEMMA LateNumber ==
  ASSUME NEW b, Acyclic(b), Dated(b), NEW es \in [DOMAIN b -> Int], Finish(b, es) \in Int,
         NEW m \in Maps(DOMAIN b), NEW c \in DOMAIN b
  PROVE  /\ LateWorth(b, es, m, c) \in Int
         /\ \E t \in Int :
              /\ LateWorth(b, es, m, c) = IF es[c] >= t - DurationDays(b[c]) THEN es[c] ELSE t - DurationDays(b[c])
              /\ t <= Finish(b, es) /\ \A s \in DOMAIN m : c \in b[s].deps => t <= m[s]
              /\ t = Finish(b, es) \/ \E s \in DOMAIN m : c \in b[s].deps /\ t = m[s]
<1>1. IsFiniteSet(DOMAIN m) /\ \A d \in DOMAIN m : m[d] \in Int BY MapFinite DEF Acyclic
<1>2. PICK S : S = {s \in DOMAIN m : c \in b[s].deps} OBVIOUS
<1>3. IsFiniteSet(S) BY <1>1, <1>2, FS_Subset
<1>4. PICK a \in Int : a = Finish(b, es) OBVIOUS
<1>5. \A s \in S : m[s] \in Int BY <1>1, <1>2
<1>6. PICK t : t = Min({a} \cup Values(m, S)) OBVIOUS
<1>7. t \in Int /\ t <= a /\ (\A s \in S : t <= m[s]) /\ (t = a \/ \E s \in S : t = m[s])
  BY <1>3, <1>5, <1>6, LeastOf
<1>8. DurationDays(b[c]) \in Nat BY CardDays
<1>9. PICK u \in Int : u = t - DurationDays(b[c]) BY <1>7, <1>8
<1>10. LateWorth(b, es, m, c) = Max({es[c], u}) BY <1>2, <1>4, <1>6, <1>9 DEF LateWorth, Values
<1>11. PICK v \in Int : v = es[c] OBVIOUS
<1>12. Max({v, u}) = IF v >= u THEN v ELSE u BY GreaterOf
<1> QED BY <1>2, <1>4, <1>7, <1>9, <1>10, <1>11, <1>12
-----------------------------------------------------------------------------
LEMMA SortedLists == ASSUME NEW b, NEW o, SortsAll(o, b) PROVE Lists(o, DOMAIN b)
BY DEF SortsAll, Sorts, Lists

LEMMA ReversedLists ==
  ASSUME NEW D, NEW o, Lists(o, D), NEW r, r = Reverse(o)
  PROVE  Lists(r, D) /\ Len(r) = Len(o) /\ \A i \in 1..Len(o) : r[i] = o[(Len(o) - i) + 1]
<1>1. o \in Seq(D) BY DEF Lists
<1>2. PICK n : n = Len(o) OBVIOUS
<1>3. n \in Nat /\ \A i \in 1..n : o[i] \in D BY <1>1, <1>2
<1>4. r = [i \in 1..n |-> o[(n - i) + 1]] BY <1>2 DEF Reverse
<1>5. \A i \in 1..n : (n - i) + 1 \in 1..n /\ (n - ((n - i) + 1)) + 1 = i BY <1>3
<1>6. r \in Seq(D) /\ Len(r) = n BY <1>3, <1>4, <1>5
<1>7. \A i, j \in 1..n : r[i] = r[j] => i = j
  <2> SUFFICES ASSUME NEW i \in 1..n, NEW j \in 1..n, r[i] = r[j] PROVE i = j OBVIOUS
  <2>1. o[(n - i) + 1] = o[(n - j) + 1] BY <1>4
  <2>2. (n - i) + 1 = (n - j) + 1 BY <1>2, <1>5, <2>1 DEF Lists
  <2> QED BY <1>3, <2>2
<1>8. \A c \in D : \E i \in 1..n : r[i] = c
  <2> SUFFICES ASSUME NEW c \in D PROVE \E i \in 1..n : r[i] = c OBVIOUS
  <2>1. PICK k \in 1..n : o[k] = c BY <1>2 DEF Lists
  <2>2. (n - k) + 1 \in 1..n /\ r[(n - k) + 1] = o[(n - ((n - k) + 1)) + 1] BY <1>4, <1>5
  <2>3. r[(n - k) + 1] = c BY <1>5, <2>1, <2>2
  <2> QED BY <2>2, <2>3
<1>9. Len(r) = Len(o) /\ \A i \in 1..Len(o) : r[i] = o[(Len(o) - i) + 1] BY <1>2, <1>4, <1>6
<1> QED BY <1>2, <1>6, <1>7, <1>8, <1>9 DEF Lists

\* In dependency order, what a card waits for is noted before it; backwards,
\* what waits for it.
Sees(m, e, W, D, c) == m \in Maps(D) /\ e[c] = W[<<m, c>>] /\ \A d \in DOMAIN m : m[d] = e[d]

LEMMA EarlierNoted ==
  ASSUME NEW b, NEW o, SortsAll(o, b), NEW W, NEW e, Filled(e, DOMAIN b, o, W), NEW c \in DOMAIN b
  PROVE  \E m : Sees(m, e, W, DOMAIN b, c) /\ b[c].deps \subseteq DOMAIN m
<1>1. PICK i \in 1..Len(o) : o[i] = c BY DEF SortsAll
<1>2. PICK m \in Maps(DOMAIN b) : m = [d \in {o[j] : j \in 1..(i - 1)} |-> e[d]] /\ e[o[i]] = W[<<m, o[i]>>]
  BY DEF Filled
<1>3. b[c].deps \subseteq DOMAIN m
  <2> SUFFICES ASSUME NEW d \in b[c].deps PROVE d \in DOMAIN m OBVIOUS
  <2>1. PICK j \in 1..(i - 1) : o[j] = d BY <1>1 DEF SortsAll, Sorts
  <2> QED BY <1>2, <2>1
<1> QED BY <1>1, <1>2, <1>3 DEF Sees

LEMMA LaterNoted ==
  ASSUME NEW b, NEW o, SortsAll(o, b), NEW r, r = Reverse(o), NEW W, NEW e, Filled(e, DOMAIN b, r, W),
         NEW c \in DOMAIN b
  PROVE  \E m : Sees(m, e, W, DOMAIN b, c) /\ \A s \in DOMAIN b : c \in b[s].deps => s \in DOMAIN m
<1>1. PICK n : n = Len(o) OBVIOUS
<1>2. o \in Seq(DOMAIN b) /\ n \in Nat BY <1>1 DEF SortsAll, Sorts
<1>3. Lists(r, DOMAIN b) /\ Len(r) = n /\ \A i \in 1..n : r[i] = o[(n - i) + 1]
  BY <1>1, SortedLists, ReversedLists
<1>4. PICK i \in 1..n : r[i] = c BY <1>3 DEF Lists
<1>5. PICK m \in Maps(DOMAIN b) : m = [d \in {r[j] : j \in 1..(i - 1)} |-> e[d]] /\ e[r[i]] = W[<<m, r[i]>>]
  BY <1>3 DEF Filled
<1>6. ASSUME NEW s \in DOMAIN b, c \in b[s].deps PROVE s \in DOMAIN m
  <2>1. PICK k \in 1..n : o[k] = s BY <1>1 DEF SortsAll
  <2>2. PICK j \in 1..(k - 1) : o[j] = c BY <1>1, <1>6, <2>1 DEF SortsAll, Sorts
  <2>3. (n - i) + 1 \in 1..n /\ j \in 1..n BY <1>2
  <2>4. j = (n - i) + 1
    <3>1. o[(n - i) + 1] = o[j] BY <1>3, <1>4, <2>2
    <3> QED BY <1>1, <2>3, <3>1 DEF SortsAll, Sorts
  <2>5. (n - k) + 1 \in 1..(i - 1) /\ (n - k) + 1 \in 1..n /\ (n - ((n - k) + 1)) + 1 = k BY <1>2, <2>4
  <2>6. r[(n - k) + 1] = s BY <1>3, <2>1, <2>5
  <2> QED BY <1>5, <2>5, <2>6
<1> QED BY <1>4, <1>5, <1>6 DEF Sees
-----------------------------------------------------------------------------
\* The longest chain that ends in each card: its own weight behind the longest
\* of those it waits for.
LongestFor(b, e) ==
  /\ e \in [DOMAIN b -> Int]
  /\ \A c \in DOMAIN b :
       /\ e[c] >= b[c].dur /\ \A d \in b[c].deps : e[c] >= b[c].dur + e[d]
       /\ e[c] = b[c].dur \/ \E d \in b[c].deps : e[c] = b[c].dur + e[d]

LEMMA LongestNotes ==
  ASSUME NEW b, Acyclic(b), Dated(b), NEW o, Lists(o, DOMAIN b), NEW W,
         W = [p \in Maps(DOMAIN b) \X DOMAIN b |-> ChainWorth(b, p[1], p[2])]
  PROVE  W \in Worths(DOMAIN b) /\ Filled(LongestTo(b, o), DOMAIN b, o, W)
<1>1. PICK D : D = DOMAIN b OBVIOUS
<1>2. W \in Worths(D)
  <2>1. \A m \in Maps(DOMAIN b), c \in DOMAIN b : ChainWorth(b, m, c) \in Int BY ChainNumber
  <2> QED BY <1>1, <2>1 DEF Worths
<1>3. o \in Seq(D) /\ DOMAIN o = 1..Len(o) BY <1>1 DEF Lists
<1>4. PICK h : Notes(h, D, o, W) BY <1>2, <1>3, NotesExist
<1> DEFINE P(it) == it = [s \in SUBSET DOMAIN o |->
                            IF s = {} THEN <<>>
                            ELSE Noted(it[s \ {Max(s)}], o[Max(s)], ChainWorth(b, it[s \ {Max(s)}], o[Max(s)]))]
<1>5. P(h)
  <2>1. \A s \in SUBSET (1..Len(o)) :
          h[s] = IF s = {} THEN <<>>
                 ELSE Noted(h[s \ {Max(s)}], o[Max(s)], ChainWorth(b, h[s \ {Max(s)}], o[Max(s)]))
    <3> SUFFICES ASSUME NEW s \in SUBSET (1..Len(o)), s # {}
                 PROVE  h[s] = Noted(h[s \ {Max(s)}], o[Max(s)], ChainWorth(b, h[s \ {Max(s)}], o[Max(s)]))
      BY <1>4 DEF Notes
    <3>1. h[s \ {Max(s)}] \in Maps(D) /\ o[Max(s)] \in D BY <1>4 DEF Notes
    <3>2. W[<<h[s \ {Max(s)}], o[Max(s)]>>] = ChainWorth(b, h[s \ {Max(s)}], o[Max(s)]) BY <1>1, <3>1
    <3> QED BY <1>4, <3>2 DEF Notes
  <2> QED BY <1>3, <1>4, <2>1 DEF Notes
<1>6. PICK it : it = (CHOOSE g : P(g)) OBVIOUS
<1>7. P(it) BY <1>5, <1>6
<1>8. LongestTo(b, o) = it[DOMAIN o] BY <1>6 DEF LongestTo, FoldLeft, MapThenFoldSet, ChainWorth
<1>9. NotesBy(it, D, o, W)
  <2>1. it[{}] = <<>> BY <1>7
  <2>2. ASSUME NEW s \in SUBSET (1..Len(o)), s # {}, it[s \ {Max(s)}] \in Maps(D)
        PROVE  it[s] = Noted(it[s \ {Max(s)}], o[Max(s)], W[<<it[s \ {Max(s)}], o[Max(s)]>>])
    <3>1. o[Max(s)] \in D BY <1>4, <2>2 DEF Notes
    <3>2. W[<<it[s \ {Max(s)}], o[Max(s)]>>] = ChainWorth(b, it[s \ {Max(s)}], o[Max(s)]) BY <1>1, <2>2, <3>1
    <3> QED BY <1>3, <1>7, <2>2, <3>2
  <2> QED BY <2>1, <2>2 DEF NotesBy
<1> HIDE DEF P
<1>10. Filled(LongestTo(b, o), D, o, W) BY <1>1, <1>2, <1>3, <1>8, <1>9, NotesRun
<1> QED BY <1>1, <1>2, <1>10

LEMMA LongestIs ==
  ASSUME NEW b, Acyclic(b), Dated(b), NEW o, SortsAll(o, b)
  PROVE  LongestFor(b, LongestTo(b, o))
<1>1. PICK W : W = [p \in Maps(DOMAIN b) \X DOMAIN b |-> ChainWorth(b, p[1], p[2])] OBVIOUS
<1>2. PICK e : e = LongestTo(b, o) OBVIOUS
<1>3. Filled(e, DOMAIN b, o, W)
  <2>1. Lists(o, DOMAIN b) BY SortedLists
  <2> QED BY <1>1, <1>2, <2>1, LongestNotes
<1>4. e \in [DOMAIN b -> Int] BY <1>3 DEF Filled
<1>5. ASSUME NEW c \in DOMAIN b
      PROVE  /\ e[c] >= b[c].dur /\ \A d \in b[c].deps : e[c] >= b[c].dur + e[d]
             /\ e[c] = b[c].dur \/ \E d \in b[c].deps : e[c] = b[c].dur + e[d]
  <2>1. PICK m : Sees(m, e, W, DOMAIN b, c) /\ b[c].deps \subseteq DOMAIN m BY <1>3, EarlierNoted
  <2>2. m \in Maps(DOMAIN b) /\ e[c] = ChainWorth(b, m, c) BY <1>1, <2>1 DEF Sees
  <2>3. b[c].deps \cap DOMAIN m = b[c].deps /\ \A d \in b[c].deps : m[d] = e[d] BY <2>1 DEF Sees
  <2> QED BY <2>2, <2>3, ChainNumber
<1> QED BY <1>2, <1>4, <1>5 DEF LongestFor
-----------------------------------------------------------------------------
\* The earliest starts: a card's own day, or the day the last of those it waits
\* for is done.
StartsFor(b, es) ==
  /\ es \in [DOMAIN b -> Int]
  /\ \A c \in DOMAIN b :
       /\ es[c] >= OwnStart(b, c) /\ \A d \in b[c].deps : es[c] >= es[d] + DurationDays(b[d])
       /\ es[c] = OwnStart(b, c) \/ \E d \in b[c].deps : es[c] = es[d] + DurationDays(b[d])

LEMMA StartNotes ==
  ASSUME NEW b, Acyclic(b), Dated(b), NEW o, o = TopoOrder(b), NEW W,
         W = [p \in Maps(DOMAIN b) \X DOMAIN b |-> StartWorth(b, p[1], p[2])]
  PROVE  W \in Worths(DOMAIN b) /\ Filled(ForwardPass(b, 0), DOMAIN b, o, W)
<1>1. PICK D : D = DOMAIN b OBVIOUS
<1>2. W \in Worths(D)
  <2>1. \A m \in Maps(DOMAIN b), c \in DOMAIN b : StartWorth(b, m, c) \in Int BY StartNumber
  <2> QED BY <1>1, <2>1 DEF Worths
<1>0. Lists(o, D) BY <1>1, TopoIs, SortedLists
<1>3. o \in Seq(D) /\ DOMAIN o = 1..Len(o) BY <1>0 DEF Lists
<1>4. PICK h : Notes(h, D, o, W) BY <1>2, <1>3, NotesExist
<1> DEFINE P(it) == it = [s \in SUBSET DOMAIN o |->
                            IF s = {} THEN <<>>
                            ELSE Noted(it[s \ {Max(s)}], o[Max(s)], StartWorth(b, it[s \ {Max(s)}], o[Max(s)]))]
<1>5. P(h)
  <2>1. \A s \in SUBSET (1..Len(o)) :
          h[s] = IF s = {} THEN <<>>
                 ELSE Noted(h[s \ {Max(s)}], o[Max(s)], StartWorth(b, h[s \ {Max(s)}], o[Max(s)]))
    <3> SUFFICES ASSUME NEW s \in SUBSET (1..Len(o)), s # {}
                 PROVE  h[s] = Noted(h[s \ {Max(s)}], o[Max(s)], StartWorth(b, h[s \ {Max(s)}], o[Max(s)]))
      BY <1>4 DEF Notes
    <3>1. h[s \ {Max(s)}] \in Maps(D) /\ o[Max(s)] \in D BY <1>4 DEF Notes
    <3>2. W[<<h[s \ {Max(s)}], o[Max(s)]>>] = StartWorth(b, h[s \ {Max(s)}], o[Max(s)]) BY <1>1, <3>1
    <3> QED BY <1>4, <3>2 DEF Notes
  <2> QED BY <1>3, <1>4, <2>1 DEF Notes
<1>6. PICK it : it = (CHOOSE g : P(g)) OBVIOUS
<1>7. P(it) BY <1>5, <1>6
<1>8. ForwardPass(b, 0) = it[DOMAIN o] BY <1>6 DEF ForwardPass, FoldLeft, MapThenFoldSet, StartWorth, OwnStart
<1>9. NotesBy(it, D, o, W)
  <2>1. it[{}] = <<>> BY <1>7
  <2>2. ASSUME NEW s \in SUBSET (1..Len(o)), s # {}, it[s \ {Max(s)}] \in Maps(D)
        PROVE  it[s] = Noted(it[s \ {Max(s)}], o[Max(s)], W[<<it[s \ {Max(s)}], o[Max(s)]>>])
    <3>1. o[Max(s)] \in D BY <1>4, <2>2 DEF Notes
    <3>2. W[<<it[s \ {Max(s)}], o[Max(s)]>>] = StartWorth(b, it[s \ {Max(s)}], o[Max(s)]) BY <1>1, <2>2, <3>1
    <3> QED BY <1>3, <1>7, <2>2, <3>2
  <2> QED BY <2>1, <2>2 DEF NotesBy
<1> HIDE DEF P
<1>10. Filled(ForwardPass(b, 0), D, o, W) BY <1>0, <1>2, <1>3, <1>8, <1>9, NotesRun
<1> QED BY <1>1, <1>2, <1>10

LEMMA StartsAre ==
  ASSUME NEW b, Acyclic(b), Dated(b)
  PROVE  StartsFor(b, ForwardPass(b, 0))
<1>1. PICK W : W = [p \in Maps(DOMAIN b) \X DOMAIN b |-> StartWorth(b, p[1], p[2])] OBVIOUS
<1>2. PICK e : e = ForwardPass(b, 0) OBVIOUS
<1>3. PICK o : o = TopoOrder(b) OBVIOUS
<1>4. SortsAll(o, b) BY <1>3, TopoIs
<1>5. Filled(e, DOMAIN b, o, W) BY <1>1, <1>2, <1>3, StartNotes
<1>6. e \in [DOMAIN b -> Int] BY <1>5 DEF Filled
<1>7. ASSUME NEW c \in DOMAIN b
      PROVE  /\ e[c] >= OwnStart(b, c) /\ \A d \in b[c].deps : e[c] >= e[d] + DurationDays(b[d])
             /\ e[c] = OwnStart(b, c) \/ \E d \in b[c].deps : e[c] = e[d] + DurationDays(b[d])
  <2>1. PICK m : Sees(m, e, W, DOMAIN b, c) /\ b[c].deps \subseteq DOMAIN m BY <1>4, <1>5, EarlierNoted
  <2>2. m \in Maps(DOMAIN b) /\ e[c] = StartWorth(b, m, c) BY <1>1, <2>1 DEF Sees
  <2>3. b[c].deps \cap DOMAIN m = b[c].deps /\ \A d \in b[c].deps : m[d] = e[d] BY <2>1 DEF Sees
  <2> QED BY <2>2, <2>3, StartNumber
<1> QED BY <1>2, <1>6, <1>7 DEF StartsFor

\* The day the plan ends.
LEMMA FinishIs ==
  ASSUME NEW b, IsFiniteSet(DOMAIN b), DOMAIN b # {}, Dated(b), NEW es \in [DOMAIN b -> Int]
  PROVE  /\ Finish(b, es) \in Int /\ \A c \in DOMAIN b : Finish(b, es) >= es[c] + DurationDays(b[c])
         /\ \E c \in DOMAIN b : Finish(b, es) = es[c] + DurationDays(b[c])
<1>1. PICK f : f = [c \in DOMAIN b |-> es[c] + DurationDays(b[c])] OBVIOUS
<1>2. \A c \in DOMAIN b : f[c] \in Int
  <2> SUFFICES ASSUME NEW c \in DOMAIN b PROVE es[c] + DurationDays(b[c]) \in Int BY <1>1
  <2>1. DurationDays(b[c]) \in Nat BY CardDays
  <2> QED BY <2>1
<1>3. PICK T : T = Values(f, DOMAIN b) OBVIOUS
<1>4. T \subseteq Int /\ T # {} BY <1>2, <1>3 DEF Values
<1>5. IsFiniteSet(T)
  <2>1. PICK a : a \in T BY <1>4
  <2>2. IsFiniteSet({a} \cup Values(f, DOMAIN b)) BY ValuesFinite
  <2> QED BY <1>3, <2>1, <2>2, FS_Subset
<1>6. Max(T) \in T /\ \A n \in T : Max(T) >= n BY <1>4, <1>5, MaxIs
<1>7. T = {es[c] + DurationDays(b[c]) : c \in DOMAIN b} BY <1>1, <1>3 DEF Values
<1>8. Finish(b, es) = Max(T) BY <1>7 DEF Finish
<1> QED BY <1>4, <1>6, <1>7, <1>8

\* The latest starts: as long before the plan ends, or the first of those that
\* wait for a card starts, as the card takes, and never before its earliest one.
LateFor(b, es, ls) ==
  /\ ls \in [DOMAIN b -> Int]
  /\ \A c \in DOMAIN b : \E t \in Int :
       /\ ls[c] = IF es[c] >= t - DurationDays(b[c]) THEN es[c] ELSE t - DurationDays(b[c])
       /\ t <= Finish(b, es) /\ \A s \in DOMAIN b : c \in b[s].deps => t <= ls[s]
       /\ t = Finish(b, es) \/ \E s \in DOMAIN b : c \in b[s].deps /\ t = ls[s]

LEMMA LateNotes ==
  ASSUME NEW b, Acyclic(b), Dated(b), NEW es \in [DOMAIN b -> Int], Finish(b, es) \in Int,
         NEW o, o = Reverse(TopoOrder(b)), NEW W,
         W = [p \in Maps(DOMAIN b) \X DOMAIN b |-> LateWorth(b, es, p[1], p[2])]
  PROVE  W \in Worths(DOMAIN b) /\ Filled(BackwardPass(b, es), DOMAIN b, o, W)
<1>1. PICK D : D = DOMAIN b OBVIOUS
<1>2. W \in Worths(D)
  <2>1. \A m \in Maps(DOMAIN b), c \in DOMAIN b : LateWorth(b, es, m, c) \in Int BY LateNumber
  <2> QED BY <1>1, <2>1 DEF Worths
<1>0. Lists(o, D) BY <1>1, TopoIs, SortedLists, ReversedLists
<1>3. o \in Seq(D) /\ DOMAIN o = 1..Len(o) BY <1>0 DEF Lists
<1>4. PICK h : Notes(h, D, o, W) BY <1>2, <1>3, NotesExist
<1> DEFINE P(it) == it = [s \in SUBSET DOMAIN o |->
                            IF s = {} THEN <<>>
                            ELSE Noted(it[s \ {Max(s)}], o[Max(s)], LateWorth(b, es, it[s \ {Max(s)}], o[Max(s)]))]
<1>5. P(h)
  <2>1. \A s \in SUBSET (1..Len(o)) :
          h[s] = IF s = {} THEN <<>>
                 ELSE Noted(h[s \ {Max(s)}], o[Max(s)], LateWorth(b, es, h[s \ {Max(s)}], o[Max(s)]))
    <3> SUFFICES ASSUME NEW s \in SUBSET (1..Len(o)), s # {}
                 PROVE  h[s] = Noted(h[s \ {Max(s)}], o[Max(s)], LateWorth(b, es, h[s \ {Max(s)}], o[Max(s)]))
      BY <1>4 DEF Notes
    <3>1. h[s \ {Max(s)}] \in Maps(D) /\ o[Max(s)] \in D BY <1>4 DEF Notes
    <3>2. W[<<h[s \ {Max(s)}], o[Max(s)]>>] = LateWorth(b, es, h[s \ {Max(s)}], o[Max(s)]) BY <1>1, <3>1
    <3> QED BY <1>4, <3>2 DEF Notes
  <2> QED BY <1>3, <1>4, <2>1 DEF Notes
<1>6. PICK it : it = (CHOOSE g : P(g)) OBVIOUS
<1>7. P(it) BY <1>5, <1>6
<1>8. BackwardPass(b, es) = it[DOMAIN o] BY <1>6 DEF BackwardPass, FoldLeft, MapThenFoldSet, LateWorth
<1>9. NotesBy(it, D, o, W)
  <2>1. it[{}] = <<>> BY <1>7
  <2>2. ASSUME NEW s \in SUBSET (1..Len(o)), s # {}, it[s \ {Max(s)}] \in Maps(D)
        PROVE  it[s] = Noted(it[s \ {Max(s)}], o[Max(s)], W[<<it[s \ {Max(s)}], o[Max(s)]>>])
    <3>1. o[Max(s)] \in D BY <1>4, <2>2 DEF Notes
    <3>2. W[<<it[s \ {Max(s)}], o[Max(s)]>>] = LateWorth(b, es, it[s \ {Max(s)}], o[Max(s)]) BY <1>1, <2>2, <3>1
    <3> QED BY <1>3, <1>7, <2>2, <3>2
  <2> QED BY <2>1, <2>2 DEF NotesBy
<1> HIDE DEF P
<1>10. Filled(BackwardPass(b, es), D, o, W) BY <1>0, <1>2, <1>3, <1>8, <1>9, NotesRun
<1> QED BY <1>1, <1>2, <1>10

LEMMA LatestAre ==
  ASSUME NEW b, Acyclic(b), Dated(b), NEW es \in [DOMAIN b -> Int], Finish(b, es) \in Int
  PROVE  LateFor(b, es, BackwardPass(b, es))
<1>1. PICK W : W = [p \in Maps(DOMAIN b) \X DOMAIN b |-> LateWorth(b, es, p[1], p[2])] OBVIOUS
<1>2. PICK e : e = BackwardPass(b, es) OBVIOUS
<1>3. PICK o : o = TopoOrder(b) OBVIOUS
<1>4. PICK r : r = Reverse(o) OBVIOUS
<1>5. SortsAll(o, b) BY <1>3, TopoIs
<1>6. Filled(e, DOMAIN b, r, W) BY <1>1, <1>2, <1>3, <1>4, LateNotes
<1>7. e \in [DOMAIN b -> Int] BY <1>6 DEF Filled
<1>8. ASSUME NEW c \in DOMAIN b
      PROVE  \E t \in Int :
               /\ e[c] = IF es[c] >= t - DurationDays(b[c]) THEN es[c] ELSE t - DurationDays(b[c])
               /\ t <= Finish(b, es) /\ \A s \in DOMAIN b : c \in b[s].deps => t <= e[s]
               /\ t = Finish(b, es) \/ \E s \in DOMAIN b : c \in b[s].deps /\ t = e[s]
  <2>1. PICK m : Sees(m, e, W, DOMAIN b, c) /\ \A s \in DOMAIN b : c \in b[s].deps => s \in DOMAIN m
    BY <1>4, <1>5, <1>6, LaterNoted
  <2>2. m \in Maps(DOMAIN b) /\ e[c] = LateWorth(b, es, m, c) BY <1>1, <2>1 DEF Sees
  <2>3. DOMAIN m \subseteq DOMAIN b /\ \A d \in DOMAIN m : m[d] = e[d] BY <2>1, <2>2, MapFinite DEF Sees, Acyclic
  <2>4. PICK t \in Int :
          /\ e[c] = IF es[c] >= t - DurationDays(b[c]) THEN es[c] ELSE t - DurationDays(b[c])
          /\ t <= Finish(b, es) /\ \A s \in DOMAIN m : c \in b[s].deps => t <= m[s]
          /\ t = Finish(b, es) \/ \E s \in DOMAIN m : c \in b[s].deps /\ t = m[s]
    BY <2>2, LateNumber
  <2>5. \A s \in DOMAIN b : c \in b[s].deps => t <= e[s] BY <2>1, <2>3, <2>4
  <2>6. t = Finish(b, es) \/ \E s \in DOMAIN b : c \in b[s].deps /\ t = e[s] BY <2>3, <2>4
  <2> QED BY <2>4, <2>5, <2>6
<1> QED BY <1>2, <1>7, <1>8 DEF LateFor
-----------------------------------------------------------------------------
\* A latest start leaves its card the time to be done before the plan ends and
\* before what waits for it starts late, and not a day more.
LEMMA LateFits ==
  ASSUME NEW b, Acyclic(b), Dated(b), DOMAIN b # {}, NEW es, StartsFor(b, es), NEW ls, LateFor(b, es, ls),
         NEW c \in DOMAIN b
  PROVE  /\ ls[c] >= es[c] /\ ls[c] + DurationDays(b[c]) <= Finish(b, es)
         /\ \A s \in DOMAIN b : c \in b[s].deps => ls[c] + DurationDays(b[c]) <= ls[s]
         /\ \/ ls[c] + DurationDays(b[c]) = Finish(b, es)
            \/ \E s \in DOMAIN b : c \in b[s].deps /\ ls[c] + DurationDays(b[c]) = ls[s]
<1>1. es \in [DOMAIN b -> Int] /\ ls \in [DOMAIN b -> Int] BY DEF StartsFor, LateFor
<1>2. \A d \in DOMAIN b : DurationDays(b[d]) \in Nat BY CardDays
<1>3. \A d \in DOMAIN b : ls[d] >= es[d]
  <2> SUFFICES ASSUME NEW d \in DOMAIN b PROVE ls[d] >= es[d] OBVIOUS
  <2>1. PICK t \in Int : ls[d] = IF es[d] >= t - DurationDays(b[d]) THEN es[d] ELSE t - DurationDays(b[d])
    BY DEF LateFor
  <2> QED BY <1>1, <1>2, <2>1
<1>4. Finish(b, es) \in Int /\ Finish(b, es) >= es[c] + DurationDays(b[c]) BY <1>1, FinishIs DEF Acyclic
<1>5. PICK t \in Int :
        /\ ls[c] = IF es[c] >= t - DurationDays(b[c]) THEN es[c] ELSE t - DurationDays(b[c])
        /\ t <= Finish(b, es) /\ \A s \in DOMAIN b : c \in b[s].deps => t <= ls[s]
        /\ t = Finish(b, es) \/ \E s \in DOMAIN b : c \in b[s].deps /\ t = ls[s]
  BY DEF LateFor
<1>6. \A s \in DOMAIN b : c \in b[s].deps => ls[s] >= es[c] + DurationDays(b[c])
  <2> SUFFICES ASSUME NEW s \in DOMAIN b, c \in b[s].deps PROVE ls[s] >= es[c] + DurationDays(b[c]) OBVIOUS
  <2>1. es[s] >= es[c] + DurationDays(b[c]) BY DEF StartsFor
  <2>2. ls[s] >= es[s] BY <1>3
  <2> QED BY <1>1, <1>2, <2>1, <2>2
<1>7. t >= es[c] + DurationDays(b[c]) BY <1>4, <1>5, <1>6
<1>8. PICK u \in Int, v \in Int, w \in Int : u = es[c] /\ v = ls[c] /\ w = DurationDays(b[c]) BY <1>1, <1>2
<1>9. v + w = t BY <1>5, <1>7, <1>8
<1> QED BY <1>3, <1>5, <1>8, <1>9

\* The same board, but for the day one card starts.
Shifted(l, b, c, day) ==
  /\ DOMAIN l = DOMAIN b /\ \A d \in DOMAIN b : l[d].deps = b[d].deps /\ l[d].dur = b[d].dur
  /\ \A d \in DOMAIN b : OwnStart(l, d) = IF d = c THEN day ELSE OwnStart(b, d)

\* A card that starts by its latest start moves nothing past its own, so the
\* plan ends when it did.
LEMMA InTime ==
  ASSUME NEW b, Acyclic(b), Dated(b), DOMAIN b # {}, NEW es, StartsFor(b, es), NEW ls, LateFor(b, es, ls),
         NEW c \in DOMAIN b, NEW day \in Int, NEW l, Shifted(l, b, c, day), NEW e, StartsFor(l, e), day <= ls[c]
  PROVE  \A d \in DOMAIN b : e[d] <= ls[d]
<1>1. PICK o : o = TopoOrder(b) OBVIOUS
<1>2. SortsAll(o, b) BY <1>1, TopoIs
<1>3. PICK n : n = Len(o) OBVIOUS
<1>4. n \in Nat /\ \A i \in 1..n : o[i] \in DOMAIN b BY <1>2, <1>3 DEF SortsAll, Sorts
<1>5. PICK D : D = DOMAIN b OBVIOUS
<1>6. es \in [D -> Int] /\ ls \in [D -> Int] /\ e \in [D -> Int] BY <1>5 DEF StartsFor, LateFor, Shifted
<1>7. \A d \in DOMAIN b : DurationDays(b[d]) \in Nat /\ DurationDays(l[d]) = DurationDays(b[d])
  BY CardDays DEF DurationDays, Shifted
<1> DEFINE Bad == {i \in 1..n : e[o[i]] > ls[o[i]]}
<1>8. Bad = {}
  <2> SUFFICES ASSUME Bad # {} PROVE FALSE OBVIOUS
  <2>1. Bad \in SUBSET Nat BY <1>4
  <2>2. PICK i \in Bad : \A j \in Bad : i <= j
    <3> HIDE DEF Bad
    <3>1. Min(Bad) \in Bad /\ \A j \in Bad : Min(Bad) <= j BY <2>1, LeastIs
    <3> QED BY <3>1
  <2>3. PICK x \in DOMAIN b : x = o[i] BY <1>4, <2>2
  <2>4. e[x] > ls[x] BY <2>2, <2>3
  <2>5. e[x] # OwnStart(l, x)
    <3>1. CASE x = c BY <1>5, <1>6, <2>4, <3>1 DEF Shifted
    <3>2. CASE x # c
      <4>1. OwnStart(l, x) = OwnStart(b, x) BY <3>2 DEF Shifted
      <4>2. OwnStart(b, x) <= es[x] /\ es[x] <= ls[x] BY LateFits DEF StartsFor
      <4>3. OwnStart(b, x) \in Int BY DEF OwnStart, Dated
      <4> QED BY <1>5, <1>6, <2>4, <4>1, <4>2, <4>3
    <3> QED BY <3>1, <3>2
  <2>6. PICK d \in b[x].deps : e[x] = e[d] + DurationDays(l[d]) BY <2>5 DEF StartsFor, Shifted
  <2>7. d \in DOMAIN b BY DEF Acyclic
  <2>8. PICK j \in 1..(i - 1) : o[j] = d BY <1>2, <1>3, <2>2, <2>3 DEF SortsAll, Sorts
  <2>9. j \in 1..n /\ ~(i <= j) BY <1>4, <2>2
  <2>10. e[d] <= ls[d] BY <1>5, <1>6, <2>2, <2>7, <2>8, <2>9
  <2>11. ls[d] + DurationDays(b[d]) <= ls[x] BY <2>7, LateFits
  <2> QED BY <1>5, <1>6, <1>7, <2>4, <2>6, <2>7, <2>10, <2>11
<1> SUFFICES ASSUME NEW d \in DOMAIN b PROVE e[d] <= ls[d] OBVIOUS
<1>9. PICK i \in 1..n : o[i] = d BY <1>2, <1>3 DEF SortsAll
<1> QED BY <1>5, <1>6, <1>8, <1>9

\* A card that starts later than that drags the plan with it: of the cards that
\* start past their latest start, the last one in order ends past the plan.
LEMMA TooLate ==
  ASSUME NEW b, Acyclic(b), Dated(b), DOMAIN b # {}, NEW es, StartsFor(b, es), NEW ls, LateFor(b, es, ls),
         NEW c \in DOMAIN b, NEW day \in Int, NEW l, Shifted(l, b, c, day), NEW e, StartsFor(l, e), day > ls[c]
  PROVE  \E d \in DOMAIN b : e[d] + DurationDays(b[d]) > Finish(b, es)
<1>1. PICK o : o = TopoOrder(b) OBVIOUS
<1>2. SortsAll(o, b) BY <1>1, TopoIs
<1>3. PICK n : n = Len(o) OBVIOUS
<1>4. n \in Nat /\ \A i \in 1..n : o[i] \in DOMAIN b BY <1>2, <1>3 DEF SortsAll, Sorts
<1>5. PICK D : D = DOMAIN b OBVIOUS
<1>6. es \in [D -> Int] /\ ls \in [D -> Int] /\ e \in [D -> Int] BY <1>5 DEF StartsFor, LateFor, Shifted
<1>7. \A d \in DOMAIN b : DurationDays(b[d]) \in Nat /\ DurationDays(l[d]) = DurationDays(b[d])
  BY CardDays DEF DurationDays, Shifted
<1> DEFINE Bad == {i \in 1..n : e[o[i]] > ls[o[i]]}
<1>8. Bad # {}
  <2>1. PICK i \in 1..n : o[i] = c BY <1>2, <1>3 DEF SortsAll
  <2>2. e[c] >= day BY DEF StartsFor, Shifted
  <2>3. e[c] > ls[c] BY <1>5, <1>6, <2>2
  <2> QED BY <2>1, <2>3
<1>9. PICK i \in Bad : \A j \in Bad : i >= j
  <2>1. Bad \in SUBSET (1..n) OBVIOUS
  <2> HIDE DEF Bad
  <2>2. Max(Bad) \in Bad /\ \A j \in Bad : Max(Bad) >= j BY <1>4, <1>8, <2>1, GreatestIs
  <2> QED BY <2>2
<1>10. PICK x \in DOMAIN b : x = o[i] BY <1>4, <1>9
<1>11. e[x] > ls[x] BY <1>9, <1>10
<1>12. CASE ls[x] + DurationDays(b[x]) = Finish(b, es)
  <2>1. e[x] + DurationDays(b[x]) > Finish(b, es) BY <1>5, <1>6, <1>7, <1>11, <1>12
  <2> QED BY <2>1
<1>13. CASE ls[x] + DurationDays(b[x]) # Finish(b, es)
  <2>1. PICK s \in DOMAIN b : x \in b[s].deps /\ ls[x] + DurationDays(b[x]) = ls[s] BY <1>13, LateFits
  <2>2. e[s] >= e[x] + DurationDays(b[x]) BY <1>7, <2>1 DEF StartsFor, Shifted
  <2>3. e[s] > ls[s] BY <1>5, <1>6, <1>7, <1>11, <2>1, <2>2
  <2>4. PICK k \in 1..n : o[k] = s BY <1>2, <1>3 DEF SortsAll
  <2>5. k \in Bad BY <2>3, <2>4
  <2>6. PICK j \in 1..(k - 1) : o[j] = x BY <1>2, <1>3, <2>1, <2>4 DEF SortsAll, Sorts
  <2>7. j \in 1..n /\ i \in 1..n BY <1>4, <1>9
  <2>8. j = i BY <1>2, <1>3, <1>10, <2>6, <2>7 DEF SortsAll, Sorts
  <2>9. i >= k BY <1>9, <2>5
  <2> QED BY <1>4, <2>6, <2>8, <2>9
<1> QED BY <1>12, <1>13

LEMMA ShiftedSorts ==
  ASSUME NEW b, Acyclic(b), NEW l, DOMAIN l = DOMAIN b, \A d \in DOMAIN b : l[d].deps = b[d].deps
  PROVE  Acyclic(l)
<1>1. DepsOf(l) = DepsOf(b) BY DEF DepsOf
<1> QED BY <1>1 DEF Acyclic

Starting(b, c, day) == [b EXCEPT ![c].start = day]

LEMMA FloatIs ==
  ASSUME NEW b, Acyclic(b), Dated(b), b \in [DOMAIN b -> Card], DOMAIN b # {}, NEW c \in DOMAIN b,
         NEW es, es = ForwardPass(b, 0), NEW k \in Int, NEW float, float = FloatDays(b, 0)[c], k >= float,
         NEW l, l = Starting(b, c, es[c] + k)
  PROVE  float \in Nat /\ (Finish(l, ForwardPass(l, 0)) > Finish(b, es) <=> k > float)
<1>1. PICK ls : ls = BackwardPass(b, es) OBVIOUS
<1>2. StartsFor(b, es) BY StartsAre
<1>3. es \in [DOMAIN b -> Int] /\ Finish(b, es) \in Int
  <2>1. es \in [DOMAIN b -> Int] BY <1>2 DEF StartsFor
  <2> QED BY <2>1, FinishIs DEF Acyclic
<1>4. LateFor(b, es, ls) BY <1>1, <1>3, LatestAre
<1>5. ls \in [DOMAIN b -> Int] /\ ls[c] >= es[c] BY <1>2, <1>4, LateFits DEF LateFor
<1>6. float = ls[c] - es[c] BY <1>1 DEF FloatDays
<1>7. float \in Nat BY <1>3, <1>5, <1>6
<1>8. es[c] >= 0
  <2>1. OwnStart(b, c) \in Nat BY DEF OwnStart, Card, Day, NoDay
  <2> QED BY <1>2, <1>3, <2>1 DEF StartsFor
<1>9. PICK day \in Int : day = es[c] + k BY <1>3
<1>10. day # NoDay BY <1>3, <1>7, <1>8, <1>9 DEF NoDay
<1>11. /\ DOMAIN l = DOMAIN b /\ \A d \in DOMAIN b : l[d].deps = b[d].deps /\ l[d].dur = b[d].dur
       /\ \A d \in DOMAIN b : l[d].start = IF d = c THEN day ELSE b[d].start
  <2>1. \A d \in DOMAIN b : d # c => l[d] = b[d] BY DEF Starting
  <2>6. l = [b EXCEPT ![c].start = day] BY <1>9 DEF Starting
  <2>2. l[c] = [b[c] EXCEPT !.start = day] /\ b[c] \in Card BY <2>6
  <2>3. l[c].start = day /\ l[c].deps = b[c].deps /\ l[c].dur = b[c].dur BY <2>2 DEF Card
  <2>4. DOMAIN l = DOMAIN b BY DEF Starting
  <2>5. \A d \in DOMAIN b : /\ l[d].deps = b[d].deps /\ l[d].dur = b[d].dur
                             /\ l[d].start = IF d = c THEN day ELSE b[d].start
    <3> SUFFICES ASSUME NEW d \in DOMAIN b
                 PROVE  /\ l[d].deps = b[d].deps /\ l[d].dur = b[d].dur
                        /\ l[d].start = IF d = c THEN day ELSE b[d].start
      OBVIOUS
    <3>1. CASE d = c BY <2>3, <3>1
    <3>2. CASE d # c BY <2>1, <3>2
    <3> QED BY <3>1, <3>2
  <2> QED BY <2>4, <2>5
<1>12. Shifted(l, b, c, day)
  <2>1. \A d \in DOMAIN b : OwnStart(l, d) = IF d = c THEN day ELSE OwnStart(b, d) BY <1>10, <1>11 DEF OwnStart
  <2> QED BY <1>11, <2>1 DEF Shifted
<1>13. Acyclic(l) /\ Dated(l)
  <2>1. Acyclic(l) BY <1>11, ShiftedSorts
  <2>2. Dated(l) BY <1>11 DEF Dated
  <2> QED BY <2>1, <2>2
<1>14. PICK e : e = ForwardPass(l, 0) OBVIOUS
<1>15. StartsFor(l, e) BY <1>13, <1>14, StartsAre
<1>16. e \in [DOMAIN b -> Int] /\ e \in [DOMAIN l -> Int] BY <1>11, <1>15 DEF StartsFor
<1>17. \A d \in DOMAIN b : DurationDays(b[d]) \in Nat /\ DurationDays(l[d]) = DurationDays(b[d])
  BY <1>11, CardDays DEF DurationDays
<1>18. /\ Finish(l, e) \in Int /\ \A d \in DOMAIN l : Finish(l, e) >= e[d] + DurationDays(l[d])
       /\ \E d \in DOMAIN l : Finish(l, e) = e[d] + DurationDays(l[d])
  <2>1. IsFiniteSet(DOMAIN l) /\ DOMAIN l # {} BY <1>11 DEF Acyclic
  <2> QED BY <1>13, <1>16, <2>1, FinishIs
<1>19. CASE k <= float
  <2>1. day <= ls[c] BY <1>3, <1>5, <1>6, <1>9, <1>19
  <2>2. \A d \in DOMAIN b : e[d] <= ls[d] BY <1>2, <1>4, <1>12, <1>15, <2>1, InTime
  <2>3. PICK d \in DOMAIN b : Finish(l, e) = e[d] + DurationDays(b[d]) BY <1>11, <1>17, <1>18
  <2>4. ls[d] + DurationDays(b[d]) <= Finish(b, es) BY <1>2, <1>4, LateFits
  <2>5. Finish(l, e) <= Finish(b, es) BY <1>3, <1>5, <1>16, <1>17, <2>2, <2>3, <2>4
  <2> QED BY <1>3, <1>7, <1>14, <1>18, <1>19, <2>5
<1>20. CASE k > float
  <2>1. day > ls[c] BY <1>3, <1>5, <1>6, <1>9, <1>20
  <2>2. PICK d \in DOMAIN b : e[d] + DurationDays(b[d]) > Finish(b, es) BY <1>2, <1>4, <1>12, <1>15, <2>1, TooLate
  <2>3. Finish(l, e) >= e[d] + DurationDays(b[d]) BY <1>11, <1>17, <1>18
  <2>5. PICK x \in Int, y \in Int, z \in Int : x = Finish(l, e) /\ y = e[d] + DurationDays(b[d]) /\ z = Finish(b, es)
    BY <1>3, <1>16, <1>17, <1>18
  <2>4. Finish(l, e) > Finish(b, es) BY <2>2, <2>3, <2>5
  <2> QED BY <1>7, <1>14, <1>20, <2>4
<1> QED BY <1>7, <1>19, <1>20

LEMMA SlackHolds ==
  ASSUME Acyclic(board), Dated(board), board \in [DOMAIN board -> Card]
  PROVE  FloatIsSlack
<1> SUFFICES ASSUME board # <<>>, NEW c \in DOMAIN board, NEW es, es = ForwardPass(board, 0),
                    NEW f, f = FloatDays(board, 0)[c]
             PROVE  /\ ~(Finish(Delayed(c, f, 0), ForwardPass(Delayed(c, f, 0), 0)) > Finish(board, es))
                    /\ Finish(Delayed(c, f + 1, 0), ForwardPass(Delayed(c, f + 1, 0), 0)) > Finish(board, es)
  BY DEF FloatIsSlack
<1>1. DOMAIN board # {} BY DEF Card
<1>2. \A k : Delayed(c, k, 0) = Starting(board, c, es[c] + k) BY DEF Delayed, Starting
<1>3. f \in Nat
  <2>1. StartsFor(board, es) BY StartsAre
  <2>2. es \in [DOMAIN board -> Int] BY <2>1 DEF StartsFor
  <2>3. Finish(board, es) \in Int BY <1>1, <2>2, FinishIs DEF Acyclic
  <2>4. PICK ls : ls = BackwardPass(board, es) OBVIOUS
  <2>5. LateFor(board, es, ls) BY <2>2, <2>3, <2>4, LatestAre
  <2>6. ls[c] >= es[c] BY <1>1, <2>1, <2>5, LateFits
  <2>8. ls \in [DOMAIN board -> Int] BY <2>5 DEF LateFor
  <2>7. f = ls[c] - es[c] BY <2>4 DEF FloatDays
  <2> QED BY <2>2, <2>6, <2>7, <2>8
<1>4. PICK l : l = Delayed(c, f, 0) OBVIOUS
<1>5. ~(Finish(l, ForwardPass(l, 0)) > Finish(board, es))
  <2>1. l = Starting(board, c, es[c] + f) BY <1>2, <1>4
  <2>2. PICK k \in Int : k = f BY <1>3
  <2>3. k >= f /\ ~(k > f) BY <1>3, <2>2
  <2>4. l = Starting(board, c, es[c] + k) BY <2>1, <2>2
  <2>5. Finish(l, ForwardPass(l, 0)) > Finish(board, es) <=> k > f BY <1>1, <2>3, <2>4, FloatIs
  <2> QED BY <2>3, <2>5
<1>6. PICK m : m = Delayed(c, f + 1, 0) OBVIOUS
<1>7. Finish(m, ForwardPass(m, 0)) > Finish(board, es)
  <2>1. PICK k \in Int : k = f + 1 BY <1>3
  <2>2. m = Starting(board, c, es[c] + k) BY <1>2, <1>6, <2>1
  <2>3. k >= f /\ k > f BY <1>3, <2>1
  <2> QED BY <1>1, <2>2, <2>3, FloatIs
<1> QED BY <1>4, <1>5, <1>6, <1>7
-----------------------------------------------------------------------------
\* The permutations the property goes through are the sequences without a repeat.
LEMMA PermutationsAre ==
  ASSUME NEW D, IsFiniteSet(D), NEW p
  PROVE  p \in SetToAllKPermutations(D) <=> p \in Seq(D) /\ \A i, j \in 1..Len(p) : p[i] = p[j] => i = j
<1>1. ASSUME p \in SetToAllKPermutations(D)
      PROVE  p \in Seq(D) /\ \A i, j \in 1..Len(p) : p[i] = p[j] => i = j
  <2>1. PICK s \in SUBSET D : p \in SetToSeqs(s) BY <1>1 DEF SetToAllKPermutations
  <2>2. PICK k : k = Cardinality(s) OBVIOUS
  <2>3. k \in Nat
    <3>1. IsFiniteSet(s) BY FS_Subset
    <3> QED BY <2>2, <3>1, FS_CardinalityType
  <2>4. p \in [1..k -> s] /\ \A i, j \in 1..k : i # j => p[i] # p[j] BY <2>1, <2>2 DEF SetToSeqs
  <2>5. p \in Seq(D) /\ Len(p) = k BY <2>3, <2>4
  <2> QED BY <2>4, <2>5
<1>2. ASSUME p \in Seq(D), \A i, j \in 1..Len(p) : p[i] = p[j] => i = j
      PROVE  p \in SetToAllKPermutations(D)
  <2>1. Cardinality(Range(p)) = Len(p) /\ Range(p) \subseteq D BY <1>2, DistinctCount
  <2>2. Len(p) \in Nat /\ p \in [1..Len(p) -> Range(p)] BY <1>2 DEF Range
  <2>3. PICK s \in SUBSET D : s = Range(p) BY <2>1
  <2>4. p \in SetToSeqs(s) BY <1>2, <2>1, <2>2, <2>3 DEF SetToSeqs
  <2> QED BY <2>4 DEF SetToAllKPermutations
<1> QED BY <1>1, <1>2

WeightOf(b, p) == FoldLeft(LAMBDA n, c : n + b[c].dur, 0, p)
Adds(w, b, p) ==
  /\ w \in [0..Len(p) -> Int] /\ w[0] = 0 /\ w[Len(p)] = WeightOf(b, p)
  /\ \A k \in 0..(Len(p) - 1) : w[k + 1] = w[k] + b[p[k + 1]].dur

LEMMA WeightRuns ==
  ASSUME NEW b, Dated(b), NEW p \in Seq(DOMAIN b)
  PROVE  \E w : Adds(w, b, p)
<1>1. PICK n : n = Len(p) OBVIOUS
<1>2. n \in Nat /\ DOMAIN p = 1..n /\ \A i \in 1..n : p[i] \in DOMAIN b BY <1>1
<1>3. \A i \in 1..n : b[p[i]].dur \in Int BY <1>2 DEF Dated
<1>14. PICK V : V = Int OBVIOUS
<1> DEFINE F == [q \in V \X (1..n) |-> q[1] + b[p[q[2]]].dur]
<1>4. F \in [V \X (1..n) -> V] /\ 0 \in V BY <1>3, <1>14
<1>5. PICK h \in [SUBSET (1..n) -> V] : FoldsBy(h, n, 0, F)
  <2> HIDE DEF F
  <2> QED BY <1>2, <1>4, FoldExists
<1> DEFINE P(it) == it = [s \in SUBSET DOMAIN p |-> IF s = {} THEN 0 ELSE it[s \ {Max(s)}] + b[p[Max(s)]].dur]
<1>6. P(h)
  <2>1. \A s \in SUBSET (1..n) : h[s] = IF s = {} THEN 0 ELSE h[s \ {Max(s)}] + b[p[Max(s)]].dur
    <3> SUFFICES ASSUME NEW s \in SUBSET (1..n), s # {} PROVE h[s] = h[s \ {Max(s)}] + b[p[Max(s)]].dur
      BY <1>5 DEF FoldsBy
    <3>1. Max(s) \in 1..n BY <1>2, GreatestIs
    <3>2. h[s \ {Max(s)}] \in V OBVIOUS
    <3> QED BY <1>5, <3>1, <3>2 DEF FoldsBy
  <2> QED BY <1>2, <2>1
<1>7. PICK it : it = (CHOOSE g : P(g)) OBVIOUS
<1>8. P(it) BY <1>6, <1>7
<1>9. WeightOf(b, p) = it[DOMAIN p] BY <1>7 DEF WeightOf, FoldLeft, MapThenFoldSet
<1>10. FoldsWithin(V, n, 0, F, it)
  <2>1. it[{}] = 0 BY <1>8
  <2>2. ASSUME NEW s \in SUBSET (1..n), s # {}, it[s \ {Max(s)}] \in V
        PROVE  it[s] = F[<<it[s \ {Max(s)}], Max(s)>>]
    <3>1. Max(s) \in 1..n BY <1>2, <2>2, GreatestIs
    <3> QED BY <1>2, <1>8, <2>2, <3>1
  <2> HIDE DEF F, P
  <2> QED BY <2>1, <2>2 DEF FoldsWithin
<1>11. PICK w \in [0..n -> V] : ChainOf(w, n, 0, F, it[1..n])
  <2> HIDE DEF F, P
  <2> QED BY <1>2, <1>4, <1>10, FoldRuns
<1>12. w[0] = 0 /\ w[n] = it[1..n] BY <1>11 DEF ChainOf
<1>13. \A k \in 0..(n - 1) : w[k + 1] = w[k] + b[p[k + 1]].dur
  <2>1. \A k \in 0..(n - 1) : <<w[k], k + 1>> \in V \X (1..n) BY <1>2
  <2> QED BY <1>11, <2>1 DEF ChainOf
<1> HIDE DEF F, P
<1> QED BY <1>1, <1>2, <1>9, <1>11, <1>12, <1>13, <1>14 DEF Adds

LEMMA WeightAppends ==
  ASSUME NEW b, Dated(b), NEW p \in Seq(DOMAIN b), NEW c \in DOMAIN b
  PROVE  WeightOf(b, Append(p, c)) = WeightOf(b, p) + b[c].dur /\ WeightOf(b, p) \in Int
<1>1. PICK q : q = Append(p, c) OBVIOUS
<1>2. PICK n : n = Len(p) OBVIOUS
<1>3. /\ n \in Nat /\ q \in Seq(DOMAIN b) /\ Len(q) = n + 1 /\ q[n + 1] = c
      /\ \A i \in 1..n : q[i] = p[i]
  BY <1>1, <1>2
<1>4. PICK w : Adds(w, b, p) BY WeightRuns
<1>5. PICK v : Adds(v, b, q) BY <1>3, WeightRuns
<1> DEFINE S == {k \in 0..n : v[k] = w[k]}
<1>6. 0 \in S BY <1>3, <1>4, <1>5 DEF Adds
<1>7. \A k \in 0..(n - 1) : k \in S => k + 1 \in S
  <2> SUFFICES ASSUME NEW k \in 0..(n - 1), k \in S PROVE k + 1 \in S OBVIOUS
  <2>1. k + 1 \in 1..n /\ k \in 0..((n + 1) - 1) /\ k + 1 \in 0..n BY <1>3
  <2>2. v[k + 1] = v[k] + b[q[k + 1]].dur BY <1>3, <1>5, <2>1 DEF Adds
  <2>3. w[k + 1] = w[k] + b[p[k + 1]].dur BY <1>2, <1>4 DEF Adds
  <2> QED BY <1>3, <2>1, <2>2, <2>3
<1>8. n \in S
  <2> HIDE DEF S
  <2>1. \A k \in 0..n : k \in S BY <1>3, <1>6, <1>7, CountingTo
  <2> QED BY <1>3, <2>1
<1>9. v[n + 1] = v[n] + b[c].dur
  <2>1. n \in 0..((n + 1) - 1) BY <1>3
  <2> QED BY <1>3, <1>5, <2>1 DEF Adds
<1>10. w[n] = WeightOf(b, p) /\ v[n + 1] = WeightOf(b, q) /\ w[n] \in Int
  BY <1>2, <1>3, <1>4, <1>5 DEF Adds
<1> QED BY <1>1, <1>8, <1>9, <1>10

LEMMA WeightOfNone == ASSUME NEW b, Dated(b) PROVE WeightOf(b, <<>>) = 0
<1>1. <<>> \in Seq(DOMAIN b) /\ Len(<<>>) = 0 OBVIOUS
<1>2. PICK w : Adds(w, b, <<>>) BY <1>1, WeightRuns
<1> QED BY <1>1, <1>2 DEF Adds

ChainIn(b, p) ==
  /\ p \in Seq(DOMAIN b) /\ \A i, j \in 1..Len(p) : p[i] = p[j] => i = j
  /\ \A i \in 1..(Len(p) - 1) : p[i] \in b[p[i + 1]].deps

\* No chain weighs more than the longest one that ends where it does.
LEMMA NoLonger ==
  ASSUME NEW b, Acyclic(b), Dated(b), NEW e, LongestFor(b, e), NEW p, ChainIn(b, p), p # <<>>
  PROVE  Len(p) \in Nat \ {0} /\ p[Len(p)] \in DOMAIN b /\ WeightOf(b, p) <= e[p[Len(p)]]
<1>1. PICK n : n = Len(p) OBVIOUS
<1>2. n \in Nat \ {0} /\ \A i \in 1..n : p[i] \in DOMAIN b BY <1>1 DEF ChainIn
<1>3. PICK w : Adds(w, b, p) BY WeightRuns DEF ChainIn
<1>4. w \in [0..n -> Int] /\ w[0] = 0 /\ w[n] = WeightOf(b, p) /\ \A k \in 0..(n - 1) : w[k + 1] = w[k] + b[p[k + 1]].dur
  BY <1>1, <1>3 DEF Adds
<1>5. \A i \in 1..n : e[p[i]] \in Int /\ b[p[i]].dur \in Nat BY <1>2 DEF LongestFor, Dated
<1> DEFINE S == {k \in 0..n : k = 0 \/ w[k] <= e[p[k]]}
<1>6. 0 \in S BY <1>2
<1>7. \A k \in 0..(n - 1) : k \in S => k + 1 \in S
  <2> SUFFICES ASSUME NEW k \in 0..(n - 1), k \in S PROVE w[k + 1] <= e[p[k + 1]] /\ k + 1 \in 0..n OBVIOUS
  <2>1. k + 1 \in 1..n /\ k + 1 \in 0..n /\ k \in 0..n BY <1>2
  <2>2. w[k + 1] = w[k] + b[p[k + 1]].dur /\ w[k] \in Int BY <1>4, <2>1
  <2>3. CASE k = 0
    <3>1. e[p[k + 1]] >= b[p[k + 1]].dur BY <1>2, <2>1 DEF LongestFor
    <3> QED BY <1>4, <1>5, <2>1, <2>2, <2>3, <3>1
  <2>4. CASE k # 0
    <3>1. k \in 1..(n - 1) /\ k \in 1..n BY <1>2, <2>4
    <3>2. p[k] \in b[p[k + 1]].deps BY <1>1, <3>1 DEF ChainIn
    <3>3. e[p[k + 1]] >= b[p[k + 1]].dur + e[p[k]] BY <1>2, <2>1, <3>2 DEF LongestFor
    <3>4. w[k] <= e[p[k]] BY <2>4
    <3> QED BY <1>5, <2>1, <2>2, <3>1, <3>3, <3>4
  <2> QED BY <2>1, <2>3, <2>4
<1>8. n \in S
  <2> HIDE DEF S
  <2>1. \A k \in 0..n : k \in S BY <1>2, <1>6, <1>7, CountingTo
  <2> QED BY <1>2, <2>1
<1> QED BY <1>1, <1>2, <1>4, <1>8

\* And one weighs as much: behind the chain to the dependency that counts.
LEMMA AsLong ==
  ASSUME NEW b, Acyclic(b), Dated(b), NEW e, LongestFor(b, e), NEW c \in DOMAIN b
  PROVE  \E p : ChainIn(b, p) /\ WeightOf(b, p) = e[c]
<1>1. PICK o : o = TopoOrder(b) OBVIOUS
<1>2. SortsAll(o, b) BY <1>1, TopoIs
<1>3. PICK n : n = Len(o) OBVIOUS
<1>4. n \in Nat /\ \A i \in 1..n : o[i] \in DOMAIN b BY <1>2, <1>3 DEF SortsAll, Sorts
<1> DEFINE Ends(p, i) == /\ ChainIn(b, p) /\ WeightOf(b, p) = e[o[i]]
                         /\ Len(p) \in Nat \ {0} /\ p[Len(p)] = o[i]
                         /\ \A k \in 1..Len(p) : \E j \in 1..i : p[k] = o[j]
           Bad == {i \in 1..n : ~\E p : Ends(p, i)}
<1>5. Bad = {}
  <2> SUFFICES ASSUME Bad # {} PROVE FALSE OBVIOUS
  <2>1. PICK i \in Bad : \A j \in Bad : i <= j
    <3>1. Bad \in SUBSET Nat BY <1>4
    <3> HIDE DEF Bad
    <3>2. Min(Bad) \in Bad /\ \A j \in Bad : Min(Bad) <= j BY <3>1, LeastIs
    <3> QED BY <3>2
  <2>2. i \in 1..n OBVIOUS
  <2>3. PICK x \in DOMAIN b : x = o[i] BY <1>4, <2>2
  <2>4. e[x] \in Int /\ b[x].dur \in Nat BY DEF LongestFor, Dated
  <2>5. ASSUME e[x] = b[x].dur PROVE \E p : Ends(p, i)
    <3>1. PICK p : p = Append(<<>>, x) OBVIOUS
    <3>2. p \in Seq(DOMAIN b) /\ Len(p) = 1 /\ p[1] = x /\ <<>> \in Seq(DOMAIN b) BY <3>1
    <3>3. WeightOf(b, p) = e[x]
      <4>1. WeightOf(b, p) = WeightOf(b, <<>>) + b[x].dur BY <3>1, <3>2, WeightAppends
      <4>2. WeightOf(b, <<>>) = 0 BY WeightOfNone
      <4> QED BY <2>4, <2>5, <4>1, <4>2
    <3>4. ChainIn(b, p) BY <3>2 DEF ChainIn
    <3>5. Ends(p, i) BY <2>2, <2>3, <3>2, <3>3, <3>4
    <3> QED BY <3>5
  <2>6. ASSUME NEW d \in b[x].deps, e[x] = b[x].dur + e[d] PROVE \E p : Ends(p, i)
    <3>1. PICK j \in 1..(i - 1) : o[j] = d BY <1>2, <1>3, <2>2, <2>3 DEF SortsAll, Sorts
    <3>2. j \in 1..n /\ ~(i <= j) BY <1>4, <2>2
    <3>3. PICK q : Ends(q, j) BY <2>1, <3>2
    <3>4. PICK m \in Nat \ {0} : m = Len(q) BY <3>3
    <3>5. q \in Seq(DOMAIN b) /\ q[m] = d BY <3>1, <3>3, <3>4 DEF ChainIn
    <3>6. PICK p : p = Append(q, x) OBVIOUS
    <3>7. p \in Seq(DOMAIN b) /\ Len(p) = m + 1 /\ p[m + 1] = x /\ \A k \in 1..m : p[k] = q[k] BY <3>4, <3>5, <3>6
    <3>8. WeightOf(b, p) = e[x] BY <2>4, <2>6, <3>1, <3>3, <3>5, <3>6, WeightAppends
    <3>9. \A k \in 1..m : \E l \in 1..j : q[k] = o[l] BY <3>3, <3>4
    <3>10. \A k \in 1..m : q[k] # x
      <4> SUFFICES ASSUME NEW k \in 1..m, q[k] = x PROVE FALSE OBVIOUS
      <4>1. PICK l \in 1..j : o[l] = x BY <3>9
      <4>2. l \in 1..n /\ l # i BY <1>4, <2>2, <3>2
      <4> QED BY <1>2, <1>3, <2>2, <2>3, <4>1, <4>2 DEF SortsAll, Sorts
    <3>11. \A k, l \in 1..Len(p) : p[k] = p[l] => k = l
      <4> SUFFICES ASSUME NEW k \in 1..(m + 1), NEW l \in 1..(m + 1), p[k] = p[l] PROVE k = l BY <3>7
      <4>1. (k \in 1..m \/ k = m + 1) /\ (l \in 1..m \/ l = m + 1) OBVIOUS
      <4>2. k \in 1..m /\ l \in 1..m => k = l BY <3>3, <3>4, <3>7 DEF ChainIn
      <4> QED BY <3>7, <3>10, <4>1, <4>2
    <3>12. \A k \in 1..(Len(p) - 1) : p[k] \in b[p[k + 1]].deps
      <4>3. 1..(Len(p) - 1) = 1..m BY <3>7
      <4> SUFFICES ASSUME NEW k \in 1..m PROVE p[k] \in b[p[k + 1]].deps BY <4>3
      <4>1. CASE k = m BY <3>5, <3>7, <4>1
      <4>2. CASE k # m
        <5>1. k \in 1..(m - 1) /\ k + 1 \in 1..m BY <4>2
        <5>2. q[k] \in b[q[k + 1]].deps BY <3>3, <3>4, <5>1 DEF ChainIn
        <5> QED BY <3>7, <5>1, <5>2
      <4> QED BY <4>1, <4>2
    <3>13. \A k \in 1..Len(p) : \E l \in 1..i : p[k] = o[l]
      <4> SUFFICES ASSUME NEW k \in 1..(m + 1) PROVE \E l \in 1..i : p[k] = o[l] BY <3>7
      <4>1. CASE k = m + 1 BY <2>2, <2>3, <3>7, <4>1
      <4>2. CASE k # m + 1
        <5>1. PICK l \in 1..j : q[k] = o[l] BY <3>9, <4>2
        <5>2. l \in 1..i BY <2>2, <3>1
        <5> QED BY <3>7, <4>2, <5>1, <5>2
      <4> QED BY <4>1, <4>2
    <3>14. ChainIn(b, p) BY <3>7, <3>11, <3>12 DEF ChainIn
    <3>15. Ends(p, i) BY <2>3, <3>7, <3>8, <3>13, <3>14
    <3> QED BY <3>15
  <2>7. e[x] = b[x].dur \/ \E d \in b[x].deps : e[x] = b[x].dur + e[d] BY DEF LongestFor
  <2>8. \E p : Ends(p, i) BY <2>5, <2>6, <2>7
  <2> QED BY <2>8
<1>6. PICK i \in 1..n : o[i] = c BY <1>2, <1>3 DEF SortsAll
<1>7. PICK p : Ends(p, i) BY <1>5
<1> QED BY <1>6, <1>7

Weights(b) ==
  {0} \cup {WeightOf(b, p) : p \in {p \in SetToAllKPermutations(DOMAIN b) :
                                   \A i \in 1..(Len(p) - 1) : p[i] \in b[p[i + 1]].deps}}

LEMMA LengthIs ==
  ASSUME NEW b, Acyclic(b), Dated(b)
  PROVE  CriticalLength(b) = Max(Weights(b))
<1>0. PICK T : T = Weights(b) OBVIOUS
<1>1. \A n : n \in T <=> n = 0 \/ \E p : ChainIn(b, p) /\ n = WeightOf(b, p)
  BY <1>0, PermutationsAre DEF ChainIn, Acyclic, Weights
<1>2. PICK e : e = LongestTo(b, TopoOrder(b)) OBVIOUS
<1>3. LongestFor(b, e) BY <1>2, TopoIs, LongestIs
<1>4. e \in [DOMAIN b -> Int] BY <1>3 DEF LongestFor
<1>5. PICK m : m = Max({0} \cup Values(e, DOMAIN b)) OBVIOUS
<1>6. m \in Int /\ m >= 0 /\ (\A c \in DOMAIN b : m >= e[c]) /\ (m = 0 \/ \E c \in DOMAIN b : m = e[c])
  BY <1>4, <1>5, MostOf DEF Acyclic
<1>7. Range(e) = Values(e, DOMAIN b) BY <1>4 DEF Range, Values
<1>8. CriticalLength(b) = m BY <1>2, <1>5, <1>7 DEF CriticalLength
<1>9. \A p : ChainIn(b, p) => WeightOf(b, p) \in Int /\ WeightOf(b, p) <= m
  <2> SUFFICES ASSUME NEW p, ChainIn(b, p) PROVE WeightOf(b, p) \in Int /\ WeightOf(b, p) <= m OBVIOUS
  <2>1. WeightOf(b, p) \in Int
    <3>1. PICK w : Adds(w, b, p) BY WeightRuns DEF ChainIn
    <3>2. Len(p) \in Nat BY DEF ChainIn
    <3> QED BY <3>1, <3>2 DEF Adds
  <2>2. CASE p = <<>> BY <1>6, <2>2, WeightOfNone
  <2>3. CASE p # <<>>
    <3>1. p[Len(p)] \in DOMAIN b /\ WeightOf(b, p) <= e[p[Len(p)]] BY <1>3, <2>3, NoLonger
    <3>2. e[p[Len(p)]] \in Int /\ e[p[Len(p)]] <= m BY <1>4, <1>6, <3>1
    <3> QED BY <1>6, <2>1, <3>1, <3>2
  <2> QED BY <2>1, <2>2, <2>3
<1>10. m \in T
  <2>1. CASE m = 0 BY <1>1, <2>1
  <2>2. CASE m # 0
    <3>1. PICK c \in DOMAIN b : m = e[c] BY <1>6, <2>2
    <3>2. PICK p : ChainIn(b, p) /\ WeightOf(b, p) = e[c] BY <1>3, AsLong
    <3> QED BY <1>1, <3>1, <3>2
  <2> QED BY <2>1, <2>2
<1>11. \A n \in T : n \in Int /\ m >= n BY <1>1, <1>6, <1>9
<1>12. \A k \in T : (\A n \in T : k >= n) <=> k = m BY <1>10, <1>11
<1> QED BY <1>0, <1>8, <1>10, <1>12 DEF Max

LEMMA CriticalHolds == ASSUME Acyclic(board), Dated(board) PROVE CriticalIsLongest
<1>1. CriticalLength(board) = Max(Weights(board)) BY LengthIs
<1> QED BY <1>1 DEF CriticalIsLongest, Weights, WeightOf

\* What the critical_path action answers is true of every board the server can
\* be left with, whatever its size: the float of a card is the slack it has
\* before it moves the finish of the plan, and the length reported is that of
\* the longest chain of work (computeCpmSchedule and computeCriticalPath,
\* server/plan/taskOps.ts).
THEOREM ScheduleStands == OneRequest => (BoardSpec => []ScheduleIsTrue)
<1> SUFFICES ASSUME OneRequest PROVE BoardSpec => []ScheduleIsTrue OBVIOUS
<1>1. BoardInv => ScheduleIsTrue
  <2> SUFFICES ASSUME BoardInv PROVE ScheduleIsTrue OBVIOUS
  <2>1. board \in [DOMAIN board -> Card] /\ IsFiniteSet(DOMAIN board) /\ DOMAIN board \subseteq Nat
    BY CardsFinite DEF BoardInv, BoardTypes
  <2>2. Acyclic(board) BY <2>1, DepsSoundIs DEF BoardInv, Acyclic
  <2>3. Dated(board) BY <2>1 DEF Dated, Card, Day, NoDay
  <2> QED BY <2>1, <2>2, <2>3, SlackHolds, CriticalHolds DEF ScheduleIsTrue
<1> QED BY <1>1, BoardInductive, PTL
=============================================================================
