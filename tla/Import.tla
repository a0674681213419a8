------------------------------- MODULE Import -------------------------------
(* CSV imports: the dry run and the commit of server/importers/apply.ts.  A     *)
(* file is what `prepare` makes of it: a kind and its rows, where a row that    *)
(* was refused is Refused.  A commit reads the organization once and then       *)
(* writes lanes and customers one at a time, inserts in chunks, updates a few   *)
(* at a time; any chunk may fail, and the process may stop between two awaits.  *)
EXTENDS Integers, Sequences, FiniteSets, FiniteSetsExt, SequencesExt, TLC

CONSTANTS
  Files,       \* [kind : {"task", "time"}, rows : Seq(row)]
  Keys,        \* external keys, as key() folds them on either side
  LaneNames, Clients, Intervals,  \* names as they are spelled, and (member, start, end) fingerprints
  NameKey(_),  \* key: a name trimmed and in lower case
  Stored(_),   \* slice(0, 255): what the column keeps of a name
  Refused, Nameless,
  Chunk,       \* INSERT_CHUNK
  MaxCommits, MaxFaults  \* bounds

TaskRows == [key : Keys, lane : LaneNames \cup {Nameless}]
EntryRows == [interval : Intervals, lane : LaneNames \cup {Nameless}, client : Clients \cup {Nameless}]

\* INSERT_CHUNK is a number of rows, and `prepare` gives rows of the file's kind.
ASSUME ImportAssumption ==
  /\ Chunk \in Nat \ {0} /\ Nameless \notin LaneNames \cup Clients
  /\ (\A l \in LaneNames : Stored(l) \in LaneNames) /\ \A c \in Clients : Stored(c) \in Clients
  /\ \A file \in Files : \/ file \in [kind : {"task"}, rows : Seq(TaskRows \cup {Refused})]
                          \/ file \in [kind : {"time"}, rows : Seq(EntryRows \cup {Refused})]

VARIABLES
  keyed,       \* tasks: how many cards carry a key
  lanes,       \* streams: how many carry a name, spelled so
  clients,     \* customers: how many carry a name, spelled so
  logged,      \* time_entries: how many cover an interval
  commit,      \* the commit in flight
  foreseen,    \* history: what the dry run said before it
  committed,   \* history: the files of the commits that were started
  faults       \* bound

importVars == <<keyed, lanes, clients, logged, commit, foreseen, committed, faults>>

NoCommit == [pc |-> "none"]
Present(bag) == {x \in DOMAIN bag : bag[x] > 0}
Repeats(xs, x) == Cardinality({i \in DOMAIN xs : xs[i] = x})
Added(bag, xs) == [x \in DOMAIN bag |-> bag[x] + Repeats(xs, x)]

ImportInit ==
  /\ keyed = [k \in Keys |-> 0] /\ lanes = [l \in LaneNames |-> 0]
  /\ clients = [c \in Clients |-> 0] /\ logged = [i \in Intervals |-> 0]
  /\ commit = NoCommit /\ foreseen = NoCommit
  /\ committed = {} /\ faults = 0

\* loadOrgIndex and loadIntervalKeys: names are looked up by their keys.
KeysOf(names) == {NameKey(n) : n \in names}
OrgIndex == [keys |-> Present(keyed), lanes |-> KeysOf(Present(lanes)), clients |-> KeysOf(Present(clients)),
             seen |-> Present(logged)]

\* The name, as it is spelled, when its key is not known.
Wanted(name, known) == IF name = Nameless \/ NameKey(name) \in known THEN {} ELSE {name}
Counts == [create |-> 0, update |-> 0, skip |-> 0, lanes |-> {}, clients |-> {}]
-----------------------------------------------------------------------------
\* preview: what each row would do, told row by row from one index.
Unread(known) ==
  [create |-> 0, update |-> 0, skip |-> 0, lanes |-> {}, clients |-> {}, seen |-> known.seen]

PreviewTask(known, told, row) ==
  IF row = Refused THEN [told EXCEPT !.skip = @ + 1]
  ELSE LET field == IF row.key \in known.keys THEN "update" ELSE "create"
       IN [told EXCEPT ![field] = @ + 1, !.lanes = @ \cup Wanted(row.lane, known.lanes)]

\* Mutant: the rows of the file itself are not compared.
PreviewEntry_Bug(known, told, row) ==
  IF row = Refused THEN [told EXCEPT !.skip = @ + 1]
  ELSE LET field == IF row.interval \in known.seen THEN "skip" ELSE "create"
       IN [told EXCEPT ![field] = @ + 1, !.lanes = @ \cup Wanted(row.lane, known.lanes),
                       !.clients = @ \cup Wanted(row.client, known.clients)]

PreviewEntry(known, told, row) ==
  IF row = Refused THEN [told EXCEPT !.skip = @ + 1]
  ELSE LET field == IF row.interval \in told.seen THEN "skip" ELSE "create"
       IN [told EXCEPT ![field] = @ + 1, !.seen = @ \cup {row.interval},
                       !.lanes = @ \cup Wanted(row.lane, known.lanes),
                       !.clients = @ \cup Wanted(row.client, known.clients)]

PreviewRow(kind, known, told, row) ==
  IF kind = "task" THEN PreviewTask(known, told, row) ELSE PreviewEntry(known, told, row)

Preview(file) ==
  LET known == OrgIndex
      told  == FoldLeft(LAMBDA sum, row : PreviewRow(file.kind, known, sum, row), Unread(known), file.rows)
  IN [f \in DOMAIN Counts |-> told[f]]

\* commit reads the organization; the dry run of the same moment is kept beside it.
Commit(file) ==
  /\ commit.pc = "none" /\ Cardinality(committed) < MaxCommits
  /\ commit' = [pc |-> "rows", file |-> file, row |-> 1, index |-> OrgIndex, inserts |-> <<>>,
                updates |-> <<>>, result |-> Counts, whole |-> TRUE]
  /\ foreseen' = Preview(file)
  /\ committed' = committed \cup {<<Cardinality(committed) + 1, file>>}
  /\ UNCHANGED <<keyed, lanes, clients, logged, faults>>

ThisRow == commit.file.rows[commit.row]
Reading == commit.pc = "rows" /\ commit.row <= Len(commit.file.rows)
MissingLane == ThisRow # Refused /\ Wanted(ThisRow.lane, commit.index.lanes) # {}
MissingClient == /\ ThisRow # Refused /\ commit.file.kind = "time"
                 /\ Wanted(ThisRow.client, commit.index.clients) # {}

\* ensureStream and ensureCustomer create a name, cut to the column, and remember
\* it by the key of the whole.
EnsureStream ==
  /\ Reading /\ MissingLane
  /\ lanes' = [lanes EXCEPT ![Stored(ThisRow.lane)] = @ + 1]
  /\ commit' = [commit EXCEPT !.index.lanes = @ \cup {NameKey(ThisRow.lane)},
                              !.result.lanes = @ \cup {Stored(ThisRow.lane)}]
  /\ UNCHANGED <<keyed, clients, logged, foreseen, committed, faults>>

EnsureCustomer ==
  /\ Reading /\ ~MissingLane /\ MissingClient
  /\ clients' = [clients EXCEPT ![Stored(ThisRow.client)] = @ + 1]
  /\ commit' = [commit EXCEPT !.index.clients = @ \cup {NameKey(ThisRow.client)},
                              !.result.clients = @ \cup {Stored(ThisRow.client)}]
  /\ UNCHANGED <<keyed, lanes, logged, foreseen, committed, faults>>

\* A card whose key is known is updated, any other row of the file inserted.
\* Mutant: keys are looked up among the rows of the file only.
TaskRow_Bug ==
  IF ThisRow.key \in Range(commit.inserts)
  THEN [commit EXCEPT !.updates = Append(@, ThisRow.key), !.row = @ + 1]
  ELSE [commit EXCEPT !.inserts = Append(@, ThisRow.key), !.row = @ + 1]

TaskRow ==
  IF ThisRow.key \in commit.index.keys
  THEN [commit EXCEPT !.updates = Append(@, ThisRow.key), !.row = @ + 1]
  ELSE [commit EXCEPT !.inserts = Append(@, ThisRow.key), !.row = @ + 1]

\* An entry whose interval is logged or was met before in the file is skipped.
\* Mutant: the rows of the file itself are not compared.
EntryRow_Bug ==
  IF ThisRow.interval \in commit.index.seen
  THEN [commit EXCEPT !.result.skip = @ + 1, !.row = @ + 1]
  ELSE [commit EXCEPT !.inserts = Append(@, ThisRow.interval), !.row = @ + 1]

EntryRow ==
  IF ThisRow.interval \in commit.index.seen
  THEN [commit EXCEPT !.result.skip = @ + 1, !.row = @ + 1]
  ELSE [commit EXCEPT !.inserts = Append(@, ThisRow.interval), !.index.seen = @ \cup {ThisRow.interval},
                      !.row = @ + 1]

ReadRow ==
  /\ Reading /\ ~MissingLane /\ ~MissingClient
  /\ commit' = IF ThisRow = Refused THEN [commit EXCEPT !.result.skip = @ + 1, !.row = @ + 1]
               ELSE IF commit.file.kind = "task" THEN TaskRow ELSE EntryRow
  /\ UNCHANGED <<keyed, lanes, clients, logged, foreseen, committed, faults>>

RowsRead ==
  /\ commit.pc = "rows" /\ ~Reading
  /\ commit' = [commit EXCEPT !.pc = "write"]
  /\ UNCHANGED <<keyed, lanes, clients, logged, foreseen, committed, faults>>

\* Multi-row INSERTs, a chunk at a time.
FirstChunk == SubSeq(commit.inserts, 1, Min({Chunk, Len(commit.inserts)}))
RestOfInserts == SubSeq(commit.inserts, Len(FirstChunk) + 1, Len(commit.inserts))

InsertChunk ==
  /\ commit.pc = "write" /\ commit.inserts # <<>>
  /\ IF commit.file.kind = "task"
     THEN keyed' = Added(keyed, FirstChunk) /\ UNCHANGED logged
     ELSE logged' = Added(logged, FirstChunk) /\ UNCHANGED keyed
  /\ commit' = [commit EXCEPT !.inserts = RestOfInserts, !.result.create = @ + Len(FirstChunk)]
  /\ UNCHANGED <<lanes, clients, foreseen, committed, faults>>

\* A chunk that fails is reported and counted as skipped, and the rest goes on.
ChunkFails ==
  /\ commit.pc = "write" /\ commit.inserts # <<>> /\ faults < MaxFaults
  /\ faults' = faults + 1
  /\ commit' = [commit EXCEPT !.inserts = RestOfInserts, !.whole = FALSE,
                              !.result.skip = @ + Len(FirstChunk)]
  /\ UNCHANGED <<keyed, lanes, clients, logged, foreseen, committed>>

\* UPDATEs by id, after the inserts; each may fail alone.
UpdateCard ==
  /\ commit.pc = "write" /\ commit.inserts = <<>> /\ commit.updates # <<>>
  /\ commit' = [commit EXCEPT !.updates = Tail(@), !.result.update = @ + 1]
  /\ UNCHANGED <<keyed, lanes, clients, logged, foreseen, committed, faults>>

UpdateFails ==
  /\ commit.pc = "write" /\ commit.inserts = <<>> /\ commit.updates # <<>> /\ faults < MaxFaults
  /\ faults' = faults + 1
  /\ commit' = [commit EXCEPT !.updates = Tail(@), !.result.skip = @ + 1, !.whole = FALSE]
  /\ UNCHANGED <<keyed, lanes, clients, logged, foreseen, committed>>

\* The run is recorded and answered.
RecordRun ==
  /\ commit.pc = "write" /\ commit.inserts = <<>> /\ commit.updates = <<>>
  /\ commit' = [commit EXCEPT !.pc = "answer"]
  /\ UNCHANGED <<keyed, lanes, clients, logged, foreseen, committed, faults>>

Answered ==
  /\ commit.pc = "answer"
  /\ commit' = NoCommit /\ foreseen' = NoCommit
  /\ UNCHANGED <<keyed, lanes, clients, logged, committed, faults>>

\* The process stops, or a lane or a customer cannot be written: the commit ends
\* where it stood.
CommitStops ==
  /\ commit.pc # "none" /\ faults < MaxFaults
  /\ faults' = faults + 1
  /\ commit' = NoCommit /\ foreseen' = NoCommit
  /\ UNCHANGED <<keyed, lanes, clients, logged, committed>>

ImportNext ==
  \/ \E file \in Files : Commit(file)
  \/ EnsureStream \/ EnsureCustomer \/ ReadRow \/ RowsRead
  \/ InsertChunk \/ ChunkFails \/ UpdateCard \/ UpdateFails
  \/ RecordRun \/ Answered \/ CommitStops

ImportSpec == ImportInit /\ [][ImportNext]_importVars
-----------------------------------------------------------------------------
Occurrences(file, k) ==
  Cardinality({i \in DOMAIN file.rows : file.kind = "task" /\ file.rows[i] # Refused /\ file.rows[i].key = k})

\* Importing again, after failed chunks and stops, updates and does not
\* duplicate: a key has never more cards than the rows one file gave it
\* (apply.ts:12-14; a file that names a key twice makes two cards of it).
ReimportUpdates ==
  \A k \in Keys : keyed[k] <= Max({0} \cup {Occurrences(c[2], k) : c \in committed})

\* Whatever was imported and how often, a member has one imported entry for an
\* interval, and an organization one lane and one customer of a name however it is
\* spelled.  Not of a name that is what the column keeps of a longer one: the
\* longer one is looked up whole and found under no row, so each import creates it
\* again (apply.ts:563-586).
Lasts(name, names) == \A n \in names : NameKey(Stored(n)) = NameKey(name) => NameKey(n) = NameKey(name)

OneOfAName(bag, names) ==
  \A l, m \in names :
    bag[l] > 0 /\ bag[m] > 0 /\ NameKey(l) = NameKey(m) /\ Lasts(l, names) => l = m /\ bag[l] = 1

ImportedOnce ==
  /\ \A i \in Intervals : logged[i] <= 1
  /\ OneOfAName(lanes, LaneNames) /\ OneOfAName(clients, Clients)

\* Of the spellings the dry run named, the commit created one for each key, as the
\* column keeps it, and nothing else.
AsAnnounced(announced, created) ==
  \E made \in SUBSET announced :
    /\ created = {Stored(n) : n \in made} /\ KeysOf(made) = KeysOf(announced)
    /\ \A m, n \in made : NameKey(m) = NameKey(n) => m = n

\* A commit that met no failure did what the dry run of the same moment said: as
\* many creates, updates and skips, and the lanes and customers it named
\* (apply.ts:4-9: the preview is not a separate computation), where it names two
\* spellings of one name and the commit keeps the first (apply.ts:262, 305-306).
CommitIsPreviewed ==
  commit.pc = "answer" /\ commit.whole =>
    /\ \A n \in {"create", "update", "skip"} : commit.result[n] = foreseen[n]
    /\ AsAnnounced(foreseen.lanes, commit.result.lanes) /\ AsAnnounced(foreseen.clients, commit.result.clients)

\* All three: an import can be repeated, and does what it announced.
ImportsHold == ReimportUpdates /\ ImportedOnce /\ CommitIsPreviewed
=============================================================================
