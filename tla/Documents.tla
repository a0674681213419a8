------------------------------ MODULE Documents ------------------------------
(* The invoice as a document: how a month of rows is folded into lines and      *)
(* totals (server/track/invoice.ts for a customer, server/invoices/contractor.  *)
(* ts for a member), what is sealed and signed of it (server/invoices/snapshot. *)
(* ts, issue.ts, keys.ts), how it is drawn again from the sealed record, and    *)
(* what server/invoices/verify.ts answers about it later.  Lengths are seconds, *)
(* minutes are rounded; a cost is counted in tenths of the four decimals the    *)
(* code keeps; a hash is the value it was taken over, and a signature a hash    *)
(* with the key.  Between the two writes of certify: see Ledger.                  *)
EXTENDS Integers, Sequences, FiniteSets, FiniteSetsExt, Functions

CONSTANTS
  Work,        \* closed rows a month may hold
  Sheets,      \* bound: the sets of rows a behaviour starts from
  PriceLists,  \* rates in cents an hour: of the member, the customer, some lanes
  Desks,       \* requests in flight
  MaxPapers, MaxSigners, MaxIncidents,  \* bounds
  Absent

\* A row has its columns, and its id for itself.
IsRow(r) ==
  /\ r = [id |-> r.id, day |-> r.day, lane |-> r.lane, task |-> r.task, source |-> r.source, secs |-> r.secs,
          cost |-> r.cost, rate |-> r.rate, approval |-> r.approval]
  /\ r.secs \in Nat /\ r.cost \in Int /\ r.approval \in {"approved", "pending", "rejected", "none"}

ASSUME SheetsHoldRows ==
  \A month \in Sheets \cup {Work} :
    IsFiniteSet(month) /\ (\A r \in month : IsRow(r)) /\ \A q, r \in month : q.id = r.id => q = r

\* A rate is a number of cents, where there is one.
ASSUME RatesAreCents ==
  \A p \in PriceLists : /\ p.member \in Int \cup {Absent} /\ p.customer \in Int \cup {Absent}
                        /\ \A lane \in DOMAIN p.lanes : p.lanes[lane] \in Int \cup {Absent}

VARIABLES
  sheet,       \* the member's closed rows of one month, for one customer
  prices,      \* the rates of today
  frozen,      \* lockedInvoiceId: by row, the invoice that froze it, or 0
  papers,      \* the certified invoices, by number
  signers,     \* signing_keys: by id, whether the key is retired
  creating,    \* the promise of a new key is pending
  desk,        \* the handler in flight in each slot
  altered,     \* history: invoices and rows whose hashed columns changed since
  forged,      \* history: invoices whose record was edited by hand
  incidents    \* bound

documentVars == <<sheet, prices, frozen, papers, signers, creating, desk, altered, forged, incidents>>

Unoccupied == [pc |-> "free"]

DocumentInit ==
  /\ sheet \in Sheets /\ prices \in PriceLists /\ frozen = [i \in {r.id : r \in Work} |-> 0]
  /\ papers = <<>> /\ signers = <<>> /\ creating = FALSE
  /\ desk = [s \in Desks |-> Unoccupied]
  /\ altered = {} /\ forged = {} /\ incidents = 0

Total(f(_), S) == SumFunctionOnSet([x \in S |-> f(x)], S)
Rounded(n, unit) == (2 * n + unit) \div (2 * unit)  \* Math.round(n / unit)
MinutesFrom(seconds) == Rounded(seconds, 60)
Usd(cost) == Rounded(cost, 10)
AmountCentsFor(minutes, rate) == IF rate = Absent THEN Absent ELSE Rounded(minutes * rate, 60)
-----------------------------------------------------------------------------
\* buildInvoiceData: a lane's rate overrides the customer's.
Priced(worked) ==
  {[r EXCEPT !.rate = IF r.lane \in DOMAIN prices.lanes THEN prices.lanes[r.lane] ELSE prices.customer] :
     r \in worked}

\* foldInvoiceLines: one line for each stream and task, seconds rounded once for
\* the human and once for the agent part; the totals are the lines' sums.
CustomerLine(worked, key) ==
  LET mine   == {r \in worked : <<r.lane, r.task>> = key /\ r.secs > 0}
      agents == {r \in mine : r.source = "agent"}
      human  == MinutesFrom(Total(LAMBDA r : r.secs, mine \ agents))
      agent  == MinutesFrom(Total(LAMBDA r : r.secs, agents))
      rate   == (CHOOSE r \in mine : TRUE).rate
  IN [human |-> human, agent |-> agent, minutes |-> human + agent, rate |-> rate,
      cost |-> Total(LAMBDA r : r.cost, agents), cents |-> AmountCentsFor(human + agent, rate)]

CustomerLines(worked) ==
  {<<k, CustomerLine(worked, k)>> : k \in {<<r.lane, r.task>> : r \in {r \in worked : r.secs > 0}}}

PricedSum(lines) ==
  LET priced == {l \in lines : l[2].cents # Absent}
  IN IF priced = {} THEN Absent ELSE Total(LAMBDA l : l[2].cents, priced)

\* Mutant: the total rounds the month's seconds and not the lines' minutes.
FoldCustomer_Bug(worked) ==
  LET lines == CustomerLines(worked) IN
  [lines |-> lines, minutes |-> MinutesFrom(Total(LAMBDA r : r.secs, worked)),
   cost |-> Usd(Total(LAMBDA l : l[2].cost, lines)), cents |-> PricedSum(lines)]

FoldCustomer(worked) ==
  LET lines == CustomerLines(worked) IN
  [lines |-> lines, minutes |-> Total(LAMBDA l : l[2].minutes, lines),
   cost |-> Usd(Total(LAMBDA l : l[2].cost, lines)), cents |-> PricedSum(lines)]

\* foldContractorLines: one line for each day, stream and task, from minutes that
\* were rounded row by row; the total is priced once.
ContractorLine(entries, key, rate) ==
  LET mine == {e \in entries : <<e.day, e.lane, e.task>> = key}
      minutes == Total(LAMBDA e : e.minutes, mine)
  IN [minutes |-> minutes, cents |-> AmountCentsFor(minutes, rate),
      cost |-> Total(LAMBDA e : e.cost, {e \in mine : e.source = "agent"})]

FoldContractor(entries, rate) ==
  LET lines   == {<<k, ContractorLine(entries, k, rate)>> : k \in {<<e.day, e.lane, e.task>> : e \in entries}}
      minutes == Total(LAMBDA e : e.minutes, entries)
  IN [lines |-> lines, minutes |-> minutes, cents |-> AmountCentsFor(minutes, rate),
      cost |-> Total(LAMBDA l : l[2].cost, lines)]

\* entrySha256 and snapshotLine: the hashed columns of a row, and the row as an
\* invoice keeps it, its cost to four decimals.
EntrySha(row) == [id |-> row.id, day |-> row.day, lane |-> row.lane, task |-> row.task,
                  source |-> row.source, secs |-> row.secs, cost |-> Usd(row.cost)]

SnapshotLine(row) ==
  [id |-> row.id, day |-> row.day, lane |-> row.lane, task |-> row.task, source |-> row.source,
   secs |-> row.secs, minutes |-> MinutesFrom(row.secs), cost |-> Usd(row.cost), rate |-> row.rate,
   approval |-> row.approval, seal |-> EntrySha(row)]

\* includedFor, and the minutes buildContractorInvoice reports as left out.
Included(worked, onlyApproved) ==
  {r \in worked : IF onlyApproved THEN r.approval = "approved" ELSE r.approval # "rejected"}

ExcludedMinutes(worked, onlyApproved, waiting) ==
  Total(LAMBDA r : MinutesFrom(r.secs),
        {r \in worked \ Included(worked, onlyApproved) : r.approval = waiting})

BuildContractor(worked, onlyApproved) ==
  LET entries == {SnapshotLine(r) : r \in Included(worked, onlyApproved)}
      fold    == FoldContractor(entries, prices.member)
  IN [kind |-> "contractor", lines |-> entries, access |-> 0, edits |-> 0, rate |-> prices.member,
      totals |-> [minutes |-> fold.minutes, cents |-> fold.cents, cost |-> fold.cost]]

BuildCustomer(worked) ==
  LET fold == FoldCustomer(Priced(worked))
  IN [kind |-> "customer", lines |-> {SnapshotLine(r) : r \in Priced(worked)}, access |-> 0,
      edits |-> 0, rate |-> prices.customer,
      totals |-> [minutes |-> fold.minutes, cents |-> fold.cents, cost |-> fold.cost]]

\* customerDataFromSnapshot and contractorDataFromSnapshot: the sealed lines are
\* folded again, at the sealed rates.
\* Mutant: at the rates of today.
Redrawn_Bug(snapshot) ==
  LET rows == {[l EXCEPT !.cost = 10 * @] : l \in snapshot.lines} IN
  IF snapshot.kind = "customer" THEN FoldCustomer(Priced(rows))
  ELSE FoldContractor(snapshot.lines, prices.member)

Redrawn(snapshot) ==
  IF snapshot.kind = "customer"
  THEN FoldCustomer({[l EXCEPT !.cost = 10 * @] : l \in snapshot.lines})
  ELSE FoldContractor(snapshot.lines, snapshot.rate)
-----------------------------------------------------------------------------
\* The access block is not part of what is hashed.
\* Mutant: it is.
SignedPart_Bug(snapshot) == snapshot

SignedPart(snapshot) == [snapshot EXCEPT !.access = 0]

Sit(s, r) == desk' = [desk EXCEPT ![s] = r]

\* invoice.contractor_generate and invoice.generate, up to certify: nothing to
\* bill and rows another invoice froze are refused.
Draw(s, snapshot) ==
  /\ desk[s].pc = "free"
  /\ Len(papers) + Cardinality({u \in Desks : desk[u].pc # "free"}) < MaxPapers
  /\ snapshot.lines # {} /\ \A l \in snapshot.lines : frozen[l.id] = 0
  /\ Sit(s, [pc |-> "read", snapshot |-> snapshot])
  /\ UNCHANGED <<sheet, prices, frozen, papers, signers, creating, altered, forged, incidents>>

ActiveSigner == LET active == {k \in DOMAIN signers : ~signers[k]}
                IN IF active = {} THEN Absent ELSE Max(active)

\* activeSigningKey reads the newest key in use;
ReadActive(s) ==
  /\ desk[s].pc = "read"
  /\ Sit(s, [pc |-> "found", snapshot |-> desk[s].snapshot, key |-> ActiveSigner])
  /\ UNCHANGED <<sheet, prices, frozen, papers, signers, creating, altered, forged, incidents>>

\* without one, the requests of this process wait for the same new key.
UseSigner(s) ==
  /\ desk[s].pc = "found"
  /\ IF desk[s].key # Absent
     THEN Sit(s, [desk[s] EXCEPT !.pc = "sign"]) /\ UNCHANGED creating
     ELSE Sit(s, [desk[s] EXCEPT !.pc = "wait"]) /\ creating' = TRUE
  /\ UNCHANGED <<sheet, prices, frozen, papers, signers, altered, forged, incidents>>

CreateSigner ==
  LET new == Len(signers) + 1 IN
  /\ creating /\ new <= MaxSigners
  /\ signers' = Append(signers, FALSE) /\ creating' = FALSE
  /\ desk' = [s \in Desks |-> IF desk[s].pc = "wait" THEN [desk[s] EXCEPT !.pc = "sign", !.key = new]
                              ELSE desk[s]]
  /\ UNCHANGED <<sheet, prices, frozen, papers, altered, forged, incidents>>

\* certify signs the hash, writes the record, its access block last, and freezes
\* the rows that are still free.
Certify(s) ==
  LET r == desk[s]
      i == Len(papers) + 1
      hash == SignedPart(r.snapshot)
      ids  == {l.id : l \in r.snapshot.lines}
  IN
  /\ r.pc = "sign"
  /\ papers' = Append(papers, [snapshot |-> [r.snapshot EXCEPT !.access = 1], hash |-> hash,
                               signature |-> <<hash, r.key>>, key |-> r.key, voided |-> FALSE])
  /\ frozen' = [id \in DOMAIN frozen |-> IF id \in ids /\ frozen[id] = 0 THEN i ELSE frozen[id]]
  /\ Sit(s, Unoccupied)
  /\ altered' = altered \cup {<<i, l.id>> :
                   l \in {l \in r.snapshot.lines : \A row \in sheet : EntrySha(row) # l.seal}}
  /\ UNCHANGED <<sheet, prices, signers, creating, forged, incidents>>
-----------------------------------------------------------------------------
Incident == incidents < MaxIncidents /\ incidents' = incidents + 1

\* The rows of the month become other rows; the invoices drawn before remember
\* those that changed.
Becomes(worked) ==
  /\ sheet' = worked
  /\ altered' = altered \cup ((DOMAIN papers) \X {r.id : r \in sheet \ worked})

\* member.set_billing: other rates from today.  Those of customers and lanes have
\* no action of their own and change in the database.
Reprice ==
  /\ prices' \in PriceLists \ {prices} /\ Incident
  /\ UNCHANGED <<sheet, frozen, papers, signers, creating, desk, altered, forged>>

\* invoice.share and the codes: only the access block is written.
ShareDetails(i) ==
  /\ papers' = [papers EXCEPT ![i].snapshot.access = @ + 1] /\ Incident
  /\ UNCHANGED <<sheet, prices, frozen, signers, creating, desk, altered, forged>>

VoidPaper(i) ==
  /\ ~papers[i].voided /\ Incident
  /\ papers' = [papers EXCEPT ![i].voided = TRUE]
  /\ frozen' = [id \in DOMAIN frozen |-> IF frozen[id] = i THEN 0 ELSE frozen[id]]
  /\ UNCHANGED <<sheet, prices, signers, creating, desk, altered, forged>>

\* An operator retires the key: it stays published, and the next invoice of the
\* deployment makes a new one.
RetireSigner(k) ==
  /\ ~signers[k] /\ Incident
  /\ signers' = [signers EXCEPT ![k] = TRUE]
  /\ UNCHANGED <<sheet, prices, frozen, papers, creating, desk, altered, forged>>

\* time_entry.update: a row that is not frozen gets another length.
CorrectWork(row) ==
  /\ frozen[row.id] = 0 /\ Incident
  /\ Becomes((sheet \ {row}) \cup {[row EXCEPT !.secs = @ + 60]})
  /\ UNCHANGED <<prices, frozen, papers, signers, creating, desk, forged>>

\* task.delete: the rows that point at the card lose the reference, frozen or not
\* (ON DELETE SET NULL); a deleted customer leaves them the same way.
DeleteTask(task) ==
  /\ task # Absent /\ Incident
  /\ Becomes({[r EXCEPT !.task = IF @ = task THEN Absent ELSE @] : r \in sheet})
  /\ UNCHANGED <<prices, frozen, papers, signers, creating, desk, forged>>

\* Somebody edits the stored record in the database, and perhaps its hash: edits
\* are counted in place of what they change, and none undoes another.
EditRecord(i) ==
  LET edited == [papers[i].snapshot EXCEPT !.edits = @ + 1] IN
  /\ Incident
  /\ \E hash \in {papers[i].hash, SignedPart(edited)} :
       papers' = [papers EXCEPT ![i].snapshot = edited, ![i].hash = hash]
  /\ forged' = forged \cup {i}
  /\ UNCHANGED <<sheet, prices, frozen, signers, creating, desk, altered>>

\* The process is replaced, and with it every handler in flight.
StopIssuing ==
  /\ \E s \in Desks : desk[s].pc # "free"
  /\ Incident
  /\ desk' = [s \in Desks |-> Unoccupied] /\ creating' = FALSE
  /\ UNCHANGED <<sheet, prices, frozen, papers, signers, altered, forged>>

DocumentNext ==
  \/ \E s \in Desks : \/ \E only \in BOOLEAN : Draw(s, BuildContractor(sheet, only))
                      \/ Draw(s, BuildCustomer(sheet))
                      \/ ReadActive(s) \/ UseSigner(s) \/ Certify(s)
  \/ CreateSigner \/ StopIssuing \/ Reprice
  \/ \E i \in DOMAIN papers : ShareDetails(i) \/ VoidPaper(i) \/ EditRecord(i)
  \/ \E k \in DOMAIN signers : RetireSigner(k)
  \/ \E row \in sheet : CorrectWork(row)
  \/ \E task \in {r.task : r \in sheet} : DeleteTask(task)

DocumentSpec == DocumentInit /\ [][DocumentNext]_documentVars
-----------------------------------------------------------------------------
RowsAsSealed(lines) == \A l \in lines : \E row \in sheet : EntrySha(row) = l.seal

\* verifyByToken: the record hashes to what was signed, the key the invoice names
\* signed it, every row hashes to its seal, and the invoice was not withdrawn.
\* Mutant: only the key in use now is asked.
Verdict_Bug(i) ==
  LET p == papers[i] IN
  /\ SignedPart(p.snapshot) = p.hash
  /\ p.key = ActiveSigner /\ p.signature = <<p.hash, p.key>>
  /\ RowsAsSealed(p.snapshot.lines) /\ ~p.voided

Verdict(i) ==
  LET p == papers[i] IN
  /\ SignedPart(p.snapshot) = p.hash
  /\ p.key \in DOMAIN signers /\ p.signature = <<p.hash, p.key>>
  /\ RowsAsSealed(p.snapshot.lines) /\ ~p.voided

\* An invoice verifies exactly as long as it stands, its record is as it was
\* signed, and no row behind it has changed since it was read, whatever was
\* shared, whichever keys were made or retired (verify.ts:8-19, snapshot.ts:
\* 173-181).  A row also changes when its card is deleted.
VerdictIsExact ==
  \A i \in DOMAIN papers :
    Verdict(i) <=> /\ ~papers[i].voided /\ i \notin forged
                   /\ \A l \in papers[i].snapshot.lines : <<i, l.id>> \notin altered

Near(a, b, distance) == a - b <= distance /\ b - a <= distance

\* A customer's document adds up: its total is that of the lines it shows, within
\* half a minute a line and source of the time worked, and its amount within half
\* a cent a line of the minutes of each rate, priced at once (foldInvoiceLines).
CustomerAddsUp(worked) ==
  LET fold == FoldCustomer(Priced(worked))
      At(rate) == {l \in fold.lines : l[2].rate = rate}
  IN /\ fold.minutes = Total(LAMBDA l : l[2].minutes, fold.lines)
     /\ Near(60 * fold.minutes, Total(LAMBDA r : r.secs, worked), 60 * Cardinality(fold.lines))
     /\ \A rate \in {l[2].rate : l \in fold.lines} \ {Absent} :
          Near(2 * Total(LAMBDA l : l[2].cents, At(rate)),
               2 * AmountCentsFor(Total(LAMBDA l : l[2].minutes, At(rate)), rate),
               Cardinality(At(rate)) + 1)

\* A contractor's too, with every row of the month either billed or reported as
\* waiting, rejected or not submitted (contractor.ts:17-19); the amount is within
\* half a cent a line of what the lines show.
ContractorAddsUp(worked) ==
  \A only \in BOOLEAN :
    LET fold == FoldContractor({SnapshotLine(r) : r \in Included(worked, only)}, prices.member)
    IN /\ fold.minutes = Total(LAMBDA l : l[2].minutes, fold.lines)
       /\ prices.member # Absent =>
            Near(2 * Total(LAMBDA l : l[2].cents, fold.lines), 2 * fold.cents, Cardinality(fold.lines) + 1)
       /\ fold.minutes + ExcludedMinutes(worked, only, "pending") + ExcludedMinutes(worked, only, "rejected")
            + ExcludedMinutes(worked, only, "none") = Total(LAMBDA r : MinutesFrom(r.secs), worked)

\* Every month adds up, whichever rows it holds and whatever the rates are.
DocumentsAddUp ==
  sheet # {} /\ papers = <<>> /\ (\A s \in Desks : desk[s].pc = "free") =>
    \A worked \in SUBSET Work : CustomerAddsUp(worked) /\ ContractorAddsUp(worked)

\* A document drawn again from its record states the minutes and the amount that
\* were signed, whatever became of the rates, the cards and the rows; the cost of
\* a customer's may differ by the rounding of its rows (track/invoice.ts:934-939).
RedrawnIsSigned ==
  \A i \in DOMAIN papers \ forged :
    LET sealed == papers[i].snapshot.totals
        drawn  == Redrawn(papers[i].snapshot)
    IN /\ drawn.minutes = sealed.minutes /\ drawn.cents = sealed.cents
       /\ Near(2 * drawn.cost, 2 * sealed.cost, Cardinality(papers[i].snapshot.lines) + 1)

\* Both: what was signed adds up, and is what is shown later.
DocumentsAgree == DocumentsAddUp /\ RedrawnIsSigned
=============================================================================
