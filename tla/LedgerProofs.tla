---------------------------- MODULE LedgerProofs ----------------------------
(* What Ledger guarantees for any number of members, rows, invoices and       *)
(* concurrent requests.                                                       *)
EXTENDS Ledger, TLAPS

Issued == {i \in InvoiceIds : invoices[i] # None}

\* What a handler remembers at each program counter: the row it is about to
\* write, the row or the invoice it is about to write to, the bill it is drawing.
WellFormed(r, issued) ==
  /\ r \in Request
  /\ r.pc \in {"cut", "insert", "stopGate", "stop", "update"} => r.row \in Entry
  /\ r.pc \in {"cut", "stopGate", "stop", "update", "delete"} => r.id \in EntryIds
  /\ r.pc \in {"draft", "issue"} => r.bill \in Bill
  /\ r.pc \in {"certify", "lock", "void", "unlock"} =>
        r.inv \in issued

TypeInv == TypeOK /\ \A s \in Slots : WellFormed(req[s], Issued)

\* The bounds are natural numbers and None is not the value of any column.
LEMMA Constants ==
  /\ EntryIds \subseteq Nat /\ InvoiceIds \subseteq Nat /\ Time \subseteq Nat
  /\ None \notin EntryIds /\ None \notin InvoiceIds /\ None \notin Time
  /\ None \notin Users /\ None \notin Refs /\ None \notin BOOLEAN
  /\ None \notin Entry /\ None \notin Invoice
BY LedgerAssumption DEF LedgerAssumption, EntryIds, InvoiceIds, Time

\* A handler that only moves on keeps the types of everything else.
LEMMA RequestStep ==
  ASSUME TypeInv, NEW s \in Slots, NEW r, WellFormed(r, Issued),
         req' = [req EXCEPT ![s] = r], UNCHANGED ledger
  PROVE  TypeInv'
BY DEF TypeInv, TypeOK, WellFormed, Issued, ledger

LEMMA IdleWellFormed == WellFormed(Idle, Issued)
BY DEF WellFormed, Issued, Idle, Request, PC

-----------------------------------------------------------------------------
\* The rows the handlers build have the columns of the schema.
LEMMA NewRowType ==
  ASSUME NEW u \in Users, NEW source \in Sources, NEW in \in Time, NEW out \in Time \cup {None},
         NEW brk \in BOOLEAN, NEW metered \in BOOLEAN, NEW ref \in Refs \cup {None},
         NEW approval \in Approvals
  PROVE  NewRow(u, source, in, out, brk, metered, ref, approval) \in Entry
BY DEF NewRow, Entry, Sealed

LEMMA OpenAfterCutType ==
  ASSUME TypeInv, NEW s \in Slots, NEW u \in Users, NEW row \in Entry,
         OpenAfterCut(s, u, row), UNCHANGED ledger
  PROVE  TypeInv'
<1>1. CASE req' = [req EXCEPT ![s] = [Idle EXCEPT !.pc = "insert", !.row = row]]
  <2>1. WellFormed([Idle EXCEPT !.pc = "insert", !.row = row], Issued)
    BY Constants DEF WellFormed, Issued, Request, PC, Idle
  <2> QED BY <2>1, <1>1, RequestStep
<1>2. ASSUME NEW e \in OpenEntryFor(u),
             req' = [req EXCEPT ![s] = [Idle EXCEPT !.pc = "cut", !.id = e, !.row = row]]
      PROVE  TypeInv'
  <2>1. e \in EntryIds BY DEF OpenEntryFor, OpenOf, Rows
  <2>2. WellFormed([Idle EXCEPT !.pc = "cut", !.id = e, !.row = row], Issued)
    BY <2>1, Constants DEF WellFormed, Issued, Request, PC, Idle
  <2> QED BY <2>2, <1>2, RequestStep
<1> QED BY <1>1, <1>2 DEF OpenAfterCut, Begin

LEMMA StartType ==
  ASSUME TypeInv, NEW s \in Slots, NEW u \in Users, NEW source \in Credentials,
         NEW brk \in BOOLEAN, NEW ref \in Refs \cup {None},
         Start(s, u, source, brk, ref) \/ SwitchBreak(s, u, source, ref)
  PROVE  TypeInv'
<1>1. source \in Sources /\ now \in Time BY LedgerAssumption DEF LedgerAssumption, TypeInv, TypeOK
<1>2. NewRow(u, source, now, None, brk, FALSE, ref, "none") \in Entry
  BY <1>1, NewRowType DEF Approvals
<1>3. NewRow(u, source, now, None, TRUE, FALSE, ref, "none") \in Entry
  BY <1>1, NewRowType DEF Approvals
<1> QED BY <1>2, <1>3, OpenAfterCutType DEF Start, SwitchBreak

LEMMA StopType ==
  ASSUME TypeInv, NEW s \in Slots, NEW u \in Users, NEW reported \in BOOLEAN,
         Stop(s, u, reported)
  PROVE  TypeInv'
<1>1. PICK e \in OpenEntryFor(u) :
        req' = [req EXCEPT ![s] = [Idle EXCEPT !.pc = "stopGate", !.id = e,
                    !.row = [entries[e] EXCEPT
                      !.seal.checkOut = now,
                      !.seal.metered = AgentMetricsFor(entries[e].seal.source, reported)]]]
  BY DEF Stop, Begin
<1>2. e \in EntryIds /\ entries[e] \in Entry
  BY DEF OpenEntryFor, OpenOf, Rows, TypeInv, TypeOK
<1>3. [entries[e] EXCEPT !.seal.checkOut = now,
         !.seal.metered = AgentMetricsFor(entries[e].seal.source, reported)] \in Entry
  BY <1>2 DEF AgentMetricsFor, Entry, Sealed, TypeInv, TypeOK
<1>4. WellFormed([Idle EXCEPT !.pc = "stopGate", !.id = e,
                    !.row = [entries[e] EXCEPT
                      !.seal.checkOut = now,
                      !.seal.metered = AgentMetricsFor(entries[e].seal.source, reported)]], Issued)
  BY <1>2, <1>3, Constants DEF WellFormed, Issued, Request, PC, Idle
<1> QED BY <1>1, <1>4, RequestStep DEF Stop

LEMMA LogPastType ==
  ASSUME TypeInv, NEW s \in Slots, NEW u \in Users, NEW source \in Credentials,
         NEW in \in Time, NEW out \in Time, NEW brk \in BOOLEAN, NEW reported \in BOOLEAN,
         NEW ref \in Refs \cup {None}, LogPast(s, u, source, in, out, brk, reported, ref)
  PROVE  TypeInv'
<1> DEFINE row == NewRow(u, source, in, out, brk, AgentMetricsFor(source, reported), ref,
                         ApprovalOnWrite(u, brk))
<1>1. row \in Entry
  <2>1. AgentMetricsFor(source, reported) \in BOOLEAN BY DEF AgentMetricsFor
  <2>2. ApprovalOnWrite(u, brk) \in Approvals BY DEF ApprovalOnWrite, Approvals
  <2>3. source \in Sources BY LedgerAssumption DEF LedgerAssumption
  <2> QED BY <2>1, <2>2, <2>3, NewRowType
<1>2. WellFormed([Idle EXCEPT !.pc = "insert", !.row = row], Issued)
  BY <1>1, Constants DEF WellFormed, Issued, Request, PC, Idle
<1> QED BY <1>2, RequestStep DEF LogPast, Begin

LEMMA UpdateType ==
  ASSUME TypeInv, NEW s \in Slots, NEW u \in Users, NEW e \in Rows, NEW in \in Time,
         NEW out \in Time \cup {None}, NEW ref \in Refs \cup {None},
         Update(s, u, e, in, out, ref)
  PROVE  TypeInv'
<1> DEFINE row == [entries[e] EXCEPT !.seal.checkIn = in, !.seal.checkOut = out, !.seal.ref = ref]
<1>1. e \in EntryIds /\ entries[e] \in Entry BY DEF Rows, TypeInv, TypeOK
<1>2. row \in Entry BY <1>1 DEF Entry, Sealed
<1>3. WellFormed([Idle EXCEPT !.pc = "update", !.id = e, !.row = row], Issued)
  BY <1>1, <1>2, Constants DEF WellFormed, Issued, Request, PC, Idle
<1> QED BY <1>3, RequestStep DEF Update, Begin

\* The remaining calls remember ids, a bill or an invoice.
LEMMA CallType ==
  ASSUME TypeInv, NEW s \in Slots, Call(s)
  PROVE  TypeInv'
<1>1. ASSUME NEW u \in Users, NEW e \in Rows, Delete(s, u, e) PROVE TypeInv'
  <2>1. e \in EntryIds BY DEF Rows
  <2>2. WellFormed([Idle EXCEPT !.pc = "delete", !.id = e], Issued)
    BY <2>1, Constants DEF WellFormed, Issued, Request, PC, Idle
  <2> QED BY <1>1, <2>2, RequestStep DEF Delete, Begin
<1>2. ASSUME NEW ids \in SUBSET EntryIds, NEW pc \in {"submit", "approve", "reject"},
             req' = [req EXCEPT ![s] = [Idle EXCEPT !.pc = pc, !.ids = ids]], UNCHANGED ledger
      PROVE  TypeInv'
  <2>1. WellFormed([Idle EXCEPT !.pc = pc, !.ids = ids], Issued)
    BY <1>2 DEF WellFormed, Issued, Request, PC, Idle
  <2> QED BY <1>2, <2>1, RequestStep
<1>3. ASSUME NEW u \in Users, NEW from \in Time, NEW to \in Time, Submit(s, u, from, to) PROVE TypeInv'
  <2> DEFINE pending == {e \in Window(u, from, to) : entries[e].approval # "approved"}
  <2>1. pending \in SUBSET EntryIds BY DEF Window, Rows
  <2> QED BY <1>3, <2>1, <1>2 DEF Submit, Begin
<1>4. ASSUME NEW ids \in ResolveTargets, Approve(s, ids) \/ Reject(s, ids) PROVE TypeInv'
  <2>1. ids \in SUBSET EntryIds BY DEF ResolveTargets, Rows
  <2> QED BY <1>4, <2>1, <1>2 DEF Approve, Reject, Begin
<1>5. ASSUME NEW bill \in Bill,
             req' = [req EXCEPT ![s] = [Idle EXCEPT !.pc = "draft", !.bill = bill]], UNCHANGED ledger
      PROVE  TypeInv'
  <2>1. WellFormed([Idle EXCEPT !.pc = "draft", !.bill = bill], Issued)
    BY DEF WellFormed, Issued, Request, PC, Idle
  <2> QED BY <1>5, <2>1, RequestStep
<1>6. ASSUME NEW u \in Users, NEW forced \in BOOLEAN \cup {None}, GenerateContractor(s, u, forced)
      PROVE  TypeInv'
  <2> DEFINE only == IF forced = None THEN members[u].requireApproval ELSE forced
  <2>1. only \in BOOLEAN BY DEF TypeInv, TypeOK
  <2>2. [kind |-> "contractor", party |-> u, onlyApproved |-> only] \in Bill
    BY <2>1 DEF Bill, Parties
  <2> QED BY <1>6, <2>2, <1>5 DEF GenerateContractor, Begin
<1>7. ASSUME NEW c \in Refs, GenerateCustomer(s, c) PROVE TypeInv'
  <2>1. [kind |-> "customer", party |-> c, onlyApproved |-> FALSE] \in Bill BY DEF Bill, Parties
  <2> QED BY <1>7, <2>1, <1>5 DEF GenerateCustomer, Begin
<1>8. ASSUME NEW i \in InvoiceIds, Void(s, i) PROVE TypeInv'
  <2>1. WellFormed([Idle EXCEPT !.pc = "void", !.inv = i], Issued)
    BY <1>8 DEF WellFormed, Issued, Request, PC, Idle, Void
  <2> QED BY <1>8, <2>1, RequestStep DEF Void, Begin
<1>9. ASSUME NEW u \in Users, NEW src \in Credentials, NEW r \in Refs \cup {None},
             SwitchBreak(s, u, src, r)
      PROVE  TypeInv'
  BY <1>9, StartType
<1>10. ASSUME NEW u \in Users, NEW src \in Credentials, NEW brk \in BOOLEAN,
              NEW r \in Refs \cup {None}, Start(s, u, src, brk, r)
       PROVE  TypeInv'
  BY <1>10, StartType
<1>11. ASSUME NEW u \in Users, NEW src \in Credentials, NEW in \in Time, NEW out \in Time,
              NEW brk \in BOOLEAN, NEW tok \in BOOLEAN, NEW r \in Refs \cup {None},
              LogPast(s, u, src, in, out, brk, tok, r)
       PROVE  TypeInv'
  BY <1>11, LogPastType
<1>12. ASSUME NEW u \in Users, NEW e \in Rows, NEW in \in Time, NEW out \in Time \cup {None},
              NEW r \in Refs \cup {None}, Update(s, u, e, in, out, r)
       PROVE  TypeInv'
  BY <1>12, UpdateType
<1>13. ASSUME NEW u \in Users, NEW tok \in BOOLEAN, Stop(s, u, tok) PROVE TypeInv'
  BY <1>13, StopType
<1> QED
  BY Zenon, <1>1, <1>3, <1>4, <1>6, <1>7, <1>8, <1>9, <1>10, <1>11, <1>12, <1>13 DEF Call
-----------------------------------------------------------------------------
\* A handler's write to a row, and its return, keep the types.
LEMMA EntriesStep ==
  ASSUME TypeInv, NEW s \in Slots, NEW r, WellFormed(r, Issued), req' = [req EXCEPT ![s] = r],
         entries' \in [EntryIds -> Entry \cup {None}], nextEntry' \in 1..(MaxEntries + 1),
         UNCHANGED <<invoices, nextInvoice, members, refs, now>>
  PROVE  TypeInv'
BY DEF TypeInv, TypeOK, WellFormed, Issued

LEMMA CutInsertType ==
  ASSUME TypeInv, NEW s \in Slots, CutEntry(s) \/ InsertEntry(s)
  PROVE  TypeInv'
<1>1. ASSUME CutEntry(s) PROVE TypeInv'
  <2> DEFINE e == req[s].id
             out == req[s].row.seal.checkIn
  <2>1. req[s] \in Request /\ req[s].row \in Entry /\ e \in EntryIds
    BY <1>1 DEF CutEntry, At, TypeInv, WellFormed, Issued
  <2>2. CASE e \in Rows
    <3>1. entries[e] \in Entry BY <2>2, <2>1 DEF Rows, TypeInv, TypeOK
    <3>2. out \in Time BY <2>1 DEF Entry, Sealed
    <3>3. [entries[e] EXCEPT !.seal.checkOut = out] \in Entry BY <3>1, <3>2 DEF Entry, Sealed
    <3>4. entries' = [entries EXCEPT ![e] = [entries[e] EXCEPT !.seal.checkOut = out]]
      BY <1>1, <2>1, <2>2, <3>1 DEF CutEntry, Entry, Sealed, TypeInv, TypeOK
    <3>5. entries' \in [EntryIds -> Entry \cup {None}] BY <3>3, <3>4, <2>1 DEF TypeInv, TypeOK
    <3>6. WellFormed([req[s] EXCEPT !.pc = "insert"], Issued)
      BY <2>1 DEF WellFormed, Issued, Request, PC
    <3>7. req' = [req EXCEPT ![s] = [req[s] EXCEPT !.pc = "insert"]]
      BY <1>1, <2>2 DEF CutEntry, Proceed
    <3> QED BY <1>1, <3>5, <3>6, <3>7, EntriesStep DEF CutEntry, TypeInv, TypeOK
  <2>3. CASE e \notin Rows
    BY <1>1, <2>3, RequestStep, IdleWellFormed DEF CutEntry, Return, ledger
  <2> QED BY <2>2, <2>3
<1>2. ASSUME InsertEntry(s) PROVE TypeInv'
  <2>1. req[s].row \in Entry BY <1>2 DEF InsertEntry, At, TypeInv, WellFormed, Issued
  <2>2. nextEntry \in EntryIds /\ nextEntry \in 1..(MaxEntries + 1) /\ nextEntry <= MaxEntries
    BY <1>2, LedgerAssumption DEF LedgerAssumption, InsertEntry, EntryIds, TypeInv, TypeOK
  <2>3. entries' \in [EntryIds -> Entry \cup {None}] BY <1>2, <2>1, <2>2 DEF InsertEntry, TypeInv, TypeOK
  <2>4. nextEntry' \in 1..(MaxEntries + 1)
    BY <1>2, <2>2, LedgerAssumption DEF LedgerAssumption, InsertEntry
  <2> QED BY <1>2, <2>3, <2>4, IdleWellFormed, EntriesStep DEF InsertEntry, Return
<1> QED BY <1>1, <1>2

LEMMA StopHandlerType ==
  ASSUME TypeInv, NEW s \in Slots, StopGate(s) \/ StopWrite(s)
  PROVE  TypeInv'
<1>1. ASSUME StopGate(s) PROVE TypeInv'
  <2> DEFINE row == req[s].row
             approval == ApprovalOnWrite(row.seal.user, row.seal.isBreak)
             r == [req[s] EXCEPT !.pc = "stop", !.row.approval = approval]
  <2>1. req[s] \in Request /\ row \in Entry /\ req[s].id \in EntryIds
    BY <1>1 DEF StopGate, At, TypeInv, WellFormed, Issued
  <2>2. approval \in Approvals BY DEF ApprovalOnWrite, Approvals
  <2>3. r = [req[s] EXCEPT !.pc = "stop", !.row = [row EXCEPT !.approval = approval]]
    BY <2>1 DEF Request
  <2>4. [row EXCEPT !.approval = approval] \in Entry BY <2>1, <2>2 DEF Entry
  <2>5. WellFormed(r, Issued)
    BY <2>1, <2>3, <2>4 DEF WellFormed, Issued, Request, PC
  <2> QED BY <1>1, <2>5, RequestStep DEF StopGate, Proceed
<1>2. ASSUME StopWrite(s) PROVE TypeInv'
  <2> DEFINE e == req[s].id
             row == req[s].row
  <2>1. row \in Entry /\ e \in EntryIds
    BY <1>2 DEF StopWrite, At, TypeInv, WellFormed, Issued
  <2>2. e \in Rows => Stopped(e, row) \in Entry
    <3>1. PICK old, new : old = entries[e] /\ new = row OBVIOUS
    <3>2. e \in Rows => old \in Entry BY <2>1, <3>1 DEF Rows, TypeInv, TypeOK
    <3>3. new \in Entry BY <2>1, <3>1
    <3>4. ASSUME old \in Entry
          PROVE  [old EXCEPT !.seal.checkOut = new.seal.checkOut,
                             !.seal.metered = old.seal.metered \/ new.seal.metered,
                             !.approval = IF new.approval = "pending" THEN "pending" ELSE old.approval] \in Entry
      BY <3>3, <3>4 DEF Entry, Sealed, Approvals
    <3> QED BY <3>1, <3>2, <3>4 DEF Stopped
  <2>3. entries' \in [EntryIds -> Entry \cup {None}]
    <3>1. entries' = IF e \in Rows THEN [entries EXCEPT ![e] = Stopped(e, row)] ELSE entries
      BY <1>2 DEF StopWrite
    <3>2. entries \in [EntryIds -> Entry \cup {None}] BY DEF TypeInv, TypeOK
    <3> HIDE DEF e, row
    <3> QED BY <2>1, <2>2, <3>1, <3>2
  <2> QED BY <1>2, <2>3, IdleWellFormed, EntriesStep DEF StopWrite, Return, TypeInv, TypeOK
<1> QED BY <1>1, <1>2

LEMMA CorrectionHandlerType ==
  ASSUME TypeInv, NEW s \in Slots, UpdateWrite(s) \/ DeleteWrite(s) \/ ApprovalWrite(s)
  PROVE  TypeInv'
<1>1. ASSUME UpdateWrite(s) PROVE TypeInv'
  <2> DEFINE e == req[s].id
             row == req[s].row
  <2>1. row \in Entry /\ e \in EntryIds
    BY <1>1 DEF UpdateWrite, At, TypeInv, WellFormed, Issued
  <2>2. e \in Rows => Corrected(e, row) \in Entry
    BY <2>1 DEF Corrected, Rows, Entry, Sealed, TypeInv, TypeOK
  <2>3. entries' \in [EntryIds -> Entry \cup {None}]
    BY <1>1, <2>1, <2>2 DEF UpdateWrite, TypeInv, TypeOK
  <2> QED BY <1>1, <2>3, IdleWellFormed, EntriesStep DEF UpdateWrite, Return, TypeInv, TypeOK
<1>2. ASSUME DeleteWrite(s) PROVE TypeInv'
  <2>1. entries' \in [EntryIds -> Entry \cup {None}]
    BY <1>2 DEF DeleteWrite, TypeInv, TypeOK
  <2> QED BY <1>2, <2>1, IdleWellFormed, EntriesStep DEF DeleteWrite, Return, TypeInv, TypeOK
<1>3. ASSUME ApprovalWrite(s) PROVE TypeInv'
  <2> DEFINE verdict == Verdict(req[s].pc)
  <2>1. verdict \in Approvals BY DEF Verdict, Approvals
  <2>2. ASSUME NEW e \in Rows PROVE [entries[e] EXCEPT !.approval = verdict] \in Entry
    BY <2>1 DEF Rows, Entry, TypeInv, TypeOK
  <2>3. entries' \in [EntryIds -> Entry \cup {None}]
    BY <1>3, <2>2 DEF ApprovalWrite, TypeInv, TypeOK
  <2> QED BY <1>3, <2>3, IdleWellFormed, EntriesStep DEF ApprovalWrite, Return, TypeInv, TypeOK
<1> QED BY <1>1, <1>2, <1>3

\* A handler's write to an invoice keeps the types: invoices are never deleted.
LEMMA InvoicesStep ==
  ASSUME TypeInv, NEW s \in Slots, NEW r, WellFormed(r, Issued'), req' = [req EXCEPT ![s] = r],
         invoices' \in [InvoiceIds -> Invoice \cup {None}], nextInvoice' \in 1..(MaxInvoices + 1),
         \A i \in InvoiceIds : invoices[i] # None => invoices'[i] # None,
         UNCHANGED <<entries, nextEntry, members, refs, now>>
  PROVE  TypeInv'
BY DEF TypeInv, TypeOK, WellFormed, Issued

LEMMA InvoiceHandlerType ==
  ASSUME TypeInv, NEW s \in Slots, Draft(s) \/ Issue(s) \/ Certify(s) \/ VoidMark(s)
  PROVE  TypeInv'
<1>1. ASSUME Draft(s) PROVE TypeInv'
  <2> DEFINE rows == Billable(req[s].bill)
             r == [req[s] EXCEPT !.pc = "issue", !.lines = {LineOf(e) : e \in rows}]
  <2>1. req[s] \in Request /\ req[s].bill \in Bill
    BY <1>1 DEF Draft, At, TypeInv, WellFormed, Issued
  <2>2. {LineOf(e) : e \in rows} \in SUBSET Line
    BY DEF LineOf, Line, Billable, Rows, Entry, TypeInv, TypeOK
  <2>3. WellFormed(r, Issued) BY <2>1, <2>2 DEF WellFormed, Issued, Request, PC
  <2>4. req' \in {[req EXCEPT ![s] = r], [req EXCEPT ![s] = Idle]} /\ UNCHANGED ledger
    BY <1>1 DEF Draft, Proceed, Return
  <2> QED BY <2>3, <2>4, IdleWellFormed, RequestStep
<1>2. ASSUME Issue(s) PROVE TypeInv'
  <2> DEFINE bill == req[s].bill
             inv == [kind |-> bill.kind, party |-> bill.party, lines |-> {},
                     certified |-> FALSE, status |-> "issued", voided |-> FALSE]
             r == [req[s] EXCEPT !.pc = "certify", !.inv = nextInvoice]
  <2>1. req[s] \in Request /\ bill \in Bill
    BY <1>2 DEF Issue, At, TypeInv, WellFormed, Issued
  <2>2. nextInvoice \in InvoiceIds /\ nextInvoice + 1 \in 1..(MaxInvoices + 1)
    BY <1>2, LedgerAssumption DEF LedgerAssumption, Issue, InvoiceIds, TypeInv, TypeOK
  <2>3. CASE UNCHANGED <<invoices, nextInvoice>> /\ Return(s)
    BY <1>2, <2>3, IdleWellFormed, RequestStep DEF Issue, Return, ledger
  <2>4. CASE /\ invoices' = [invoices EXCEPT ![nextInvoice] = inv]
             /\ nextInvoice' = nextInvoice + 1
             /\ req' = [req EXCEPT ![s] = r]
    <3>1. inv \in Invoice BY <2>1 DEF Bill, Invoice
    <3>2. inv # None BY <3>1, Constants
    <3>3. invoices' \in [InvoiceIds -> Invoice \cup {None}]
      BY <2>4, <2>2, <3>1 DEF TypeInv, TypeOK
    <3>4. \A i \in InvoiceIds : invoices[i] # None => invoices'[i] # None
      BY <2>4, <2>2, <3>2 DEF TypeInv, TypeOK
    <3>5. WellFormed(r, Issued')
      BY <2>1, <2>2, <2>4, <3>2 DEF WellFormed, Issued, Request, PC, TypeInv, TypeOK
    <3> QED BY <1>2, <2>2, <2>4, <3>3, <3>4, <3>5, InvoicesStep DEF Issue
  <2> QED BY <1>2, <2>3, <2>4 DEF Issue, Proceed
<1>3. ASSUME Certify(s) PROVE TypeInv'
  <2> DEFINE i == req[s].inv
             inv == [invoices[i] EXCEPT !.lines = req[s].lines, !.certified = TRUE, !.status = "issued"]
  <2>1. req[s] \in Request /\ i \in InvoiceIds /\ invoices[i] \in Invoice
    BY <1>3 DEF Certify, At, TypeInv, TypeOK, WellFormed, Issued
  <2>2. inv \in Invoice BY <2>1 DEF Request, Invoice
  <2>3. invoices' = [invoices EXCEPT ![i] = inv]
    BY <1>3, <2>1 DEF Certify, Invoice, TypeInv, TypeOK
  <2>4. invoices' \in [InvoiceIds -> Invoice \cup {None}] BY <2>2, <2>3 DEF TypeInv, TypeOK
  <2>5. \A j \in InvoiceIds : invoices[j] # None => invoices'[j] # None
    BY <2>2, <2>3, Constants DEF TypeInv, TypeOK
  <2>6. WellFormed([req[s] EXCEPT !.pc = "lock"], Issued')
    BY <2>1, <2>2, <2>3, Constants DEF WellFormed, Issued, Request, PC, TypeInv, TypeOK
  <2>7. WellFormed(Idle, Issued') BY DEF WellFormed, Issued, Idle, Request, PC
  <2>8. req' \in {[req EXCEPT ![s] = [req[s] EXCEPT !.pc = "lock"]], [req EXCEPT ![s] = Idle]}
    BY <1>3 DEF Certify, Proceed, Return
  <2> QED BY <1>3, <2>4, <2>5, <2>6, <2>7, <2>8, InvoicesStep DEF Certify, TypeInv, TypeOK
<1>4. ASSUME VoidMark(s) PROVE TypeInv'
  <2> DEFINE i == req[s].inv
             inv == [invoices[i] EXCEPT !.voided = TRUE, !.status = "void"]
  <2>1. req[s] \in Request /\ i \in InvoiceIds /\ invoices[i] \in Invoice
    BY <1>4 DEF VoidMark, At, TypeInv, TypeOK, WellFormed, Issued
  <2>2. inv \in Invoice BY <2>1 DEF Invoice
  <2>3. invoices' = [invoices EXCEPT ![i] = inv]
    BY <1>4, <2>1 DEF VoidMark, Invoice, TypeInv, TypeOK
  <2>4. invoices' \in [InvoiceIds -> Invoice \cup {None}] BY <2>2, <2>3 DEF TypeInv, TypeOK
  <2>5. \A j \in InvoiceIds : invoices[j] # None => invoices'[j] # None
    BY <2>2, <2>3, Constants DEF TypeInv, TypeOK
  <2>6. WellFormed([req[s] EXCEPT !.pc = "unlock"], Issued')
    BY <2>1, <2>2, <2>3, Constants DEF WellFormed, Issued, Request, PC, TypeInv, TypeOK
  <2> QED BY <1>4, <2>4, <2>5, <2>6, InvoicesStep DEF VoidMark, Proceed, TypeInv, TypeOK
<1> QED BY <1>1, <1>2, <1>3, <1>4

LEMMA LockHandlerType ==
  ASSUME TypeInv, NEW s \in Slots, Lock(s) \/ VoidUnlock(s)
  PROVE  TypeInv'
<1>1. req[s].inv \in InvoiceIds BY DEF Lock, VoidUnlock, At, TypeInv, WellFormed, Issued
<1>2. ASSUME NEW e \in Rows, NEW l \in InvoiceIds \cup {None}
      PROVE  [entries[e] EXCEPT !.lock = l] \in Entry
  BY DEF Rows, Entry, TypeInv, TypeOK
<1>3. entries' \in [EntryIds -> Entry \cup {None}]
  <2>1. CASE Lock(s) BY <2>1, <1>1, <1>2 DEF Lock, TypeInv, TypeOK
  <2>2. CASE VoidUnlock(s) BY <2>2, <1>2 DEF VoidUnlock, TypeInv, TypeOK
  <2> QED BY <2>1, <2>2
<1> QED BY <1>3, IdleWellFormed, EntriesStep DEF Lock, VoidUnlock, Return, TypeInv, TypeOK

\* The columns hold the values the schema declares for them, and a handler
\* resumes with what it needs, whatever the bounds and the interleaving.
THEOREM TypeCorrect == Spec => []TypeInv
<1>1. Init => TypeInv
  <2> SUFFICES ASSUME Init PROVE TypeInv OBVIOUS
  <2>1. TypeOK
    BY LedgerAssumption DEF LedgerAssumption, Init, TypeOK, Time, Idle, Request, PC
  <2> QED BY <2>1, IdleWellFormed DEF Init, TypeInv
<1>2. TypeInv /\ [Next]_vars => TypeInv'
  <2> SUFFICES ASSUME TypeInv, [Next]_vars PROVE TypeInv' OBVIOUS
  <2>1. ASSUME NEW s \in Slots, Call(s) PROVE TypeInv' BY <2>1, CallType
  <2>2. ASSUME NEW s \in Slots, Handle(s) PROVE TypeInv'
    BY <2>2, CutInsertType, StopHandlerType, CorrectionHandlerType, InvoiceHandlerType,
       LockHandlerType DEF Handle
  <2>3. ASSUME NEW u \in Users, NEW b \in BOOLEAN, NEW a \in BOOLEAN, SetBilling(u, b, a)
        PROVE  TypeInv'
    BY <2>3 DEF SetBilling, TypeInv, TypeOK, WellFormed, Issued
  <2>4. ASSUME NEW c \in Refs, DeleteCustomer(c) PROVE TypeInv'
    <3>1. ASSUME NEW e \in Rows PROVE [entries[e] EXCEPT !.seal.ref = None] \in Entry
      BY DEF Rows, Entry, Sealed, TypeInv, TypeOK
    <3>2. entries' \in [EntryIds -> Entry \cup {None}]
      BY <2>4, <3>1 DEF DeleteCustomer, TypeInv, TypeOK
    <3> QED BY <2>4, <3>2 DEF DeleteCustomer, TypeInv, TypeOK, WellFormed, Issued
  <2>5. CASE Tick
    BY <2>5, LedgerAssumption DEF LedgerAssumption, Tick, Time, TypeInv, TypeOK, WellFormed, Issued
  <2>6. CASE Crash
    BY <2>6, IdleWellFormed DEF Crash, ledger, TypeInv, TypeOK, WellFormed, Issued
  <2>7. CASE UNCHANGED vars BY <2>7 DEF vars, TypeInv, TypeOK, WellFormed, Issued
  <2> QED BY <2>1, <2>2, <2>3, <2>4, <2>5, <2>6, <2>7 DEF Next
<1> QED BY <1>1, <1>2, PTL DEF Spec

\* Every table keeps to the columns of db/schema.ts: the type invariant the runs
\* check, for every value of the bounds.
THEOREM TypesHold == Spec => []TypeOK
<1>1. TypeInv => TypeOK BY DEF TypeInv
<1> QED BY <1>1, TypeCorrect, PTL
-----------------------------------------------------------------------------
\* Safety of the ledger, from the type invariant.

Inserted(e) ==
  /\ e = nextEntry /\ nextEntry' = nextEntry + 1
  /\ \E s \in Slots : At(s, "insert") /\ entries'[e] = req[s].row

\* The row keeps its owner and its source; it gains tokens only from a stop
\* under way; its lock stays, is taken while free, or is released.
Rewritten(e) ==
  /\ e \in Rows /\ entries'[e] # None /\ nextEntry' = nextEntry
  /\ entries'[e].seal.user = entries[e].seal.user
  /\ entries'[e].seal.source = entries[e].seal.source
  /\ entries'[e].seal.metered =>
        \/ entries[e].seal.metered
        \/ \E s \in Slots : At(s, "stop") /\ req[s].id = e /\ req[s].row.seal.metered
  /\ entries[e].lock = None \/ entries'[e].lock \in {entries[e].lock, None}

Kept(e) == entries'[e] = entries[e]
Struck(e) == entries'[e] = None /\ nextEntry' = nextEntry

\* What one step can do to one row.
RowStep(e) == Kept(e) \/ Struck(e) \/ Inserted(e) \/ Rewritten(e)

\* A correction rewrites times and the reference, and a stop adds to the tokens:
\* whose row it is, by whom, and what holds it stay.
LEMMA CorrectedRow ==
  ASSUME TypeInv, NEW e \in Rows, NEW row \in Entry
  PROVE  /\ Corrected(e, row) \in Entry
         /\ Corrected(e, row).seal.user = entries[e].seal.user
         /\ Corrected(e, row).seal.source = entries[e].seal.source
         /\ Corrected(e, row).seal.metered = entries[e].seal.metered
         /\ Corrected(e, row).seal.checkOut = row.seal.checkOut
         /\ Corrected(e, row).lock = entries[e].lock
<1>1. Corrected(e, row) \in Entry
  BY DEF Corrected, Rows, Entry, Sealed, TypeInv, TypeOK
<1>2. entries[e] \in Entry BY DEF Rows, TypeInv, TypeOK
<1>3. entries[e].seal \in Sealed BY <1>2 DEF Entry
<1>4. Corrected(e, row) = [entries[e] EXCEPT !.seal = [entries[e].seal EXCEPT
         !.checkIn = row.seal.checkIn, !.checkOut = row.seal.checkOut, !.ref = row.seal.ref]]
  BY <1>2, <1>3 DEF Corrected, Entry, Sealed
<1>5. Corrected(e, row).seal = [entries[e].seal EXCEPT
         !.checkIn = row.seal.checkIn, !.checkOut = row.seal.checkOut, !.ref = row.seal.ref]
  BY <1>2, <1>4 DEF Entry
<1>6. Corrected(e, row).lock = entries[e].lock BY <1>2, <1>4 DEF Entry
<1> QED BY <1>1, <1>3, <1>5, <1>6 DEF Sealed

LEMMA StoppedRow ==
  ASSUME TypeInv, NEW e \in Rows, NEW row \in Entry
  PROVE  /\ Stopped(e, row) \in Entry
         /\ Stopped(e, row).seal.user = entries[e].seal.user
         /\ Stopped(e, row).seal.source = entries[e].seal.source
         /\ Stopped(e, row).seal.metered => entries[e].seal.metered \/ row.seal.metered
         /\ Stopped(e, row).seal.checkOut = row.seal.checkOut
         /\ Stopped(e, row).lock = entries[e].lock
<1> DEFINE approval == IF row.approval = "pending" THEN "pending" ELSE entries[e].approval
           seal == [entries[e].seal EXCEPT !.checkOut = row.seal.checkOut,
                       !.metered = entries[e].seal.metered \/ row.seal.metered]
<1>1. Stopped(e, row) \in Entry
  BY DEF Stopped, Rows, Entry, Sealed, Approvals, TypeInv, TypeOK
<1>2. entries[e] \in Entry BY DEF Rows, TypeInv, TypeOK
<1>3. entries[e].seal \in Sealed BY <1>2 DEF Entry
<1>4. Stopped(e, row) = [entries[e] EXCEPT !.seal = seal, !.approval = approval]
  BY <1>2, <1>3 DEF Stopped, Entry, Sealed
<1>5. Stopped(e, row).seal = seal /\ Stopped(e, row).lock = entries[e].lock
  BY <1>2, <1>4 DEF Entry
<1>6. seal.metered = (entries[e].seal.metered \/ row.seal.metered) BY <1>3 DEF Sealed
<1>7. /\ seal.user = entries[e].seal.user /\ seal.source = entries[e].seal.source
      /\ seal.checkOut = row.seal.checkOut
  BY <1>3 DEF Sealed
<1> QED BY <1>1, <1>5, <1>6, <1>7

\* What one handler does to one row.
LEMMA HandlerRows ==
  ASSUME TypeInv, NEW s \in Slots, Handle(s), NEW e \in EntryIds
  PROVE  RowStep(e) /\ nextEntry' \in {nextEntry, nextEntry + 1}
<1> USE DEF RowStep
<1>1. entries[e] = None \/ entries[e] \in Entry BY DEF TypeInv, TypeOK
<1>2. CASE CutEntry(s) \/ UpdateWrite(s) \/ StopWrite(s)
  <2> DEFINE id == req[s].id
             row == req[s].row
  <2>1. row \in Entry /\ id \in EntryIds
    BY <1>2 DEF CutEntry, UpdateWrite, StopWrite, At, TypeInv, WellFormed
  <2>2. CASE id = e /\ e \in Rows /\ entries' # entries
    <3>1. entries[e] \in Entry BY <2>2, <1>1 DEF Rows
    <3>2. CASE CutEntry(s)
      <4>1. entries' = [entries EXCEPT ![e].seal.checkOut = row.seal.checkIn]
        BY <2>2, <3>2 DEF CutEntry
      <4>2. entries'[e] = [entries[e] EXCEPT !.seal.checkOut = row.seal.checkIn]
        BY <4>1 DEF TypeInv, TypeOK
      <4>3. entries'[e] \in Entry BY <4>2, <3>1, <2>1 DEF Entry, Sealed
      <4> QED BY <2>2, <3>1, <3>2, <4>2, <4>3, Constants DEF CutEntry, Rewritten, Entry, Sealed
    <3>3. CASE UpdateWrite(s)
      <4>1. entries'[e] = Corrected(e, row) BY <2>2, <3>3 DEF UpdateWrite, TypeInv, TypeOK
      <4> QED BY <2>1, <2>2, <3>3, <4>1, CorrectedRow, Constants DEF UpdateWrite, Rewritten
    <3>4. CASE StopWrite(s)
      <4>1. entries'[e] = Stopped(e, row) BY <2>2, <3>4 DEF StopWrite, TypeInv, TypeOK
      <4> QED BY <2>1, <2>2, <3>4, <4>1, StoppedRow, Constants DEF StopWrite, At, Rewritten
    <3> QED BY <1>2, <3>2, <3>3, <3>4
  <2>3. CASE ~(id = e /\ e \in Rows /\ entries' # entries)
    BY <1>2, <2>1, <2>3 DEF CutEntry, UpdateWrite, StopWrite, Kept, TypeInv, TypeOK
  <2> QED BY <1>2, <2>2, <2>3 DEF CutEntry, UpdateWrite, StopWrite
<1>3. CASE InsertEntry(s)
  <2>1. nextEntry \in EntryIds
    BY <1>3, LedgerAssumption DEF LedgerAssumption, InsertEntry, EntryIds, TypeInv, TypeOK
  <2> QED BY <1>3, <2>1 DEF InsertEntry, Inserted, Kept, TypeInv, TypeOK
<1>4. CASE DeleteWrite(s)
  BY <1>4 DEF DeleteWrite, Kept, Struck, TypeInv, TypeOK
<1>5. CASE ApprovalWrite(s)
  <2>1. CASE e \in Rows \cap req[s].ids
    <3> DEFINE row == [entries[e] EXCEPT !.approval = Verdict(req[s].pc)]
    <3>1. entries'[e] = row /\ nextEntry' = nextEntry BY <1>5, <2>1 DEF ApprovalWrite
    <3>2. entries[e] \in Entry BY <2>1, <1>1 DEF Rows
    <3>3. row \in Entry BY <3>2 DEF Verdict, Approvals, Entry
    <3>4. row.seal = entries[e].seal /\ row.lock = entries[e].lock BY <3>2 DEF Entry
    <3> QED BY <2>1, <3>1, <3>3, <3>4, Constants DEF Rewritten
  <2>2. CASE e \notin Rows \cap req[s].ids BY <1>5, <2>2 DEF ApprovalWrite, Kept
  <2> QED BY <1>5, <2>1, <2>2 DEF ApprovalWrite
<1>6. ASSUME NEW l \in InvoiceIds \cup {None}, e \in Rows, nextEntry' = nextEntry,
             entries'[e] = [entries[e] EXCEPT !.lock = l],
             entries[e].lock = None \/ l = None
      PROVE  Rewritten(e)
  <2>1. entries[e] \in Entry BY <1>6, <1>1 DEF Rows
  <2>2. entries'[e] \in Entry /\ entries'[e].seal = entries[e].seal /\ entries'[e].lock = l
    BY <1>6, <2>1 DEF Entry
  <2> QED BY <1>6, <2>2, Constants DEF Rewritten
<1>7. CASE Lock(s) \/ VoidUnlock(s)
  <2>1. req[s].inv \in InvoiceIds BY <1>7 DEF Lock, VoidUnlock, At, TypeInv, WellFormed, Issued
  <2>2. CASE Lock(s)
    <3>1. CASE e \in Rows \cap {l.id : l \in req[s].lines} /\ entries[e].lock = None
      BY <2>1, <2>2, <3>1, <1>6 DEF Lock
    <3>2. CASE ~(e \in Rows \cap {l.id : l \in req[s].lines} /\ entries[e].lock = None)
      BY <2>2, <3>2 DEF Lock, Kept
    <3> QED BY <2>2, <3>1, <3>2 DEF Lock
  <2>3. CASE VoidUnlock(s)
    <3>1. CASE e \in Rows /\ entries[e].lock = req[s].inv BY <2>3, <3>1, <1>6 DEF VoidUnlock
    <3>2. CASE ~(e \in Rows /\ entries[e].lock = req[s].inv) BY <2>3, <3>2 DEF VoidUnlock, Kept
    <3> QED BY <2>3, <3>1, <3>2 DEF VoidUnlock
  <2> QED BY <1>7, <2>2, <2>3
<1>8. CASE StopGate(s) \/ Draft(s) \/ Issue(s) \/ Certify(s) \/ VoidMark(s)
  BY <1>8 DEF StopGate, Draft, Issue, Certify, VoidMark, Kept, ledger
<1> QED BY <1>2, <1>3, <1>4, <1>5, <1>7, <1>8 DEF Handle

\* A call only reads.
LEMMA CallReads ==
  ASSUME NEW s \in Slots, Call(s)
  PROVE  UNCHANGED ledger
BY DEF Call, Start, SwitchBreak, Stop, LogPast, Update, Delete, Submit, Approve, Reject,
       GenerateContractor, GenerateCustomer, Void

\* What one step of the system does to one row, and to the serial.
LEMMA NextRows ==
  ASSUME TypeInv, [Next]_vars, NEW e \in EntryIds
  PROVE  RowStep(e) /\ nextEntry' \in {nextEntry, nextEntry + 1}
<1>1. ASSUME NEW s \in Slots, Call(s) PROVE UNCHANGED ledger BY <1>1, CallReads
<1>2. ASSUME NEW s \in Slots, Handle(s)
      PROVE  RowStep(e) /\ nextEntry' \in {nextEntry, nextEntry + 1}
  BY <1>2, HandlerRows
<1>3. ASSUME NEW c \in Refs, DeleteCustomer(c) PROVE RowStep(e) /\ nextEntry' = nextEntry
  <2>1. CASE e \in Rows /\ entries[e].seal.ref = c
    <3> DEFINE seal == [entries[e].seal EXCEPT !.ref = None]
    <3>1. entries[e] \in Entry /\ entries[e].seal \in Sealed BY <2>1 DEF Rows, Entry, TypeInv, TypeOK
    <3>2. entries'[e] = [entries[e] EXCEPT !.seal = seal]
      BY <1>3, <2>1, <3>1 DEF DeleteCustomer, Entry, Sealed
    <3>3. seal \in Sealed BY <3>1 DEF Sealed
    <3>4. entries'[e] \in Entry /\ entries'[e].seal = seal /\ entries'[e].lock = entries[e].lock
      BY <3>1, <3>2, <3>3 DEF Entry
    <3>5. /\ seal.user = entries[e].seal.user /\ seal.source = entries[e].seal.source
          /\ seal.metered = entries[e].seal.metered
      BY <3>1 DEF Sealed
    <3> QED BY <1>3, <2>1, <3>4, <3>5, Constants DEF DeleteCustomer, RowStep, Rewritten
  <2>2. CASE ~(e \in Rows /\ entries[e].seal.ref = c)
    BY <1>3, <2>2 DEF DeleteCustomer, RowStep, Kept
  <2> QED BY <2>1, <2>2
<1>4. CASE UNCHANGED ledger BY <1>4 DEF ledger, RowStep, Kept
<1>5. ASSUME NEW u \in Users, NEW b \in BOOLEAN, NEW a \in BOOLEAN, SetBilling(u, b, a)
      PROVE  RowStep(e) /\ nextEntry' = nextEntry
  BY <1>5 DEF SetBilling, RowStep, Kept
<1>6. CASE Tick \/ Crash \/ UNCHANGED vars
  BY <1>6 DEF Tick, Crash, vars, ledger, RowStep, Kept
<1> QED BY <1>1, <1>2, <1>3, <1>4, <1>5, <1>6 DEF Next
-----------------------------------------------------------------------------
\* Ids come from a serial: a row that exists was inserted.
Allocated == \A e \in Rows : e < nextEntry

LEMMA AllocatedHolds == Spec => [](TypeInv /\ Allocated)
<1>1. Init => Allocated BY DEF Init, Allocated, Rows
<1>2. TypeInv /\ Allocated /\ [Next]_vars => Allocated'
  <2> SUFFICES ASSUME TypeInv, Allocated, [Next]_vars, NEW e \in EntryIds, entries'[e] # None
               PROVE  e < nextEntry'
    BY DEF Allocated, Rows
  <2>1. nextEntry \in Nat /\ e \in Nat BY Constants DEF TypeInv, TypeOK
  <2>2. RowStep(e) /\ nextEntry' \in {nextEntry, nextEntry + 1} BY NextRows
  <2>3. entries[e] # None => e < nextEntry BY DEF Allocated, Rows
  <2> QED BY <2>1, <2>2, <2>3 DEF RowStep, Kept, Struck, Inserted, Rewritten, Rows
<1> QED BY <1>1, <1>2, TypeCorrect, PTL DEF Spec

\* certify locks only rows still free and voidInvoice frees only its own: however
\* many invoices are issued at once, a row held by one is never handed to another.
THEOREM LockStays == Spec => LockNotStolen
<1> DEFINE Step == \A e \in Rows : entries'[e] # None /\ entries[e].lock # None
                     => entries'[e].lock \in {entries[e].lock, None}
<1>1. TypeInv /\ Allocated /\ [Next]_vars => [Step]_vars
  <2> SUFFICES ASSUME TypeInv, Allocated, [Next]_vars, NEW e \in Rows, entries'[e] # None,
                      entries[e].lock # None
               PROVE  entries'[e].lock \in {entries[e].lock, None}
    OBVIOUS
  <2>1. e \in EntryIds /\ e < nextEntry BY DEF Allocated, Rows
  <2>2. RowStep(e) BY <2>1, NextRows
  <2>3. e # nextEntry BY <2>1, Constants DEF TypeInv, TypeOK
  <2> QED BY <2>2, <2>3 DEF RowStep, Kept, Struck, Inserted, Rewritten
<1> QED BY <1>1, AllocatedHolds, PTL DEF Spec, LockNotStolen

\* No write of a handler moves a row to another member or turns a human's hour
\* into an agent's, and a deleted row is never brought back.
THEOREM AttributionIsFinal == Spec => AttributionStands
<1> DEFINE Step == \A e \in EntryIds : e < nextEntry /\ entries'[e] # None =>
                     /\ entries[e] # None
                     /\ entries'[e].seal.user = entries[e].seal.user
                     /\ entries'[e].seal.source = entries[e].seal.source
<1>1. TypeInv /\ [Next]_vars => [Step]_vars
  <2> SUFFICES ASSUME TypeInv, [Next]_vars, NEW e \in EntryIds, e < nextEntry, entries'[e] # None
               PROVE  /\ entries[e] # None
                      /\ entries'[e].seal.user = entries[e].seal.user
                      /\ entries'[e].seal.source = entries[e].seal.source
    OBVIOUS
  <2>1. RowStep(e) BY NextRows
  <2>2. e # nextEntry BY Constants DEF TypeInv, TypeOK
  <2> QED BY <2>1, <2>2 DEF RowStep, Kept, Struck, Inserted, Rewritten, Rows
<1> QED BY <1>1, TypeCorrect, PTL DEF Spec, AttributionStands
-----------------------------------------------------------------------------
\* What a request under way knows of tokens: the row it will insert has them only
\* for an agent; the row it will stop has them only if that row, while it lives,
\* is an agent's.
Honest(r, table, serial) ==
  /\ r.pc \in {"cut", "insert"} => (r.row.seal.metered => r.row.seal.source = "agent")
  /\ r.pc \in {"stopGate", "stop"} =>
       /\ r.id < serial
       /\ r.row.seal.metered /\ table[r.id] # None => table[r.id].seal.source = "agent"

AllHonest == \A s \in Slots : Honest(req[s], entries, nextEntry)

MetricsInv == MetricsAreAgents /\ AllHonest

\* What a request knows stays true while the others write.
LEMMA HonestStays ==
  ASSUME TypeInv, [Next]_vars, NEW s \in Slots, Honest(req[s], entries, nextEntry)
  PROVE  Honest(req[s], entries', nextEntry')
<1> DEFINE e == req[s].id
<1>1. CASE req[s].pc \in {"stopGate", "stop"}
  <2>1. e \in EntryIds /\ e < nextEntry BY <1>1 DEF TypeInv, WellFormed, Honest
  <2>2. RowStep(e) /\ nextEntry' \in {nextEntry, nextEntry + 1} BY <2>1, NextRows
  <2>3. e \in Nat /\ nextEntry \in Nat BY <2>1, Constants DEF TypeInv, TypeOK
  <2>4. e < nextEntry' BY <2>1, <2>2, <2>3
  <2>5. ASSUME req[s].row.seal.metered, entries'[e] # None PROVE entries'[e].seal.source = "agent"
    <3>1. e # nextEntry BY <2>1, <2>3
    <3>2. Kept(e) \/ Rewritten(e) BY <2>2, <2>5, <3>1 DEF RowStep, Struck, Inserted
    <3>3. entries[e] # None BY <2>5, <3>2 DEF Kept, Rewritten, Rows
    <3>4. entries[e].seal.source = "agent" BY <1>1, <2>5, <3>3 DEF Honest
    <3> QED BY <3>2, <3>4 DEF Kept, Rewritten
  <2> QED BY <1>1, <2>4, <2>5 DEF Honest
<1>2. CASE req[s].pc \notin {"stopGate", "stop"} BY <1>2 DEF Honest
<1> QED BY <1>1, <1>2

\* One request moves on, the others know what they knew.
LEMMA HonestStep ==
  ASSUME TypeInv, [Next]_vars, AllHonest, NEW s \in Slots, NEW r,
         req' = [req EXCEPT ![s] = r], Honest(r, entries', nextEntry')
  PROVE  AllHonest'
BY HonestStays DEF AllHonest, TypeInv, TypeOK

\* A request at any other program counter has nothing to know.
LEMMA NothingToKnow ==
  ASSUME NEW r, r.pc \notin {"cut", "insert", "stopGate", "stop"}, NEW table, NEW serial
  PROVE  Honest(r, table, serial)
BY DEF Honest

\* A call starts honest: a new row has its tokens through agentMetricsFor alone.
LEMMA HonestCall ==
  ASSUME TypeInv, Allocated, AllHonest, [Next]_vars, NEW s \in Slots, Call(s)
  PROVE  AllHonest'
<1>1. ASSUME NEW u \in Users, NEW source, NEW brk, NEW ref,
             OpenAfterCut(s, u, NewRow(u, source, now, None, brk, FALSE, ref, "none"))
      PROVE  AllHonest'
  <2> DEFINE row == NewRow(u, source, now, None, brk, FALSE, ref, "none")
  <2>1. row.seal.metered = FALSE BY DEF NewRow
  <2>2. CASE req' = [req EXCEPT ![s] = [Idle EXCEPT !.pc = "insert", !.row = row]]
    <3>1. Honest([Idle EXCEPT !.pc = "insert", !.row = row], entries', nextEntry')
      BY <2>1 DEF Honest, Idle
    <3> QED BY <2>2, <3>1, HonestStep
  <2>3. ASSUME NEW e \in OpenEntryFor(u),
               req' = [req EXCEPT ![s] = [Idle EXCEPT !.pc = "cut", !.id = e, !.row = row]]
        PROVE  AllHonest'
    <3>1. Honest([Idle EXCEPT !.pc = "cut", !.id = e, !.row = row], entries', nextEntry')
      BY <2>1 DEF Honest, Idle
    <3> QED BY <2>3, <3>1, HonestStep
  <2> QED BY <1>1, <2>2, <2>3 DEF OpenAfterCut, Begin
<1>2. ASSUME NEW u \in Users, NEW tok \in BOOLEAN, Stop(s, u, tok) PROVE AllHonest'
  <2>1. PICK e \in OpenEntryFor(u) :
          req' = [req EXCEPT ![s] = [Idle EXCEPT !.pc = "stopGate", !.id = e,
                      !.row = [entries[e] EXCEPT
                        !.seal.checkOut = now,
                        !.seal.metered = AgentMetricsFor(entries[e].seal.source, tok)]]]
    BY <1>2 DEF Stop, Begin
  <2> DEFINE row == [entries[e] EXCEPT !.seal.checkOut = now,
                       !.seal.metered = AgentMetricsFor(entries[e].seal.source, tok)]
             r == [Idle EXCEPT !.pc = "stopGate", !.id = e, !.row = row]
  <2>2. e \in Rows /\ e < nextEntry BY DEF OpenEntryFor, OpenOf, Allocated
  <2>3. entries[e] \in Entry /\ entries[e].seal \in Sealed BY <2>2 DEF Rows, Entry, TypeInv, TypeOK
  <2>4. row.seal.metered = AgentMetricsFor(entries[e].seal.source, tok)
    BY <2>3 DEF Entry, Sealed
  <2>5. entries' = entries /\ nextEntry' = nextEntry BY <1>2 DEF Stop, ledger
  <2>6. Honest(r, entries', nextEntry')
    <3>1. row.seal.metered => entries[e].seal.source = "agent" BY <2>4 DEF AgentMetricsFor
    <3>2. r.pc = "stopGate" /\ r.id = e /\ r.row = row BY DEF Idle
    <3> QED BY <2>2, <2>5, <3>1, <3>2 DEF Honest
  <2> QED BY <2>1, <2>6, HonestStep
<1>3. ASSUME NEW u \in Users, NEW src \in Credentials, NEW in \in Time, NEW out \in Time,
             NEW brk \in BOOLEAN, NEW tok \in BOOLEAN, NEW ref \in Refs \cup {None},
             LogPast(s, u, src, in, out, brk, tok, ref)
      PROVE  AllHonest'
  <2> DEFINE row == NewRow(u, src, in, out, brk, AgentMetricsFor(src, tok), ref,
                           ApprovalOnWrite(u, brk))
  <2>1. row.seal.metered => row.seal.source = "agent" BY DEF NewRow, AgentMetricsFor
  <2>2. Honest([Idle EXCEPT !.pc = "insert", !.row = row], entries', nextEntry')
    BY <2>1 DEF Honest, Idle
  <2> QED BY <1>3, <2>2, HonestStep DEF LogPast, Begin
<1>4. ASSUME NEW r, r.pc \notin {"cut", "insert", "stopGate", "stop"}, Begin(s, r) PROVE AllHonest'
  BY <1>4, NothingToKnow, HonestStep DEF Begin
<1>5. ASSUME NEW u \in Users, NEW e \in Rows, NEW in \in Time, NEW out \in Time \cup {None},
             NEW ref \in Refs \cup {None}, Update(s, u, e, in, out, ref)
      PROVE  AllHonest'
  BY <1>4, <1>5 DEF Update, Idle
<1>6. ASSUME NEW u \in Users, NEW e \in Rows, Delete(s, u, e) PROVE AllHonest'
  BY <1>4, <1>6 DEF Delete, Idle
<1>7. ASSUME NEW u \in Users, NEW from \in Time, NEW to \in Time, Submit(s, u, from, to)
      PROVE  AllHonest'
  BY <1>4, <1>7 DEF Submit, Idle
<1>8. ASSUME NEW ids \in ResolveTargets, Approve(s, ids) \/ Reject(s, ids) PROVE AllHonest'
  BY <1>4, <1>8 DEF Approve, Reject, Idle
<1>9. ASSUME NEW u \in Users, NEW forced \in BOOLEAN \cup {None}, GenerateContractor(s, u, forced)
      PROVE  AllHonest'
  BY <1>4, <1>9 DEF GenerateContractor, Idle
<1>10. ASSUME NEW c \in Refs, GenerateCustomer(s, c) PROVE AllHonest'
  BY <1>4, <1>10 DEF GenerateCustomer, Idle
<1>11. ASSUME NEW i \in InvoiceIds, Void(s, i) PROVE AllHonest'
  BY <1>4, <1>11 DEF Void, Idle
<1>12. ASSUME NEW u \in Users, NEW src \in Credentials, NEW brk \in BOOLEAN,
              NEW ref \in Refs \cup {None}, Start(s, u, src, brk, ref)
       PROVE  AllHonest'
  BY <1>1, <1>12 DEF Start
<1>13. ASSUME NEW u \in Users, NEW src \in Credentials, NEW ref \in Refs \cup {None},
              SwitchBreak(s, u, src, ref)
       PROVE  AllHonest'
  BY <1>1, <1>13 DEF SwitchBreak
<1> QED
  BY Zenon, <1>2, <1>3, <1>5, <1>6, <1>7, <1>8, <1>9, <1>10, <1>11, <1>12, <1>13 DEF Call

\* A handler carries what it knows to its next await, or ends.
LEMMA HonestHandle ==
  ASSUME TypeInv, AllHonest, [Next]_vars, NEW s \in Slots, Handle(s)
  PROVE  AllHonest'
<1>1. ASSUME NEW r, r.pc \notin {"cut", "insert", "stopGate", "stop"}, req' = [req EXCEPT ![s] = r]
      PROVE  AllHonest'
  BY <1>1, NothingToKnow, HonestStep
<1>2. CASE Return(s) BY <1>1, <1>2 DEF Return, Idle
<1>3. ASSUME NEW pc, pc \notin {"cut", "insert", "stopGate", "stop"}, NEW r,
             r.pc = pc, Proceed(s, r)
      PROVE  AllHonest'
  BY <1>1, <1>3 DEF Proceed
<1>4. req[s] \in Request /\ Honest(req[s], entries, nextEntry) BY DEF TypeInv, WellFormed, AllHonest
<1>5. CASE CutEntry(s)
  <2> DEFINE r == [req[s] EXCEPT !.pc = "insert"]
  <2>1. CASE Return(s) BY <2>1, <1>2
  <2>2. CASE Proceed(s, r)
    <3>1. r.pc = "insert" /\ r.row = req[s].row BY <1>4 DEF Request
    <3>2. Honest(r, entries', nextEntry') BY <1>4, <1>5, <3>1 DEF CutEntry, At, Honest
    <3> QED BY <2>2, <3>2, HonestStep DEF Proceed
  <2> QED BY <1>5, <2>1, <2>2 DEF CutEntry
<1>6. CASE StopGate(s)
  <2> DEFINE row == req[s].row
             approval == ApprovalOnWrite(row.seal.user, row.seal.isBreak)
             r == [req[s] EXCEPT !.pc = "stop", !.row.approval = approval]
  <2>1. row \in Entry BY <1>6 DEF StopGate, At, TypeInv, WellFormed
  <2>2. r = [req[s] EXCEPT !.pc = "stop", !.row = [row EXCEPT !.approval = approval]]
    BY <1>4 DEF Request
  <2>3. r.pc = "stop" /\ r.id = req[s].id /\ r.row.seal = row.seal
    BY <1>4, <2>1, <2>2 DEF Request, Entry
  <2>4. Honest(r, entries', nextEntry')
    BY <1>4, <1>6, <2>3 DEF StopGate, At, ledger, Honest
  <2> QED BY <1>6, <2>4, HonestStep DEF StopGate, Proceed
<1>7. CASE InsertEntry(s) \/ StopWrite(s) \/ UpdateWrite(s) \/ DeleteWrite(s) \/ ApprovalWrite(s)
           \/ Lock(s) \/ VoidUnlock(s)
  BY <1>2, <1>7 DEF InsertEntry, StopWrite, UpdateWrite, DeleteWrite, ApprovalWrite, Lock, VoidUnlock
<1>8. CASE Draft(s)
  <2> DEFINE r == [req[s] EXCEPT !.pc = "issue", !.lines = {LineOf(e) : e \in Billable(req[s].bill)}]
  <2>1. r.pc = "issue" BY <1>4 DEF Request
  <2> QED BY <1>2, <1>3, <1>8, <2>1 DEF Draft
<1>9. CASE Issue(s)
  <2> DEFINE r == [req[s] EXCEPT !.pc = "certify", !.inv = nextInvoice]
  <2>1. r.pc = "certify" BY <1>4 DEF Request
  <2> QED BY <1>2, <1>3, <1>9, <2>1 DEF Issue
<1>10. CASE Certify(s)
  <2> DEFINE r == [req[s] EXCEPT !.pc = "lock"]
  <2>1. r.pc = "lock" BY <1>4 DEF Request
  <2> QED BY <1>2, <1>3, <1>10, <2>1 DEF Certify
<1>11. CASE VoidMark(s)
  <2> DEFINE r == [req[s] EXCEPT !.pc = "unlock"]
  <2>1. r.pc = "unlock" BY <1>4 DEF Request
  <2> QED BY <1>3, <1>11, <2>1 DEF VoidMark
<1> QED BY <1>5, <1>6, <1>7, <1>8, <1>9, <1>10, <1>11 DEF Handle

\* Tokens and cost sit on agent rows alone: a request that opened a row as a human
\* and one that stops it as an agent cannot meet in a row that has both.
THEOREM MetricsHold == Spec => []MetricsAreAgents
<1>1. Init => MetricsInv
  BY DEF Init, MetricsInv, MetricsAreAgents, AllHonest, Honest, Rows, Idle
<1>2. TypeInv /\ Allocated /\ MetricsInv /\ [Next]_vars => MetricsInv'
  <2> SUFFICES ASSUME TypeInv, Allocated, MetricsInv, [Next]_vars PROVE MetricsInv' OBVIOUS
  <2>1. AllHonest'
    <3>1. ASSUME NEW s \in Slots, Call(s) PROVE AllHonest' BY <3>1, HonestCall DEF MetricsInv
    <3>2. ASSUME NEW s \in Slots, Handle(s) PROVE AllHonest' BY <3>2, HonestHandle DEF MetricsInv
    <3>3. CASE req' = req BY <3>3, HonestStays DEF MetricsInv, AllHonest
    <3>4. CASE Crash BY <3>4, NothingToKnow DEF Crash, AllHonest, Idle
    <3>5. ASSUME NEW u \in Users, NEW b \in BOOLEAN, NEW a \in BOOLEAN, SetBilling(u, b, a)
          PROVE  req' = req
      BY <3>5 DEF SetBilling
    <3>6. ASSUME NEW c \in Refs, DeleteCustomer(c) PROVE req' = req BY <3>6 DEF DeleteCustomer
    <3>7. CASE Tick \/ UNCHANGED vars BY <3>3, <3>7 DEF Tick, vars
    <3> QED BY <3>1, <3>2, <3>3, <3>4, <3>5, <3>6, <3>7 DEF Next
  <2>2. ASSUME NEW e \in EntryIds, entries'[e] # None, entries'[e].seal.metered
        PROVE  entries'[e].seal.source = "agent"
    <3>1. RowStep(e) BY NextRows
    <3>2. CASE Kept(e) BY <2>2, <3>2 DEF Kept, MetricsInv, MetricsAreAgents, Rows
    <3>3. CASE Inserted(e) BY <2>2, <3>3 DEF Inserted, At, MetricsInv, AllHonest, Honest
    <3>4. CASE Rewritten(e)
      BY <2>2, <3>4 DEF Rewritten, At, MetricsInv, MetricsAreAgents, AllHonest, Honest, Rows
    <3> QED BY <2>2, <3>1, <3>2, <3>3, <3>4 DEF RowStep, Struck
  <2> QED BY <2>1, <2>2 DEF MetricsInv, MetricsAreAgents, Rows
<1>3. MetricsInv => MetricsAreAgents BY DEF MetricsInv
<1> QED BY <1>1, <1>2, <1>3, AllocatedHolds, PTL DEF Spec
-----------------------------------------------------------------------------
\* One open entry per member, when the server handles requests one at a time.
\* The run ledger_two_timers shows that two requests at once are enough to
\* break it.

OneAtATime == \A s, t \in Slots : s = t

OpenIn(table, u) ==
  {e \in EntryIds : table[e] # None /\ table[e].seal.user = u /\ table[e].seal.checkOut = None}

\* Between the read and the write of a handler the timer it read is still the
\* only one: nothing else can open one.
Poised(r, table) ==
  /\ r.pc = "cut" => OpenIn(table, r.row.seal.user) \subseteq {r.id}
  /\ r.pc = "insert" => r.row.seal.checkOut # None \/ OpenIn(table, r.row.seal.user) = {}
  /\ r.pc \in {"stopGate", "stop"} => r.row.seal.checkOut # None
  /\ r.pc = "update" /\ r.row.seal.checkOut = None /\ table[r.id] # None
       => table[r.id].seal.checkOut = None

TimerInv == OneTimer /\ \A s \in Slots : Poised(req[s], entries)

\* An open entry of the next state was open, and the same member's, before.
NothingOpens ==
  \A e \in EntryIds : entries'[e] # None /\ entries'[e].seal.checkOut = None =>
     /\ entries[e] # None /\ entries[e].seal.checkOut = None
     /\ entries'[e].seal.user = entries[e].seal.user

\* When nothing opens, no member gets a second timer.
LEMMA NothingOpensOneTimer ==
  ASSUME OneTimer, NothingOpens
  PROVE  OneTimer' /\ \A u \in Users : OpenIn(entries', u) \subseteq OpenIn(entries, u)
BY DEF OneTimer, NothingOpens, OpenOf, Rows, IsOpen, OpenIn

\* The latest open entry is missing only when there is none.
LEMMA OpenEntryForFinds ==
  ASSUME TypeInv, OneTimer, NEW u \in Users
  PROVE  /\ OpenEntryFor(u) = {} => OpenIn(entries, u) = {}
         /\ \A e \in OpenEntryFor(u) : OpenIn(entries, u) \subseteq {e}
<1>1. OpenIn(entries, u) = OpenOf(u) BY DEF OpenIn, OpenOf, Rows, IsOpen
<1>2. ASSUME NEW e \in OpenOf(u) PROVE e \in OpenEntryFor(u)
  <2>1. \A f \in OpenOf(u) : f = e BY <1>2 DEF OneTimer
  <2>2. entries[e].seal.checkIn \in Nat
    BY <1>2, Constants DEF OpenOf, Rows, Entry, Sealed, TypeInv, TypeOK
  <2> QED BY <1>2, <2>1, <2>2 DEF OpenEntryFor
<1>3. ASSUME NEW e \in OpenEntryFor(u) PROVE OpenOf(u) \subseteq {e}
  BY <1>3 DEF OpenEntryFor, OneTimer
<1> QED BY <1>1, <1>2, <1>3

\* One request moves on, and there is no other.
LEMMA PoisedStep ==
  ASSUME TypeInv, OneAtATime, NEW s \in Slots, NEW r, req' = [req EXCEPT ![s] = r],
         Poised(r, entries'), OneTimer'
  PROVE  TimerInv'
BY DEF OneAtATime, TimerInv, TypeInv, TypeOK

\* A request at any other program counter waits for no timer.
LEMMA NotWaiting ==
  ASSUME NEW r, r.pc \notin {"cut", "insert", "stopGate", "stop", "update"}, NEW table
  PROVE  Poised(r, table)
BY DEF Poised

\* A call reads the timer as it is.
LEMMA PoisedCall ==
  ASSUME TypeInv, OneAtATime, TimerInv, NEW s \in Slots, Call(s)
  PROVE  TimerInv'
<1>1. entries' = entries BY CallReads DEF ledger
<1>2. OneTimer /\ OneTimer' BY <1>1 DEF TimerInv, OneTimer, OpenOf, Rows, IsOpen
<1>3. ASSUME NEW u \in Users, NEW source, NEW brk, NEW ref,
             OpenAfterCut(s, u, NewRow(u, source, now, None, brk, FALSE, ref, "none"))
      PROVE  TimerInv'
  <2> DEFINE row == NewRow(u, source, now, None, brk, FALSE, ref, "none")
  <2>1. row.seal.user = u BY DEF NewRow
  <2>2. CASE /\ OpenEntryFor(u) = {}
             /\ req' = [req EXCEPT ![s] = [Idle EXCEPT !.pc = "insert", !.row = row]]
    <3>1. Poised([Idle EXCEPT !.pc = "insert", !.row = row], entries')
      BY <1>1, <1>2, <2>1, <2>2, OpenEntryForFinds DEF Poised, Idle
    <3> QED BY <1>2, <2>2, <3>1, PoisedStep
  <2>3. ASSUME NEW e \in OpenEntryFor(u),
               req' = [req EXCEPT ![s] = [Idle EXCEPT !.pc = "cut", !.id = e, !.row = row]]
        PROVE  TimerInv'
    <3>1. Poised([Idle EXCEPT !.pc = "cut", !.id = e, !.row = row], entries')
      BY <1>1, <1>2, <2>1, OpenEntryForFinds DEF Poised, Idle
    <3> QED BY <1>2, <2>3, <3>1, PoisedStep
  <2> QED BY <1>3, <2>2, <2>3 DEF OpenAfterCut, Begin
<1>4. ASSUME NEW u \in Users, NEW tok \in BOOLEAN, Stop(s, u, tok) PROVE TimerInv'
  <2>1. PICK e \in OpenEntryFor(u) :
          req' = [req EXCEPT ![s] = [Idle EXCEPT !.pc = "stopGate", !.id = e,
                      !.row = [entries[e] EXCEPT
                        !.seal.checkOut = now,
                        !.seal.metered = AgentMetricsFor(entries[e].seal.source, tok)]]]
    BY <1>4 DEF Stop, Begin
  <2> DEFINE row == [entries[e] EXCEPT !.seal.checkOut = now,
                       !.seal.metered = AgentMetricsFor(entries[e].seal.source, tok)]
  <2>2. entries[e] \in Entry /\ entries[e].seal \in Sealed
    BY DEF OpenEntryFor, OpenOf, Rows, Entry, TypeInv, TypeOK
  <2>3. row.seal.checkOut = now BY <2>2 DEF Entry, Sealed
  <2>4. now # None BY Constants DEF TypeInv, TypeOK
  <2>5. Poised([Idle EXCEPT !.pc = "stopGate", !.id = e, !.row = row], entries')
    BY <2>3, <2>4 DEF Poised, Idle
  <2> QED BY <1>2, <2>1, <2>5, PoisedStep
<1>5. ASSUME NEW u \in Users, NEW src \in Credentials, NEW in \in Time, NEW out \in Time,
             NEW brk \in BOOLEAN, NEW tok \in BOOLEAN, NEW ref \in Refs \cup {None},
             LogPast(s, u, src, in, out, brk, tok, ref)
      PROVE  TimerInv'
  <2> DEFINE row == NewRow(u, src, in, out, brk, AgentMetricsFor(src, tok), ref,
                           ApprovalOnWrite(u, brk))
  <2>1. row.seal.checkOut # None BY Constants DEF NewRow
  <2>2. Poised([Idle EXCEPT !.pc = "insert", !.row = row], entries')
    BY <2>1 DEF Poised, Idle
  <2> QED BY <1>2, <1>5, <2>2, PoisedStep DEF LogPast, Begin
<1>6. ASSUME NEW u \in Users, NEW e \in Rows, NEW in \in Time, NEW out \in Time \cup {None},
             NEW ref \in Refs \cup {None}, Update(s, u, e, in, out, ref)
      PROVE  TimerInv'
  <2> DEFINE row == [entries[e] EXCEPT !.seal.checkIn = in, !.seal.checkOut = out, !.seal.ref = ref]
  <2>1. req' = [req EXCEPT ![s] = [Idle EXCEPT !.pc = "update", !.id = e, !.row = row]]
    BY <1>6 DEF Update, Begin
  <2>2. out # None \/ entries[e].seal.checkOut = None BY <1>6 DEF Update
  <2>3. entries[e] \in Entry /\ entries[e].seal \in Sealed BY DEF Rows, Entry, TypeInv, TypeOK
  <2>4. row.seal.checkOut = out BY <2>3 DEF Entry, Sealed
  <2>5. Poised([Idle EXCEPT !.pc = "update", !.id = e, !.row = row], entries')
    BY <1>1, <2>2, <2>4 DEF Poised, Idle
  <2> QED BY <1>2, <2>1, <2>5, PoisedStep
<1>7. ASSUME NEW r, r.pc \notin {"cut", "insert", "stopGate", "stop", "update"}, Begin(s, r)
      PROVE  TimerInv'
  BY <1>2, <1>7, NotWaiting, PoisedStep DEF Begin
<1>8. ASSUME NEW u \in Users, NEW e \in Rows, Delete(s, u, e) PROVE TimerInv'
  BY <1>7, <1>8 DEF Delete, Idle
<1>9. ASSUME NEW u \in Users, NEW from \in Time, NEW to \in Time, Submit(s, u, from, to)
      PROVE  TimerInv'
  BY <1>7, <1>9 DEF Submit, Idle
<1>10. ASSUME NEW ids \in ResolveTargets, Approve(s, ids) \/ Reject(s, ids) PROVE TimerInv'
  BY <1>7, <1>10 DEF Approve, Reject, Idle
<1>11. ASSUME NEW u \in Users, NEW forced \in BOOLEAN \cup {None}, GenerateContractor(s, u, forced)
       PROVE  TimerInv'
  BY <1>7, <1>11 DEF GenerateContractor, Idle
<1>12. ASSUME NEW c \in Refs, GenerateCustomer(s, c) PROVE TimerInv'
  BY <1>7, <1>12 DEF GenerateCustomer, Idle
<1>13. ASSUME NEW i \in InvoiceIds, Void(s, i) PROVE TimerInv'
  BY <1>7, <1>13 DEF Void, Idle
<1>14. ASSUME NEW u \in Users, NEW src \in Credentials, NEW brk \in BOOLEAN,
              NEW ref \in Refs \cup {None}, Start(s, u, src, brk, ref)
       PROVE  TimerInv'
  BY <1>3, <1>14 DEF Start
<1>15. ASSUME NEW u \in Users, NEW src \in Credentials, NEW ref \in Refs \cup {None},
              SwitchBreak(s, u, src, ref)
       PROVE  TimerInv'
  BY <1>3, <1>15 DEF SwitchBreak
<1> QED
  BY Zenon, <1>4, <1>5, <1>6, <1>8, <1>9, <1>10, <1>11, <1>12, <1>13, <1>14, <1>15 DEF Call

\* Of the handlers only an insert can open an entry.
LEMMA HandlersClose ==
  ASSUME TypeInv, NEW s \in Slots, Handle(s), ~InsertEntry(s), Poised(req[s], entries)
  PROVE  NothingOpens
<1> SUFFICES ASSUME NEW e \in EntryIds, entries'[e] # None, entries'[e].seal.checkOut = None
             PROVE  /\ entries[e] # None /\ entries[e].seal.checkOut = None
                    /\ entries'[e].seal.user = entries[e].seal.user
  BY DEF NothingOpens
<1>1. RowStep(e) BY HandlerRows
<1>2. CASE CutEntry(s)
  <2> DEFINE out == req[s].row.seal.checkIn
  <2>1. req[s].row \in Entry /\ req[s].id \in EntryIds BY <1>2 DEF CutEntry, At, TypeInv, WellFormed
  <2>2. out # None BY <2>1, Constants DEF Entry, Sealed
  <2>3. CASE req[s].id = e /\ e \in Rows
    <3>1. entries'[e] = [entries[e] EXCEPT !.seal.checkOut = out]
      BY <1>2, <2>3 DEF CutEntry, TypeInv, TypeOK
    <3>2. entries[e] \in Entry /\ entries[e].seal \in Sealed BY <2>3 DEF Rows, Entry, TypeInv, TypeOK
    <3>3. entries'[e].seal.checkOut = out BY <3>1, <3>2 DEF Entry, Sealed
    <3> QED BY <2>2, <3>3
  <2>4. CASE ~(req[s].id = e /\ e \in Rows) BY <1>2, <2>1, <2>4 DEF CutEntry, TypeInv, TypeOK
  <2> QED BY <2>3, <2>4
<1>3. CASE StopWrite(s)
  <2>1. req[s].row \in Entry /\ req[s].id \in EntryIds BY <1>3 DEF StopWrite, At, TypeInv, WellFormed
  <2>2. CASE req[s].id = e /\ e \in Rows
    <3>1. entries'[e] = Stopped(e, req[s].row) BY <1>3, <2>2 DEF StopWrite, TypeInv, TypeOK
    <3>2. req[s].row.seal.checkOut # None BY <1>3 DEF StopWrite, At, Poised
    <3> QED BY <2>1, <2>2, <3>1, <3>2, StoppedRow
  <2>3. CASE ~(req[s].id = e /\ e \in Rows) BY <1>3, <2>1, <2>3 DEF StopWrite, TypeInv, TypeOK
  <2> QED BY <2>2, <2>3
<1>4. CASE UpdateWrite(s)
  <2>1. req[s].row \in Entry /\ req[s].id \in EntryIds
    BY <1>4 DEF UpdateWrite, At, TypeInv, WellFormed
  <2>2. CASE req[s].id = e /\ e \in Rows /\ entries' # entries
    <3>1. entries'[e] = Corrected(e, req[s].row) BY <1>4, <2>2 DEF UpdateWrite, TypeInv, TypeOK
    <3>2. req[s].row.seal.checkOut = None BY <2>1, <2>2, <3>1, CorrectedRow
    <3>3. entries[e].seal.checkOut = None BY <1>4, <2>2, <3>2 DEF UpdateWrite, At, Poised, Rows
    <3> QED BY <2>1, <2>2, <3>1, <3>3, CorrectedRow DEF Rows
  <2>3. CASE ~(req[s].id = e /\ e \in Rows /\ entries' # entries)
    BY <1>4, <2>1, <2>3 DEF UpdateWrite, TypeInv, TypeOK
  <2> QED BY <2>2, <2>3
<1>5. CASE DeleteWrite(s) BY <1>5 DEF DeleteWrite, TypeInv, TypeOK
<1>6. ASSUME entries'[e] = entries[e] \/ (e \in Rows /\ entries'[e].seal = entries[e].seal)
      PROVE  /\ entries[e] # None /\ entries[e].seal.checkOut = None
             /\ entries'[e].seal.user = entries[e].seal.user
  BY <1>6 DEF Rows
<1>7. ASSUME e \in Rows, NEW l, entries'[e] = [entries[e] EXCEPT !.lock = l]
      PROVE  entries'[e].seal = entries[e].seal
  BY <1>7 DEF Rows, Entry, TypeInv, TypeOK
<1>8. CASE ApprovalWrite(s)
  <2>1. CASE e \in Rows \cap req[s].ids
    <3>1. entries'[e] = [entries[e] EXCEPT !.approval = Verdict(req[s].pc)]
      BY <1>8, <2>1 DEF ApprovalWrite
    <3>2. entries[e] \in Entry BY <2>1 DEF Rows, TypeInv, TypeOK
    <3> QED BY <1>6, <2>1, <3>1, <3>2 DEF Entry
  <2>2. CASE e \notin Rows \cap req[s].ids BY <1>6, <1>8, <2>2 DEF ApprovalWrite
  <2> QED BY <2>1, <2>2
<1>9. CASE Lock(s)
  <2>1. CASE e \in Rows /\ entries'[e] = [entries[e] EXCEPT !.lock = req[s].inv] BY <2>1, <1>6, <1>7
  <2>2. CASE entries'[e] = entries[e] BY <2>2, <1>6
  <2> QED BY <1>9, <2>1, <2>2 DEF Lock
<1>10. CASE VoidUnlock(s)
  <2>1. CASE e \in Rows /\ entries'[e] = [entries[e] EXCEPT !.lock = None] BY <2>1, <1>6, <1>7
  <2>2. CASE entries'[e] = entries[e] BY <2>2, <1>6
  <2> QED BY <1>10, <2>1, <2>2 DEF VoidUnlock
<1>11. CASE StopGate(s) \/ Draft(s) \/ Issue(s) \/ Certify(s) \/ VoidMark(s)
  BY <1>6, <1>11 DEF StopGate, Draft, Issue, Certify, VoidMark, ledger
<1> QED BY <1>2, <1>3, <1>4, <1>5, <1>8, <1>9, <1>10, <1>11 DEF Handle

\* An insert opens an entry only for a member who had none.
LEMMA InsertOpensFirst ==
  ASSUME TypeInv, OneTimer, NEW s \in Slots, InsertEntry(s), Poised(req[s], entries)
  PROVE  OneTimer'
<1> DEFINE row == req[s].row
<1>1. row \in Entry BY DEF InsertEntry, At, TypeInv, WellFormed
<1>2. CASE entries' = entries BY <1>2 DEF OneTimer, OpenOf, Rows, IsOpen
<1>3. CASE entries' = [entries EXCEPT ![nextEntry] = row] /\ row.seal.checkOut # None
  <2>1. \A e \in EntryIds : entries'[e] = entries[e] \/ entries'[e] = row
    BY <1>3 DEF TypeInv, TypeOK
  <2>2. NothingOpens BY <1>3, <2>1 DEF NothingOpens
  <2> QED BY <2>2, NothingOpensOneTimer
<1>4. CASE /\ entries' = [entries EXCEPT ![nextEntry] = row]
           /\ OpenIn(entries, row.seal.user) = {}
  <2> SUFFICES ASSUME NEW u \in Users, NEW e \in OpenIn(entries', u), NEW f \in OpenIn(entries', u)
               PROVE  e = f
    BY DEF OneTimer, OpenOf, Rows, IsOpen, OpenIn
  <2>1. ASSUME NEW g \in OpenIn(entries', u), g # nextEntry PROVE g \in OpenIn(entries, u)
    BY <1>4, <2>1 DEF OpenIn, TypeInv, TypeOK
  <2>2. nextEntry \in OpenIn(entries', u) => u = row.seal.user
    BY <1>4 DEF OpenIn, TypeInv, TypeOK
  <2>3. OpenIn(entries, u) = OpenOf(u) BY DEF OpenIn, OpenOf, Rows, IsOpen
  <2> QED BY <1>4, <2>1, <2>2, <2>3 DEF OneTimer
<1> QED BY <1>2, <1>3, <1>4 DEF InsertEntry, At, Poised

\* A handler finds at its next await what it left there.
LEMMA PoisedHandle ==
  ASSUME TypeInv, OneAtATime, TimerInv, NEW s \in Slots, Handle(s)
  PROVE  TimerInv'
<1>1. OneTimer /\ Poised(req[s], entries) /\ req[s] \in Request
  BY DEF TimerInv, TypeInv, WellFormed
<1>2. OneTimer'
  BY <1>1, InsertOpensFirst, HandlersClose, NothingOpensOneTimer
<1>3. ASSUME NEW r, r.pc \notin {"cut", "insert", "stopGate", "stop", "update"},
             req' = [req EXCEPT ![s] = r]
      PROVE  TimerInv'
  BY <1>2, <1>3, NotWaiting, PoisedStep
<1>4. CASE Return(s) BY <1>3, <1>4 DEF Return, Idle
<1>5. CASE CutEntry(s)
  <2> DEFINE e == req[s].id
             row == req[s].row
             r == [req[s] EXCEPT !.pc = "insert"]
  <2>1. CASE e \in Rows
    <3>1. row \in Entry /\ e \in EntryIds BY <1>5 DEF CutEntry, At, TypeInv, WellFormed
    <3>2. r.pc = "insert" /\ r.row = row BY <1>1 DEF Request
    <3>3. row.seal.user \in Users /\ row.seal.checkIn # None BY <3>1, Constants DEF Entry, Sealed
    <3>4. OpenIn(entries', row.seal.user) \subseteq {e}
      <4>1. OpenIn(entries', row.seal.user) \subseteq OpenIn(entries, row.seal.user)
        BY <1>1, <1>5, <3>3, HandlersClose, NothingOpensOneTimer DEF CutEntry, InsertEntry, At
      <4> QED BY <1>1, <1>5, <4>1 DEF CutEntry, At, Poised
    <3>5. entries'[e].seal.checkOut # None
      <4>1. entries[e] \in Entry /\ entries[e].seal \in Sealed BY <2>1 DEF Rows, Entry, TypeInv, TypeOK
      <4>2. entries'[e] = [entries[e] EXCEPT !.seal.checkOut = row.seal.checkIn]
        BY <1>5, <2>1, <3>1 DEF CutEntry, TypeInv, TypeOK
      <4>3. entries'[e].seal.checkOut = row.seal.checkIn BY <4>1, <4>2 DEF Entry, Sealed
      <4> QED BY <3>3, <4>3
    <3>6. OpenIn(entries', row.seal.user) = {} BY <3>4, <3>5 DEF OpenIn
    <3>7. Poised(r, entries') BY <3>2, <3>6 DEF Poised
    <3>8. req' = [req EXCEPT ![s] = r] BY <1>5, <2>1 DEF CutEntry, Proceed
    <3> QED BY <1>2, <3>7, <3>8, PoisedStep
  <2>2. CASE e \notin Rows BY <1>4, <1>5, <2>2 DEF CutEntry
  <2> QED BY <2>1, <2>2
<1>6. CASE StopGate(s)
  <2> DEFINE row == req[s].row
             approval == ApprovalOnWrite(row.seal.user, row.seal.isBreak)
             r == [req[s] EXCEPT !.pc = "stop", !.row.approval = approval]
  <2>1. row \in Entry BY <1>6 DEF StopGate, At, TypeInv, WellFormed
  <2>2. r = [req[s] EXCEPT !.pc = "stop", !.row = [row EXCEPT !.approval = approval]]
    BY <1>1 DEF Request
  <2>3. r.pc = "stop" /\ r.row.seal = row.seal BY <1>1, <2>1, <2>2 DEF Request, Entry
  <2>4. Poised(r, entries') BY <1>1, <1>6, <2>3 DEF StopGate, At, Poised
  <2> QED BY <1>2, <1>6, <2>4, PoisedStep DEF StopGate, Proceed
<1>7. CASE InsertEntry(s) \/ StopWrite(s) \/ UpdateWrite(s) \/ DeleteWrite(s) \/ ApprovalWrite(s)
           \/ Lock(s) \/ VoidUnlock(s)
  BY <1>4, <1>7 DEF InsertEntry, StopWrite, UpdateWrite, DeleteWrite, ApprovalWrite, Lock, VoidUnlock
<1>8. ASSUME NEW pc, pc \notin {"cut", "insert", "stopGate", "stop", "update"}, NEW r,
             r.pc = pc, Proceed(s, r)
      PROVE  TimerInv'
  BY <1>3, <1>8 DEF Proceed
<1>9. CASE Draft(s)
  <2> DEFINE r == [req[s] EXCEPT !.pc = "issue", !.lines = {LineOf(e) : e \in Billable(req[s].bill)}]
  <2>1. r.pc = "issue" BY <1>1 DEF Request
  <2> QED BY <1>4, <1>8, <1>9, <2>1 DEF Draft
<1>10. CASE Issue(s)
  <2> DEFINE r == [req[s] EXCEPT !.pc = "certify", !.inv = nextInvoice]
  <2>1. r.pc = "certify" BY <1>1 DEF Request
  <2> QED BY <1>4, <1>8, <1>10, <2>1 DEF Issue
<1>11. CASE Certify(s)
  <2> DEFINE r == [req[s] EXCEPT !.pc = "lock"]
  <2>1. r.pc = "lock" BY <1>1 DEF Request
  <2> QED BY <1>4, <1>8, <1>11, <2>1 DEF Certify
<1>12. CASE VoidMark(s)
  <2> DEFINE r == [req[s] EXCEPT !.pc = "unlock"]
  <2>1. r.pc = "unlock" BY <1>1 DEF Request
  <2> QED BY <1>8, <1>12, <2>1 DEF VoidMark
<1> QED BY <1>5, <1>6, <1>7, <1>9, <1>10, <1>11, <1>12 DEF Handle

\* Deleting a customer touches no time.
LEMMA PoisedDeleteCustomer ==
  ASSUME TypeInv, TimerInv, NEW c \in Refs, DeleteCustomer(c)
  PROVE  TimerInv'
<1>1. ASSUME NEW e \in EntryIds
      PROVE  /\ entries'[e] # None <=> entries[e] # None
             /\ entries[e] # None => /\ entries'[e].seal.user = entries[e].seal.user
                                    /\ entries'[e].seal.checkOut = entries[e].seal.checkOut
  <2>1. CASE e \in Rows /\ entries[e].seal.ref = c
    <3> DEFINE seal == [entries[e].seal EXCEPT !.ref = None]
    <3>1. entries[e] \in Entry /\ entries[e].seal \in Sealed BY <2>1 DEF Rows, Entry, TypeInv, TypeOK
    <3>2. entries'[e] = [entries[e] EXCEPT !.seal = seal]
      BY <2>1, <3>1 DEF DeleteCustomer, Entry, Sealed
    <3>3. seal \in Sealed BY <3>1 DEF Sealed
    <3>4. entries'[e] \in Entry /\ entries'[e].seal = seal BY <3>1, <3>2, <3>3 DEF Entry
    <3>5. seal.user = entries[e].seal.user /\ seal.checkOut = entries[e].seal.checkOut
      BY <3>1 DEF Sealed
    <3> QED BY <2>1, <3>4, <3>5, Constants DEF Rows
  <2>2. CASE ~(e \in Rows /\ entries[e].seal.ref = c) BY <2>2 DEF DeleteCustomer
  <2> QED BY <2>1, <2>2
<1>2. NothingOpens BY <1>1 DEF NothingOpens
<1>3. ASSUME NEW u PROVE OpenIn(entries', u) = OpenIn(entries, u) BY <1>1 DEF OpenIn
<1>4. ASSUME NEW s \in Slots PROVE Poised(req[s], entries')
  <2>1. req[s].pc = "update" => req[s].id \in EntryIds BY DEF TypeInv, WellFormed
  <2>2. Poised(req[s], entries) BY DEF TimerInv
  <2> QED BY <1>1, <1>3, <2>1, <2>2 DEF Poised
<1>5. req' = req BY DEF DeleteCustomer
<1> QED BY <1>2, <1>4, <1>5, NothingOpensOneTimer DEF TimerInv

\* A member has at most one open entry while requests come one at a time: the
\* guards of start and the cuts of a break are enough as long as nothing runs
\* between their read and their write.
THEOREM OneTimerHolds ==
  ASSUME OneAtATime
  PROVE  Spec => []OneTimer
<1>1. Init => TimerInv BY DEF Init, TimerInv, OneTimer, OpenOf, Rows, Poised, Idle
<1>2. TypeInv /\ TimerInv /\ [Next]_vars => TimerInv'
  <2> SUFFICES ASSUME TypeInv, TimerInv, [Next]_vars PROVE TimerInv' OBVIOUS
  <2>1. ASSUME NEW s \in Slots, Call(s) PROVE TimerInv' BY <2>1, PoisedCall
  <2>2. ASSUME NEW s \in Slots, Handle(s) PROVE TimerInv' BY <2>2, PoisedHandle
  <2>3. ASSUME NEW c \in Refs, DeleteCustomer(c) PROVE TimerInv' BY <2>3, PoisedDeleteCustomer
  <2>4. CASE UNCHANGED <<entries, req>>
    BY <2>4 DEF TimerInv, OneTimer, OpenOf, Rows, IsOpen
  <2>5. ASSUME NEW u \in Users, NEW b \in BOOLEAN, NEW a \in BOOLEAN, SetBilling(u, b, a)
        PROVE  TimerInv'
    BY <2>4, <2>5 DEF SetBilling
  <2>6. CASE Tick \/ UNCHANGED vars BY <2>4, <2>6 DEF Tick, vars
  <2>7. CASE Crash
    BY <2>7 DEF Crash, ledger, TimerInv, OneTimer, OpenOf, Rows, IsOpen, Poised, Idle
  <2> QED BY <2>1, <2>2, <2>3, <2>5, <2>6, <2>7 DEF Next
<1>3. TimerInv => OneTimer BY DEF TimerInv
<1> QED BY <1>1, <1>2, <1>3, TypeCorrect, PTL DEF Spec
=============================================================================
