--------------------------- MODULE InvoiceProofs ---------------------------
(* Certified invoices, for any number of members, rows, invoices and requests *)
(* in flight: what holds whatever interleaves and wherever the process stops, *)
(* and what holds when requests come one at a time and none is cut short.     *)
EXTENDS LedgerProofs

\* A line a bill may have: finished work of the party billed.
LineFor(l, kind, party) ==
  /\ l.seal.checkOut # None /\ ~l.seal.isBreak
  /\ party = IF kind = "contractor" THEN l.seal.user ELSE l.seal.ref

\* What the handlers of an issue know between their awaits: the lines they drew
\* fit the bill, the invoice they sign is not signed yet, the one they lock for is.
Drafted(r, table) ==
  /\ r.pc \in {"cut", "insert"} => r.row.lock = None
  /\ r.pc = "issue" => \A l \in r.lines : LineFor(l, r.bill.kind, r.bill.party)
  /\ r.pc = "certify" =>
       /\ ~table[r.inv].certified
       /\ \A l \in r.lines : LineFor(l, table[r.inv].kind, table[r.inv].party)
  /\ r.pc = "lock" => table[r.inv].certified /\ table[r.inv].lines = r.lines

AllDrafted == \A s \in Slots : Drafted(req[s], invoices)

\* Numbers come from a serial, and two handlers never sign one invoice.
Numbered == \A i \in InvoiceIds : invoices[i] # None => i < nextInvoice
OneSigner ==
  \A s, t \in Slots : At(s, "certify") /\ At(t, "certify") /\ req[s].inv = req[t].inv => s = t

InvoiceInv == Numbered /\ OneSigner /\ AllDrafted /\ LinesAreBillable /\ LockNamesBill

\* The row of a line is there, with the hours that were signed.
Stands(l, rows) ==
  /\ rows[l.id] # None
  /\ SameHours(rows[l.id].seal, l.seal)
  /\ rows[l.id].seal.ref \in {l.seal.ref, None}

\* What a lone handler knows: the rows it drew are as it drew them, and free;
\* the row it will write is free; the invoice it signs or locks for stands.
Settled(r, rows, bills) ==
  /\ r.pc \in {"issue", "certify"} => \A l \in r.lines : Stands(l, rows) /\ rows[l.id].lock = None
  /\ r.pc \in {"certify", "lock"} => ~bills[r.inv].voided
  /\ r.pc \in {"cut", "stopGate", "stop", "update", "delete"} /\ rows[r.id] # None =>
       rows[r.id].lock = None
  /\ r.pc = "unlock" => bills[r.inv].voided

AllSettled == \A s \in Slots : Settled(req[s], entries, invoices)

\* Every line of a standing invoice has its row and its lock, but for the one
\* invoice whose lock is about to be taken.
AllHeld ==
  \A i \in Live : \A l \in invoices[i].lines :
    /\ Stands(l, entries)
    /\ \/ entries[l.id].lock = i
       \/ \E s \in Slots : At(s, "lock") /\ req[s].inv = i /\ entries[l.id].lock = None

\* Every lock is that of a standing invoice, but for the one being released.
AllReleased ==
  \A e \in Rows : entries[e].lock # None =>
    \/ entries[e].lock \in Live
    \/ \E s \in Slots : At(s, "unlock") /\ req[s].inv = entries[e].lock

SerialInv == AllSettled /\ AllHeld /\ AllReleased
-----------------------------------------------------------------------------
\* What a handler can do to one row: leave it, strike it, insert it, edit it under
\* the lock it has, judge it, lock it while free, or release it.
Effect(s, e) ==
  \/ entries'[e] = entries[e]
  \/ At(s, "delete") /\ req[s].id = e /\ entries'[e] = None
  \/ At(s, "insert") /\ e = nextEntry /\ entries'[e] = req[s].row
  \/ /\ e \in Rows /\ entries'[e] # None
     /\ \/ /\ req[s].pc \in {"cut", "stop", "update"} /\ req[s].id = e
           /\ entries'[e].lock = entries[e].lock
        \/ /\ req[s].pc \in {"submit", "approve", "reject"}
           /\ entries'[e].seal = entries[e].seal /\ entries'[e].lock = entries[e].lock
        \/ /\ At(s, "lock") /\ \E l \in req[s].lines : l.id = e
           /\ entries'[e].seal = entries[e].seal
           /\ entries[e].lock = None /\ entries'[e].lock = req[s].inv
        \/ /\ At(s, "unlock") /\ entries[e].lock = req[s].inv
           /\ entries'[e].seal = entries[e].seal /\ entries'[e].lock = None

LEMMA HandlerEffect ==
  ASSUME TypeInv, NEW s \in Slots, Handle(s), NEW e \in EntryIds
  PROVE  Effect(s, e)
<1> USE DEF Effect
<1>1. entries[e] = None \/ entries[e] \in Entry BY DEF TypeInv, TypeOK
<1>2. CASE CutEntry(s) \/ UpdateWrite(s) \/ StopWrite(s)
  <2> DEFINE id == req[s].id
             row == req[s].row
  <2>1. row \in Entry /\ id \in EntryIds
    BY <1>2 DEF CutEntry, UpdateWrite, StopWrite, At, TypeInv, WellFormed
  <2>2. CASE id = e /\ e \in Rows /\ entries' # entries
    <3>1. entries[e] \in Entry BY <2>2, <1>1 DEF Rows
    <3>2. CASE CutEntry(s)
      <4>1. entries'[e] = [entries[e] EXCEPT !.seal.checkOut = row.seal.checkIn]
        BY <2>2, <3>2 DEF CutEntry, TypeInv, TypeOK
      <4>2. entries'[e] \in Entry /\ entries'[e].lock = entries[e].lock
        BY <4>1, <3>1, <2>1 DEF Entry, Sealed
      <4> QED BY <2>2, <3>2, <4>2, Constants DEF CutEntry, At
    <3>3. CASE UpdateWrite(s)
      <4>1. entries'[e] = Corrected(e, row) BY <2>2, <3>3 DEF UpdateWrite, TypeInv, TypeOK
      <4> QED BY <2>1, <2>2, <3>3, <4>1, CorrectedRow, Constants DEF UpdateWrite, At
    <3>4. CASE StopWrite(s)
      <4>1. entries'[e] = Stopped(e, row) BY <2>2, <3>4 DEF StopWrite, TypeInv, TypeOK
      <4> QED BY <2>1, <2>2, <3>4, <4>1, StoppedRow, Constants DEF StopWrite, At
    <3> QED BY <1>2, <3>2, <3>3, <3>4
  <2>3. CASE ~(id = e /\ e \in Rows /\ entries' # entries)
    BY <1>2, <2>1, <2>3 DEF CutEntry, UpdateWrite, StopWrite, TypeInv, TypeOK
  <2> QED BY <2>2, <2>3
<1>3. CASE InsertEntry(s)
  <2>1. nextEntry \in EntryIds
    BY <1>3, LedgerAssumption DEF LedgerAssumption, InsertEntry, EntryIds, TypeInv, TypeOK
  <2> QED BY <1>3, <2>1 DEF InsertEntry, TypeInv, TypeOK
<1>4. CASE DeleteWrite(s)
  BY <1>4 DEF DeleteWrite, At, TypeInv, TypeOK
<1>5. CASE ApprovalWrite(s)
  <2>1. CASE e \in Rows \cap req[s].ids
    <3> DEFINE row == [entries[e] EXCEPT !.approval = Verdict(req[s].pc)]
    <3>1. entries'[e] = row BY <1>5, <2>1 DEF ApprovalWrite
    <3>2. entries[e] \in Entry BY <2>1, <1>1 DEF Rows
    <3>3. row \in Entry BY <3>2 DEF Verdict, Approvals, Entry
    <3>4. row.seal = entries[e].seal /\ row.lock = entries[e].lock BY <3>2 DEF Entry
    <3> QED BY <1>5, <2>1, <3>1, <3>3, <3>4, Constants DEF ApprovalWrite
  <2>2. CASE e \notin Rows \cap req[s].ids BY <1>5, <2>2 DEF ApprovalWrite
  <2> QED BY <2>1, <2>2
<1>6. ASSUME NEW l \in InvoiceIds \cup {None}, e \in Rows, entries'[e] = [entries[e] EXCEPT !.lock = l]
      PROVE  entries'[e] # None /\ entries'[e].seal = entries[e].seal /\ entries'[e].lock = l
  <2>1. entries[e] \in Entry BY <1>6, <1>1 DEF Rows
  <2>2. entries'[e] \in Entry /\ entries'[e].seal = entries[e].seal /\ entries'[e].lock = l
    BY <1>6, <2>1 DEF Entry
  <2> QED BY <2>2, Constants
<1>7. CASE Lock(s)
  <2>1. req[s].inv \in InvoiceIds BY <1>7 DEF Lock, At, TypeInv, WellFormed, Issued
  <2>2. CASE e \in Rows \cap {l.id : l \in req[s].lines} /\ entries[e].lock = None
    <3>1. entries'[e] = [entries[e] EXCEPT !.lock = req[s].inv] BY <1>7, <2>2 DEF Lock
    <3> QED BY <1>6, <1>7, <2>1, <2>2, <3>1 DEF Lock
  <2>3. CASE ~(e \in Rows \cap {l.id : l \in req[s].lines} /\ entries[e].lock = None)
    BY <1>7, <2>3 DEF Lock
  <2> QED BY <2>2, <2>3
<1>8. CASE VoidUnlock(s)
  <2>1. CASE e \in Rows /\ entries[e].lock = req[s].inv
    <3>1. entries'[e] = [entries[e] EXCEPT !.lock = None] BY <1>8, <2>1 DEF VoidUnlock
    <3> QED BY <1>6, <1>8, <2>1, <3>1 DEF VoidUnlock
  <2>2. CASE ~(e \in Rows /\ entries[e].lock = req[s].inv) BY <1>8, <2>2 DEF VoidUnlock
  <2> QED BY <2>1, <2>2
<1>9. CASE StopGate(s) \/ Draft(s) \/ Issue(s) \/ Certify(s) \/ VoidMark(s)
  BY <1>9 DEF StopGate, Draft, Issue, Certify, VoidMark, ledger
<1> QED BY <1>2, <1>3, <1>4, <1>5, <1>7, <1>8, <1>9 DEF Handle

\* Deleting a customer takes the reference from its rows, and nothing else.
LEMMA CustomerEffect ==
  ASSUME TypeInv, NEW c \in Refs, DeleteCustomer(c), NEW e \in EntryIds
  PROVE  \/ entries'[e] = entries[e]
         \/ /\ e \in Rows /\ entries'[e] # None
            /\ SameHours(entries'[e].seal, entries[e].seal) /\ entries'[e].seal.ref = None
            /\ entries'[e].lock = entries[e].lock
<1>1. CASE e \in Rows /\ entries[e].seal.ref = c
  <2> DEFINE seal == [entries[e].seal EXCEPT !.ref = None]
  <2>1. entries[e] \in Entry /\ entries[e].seal \in Sealed BY <1>1 DEF Rows, Entry, TypeInv, TypeOK
  <2>2. entries'[e] = [entries[e] EXCEPT !.seal = seal] BY <1>1, <2>1 DEF DeleteCustomer, Entry, Sealed
  <2>3. seal \in Sealed /\ seal.ref = None /\ SameHours(seal, entries[e].seal) BY <2>1 DEF Sealed, SameHours
  <2>4. entries'[e] \in Entry /\ entries'[e].seal = seal /\ entries'[e].lock = entries[e].lock
    BY <2>1, <2>2, <2>3 DEF Entry
  <2> QED BY <1>1, <2>3, <2>4, Constants
<1>2. CASE ~(e \in Rows /\ entries[e].seal.ref = c) BY <1>2 DEF DeleteCustomer
<1> QED BY <1>1, <1>2

\* What a handler can do to one invoice: leave it, open it unsigned, sign it with
\* the lines it drew, or withdraw it.
InvoiceEffect(s, i) ==
  \/ invoices'[i] = invoices[i]
  \/ /\ At(s, "issue") /\ i = nextInvoice /\ invoices'[i] # None
     /\ invoices'[i].kind = req[s].bill.kind /\ invoices'[i].party = req[s].bill.party
     /\ invoices'[i].lines = {} /\ ~invoices'[i].certified /\ ~invoices'[i].voided
  \/ /\ invoices[i] # None /\ invoices'[i] # None /\ i = req[s].inv
     /\ invoices'[i].kind = invoices[i].kind /\ invoices'[i].party = invoices[i].party
     /\ \/ /\ At(s, "certify") /\ invoices'[i].certified /\ invoices'[i].lines = req[s].lines
           /\ invoices'[i].voided = invoices[i].voided
        \/ /\ At(s, "void") /\ invoices'[i].certified = invoices[i].certified
           /\ invoices'[i].lines = invoices[i].lines /\ invoices'[i].voided

LEMMA HandlerInvoices ==
  ASSUME TypeInv, NEW s \in Slots, Handle(s), NEW i \in InvoiceIds
  PROVE  InvoiceEffect(s, i)
<1> USE DEF InvoiceEffect
<1>1. CASE Issue(s)
  <2>1. CASE invoices' = invoices BY <2>1
  <2>2. CASE invoices' = [invoices EXCEPT ![nextInvoice] =
                 [kind |-> req[s].bill.kind, party |-> req[s].bill.party, lines |-> {},
                  certified |-> FALSE, status |-> "issued", voided |-> FALSE]]
    <3> DEFINE inv == [kind |-> req[s].bill.kind, party |-> req[s].bill.party, lines |-> {},
                       certified |-> FALSE, status |-> "issued", voided |-> FALSE]
    <3>1. req[s].bill \in Bill BY <1>1 DEF Issue, At, TypeInv, WellFormed
    <3>2. inv \in Invoice BY <3>1 DEF Bill, Invoice
    <3>3. CASE i = nextInvoice
      <4>1. invoices'[i] = inv BY <2>2, <3>3 DEF TypeInv, TypeOK
      <4>2. At(s, "issue") BY <1>1 DEF Issue
      <4>3. inv # None BY <3>2, Constants
      <4> QED BY <3>3, <4>1, <4>2, <4>3
    <3>4. CASE i # nextInvoice BY <2>2, <3>4 DEF TypeInv, TypeOK
    <3> QED BY <3>3, <3>4
  <2>3. \/ invoices' = invoices
        \/ invoices' = [invoices EXCEPT ![nextInvoice] =
                 [kind |-> req[s].bill.kind, party |-> req[s].bill.party, lines |-> {},
                  certified |-> FALSE, status |-> "issued", voided |-> FALSE]]
    BY <1>1 DEF Issue
  <2> QED BY <2>1, <2>2, <2>3
<1>2. CASE Certify(s)
  <2> DEFINE j == req[s].inv
             inv == [invoices[j] EXCEPT !.lines = req[s].lines, !.certified = TRUE, !.status = "issued"]
  <2>1. req[s] \in Request /\ j \in InvoiceIds /\ invoices[j] \in Invoice /\ invoices[j] # None
    BY <1>2 DEF Certify, At, TypeInv, TypeOK, WellFormed, Issued
  <2>2. inv \in Invoice /\ inv.lines = req[s].lines /\ inv.certified /\ inv.voided = invoices[j].voided
          /\ inv.kind = invoices[j].kind /\ inv.party = invoices[j].party
    BY <2>1 DEF Request, Invoice
  <2>3. invoices' = [invoices EXCEPT ![j] = inv] BY <1>2, <2>1 DEF Certify, Invoice, TypeInv, TypeOK
  <2>4. CASE i = j
    <3>1. invoices'[i] = inv BY <2>1, <2>3, <2>4 DEF TypeInv, TypeOK
    <3> QED BY <1>2, <2>1, <2>2, <2>4, <3>1, Constants DEF Certify
  <2>5. CASE i # j BY <2>3, <2>5 DEF TypeInv, TypeOK
  <2> QED BY <2>4, <2>5
<1>3. CASE VoidMark(s)
  <2> DEFINE j == req[s].inv
             inv == [invoices[j] EXCEPT !.voided = TRUE, !.status = "void"]
  <2>1. j \in InvoiceIds /\ invoices[j] \in Invoice /\ invoices[j] # None
    BY <1>3 DEF VoidMark, At, TypeInv, TypeOK, WellFormed, Issued
  <2>2. inv \in Invoice /\ inv.lines = invoices[j].lines /\ inv.certified = invoices[j].certified
          /\ inv.voided /\ inv.kind = invoices[j].kind /\ inv.party = invoices[j].party
    BY <2>1 DEF Invoice
  <2>3. invoices' = [invoices EXCEPT ![j] = inv] BY <1>3, <2>1 DEF VoidMark, Invoice, TypeInv, TypeOK
  <2>4. CASE i = j
    <3>1. invoices'[i] = inv BY <2>1, <2>3, <2>4 DEF TypeInv, TypeOK
    <3> QED BY <1>3, <2>1, <2>2, <2>4, <3>1, Constants DEF VoidMark
  <2>5. CASE i # j BY <2>3, <2>5 DEF TypeInv, TypeOK
  <2> QED BY <2>4, <2>5
<1>4. CASE CutEntry(s) \/ InsertEntry(s) \/ StopGate(s) \/ StopWrite(s) \/ UpdateWrite(s)
           \/ DeleteWrite(s) \/ ApprovalWrite(s) \/ Draft(s) \/ Lock(s) \/ VoidUnlock(s)
  BY <1>4 DEF CutEntry, InsertEntry, StopGate, StopWrite, UpdateWrite, DeleteWrite, ApprovalWrite,
              Draft, Lock, VoidUnlock, ledger
<1> QED BY <1>1, <1>2, <1>3, <1>4 DEF Handle

\* Outside the handlers nothing touches an invoice.
LEMMA OtherStepsKeepInvoices ==
  ASSUME [Next]_vars, ~\E s \in Slots : Handle(s)
  PROVE  invoices' = invoices /\ nextInvoice' = nextInvoice
<1>1. ASSUME NEW s \in Slots, Call(s) PROVE invoices' = invoices /\ nextInvoice' = nextInvoice
  BY <1>1, CallReads DEF ledger
<1> QED BY <1>1 DEF Next, SetBilling, DeleteCustomer, Tick, Crash, vars, ledger

\* What a call leaves in its slot: no call begins inside an issue, a row to be
\* inserted is in nobody's lock, and the row to be written is open or unlocked.
Beginning == {"insert", "cut", "stopGate", "update", "delete", "submit", "approve", "reject", "draft", "void"}

Begun(r) ==
  /\ r.pc \in Beginning
  /\ r.pc \in {"cut", "insert"} => r.row.lock = None
  /\ r.pc \in {"cut", "stopGate"} => r.id \in Rows /\ IsOpen(r.id)
  /\ r.pc \in {"update", "delete"} => entries[r.id].lock = None

LEMMA CallBegins ==
  ASSUME TypeInv, NEW s \in Slots, Call(s)
  PROVE  \E r : req' = [req EXCEPT ![s] = r] /\ Begun(r)
<1> DEFINE Goal == \E r : req' = [req EXCEPT ![s] = r] /\ Begun(r)
<1>1. ASSUME NEW u, NEW source, NEW in, NEW out, NEW brk, NEW metered, NEW ref, NEW approval
      PROVE  NewRow(u, source, in, out, brk, metered, ref, approval).lock = None
  BY DEF NewRow
<1>2. ASSUME NEW u \in Users, NEW row, row.lock = None, OpenAfterCut(s, u, row) PROVE Goal
  <2>1. CASE Begin(s, [Idle EXCEPT !.pc = "insert", !.row = row])
    <3> DEFINE r == [Idle EXCEPT !.pc = "insert", !.row = row]
    <3>1. r.pc = "insert" /\ r.row = row BY DEF Idle
    <3> QED BY <1>2, <2>1, <3>1 DEF Begin, Begun, Beginning
  <2>2. ASSUME NEW e \in OpenEntryFor(u), Begin(s, [Idle EXCEPT !.pc = "cut", !.id = e, !.row = row])
        PROVE  Goal
    <3> DEFINE r == [Idle EXCEPT !.pc = "cut", !.id = e, !.row = row]
    <3>1. r.pc = "cut" /\ r.row = row /\ r.id = e BY DEF Idle
    <3>2. e \in Rows /\ IsOpen(e) BY DEF OpenEntryFor, OpenOf
    <3> QED BY <1>2, <2>2, <3>1, <3>2 DEF Begin, Begun, Beginning
  <2> QED BY <1>2, <2>1, <2>2 DEF OpenAfterCut
<1>3. ASSUME NEW u \in Users, NEW src \in Credentials, NEW brk \in BOOLEAN, NEW ref \in Refs \cup {None},
             Start(s, u, src, brk, ref) \/ SwitchBreak(s, u, src, ref)
      PROVE  Goal
  <2>1. CASE Start(s, u, src, brk, ref)
    <3>1. NewRow(u, src, now, None, brk, FALSE, ref, "none").lock = None BY <1>1
    <3>2. OpenAfterCut(s, u, NewRow(u, src, now, None, brk, FALSE, ref, "none")) BY <2>1 DEF Start
    <3> QED BY <1>2, <3>1, <3>2
  <2>2. CASE SwitchBreak(s, u, src, ref)
    <3>1. NewRow(u, src, now, None, TRUE, FALSE, ref, "none").lock = None BY <1>1
    <3>2. OpenAfterCut(s, u, NewRow(u, src, now, None, TRUE, FALSE, ref, "none")) BY <2>2 DEF SwitchBreak
    <3> QED BY <1>2, <3>1, <3>2
  <2> QED BY <1>3, <2>1, <2>2
<1>4. ASSUME NEW u \in Users, NEW src \in Credentials, NEW in \in Time, NEW out \in Time,
             NEW brk \in BOOLEAN, NEW tok \in BOOLEAN, NEW ref \in Refs \cup {None},
             LogPast(s, u, src, in, out, brk, tok, ref)
      PROVE  Goal
  <2> DEFINE row == NewRow(u, src, in, out, brk, AgentMetricsFor(src, tok), ref, ApprovalOnWrite(u, brk))
             r == [Idle EXCEPT !.pc = "insert", !.row = row]
  <2>1. r.pc = "insert" /\ r.row = row BY DEF Idle
  <2>2. row.lock = None BY <1>1
  <2> QED BY <1>4, <2>1, <2>2 DEF LogPast, Begin, Begun, Beginning
<1>5. ASSUME NEW u \in Users, NEW tok \in BOOLEAN, Stop(s, u, tok) PROVE Goal
  <2>0. PICK e \in OpenEntryFor(u) :
          \E row : req' = [req EXCEPT ![s] = [Idle EXCEPT !.pc = "stopGate", !.id = e, !.row = row]]
    BY <1>5 DEF Stop, Begin
  <2>1. PICK row :
          req' = [req EXCEPT ![s] = [Idle EXCEPT !.pc = "stopGate", !.id = e, !.row = row]]
    BY <2>0
  <2> DEFINE r == [Idle EXCEPT !.pc = "stopGate", !.id = e, !.row = row]
  <2>2. r.pc = "stopGate" /\ r.id = e BY DEF Idle
  <2>3. e \in Rows /\ IsOpen(e) BY DEF OpenEntryFor, OpenOf
  <2> QED BY <2>1, <2>2, <2>3 DEF Begun, Beginning
<1>6. ASSUME NEW u \in Users, NEW e \in Rows, NEW in \in Time, NEW out \in Time \cup {None},
             NEW ref \in Refs \cup {None}, Update(s, u, e, in, out, ref)
      PROVE  Goal
  <2> DEFINE row == [entries[e] EXCEPT !.seal.checkIn = in, !.seal.checkOut = out, !.seal.ref = ref]
             r == [Idle EXCEPT !.pc = "update", !.id = e, !.row = row]
  <2>1. req' = [req EXCEPT ![s] = r] BY <1>6 DEF Update, Begin
  <2>2. r.pc = "update" /\ r.id = e BY DEF Idle
  <2>3. entries[e].lock = None BY <1>6 DEF Update, EntryForWrite
  <2> QED BY <2>1, <2>2, <2>3 DEF Begun, Beginning
<1>7. ASSUME NEW u \in Users, NEW e \in Rows, Delete(s, u, e) PROVE Goal
  <2> DEFINE r == [Idle EXCEPT !.pc = "delete", !.id = e]
  <2>1. r.pc = "delete" /\ r.id = e BY DEF Idle
  <2> QED BY <1>7, <2>1 DEF Delete, EntryForWrite, Begin, Begun, Beginning
<1>8. ASSUME NEW u \in Users, NEW from \in Time, NEW to \in Time, Submit(s, u, from, to) PROVE Goal
  <2>1. PICK ids : Begin(s, [Idle EXCEPT !.pc = "submit", !.ids = ids]) BY <1>8 DEF Submit
  <2>2. [Idle EXCEPT !.pc = "submit", !.ids = ids].pc = "submit" BY DEF Idle
  <2> QED BY <2>1, <2>2 DEF Begin, Begun, Beginning
<1>9. ASSUME NEW ids \in ResolveTargets, Approve(s, ids) \/ Reject(s, ids) PROVE Goal
  <2>1. PICK pc \in {"approve", "reject"} : Begin(s, [Idle EXCEPT !.pc = pc, !.ids = ids])
    BY <1>9 DEF Approve, Reject
  <2>2. [Idle EXCEPT !.pc = pc, !.ids = ids].pc = pc BY DEF Idle
  <2> QED BY <2>1, <2>2 DEF Begin, Begun, Beginning
<1>10. ASSUME NEW u \in Users, NEW forced \in BOOLEAN \cup {None}, GenerateContractor(s, u, forced) PROVE Goal
  <2>1. PICK bill : Begin(s, [Idle EXCEPT !.pc = "draft", !.bill = bill])
    BY <1>10 DEF GenerateContractor
  <2>2. [Idle EXCEPT !.pc = "draft", !.bill = bill].pc = "draft" BY DEF Idle
  <2> QED BY <2>1, <2>2 DEF Begin, Begun, Beginning
<1>11. ASSUME NEW c \in Refs, GenerateCustomer(s, c) PROVE Goal
  <2>1. PICK bill : Begin(s, [Idle EXCEPT !.pc = "draft", !.bill = bill])
    BY <1>11 DEF GenerateCustomer
  <2>2. [Idle EXCEPT !.pc = "draft", !.bill = bill].pc = "draft" BY DEF Idle
  <2> QED BY <2>1, <2>2 DEF Begin, Begun, Beginning
<1>12. ASSUME NEW i \in InvoiceIds, Void(s, i) PROVE Goal
  <2>1. [Idle EXCEPT !.pc = "void", !.inv = i].pc = "void" BY DEF Idle
  <2> QED BY <1>12, <2>1 DEF Void, Begin, Begun, Beginning
<1>13. ASSUME NEW u \in Users, NEW src \in Credentials, NEW ref \in Refs \cup {None}, SwitchBreak(s, u, src, ref)
       PROVE  Goal
  BY <1>3, <1>13
<1> QED
  BY Zenon, <1>3, <1>4, <1>5, <1>6, <1>7, <1>8, <1>9, <1>10, <1>11, <1>12, <1>13 DEF Call
-----------------------------------------------------------------------------
\* What a request knows of its issue stays true while another handler works.
LEMMA DraftedStays ==
  ASSUME TypeInv, InvoiceInv, NEW s \in Slots, Handle(s), NEW t \in Slots, t # s
  PROVE  Drafted(req[t], invoices')
<1> DEFINE i == req[t].inv
<1>1. Drafted(req[t], invoices) /\ Drafted(req[s], invoices) BY DEF InvoiceInv, AllDrafted
<1>2. CASE req[t].pc \in {"certify", "lock"}
  <2>1. i \in InvoiceIds /\ invoices[i] # None BY <1>2 DEF TypeInv, WellFormed, Issued
  <2>2. InvoiceEffect(s, i) BY <2>1, HandlerInvoices
  <2>3. i # nextInvoice BY <2>1, Constants DEF InvoiceInv, Numbered, TypeInv, TypeOK
  <2>4. ~(At(s, "certify") /\ i = req[s].inv)
    BY <1>1, <1>2 DEF InvoiceInv, OneSigner, At, Drafted
  <2>5. /\ invoices'[i].certified = invoices[i].certified /\ invoices'[i].lines = invoices[i].lines
        /\ invoices'[i].kind = invoices[i].kind /\ invoices'[i].party = invoices[i].party
    BY <2>2, <2>3, <2>4 DEF InvoiceEffect
  <2> QED BY <1>1, <1>2, <2>5 DEF Drafted
<1>3. CASE req[t].pc \notin {"certify", "lock"} BY <1>1, <1>3 DEF Drafted
<1> QED BY <1>2, <1>3

\* A handler carries what it knows of its issue to its next await, and is the
\* only one to sign the number it took.
Carries(s, r) ==
  /\ req' = [req EXCEPT ![s] = r] /\ Drafted(r, invoices')
  /\ r.pc = "certify" => r.inv = nextInvoice

LEMMA DraftedHandle ==
  ASSUME TypeInv, InvoiceInv, NEW s \in Slots, Handle(s)
  PROVE  \E r : Carries(s, r)
<1>1. req[s] \in Request /\ Drafted(req[s], invoices)
  BY DEF TypeInv, WellFormed, InvoiceInv, AllDrafted
<1>2. ASSUME NEW r, req' = [req EXCEPT ![s] = r], r.pc \notin {"cut", "insert", "issue", "certify", "lock"}
      PROVE  Carries(s, r)
  BY <1>2 DEF Carries, Drafted
<1>3. ASSUME Return(s) PROVE Carries(s, Idle) BY <1>2, <1>3 DEF Return, Idle
<1>4. CASE CutEntry(s)
  <2> DEFINE r == [req[s] EXCEPT !.pc = "insert"]
  <2>1. r.pc = "insert" /\ r.row = req[s].row BY <1>1 DEF Request
  <2>2. Drafted(r, invoices') BY <1>1, <1>4, <2>1 DEF CutEntry, At, Drafted
  <2>3. CASE Proceed(s, r) BY <2>1, <2>2, <2>3 DEF Carries, Proceed
  <2>4. Proceed(s, r) \/ Return(s) BY <1>4 DEF CutEntry
  <2> QED BY <1>3, <2>3, <2>4
<1>5. CASE StopGate(s) \/ VoidMark(s)
  <2>1. PICK r : Proceed(s, r) /\ r.pc \in {"stop", "unlock"}
    <3>1. CASE StopGate(s)
      <4> DEFINE r == [req[s] EXCEPT !.pc = "stop", !.row.approval =
                         ApprovalOnWrite(req[s].row.seal.user, req[s].row.seal.isBreak)]
      <4>1. r.pc = "stop" BY <1>1 DEF Request
      <4>2. Proceed(s, r) BY <3>1 DEF StopGate
      <4> QED BY <4>1, <4>2
    <3>2. CASE VoidMark(s)
      <4> DEFINE r == [req[s] EXCEPT !.pc = "unlock"]
      <4>1. r.pc = "unlock" BY <1>1 DEF Request
      <4>2. Proceed(s, r) BY <3>2 DEF VoidMark
      <4> QED BY <4>1, <4>2
    <3> QED BY <1>5, <3>1, <3>2
  <2> QED BY <1>2, <2>1 DEF Proceed
<1>6. CASE Draft(s)
  <2> DEFINE bill == req[s].bill
             r == [req[s] EXCEPT !.pc = "issue", !.lines = {LineOf(e) : e \in Billable(bill)}]
  <2>1. r.pc = "issue" /\ r.bill = bill /\ r.lines = {LineOf(e) : e \in Billable(bill)}
    BY <1>1 DEF Request
  <2>2. ASSUME NEW e \in Billable(bill) PROVE LineFor(LineOf(e), bill.kind, bill.party)
    BY <2>2 DEF Billable, LineOf, LineFor, IsOpen
  <2>3. Drafted(r, invoices') BY <2>1, <2>2 DEF Drafted
  <2>4. CASE Proceed(s, r) BY <2>1, <2>3, <2>4 DEF Carries, Proceed
  <2>5. Proceed(s, r) \/ Return(s) BY <1>6 DEF Draft
  <2> QED BY <1>3, <2>4, <2>5
<1>7. CASE Issue(s)
  <2> DEFINE bill == req[s].bill
             r == [req[s] EXCEPT !.pc = "certify", !.inv = nextInvoice]
  <2>1. r.pc = "certify" /\ r.inv = nextInvoice /\ r.lines = req[s].lines BY <1>1 DEF Request
  <2>2. ASSUME Proceed(s, r),
               invoices' = [invoices EXCEPT ![nextInvoice] =
                 [kind |-> bill.kind, party |-> bill.party, lines |-> {},
                  certified |-> FALSE, status |-> "issued", voided |-> FALSE]]
        PROVE  Carries(s, r)
    <3>1. nextInvoice \in InvoiceIds
      BY <1>7, LedgerAssumption DEF LedgerAssumption, Issue, InvoiceIds, TypeInv, TypeOK
    <3>2. invoices'[nextInvoice] = [kind |-> bill.kind, party |-> bill.party, lines |-> {},
                  certified |-> FALSE, status |-> "issued", voided |-> FALSE]
      BY <2>2, <3>1 DEF TypeInv, TypeOK
    <3>3. \A l \in req[s].lines : LineFor(l, bill.kind, bill.party)
      BY <1>1, <1>7 DEF Issue, At, Drafted
    <3>4. Drafted(r, invoices') BY <2>1, <3>2, <3>3 DEF Drafted
    <3> QED BY <2>1, <2>2, <3>4 DEF Carries, Proceed
  <2>3. \/ Return(s)
        \/ /\ Proceed(s, r)
           /\ invoices' = [invoices EXCEPT ![nextInvoice] =
                 [kind |-> bill.kind, party |-> bill.party, lines |-> {},
                  certified |-> FALSE, status |-> "issued", voided |-> FALSE]]
    BY <1>7 DEF Issue
  <2> QED BY <1>3, <2>2, <2>3
<1>8. CASE Certify(s)
  <2> DEFINE i == req[s].inv
             r == [req[s] EXCEPT !.pc = "lock"]
  <2>1. r.pc = "lock" /\ r.inv = i /\ r.lines = req[s].lines BY <1>1 DEF Request
  <2>2. i \in InvoiceIds /\ invoices[i] # None /\ At(s, "certify")
    BY <1>8 DEF Certify, At, TypeInv, WellFormed, Issued
  <2>3. invoices'[i].certified /\ invoices'[i].lines = req[s].lines
    <3>1. invoices[i] \in Invoice BY <2>2 DEF TypeInv, TypeOK
    <3>2. invoices'[i] = [invoices[i] EXCEPT !.lines = req[s].lines, !.certified = TRUE, !.status = "issued"]
      BY <1>8, <2>2, <3>1 DEF Certify, TypeInv, TypeOK, Invoice
    <3> QED BY <3>1, <3>2 DEF Invoice
  <2>4. Drafted(r, invoices') BY <2>1, <2>3 DEF Drafted
  <2>5. CASE Proceed(s, r) BY <2>1, <2>4, <2>5 DEF Carries, Proceed
  <2>6. Proceed(s, r) \/ Return(s) BY <1>8 DEF Certify
  <2> QED BY <1>3, <2>5, <2>6
<1>9. CASE InsertEntry(s) \/ StopWrite(s) \/ UpdateWrite(s) \/ DeleteWrite(s) \/ ApprovalWrite(s)
           \/ Lock(s) \/ VoidUnlock(s)
  <2>1. Return(s)
    BY <1>9 DEF InsertEntry, StopWrite, UpdateWrite, DeleteWrite, ApprovalWrite, Lock, VoidUnlock
  <2> QED BY <1>3, <2>1
<1> QED BY <1>4, <1>5, <1>6, <1>7, <1>8, <1>9 DEF Handle

\* Between them: every request knows what it needs, and no number has two signers.
LEMMA DraftedStep ==
  ASSUME TypeInv, InvoiceInv, [Next]_vars
  PROVE  AllDrafted' /\ OneSigner'
<1>1. ASSUME NEW s \in Slots, Handle(s) PROVE AllDrafted' /\ OneSigner'
  <2>1. PICK r : Carries(s, r) BY <1>1, DraftedHandle
  <2>2. \A t \in Slots : req'[t] = IF t = s THEN r ELSE req[t] BY <2>1 DEF Carries, TypeInv, TypeOK
  <2>3. AllDrafted' BY <1>1, <2>1, <2>2, DraftedStays DEF AllDrafted, Carries
  <2>4. \A t \in Slots : At(t, "certify") => req[t].inv # nextInvoice
    BY Constants DEF At, TypeInv, TypeOK, WellFormed, Issued, InvoiceInv, Numbered
  <2>5. OneSigner' BY <2>1, <2>2, <2>4 DEF OneSigner, InvoiceInv, Carries, At
  <2> QED BY <2>3, <2>5
<1>2. CASE ~\E s \in Slots : Handle(s)
  <2>1. invoices' = invoices BY <1>2, OtherStepsKeepInvoices
  <2>2. ASSUME NEW s \in Slots, Call(s) PROVE AllDrafted' /\ OneSigner'
    <3>1. PICK r : req' = [req EXCEPT ![s] = r] /\ Begun(r) BY <2>2, CallBegins
    <3>2. \A t \in Slots : req'[t] = IF t = s THEN r ELSE req[t] BY <3>1 DEF TypeInv, TypeOK
    <3>3. Drafted(r, invoices') BY <3>1 DEF Drafted, Begun, Beginning
    <3>4. AllDrafted' BY <2>1, <3>2, <3>3 DEF AllDrafted, InvoiceInv
    <3>5. OneSigner' BY <3>1, <3>2 DEF OneSigner, InvoiceInv, At, Begun, Beginning
    <3> QED BY <3>4, <3>5
  <2>3. CASE req' = req BY <2>1, <2>3 DEF AllDrafted, OneSigner, At, InvoiceInv
  <2>4. CASE Crash
    BY <2>4 DEF Crash, Idle, AllDrafted, Drafted, OneSigner, At
  <2> QED BY <1>2, <2>2, <2>3, <2>4 DEF Next, SetBilling, DeleteCustomer, Tick, vars
<1> QED BY <1>1, <1>2
-----------------------------------------------------------------------------
\* Only the insert of an invoice takes a number, and it takes one.
LEMMA HandlerNumbers ==
  ASSUME TypeInv, NEW s \in Slots, Handle(s)
  PROVE  /\ nextInvoice' \in {nextInvoice, nextInvoice + 1}
         /\ At(s, "issue") /\ invoices' # invoices => nextInvoice' = nextInvoice + 1
<1>1. CASE Issue(s) BY <1>1 DEF Issue
<1>2. CASE CutEntry(s) \/ InsertEntry(s) \/ StopGate(s) \/ StopWrite(s) \/ UpdateWrite(s)
           \/ DeleteWrite(s) \/ ApprovalWrite(s) \/ Draft(s) \/ Lock(s) \/ VoidUnlock(s)
  BY <1>2 DEF CutEntry, InsertEntry, StopGate, StopWrite, UpdateWrite, DeleteWrite, ApprovalWrite,
              Draft, Lock, VoidUnlock, ledger
<1>3. CASE Certify(s) \/ VoidMark(s)
  <2>1. nextInvoice' = nextInvoice /\ ~At(s, "issue") BY <1>3 DEF Certify, VoidMark, At
  <2> QED BY <2>1
<1> QED BY <1>1, <1>2, <1>3 DEF Handle

\* What a handler does to the tables keeps bills numbered, made of billable work,
\* and behind the locks that name them.
LEMMA BillsHandle ==
  ASSUME TypeInv, InvoiceInv, NEW s \in Slots, Handle(s)
  PROVE  Numbered' /\ LinesAreBillable' /\ LockNamesBill'
<1>1. Drafted(req[s], invoices) /\ Numbered /\ LinesAreBillable /\ LockNamesBill
  BY DEF InvoiceInv, AllDrafted
<1>2. \A i \in InvoiceIds : InvoiceEffect(s, i) BY HandlerInvoices
<1>3. Numbered'
  <2> SUFFICES ASSUME NEW i \in InvoiceIds, invoices'[i] # None PROVE i < nextInvoice'
    BY DEF Numbered
  <2>1. i \in Nat /\ nextInvoice \in Nat BY Constants DEF TypeInv, TypeOK
  <2>2. CASE invoices[i] # None
    <3>1. i < nextInvoice BY <1>1, <2>2 DEF Numbered
    <3> QED BY <2>1, <3>1, HandlerNumbers
  <2>3. CASE invoices[i] = None
    <3>1. i = nextInvoice /\ At(s, "issue") /\ invoices' # invoices BY <1>2, <2>3 DEF InvoiceEffect
    <3> QED BY <2>1, <3>1, HandlerNumbers
  <2> QED BY <2>2, <2>3
<1>4. LinesAreBillable'
  <2> SUFFICES ASSUME NEW i \in InvoiceIds, invoices'[i] # None, invoices'[i].certified,
                      NEW l \in invoices'[i].lines
               PROVE  LineFor(l, invoices'[i].kind, invoices'[i].party)
    BY DEF LinesAreBillable, Certified, LineFor
  <2>1. CASE At(s, "certify") /\ i = req[s].inv /\ invoices'[i].lines = req[s].lines
             /\ invoices'[i].kind = invoices[i].kind /\ invoices'[i].party = invoices[i].party
    BY <1>1, <2>1 DEF At, Drafted
  <2>2. CASE /\ invoices[i] # None /\ invoices[i].certified /\ invoices'[i].lines = invoices[i].lines
             /\ invoices'[i].kind = invoices[i].kind /\ invoices'[i].party = invoices[i].party
    BY <1>1, <2>2 DEF LinesAreBillable, Certified, LineFor
  <2> QED BY <1>2, <2>1, <2>2 DEF InvoiceEffect
<1>5. \A i \in Certified : i \in Certified' /\ invoices'[i].lines = invoices[i].lines
  <2> SUFFICES ASSUME NEW i \in Certified PROVE i \in Certified' /\ invoices'[i].lines = invoices[i].lines
    OBVIOUS
  <2>1. i \in InvoiceIds /\ invoices[i] # None /\ invoices[i].certified BY DEF Certified
  <2>2. i # nextInvoice BY <1>1, <2>1, Constants DEF Numbered, TypeInv, TypeOK
  <2>3. ~(At(s, "certify") /\ i = req[s].inv) BY <1>1, <2>1 DEF At, Drafted
  <2> QED BY <1>2, <2>1, <2>2, <2>3 DEF InvoiceEffect, Certified
<1>6. LockNamesBill'
  <2> SUFFICES ASSUME NEW e \in EntryIds, entries'[e] # None, entries'[e].lock # None
               PROVE  /\ entries'[e].lock \in Certified'
                      /\ \E l \in invoices'[entries'[e].lock].lines : l.id = e
    BY DEF LockNamesBill, Rows
  <2>1. Effect(s, e) BY HandlerEffect
  <2>2. CASE e \in Rows /\ entries'[e].lock = entries[e].lock BY <1>1, <1>5, <2>2 DEF LockNamesBill
  <2>3. CASE /\ At(s, "lock") /\ entries'[e].lock = req[s].inv
             /\ \E l \in req[s].lines : l.id = e
    <3>1. req[s].inv \in InvoiceIds /\ invoices[req[s].inv] # None
      BY <2>3 DEF At, TypeInv, WellFormed, Issued
    <3>2. req[s].inv \in Certified /\ invoices[req[s].inv].lines = req[s].lines
      BY <1>1, <2>3, <3>1 DEF At, Drafted, Certified
    <3> QED BY <1>5, <2>3, <3>2
  <2>4. CASE At(s, "insert") /\ entries'[e] = req[s].row BY <1>1, <2>4 DEF At, Drafted
  <2> QED BY <2>1, <2>2, <2>3, <2>4 DEF Effect, Rows
<1> QED BY <1>3, <1>4, <1>6

\* Outside the handlers bills and locks stay as they are.
LEMMA BillsStay ==
  ASSUME TypeInv, InvoiceInv, [Next]_vars, ~\E s \in Slots : Handle(s)
  PROVE  Numbered' /\ LinesAreBillable' /\ LockNamesBill'
<1>1. invoices' = invoices /\ nextInvoice' = nextInvoice BY OtherStepsKeepInvoices
<1>2. Numbered' /\ LinesAreBillable'
  BY <1>1 DEF InvoiceInv, Numbered, LinesAreBillable, Certified
<1>3. ASSUME \A e \in EntryIds : \/ entries'[e] = entries[e]
                                 \/ e \in Rows /\ entries'[e].lock = entries[e].lock
      PROVE  LockNamesBill'
  BY <1>1, <1>3 DEF InvoiceInv, LockNamesBill, Certified, Rows
<1>4. ASSUME entries' = entries PROVE LockNamesBill'
  BY <1>1, <1>4 DEF InvoiceInv, LockNamesBill, Certified, Rows
<1>5. ASSUME NEW s \in Slots, Call(s) PROVE entries' = entries BY <1>5, CallReads DEF ledger
<1>6. ASSUME NEW c \in Refs, DeleteCustomer(c) PROVE LockNamesBill' BY <1>3, <1>6, CustomerEffect
<1>7. ASSUME NEW u \in Users, NEW b \in BOOLEAN, NEW a \in BOOLEAN, SetBilling(u, b, a)
      PROVE  entries' = entries
  BY <1>7 DEF SetBilling
<1>8. Tick \/ Crash \/ vars' = vars => entries' = entries BY DEF Tick, Crash, ledger, vars
<1>9. LockNamesBill' BY Zenon, <1>4, <1>5, <1>6, <1>7, <1>8 DEF Next
<1> QED BY <1>2, <1>9

LEMMA InvoiceInvHolds == Spec => [](TypeInv /\ InvoiceInv)
<1>1. Init => InvoiceInv
  BY DEF Init, InvoiceInv, Numbered, OneSigner, AllDrafted, Drafted, LinesAreBillable,
         LockNamesBill, Certified, Rows, At, Idle
<1>2. TypeInv /\ InvoiceInv /\ [Next]_vars => InvoiceInv'
  <2> SUFFICES ASSUME TypeInv, InvoiceInv, [Next]_vars PROVE InvoiceInv' OBVIOUS
  <2>1. AllDrafted' /\ OneSigner' BY DraftedStep
  <2>2. Numbered' /\ LinesAreBillable' /\ LockNamesBill' BY BillsHandle, BillsStay
  <2> QED BY <2>1, <2>2 DEF InvoiceInv
<1> QED BY <1>1, <1>2, TypeCorrect, PTL DEF Spec

\* A certified line is finished work of the party billed, whatever interleaves
\* and wherever the process stops (billableEntries, certify).
THEOREM LinesHold == Spec => []LinesAreBillable
<1>1. InvoiceInv => LinesAreBillable BY DEF InvoiceInv
<1> QED BY <1>1, InvoiceInvHolds, PTL

\* A lock names a certified invoice that bills the very row: certify signs before
\* it locks, and no other handler writes a lock but to release it.
THEOREM LocksHold == Spec => []LockNamesBill
<1>1. InvoiceInv => LockNamesBill BY DEF InvoiceInv
<1> QED BY <1>1, InvoiceInvHolds, PTL

\* A signed invoice keeps its lines for good and, once withdrawn, never stands
\* again: no number is signed twice and voidInvoice leaves the snapshot.
THEOREM DocumentsStand == Spec => DocumentsAreFinal
<1> DEFINE Step == \A i \in Certified :
                     /\ invoices'[i].certified /\ invoices'[i].lines = invoices[i].lines
                     /\ invoices[i].voided => invoices'[i].voided
<1>1. TypeInv /\ InvoiceInv /\ [Next]_vars => [Step]_vars
  <2> SUFFICES ASSUME TypeInv, InvoiceInv, [Next]_vars, NEW i \in Certified
               PROVE  /\ invoices'[i].certified /\ invoices'[i].lines = invoices[i].lines
                      /\ invoices[i].voided => invoices'[i].voided
    OBVIOUS
  <2>1. i \in InvoiceIds /\ invoices[i] # None /\ invoices[i].certified BY DEF Certified
  <2>2. i # nextInvoice BY <2>1, Constants DEF InvoiceInv, Numbered, TypeInv, TypeOK
  <2>3. ASSUME NEW s \in Slots, Handle(s)
        PROVE  /\ invoices'[i].certified /\ invoices'[i].lines = invoices[i].lines
               /\ invoices[i].voided => invoices'[i].voided
    <3>1. InvoiceEffect(s, i) BY <2>1, <2>3, HandlerInvoices
    <3>2. ~(At(s, "certify") /\ i = req[s].inv) BY <2>1 DEF At, Drafted, InvoiceInv, AllDrafted
    <3> QED BY <2>1, <2>2, <3>1, <3>2 DEF InvoiceEffect
  <2> QED BY <2>1, <2>3, OtherStepsKeepInvoices
<1> QED BY <1>1, InvoiceInvHolds, PTL DEF Spec, DocumentsAreFinal
-----------------------------------------------------------------------------
LEMMA HoursAgree ==
  /\ \A a : SameHours(a, a)
  /\ \A a, b, c : SameHours(a, b) /\ SameHours(b, c) => SameHours(a, c)
  /\ \A a \in Sealed, b \in Sealed : SameHours(a, b) => a.checkOut = b.checkOut
<1>1. ASSUME NEW a \in Sealed, NEW b \in Sealed, SameHours(a, b) PROVE a.checkOut = b.checkOut
  <2>1. [a EXCEPT !.ref = None].checkOut = a.checkOut /\ [b EXCEPT !.ref = None].checkOut = b.checkOut
    BY DEF Sealed
  <2> QED BY <1>1, <2>1 DEF SameHours
<1> QED BY <1>1 DEF SameHours

\* The signed lines name rows by their ids.
LEMMA LinesNameRows ==
  ASSUME TypeInv
  PROVE  /\ \A i \in Live : invoices[i].lines \subseteq Line
         /\ \A s \in Slots : req[s].lines \subseteq Line
BY DEF TypeInv, TypeOK, WellFormed, Live, Certified, Invoice, Request

\* The row stays, in the lock it has, with its hours.
RowKept(e) ==
  /\ entries'[e] # None /\ entries'[e].lock = entries[e].lock
  /\ SameHours(entries'[e].seal, entries[e].seal)
  /\ entries'[e].seal.ref \in {entries[e].seal.ref, None}

LEMMA KeptStands ==
  ASSUME NEW l, Stands(l, entries), RowKept(l.id)
  PROVE  Stands(l, entries')
BY HoursAgree DEF Stands, RowKept

\* When nobody is about to lock or to release, and nobody will be, a step that
\* keeps the invoices and the locked rows keeps every bill with its rows.
LEMMA LedgerKept ==
  ASSUME TypeInv, AllHeld, AllReleased,
         \A e \in Rows : entries[e].lock # None => RowKept(e),
         \A e \in EntryIds : entries'[e] # None /\ entries'[e].lock # None
           => e \in Rows /\ entries'[e].lock = entries[e].lock,
         \A t \in Slots : ~At(t, "lock") /\ ~At(t, "unlock"),
         invoices' = invoices
  PROVE  AllHeld' /\ AllReleased'
<1>1. Live' = Live BY DEF Live, Certified
<1>2. ASSUME NEW i \in Live, NEW l \in invoices[i].lines
      PROVE  Stands(l, entries') /\ entries'[l.id].lock = i
  <2>1. Stands(l, entries) /\ entries[l.id].lock = i BY DEF AllHeld
  <2>2. l.id \in Rows /\ i # None BY <2>1, LinesNameRows, Constants DEF Line, Rows, Stands, Live, Certified
  <2>3. RowKept(l.id) BY <2>1, <2>2
  <2> QED BY <2>1, <2>3, KeptStands DEF RowKept
<1>3. AllHeld' BY <1>1, <1>2 DEF AllHeld
<1>4. AllReleased' BY <1>1 DEF AllReleased, Rows
<1> QED BY <1>3, <1>4

\* A lone request moves on.
LEMMA SettledStep ==
  ASSUME TypeInv, OneAtATime, NEW s \in Slots, NEW r, req' = [req EXCEPT ![s] = r],
         Settled(r, entries', invoices')
  PROVE  AllSettled'
BY DEF OneAtATime, AllSettled, TypeInv, TypeOK

\* While nothing is in flight an open row is in no lock: a locked row is a line of
\* a standing invoice, with the hours signed there, and those are closed.
LEMMA OpenIsFree ==
  ASSUME TypeInv, InvoiceInv, SerialInv, OneAtATime, NEW s \in Slots, At(s, "idle"),
         NEW e \in Rows, IsOpen(e)
  PROVE  entries[e].lock = None
<1> SUFFICES ASSUME entries[e].lock # None PROVE FALSE OBVIOUS
<1>1. \A t \in Slots : ~At(t, "lock") /\ ~At(t, "unlock") BY DEF OneAtATime, At
<1>2. entries[e].lock \in Live BY <1>1 DEF SerialInv, AllReleased
<1>3. PICK l \in invoices[entries[e].lock].lines : l.id = e BY DEF InvoiceInv, LockNamesBill
<1>4. SameHours(entries[e].seal, l.seal) BY <1>2, <1>3 DEF SerialInv, AllHeld, Stands
<1>5. l.seal.checkOut # None BY <1>2, <1>3 DEF InvoiceInv, LinesAreBillable, Live
<1>6. entries[e].seal \in Sealed /\ l.seal \in Sealed
  BY <1>2, <1>3, LinesNameRows DEF Rows, Entry, Line, TypeInv, TypeOK
<1> QED BY <1>4, <1>5, <1>6, HoursAgree DEF IsOpen

LEMMA SerialCall ==
  ASSUME TypeInv, InvoiceInv, SerialInv, OneAtATime, NEW s \in Slots, Call(s)
  PROVE  SerialInv'
<1>1. UNCHANGED ledger BY CallReads
<1>2. At(s, "idle") BY DEF Call
<1>3. PICK r : req' = [req EXCEPT ![s] = r] /\ Begun(r) BY CallBegins
<1>4. Settled(r, entries', invoices')
  <2>1. r.pc \in {"cut", "stopGate"} => entries[r.id].lock = None BY <1>2, <1>3, OpenIsFree DEF Begun
  <2> QED BY <1>1, <1>3, <2>1 DEF Settled, Begun, Beginning, ledger
<1>5. AllSettled' BY <1>3, <1>4, SettledStep
<1>6. \A e \in Rows : RowKept(e) BY <1>1, HoursAgree DEF RowKept, Rows, ledger
<1>7. \A t \in Slots : ~At(t, "lock") /\ ~At(t, "unlock") BY <1>2 DEF OneAtATime, At
<1>8. AllHeld' /\ AllReleased'
  BY <1>1, <1>6, <1>7, LedgerKept DEF SerialInv, Rows, ledger
<1> QED BY <1>5, <1>8 DEF SerialInv

\* A handler that writes rows writes only free ones.
LEMMA SerialRows ==
  ASSUME TypeInv, Allocated, InvoiceInv, SerialInv, OneAtATime, NEW s \in Slots, Handle(s),
         req[s].pc \notin {"draft", "issue", "certify", "lock", "void", "unlock"}
  PROVE  SerialInv'
<1>1. Settled(req[s], entries, invoices) /\ Drafted(req[s], invoices) /\ req[s] \in Request
  BY DEF SerialInv, AllSettled, InvoiceInv, AllDrafted, TypeInv, WellFormed
<1>2. \A e \in EntryIds : Effect(s, e) BY HandlerEffect
<1>3. invoices' = invoices
  BY DEF Handle, CutEntry, InsertEntry, StopGate, StopWrite, UpdateWrite, DeleteWrite, ApprovalWrite,
         Draft, Issue, Certify, Lock, VoidMark, VoidUnlock, At, ledger
<1>4. \A t \in Slots : ~At(t, "lock") /\ ~At(t, "unlock") BY DEF OneAtATime, At
<1>5. ASSUME NEW e \in Rows, entries[e].lock # None PROVE RowKept(e)
  <2>1. e \in EntryIds /\ entries[e] # None /\ e # nextEntry
    BY Constants DEF Rows, Allocated, TypeInv, TypeOK
  <2>2. ~(req[s].pc \in {"cut", "stop", "update", "delete"} /\ req[s].id = e)
    BY <1>1, <1>5, <2>1 DEF Settled
  <2>3. \/ entries'[e] = entries[e]
        \/ /\ entries'[e] # None
           /\ entries'[e].seal = entries[e].seal /\ entries'[e].lock = entries[e].lock
    BY <1>2, <2>1, <2>2 DEF Effect, At
  <2> QED BY <2>1, <2>3, HoursAgree DEF RowKept
<1>6. ASSUME NEW e \in EntryIds, entries'[e] # None, entries'[e].lock # None
      PROVE  e \in Rows /\ entries'[e].lock = entries[e].lock
  BY <1>1, <1>2, <1>6 DEF Effect, At, Drafted, Rows
<1>7. AllHeld' /\ AllReleased' BY <1>3, <1>4, <1>5, <1>6, LedgerKept DEF SerialInv
<1>8. AllSettled'
  <2>1. CASE Return(s)
    <3>1. Settled(Idle, entries', invoices') BY DEF Settled, Idle
    <3> QED BY <2>1, <3>1, SettledStep DEF Return
  <2>2. CASE CutEntry(s)
    <3> DEFINE r == [req[s] EXCEPT !.pc = "insert"]
    <3>1. r.pc = "insert" BY <1>1 DEF Request
    <3>2. Settled(r, entries', invoices') BY <3>1 DEF Settled
    <3>3. Proceed(s, r) => AllSettled' BY <3>2, SettledStep DEF Proceed
    <3>4. Proceed(s, r) \/ Return(s) BY <2>2 DEF CutEntry
    <3> QED BY <2>1, <3>3, <3>4
  <2>3. CASE StopGate(s)
    <3> DEFINE r == [req[s] EXCEPT !.pc = "stop", !.row.approval =
                       ApprovalOnWrite(req[s].row.seal.user, req[s].row.seal.isBreak)]
    <3>1. r.pc = "stop" /\ r.id = req[s].id BY <1>1 DEF Request
    <3>2. At(s, "stopGate") /\ Proceed(s, r) /\ UNCHANGED ledger BY <2>3 DEF StopGate
    <3>3. Settled(r, entries', invoices') BY <1>1, <3>1, <3>2 DEF Settled, At, ledger
    <3> QED BY <3>2, <3>3, SettledStep DEF Proceed
  <2>4. CutEntry(s) \/ StopGate(s) \/ Return(s)
    BY DEF Handle, InsertEntry, StopWrite, UpdateWrite, DeleteWrite, ApprovalWrite,
           Draft, Issue, Certify, Lock, VoidMark, VoidUnlock, At
  <2> QED BY <2>1, <2>2, <2>3, <2>4
<1> QED BY <1>7, <1>8 DEF SerialInv

\* Draft draws free rows as they are; opening an invoice bills nothing yet.
LEMMA SerialDraft ==
  ASSUME TypeInv, InvoiceInv, SerialInv, OneAtATime, NEW s \in Slots, Draft(s) \/ Issue(s)
  PROVE  SerialInv'
<1>1. req[s] \in Request /\ Settled(req[s], entries, invoices)
  BY DEF SerialInv, AllSettled, TypeInv, WellFormed
<1>2. entries' = entries BY DEF Draft, Issue, ledger
<1>3. \A i \in Live : i \in InvoiceIds /\ invoices[i] # None /\ invoices[i].certified
                      /\ ~invoices[i].voided /\ i # nextInvoice
  BY Constants DEF Live, Certified, InvoiceInv, Numbered, TypeInv, TypeOK
<1>4. \A i \in InvoiceIds : InvoiceEffect(s, i) BY HandlerInvoices DEF Handle
<1>5. ~At(s, "certify") /\ ~At(s, "void") /\ ~At(s, "lock") /\ ~At(s, "unlock")
  BY DEF Draft, Issue, At
<1>6. \A i \in InvoiceIds : i # nextInvoice => invoices'[i] = invoices[i]
  BY <1>4, <1>5 DEF InvoiceEffect
<1>7. Live' = Live
  <2>1. \A i \in Live : i \in Live' BY <1>3, <1>6 DEF Live, Certified
  <2>2. \A i \in Live' : i \in Live
    <3>1. ASSUME NEW i \in Live' PROVE invoices'[i] = invoices[i]
      BY <1>4, <1>5 DEF InvoiceEffect, Live, Certified
    <3> QED BY <3>1 DEF Live, Certified
  <2> QED BY <2>1, <2>2
<1>8. \A t \in Slots : ~At(t, "lock") /\ ~At(t, "unlock") BY <1>5 DEF OneAtATime
<1>9. AllHeld' /\ AllReleased'
  <2>1. AllHeld'
    <3>1. ASSUME NEW i \in Live, NEW l \in invoices[i].lines
          PROVE  Stands(l, entries) /\ entries[l.id].lock = i
      BY <1>8 DEF SerialInv, AllHeld
    <3> QED BY <1>2, <1>3, <1>6, <1>7, <3>1 DEF AllHeld
  <2>2. AllReleased' BY <1>2, <1>7, <1>8 DEF SerialInv, AllReleased, Rows
  <2> QED BY <2>1, <2>2
<1>10. AllSettled'
  <2>1. CASE Return(s)
    <3>1. Settled(Idle, entries', invoices') BY DEF Settled, Idle
    <3> QED BY <2>1, <3>1, SettledStep DEF Return
  <2>2. CASE Draft(s) /\ ~Return(s)
    <3> DEFINE rows == Billable(req[s].bill)
               r == [req[s] EXCEPT !.pc = "issue", !.lines = {LineOf(e) : e \in rows}]
    <3>1. r.pc = "issue" /\ r.lines = {LineOf(e) : e \in rows} BY <1>1 DEF Request
    <3>2. Proceed(s, r) /\ \A e \in rows : entries[e].lock = None BY <2>2 DEF Draft
    <3>3. ASSUME NEW e \in rows
          PROVE  Stands(LineOf(e), entries') /\ entries'[LineOf(e).id].lock = None
      BY <1>2, <3>2, HoursAgree DEF Stands, LineOf, Billable, Rows
    <3>4. Settled(r, entries', invoices') BY <3>1, <3>3 DEF Settled
    <3> QED BY <3>2, <3>4, SettledStep DEF Proceed
  <2>3. CASE Issue(s) /\ ~Return(s)
    <3> DEFINE r == [req[s] EXCEPT !.pc = "certify", !.inv = nextInvoice]
    <3>1. r.pc = "certify" /\ r.inv = nextInvoice /\ r.lines = req[s].lines BY <1>1 DEF Request
    <3>2. Proceed(s, r) /\ At(s, "issue") /\ invoices' = [invoices EXCEPT ![nextInvoice] =
                 [kind |-> req[s].bill.kind, party |-> req[s].bill.party, lines |-> {},
                  certified |-> FALSE, status |-> "issued", voided |-> FALSE]]
      BY <2>3 DEF Issue
    <3>3. nextInvoice \in InvoiceIds
      BY <2>3, LedgerAssumption DEF LedgerAssumption, Issue, InvoiceIds, TypeInv, TypeOK
    <3>4. ~invoices'[nextInvoice].voided BY <3>2, <3>3 DEF TypeInv, TypeOK
    <3>5. Settled(r, entries', invoices') BY <1>1, <1>2, <3>1, <3>2, <3>4 DEF Settled, At
    <3> QED BY <3>2, <3>5, SettledStep DEF Proceed
  <2> QED BY <2>1, <2>2, <2>3
<1> QED BY <1>9, <1>10 DEF SerialInv

\* Certify makes the lone issue's invoice stand, with its lock about to be taken.
LEMMA SerialCertify ==
  ASSUME TypeInv, InvoiceInv, SerialInv, OneAtATime, NEW s \in Slots, Certify(s)
  PROVE  SerialInv'
<1> DEFINE i == req[s].inv
           r == [req[s] EXCEPT !.pc = "lock"]
<1>1. req[s] \in Request /\ Settled(req[s], entries, invoices) /\ At(s, "certify")
  BY DEF SerialInv, AllSettled, TypeInv, WellFormed, Certify
<1>2. entries' = entries BY DEF Certify
<1>3. i \in InvoiceIds /\ invoices[i] # None BY <1>1 DEF At, TypeInv, WellFormed, Issued
<1>4. /\ invoices'[i] # None /\ invoices'[i].certified /\ ~invoices'[i].voided
      /\ invoices'[i].lines = req[s].lines
  <2> DEFINE inv == [invoices[i] EXCEPT !.lines = req[s].lines, !.certified = TRUE, !.status = "issued"]
  <2>1. invoices[i] \in Invoice BY <1>3 DEF TypeInv, TypeOK
  <2>2. inv \in Invoice /\ inv.certified /\ inv.voided = invoices[i].voided /\ inv.lines = req[s].lines
    BY <1>1, <2>1 DEF Invoice, Request
  <2>3. invoices'[i] = inv BY <1>3, <2>1 DEF Certify, TypeInv, TypeOK, Invoice
  <2>4. ~invoices[i].voided BY <1>1 DEF At, Settled
  <2> QED BY <2>2, <2>3, <2>4, Constants
<1>5. \A j \in InvoiceIds : j # i => invoices'[j] = invoices[j]
  BY <1>3 DEF Certify, TypeInv, TypeOK
<1>6. Live' = Live \cup {i} BY <1>3, <1>4, <1>5 DEF Live, Certified
<1>7. i \notin Live
  BY <1>1 DEF Live, Certified, InvoiceInv, AllDrafted, Drafted, At
<1>8. \A t \in Slots : ~At(t, "lock") /\ ~At(t, "unlock") BY <1>1 DEF OneAtATime, At
<1>9. (Proceed(s, r) \/ req[s].lines = {}) /\ (Proceed(s, r) \/ Return(s)) BY DEF Certify
<1>10. AllHeld'
  <2>1. ASSUME NEW j \in Live, NEW l \in invoices'[j].lines
        PROVE  Stands(l, entries) /\ entries[l.id].lock = j
    <3>1. l \in invoices[j].lines BY <1>5, <1>7 DEF Live, Certified
    <3> QED BY <1>8, <3>1 DEF SerialInv, AllHeld
  <2>2. ASSUME NEW l \in invoices'[i].lines
        PROVE  /\ Stands(l, entries) /\ entries[l.id].lock = None
               /\ req'[s].pc = "lock" /\ req'[s].inv = i
    <3>1. Proceed(s, r) BY <1>4, <1>9, <2>2
    <3>2. r.pc = "lock" /\ r.inv = i BY <1>1 DEF Request
    <3>3. req'[s] = r BY <3>1 DEF Proceed, TypeInv, TypeOK
    <3> QED BY <1>1, <1>4, <2>2, <3>2, <3>3 DEF Settled, At
  <2> QED BY <1>2, <1>6, <2>1, <2>2 DEF AllHeld, At
<1>11. AllReleased' BY <1>2, <1>6, <1>8 DEF SerialInv, AllReleased, Rows
<1>12. AllSettled'
  <2>1. CASE Return(s)
    <3>1. Settled(Idle, entries', invoices') BY DEF Settled, Idle
    <3> QED BY <2>1, <3>1, SettledStep DEF Return
  <2>2. CASE Proceed(s, r)
    <3>1. r.pc = "lock" /\ r.inv = i BY <1>1 DEF Request
    <3>2. Settled(r, entries', invoices') BY <1>4, <3>1 DEF Settled
    <3> QED BY <2>2, <3>2, SettledStep DEF Proceed
  <2> QED BY <1>9, <2>1, <2>2
<1> QED BY <1>10, <1>11, <1>12 DEF SerialInv

\* Lock takes every row of the invoice it signed: each is there, and free.
LEMMA SerialLock ==
  ASSUME TypeInv, InvoiceInv, SerialInv, OneAtATime, NEW s \in Slots, Lock(s)
  PROVE  SerialInv'
<1> DEFINE i == req[s].inv
<1>1. Settled(req[s], entries, invoices) /\ Drafted(req[s], invoices) /\ At(s, "lock")
  BY DEF SerialInv, AllSettled, InvoiceInv, AllDrafted, Lock
<1>2. invoices' = invoices /\ Live' = Live BY DEF Lock, Live, Certified
<1>3. i \in InvoiceIds /\ invoices[i] # None BY <1>1 DEF At, TypeInv, WellFormed, Issued
<1>4. i \in Live /\ invoices[i].lines = req[s].lines
  BY <1>1, <1>3 DEF At, Settled, Drafted, Live, Certified
<1>5. \A e \in EntryIds : Effect(s, e) BY HandlerEffect DEF Handle
<1>6. ASSUME NEW e \in EntryIds
      PROVE  \/ entries'[e] = entries[e]
             \/ /\ e \in Rows /\ entries'[e] # None /\ entries'[e].seal = entries[e].seal
                /\ entries[e].lock = None /\ entries'[e].lock = i
  BY <1>1, <1>5 DEF Effect, At
<1>7. \A t \in Slots : t = s BY DEF OneAtATime
<1>8. \A j \in InvoiceIds : j # None BY Constants
<1>9. AllHeld'
  <2> SUFFICES ASSUME NEW j \in Live, NEW l \in invoices[j].lines
               PROVE  Stands(l, entries') /\ entries'[l.id].lock = j
    BY <1>2 DEF AllHeld
  <2>1. /\ Stands(l, entries)
        /\ entries[l.id].lock = j \/ (j = i /\ entries[l.id].lock = None)
    BY <1>7 DEF SerialInv, AllHeld
  <2>2. l.id \in Rows /\ j \in InvoiceIds
    BY <2>1, LinesNameRows DEF Line, Rows, Stands, Live, Certified
  <2>3. CASE entries'[l.id] = entries[l.id]
    <3>1. entries[l.id].lock = j
      <4>1. CASE j = i /\ entries[l.id].lock = None
        <5>1. entries'[l.id] = [entries[l.id] EXCEPT !.lock = i]
          BY <1>4, <2>2, <4>1 DEF Lock, Rows
        <5>2. entries[l.id] \in Entry BY <2>2 DEF Rows, TypeInv, TypeOK
        <5>3. entries'[l.id].lock = i BY <5>1, <5>2 DEF Entry
        <5> QED BY <2>3, <4>1, <5>3
      <4> QED BY <2>1, <4>1
    <3> QED BY <2>1, <2>3, <3>1 DEF Stands
  <2>4. CASE /\ entries'[l.id] # None /\ entries'[l.id].seal = entries[l.id].seal
             /\ entries[l.id].lock = None /\ entries'[l.id].lock = i
    BY <1>8, <2>1, <2>2, <2>4 DEF Stands
  <2> QED BY <1>6, <2>2, <2>3, <2>4 DEF Rows
<1>10. AllReleased'
  <2> SUFFICES ASSUME NEW e \in EntryIds, entries'[e] # None, entries'[e].lock # None
               PROVE  entries'[e].lock \in Live
    BY <1>2 DEF AllReleased, Rows
  <2>1. CASE entries'[e] = entries[e]
    BY <1>1, <1>7, <2>1 DEF SerialInv, AllReleased, Rows, At
  <2>2. CASE entries'[e].lock = i BY <1>4, <2>2
  <2> QED BY <1>6, <2>1, <2>2
<1>11. AllSettled'
  <2>1. Settled(Idle, entries', invoices') BY DEF Settled, Idle
  <2> QED BY <2>1, SettledStep DEF Lock, Return
<1> QED BY <1>9, <1>10, <1>11 DEF SerialInv

\* A void takes the invoice out of those that stand, then lets go of its rows.
LEMMA SerialVoid ==
  ASSUME TypeInv, InvoiceInv, SerialInv, OneAtATime, NEW s \in Slots, VoidMark(s) \/ VoidUnlock(s)
  PROVE  SerialInv'
<1> DEFINE i == req[s].inv
<1>1. /\ req[s] \in Request /\ Settled(req[s], entries, invoices)
      /\ At(s, "void") \/ At(s, "unlock")
  BY DEF SerialInv, AllSettled, TypeInv, WellFormed, VoidMark, VoidUnlock
<1>2. i \in InvoiceIds /\ invoices[i] # None BY <1>1 DEF At, TypeInv, WellFormed, Issued
<1>3. \A t \in Slots : t = s BY DEF OneAtATime
<1>4. ASSUME NEW j \in Live, NEW l \in invoices[j].lines
      PROVE  Stands(l, entries) /\ entries[l.id].lock = j /\ l.id \in Rows
  <2>1. Stands(l, entries) /\ entries[l.id].lock = j BY <1>1, <1>3 DEF SerialInv, AllHeld, At
  <2> QED BY <2>1, LinesNameRows DEF Line, Rows, Stands
<1>5. CASE VoidMark(s)
  <2> DEFINE r == [req[s] EXCEPT !.pc = "unlock"]
  <2>1. entries' = entries /\ At(s, "void") /\ Proceed(s, r) BY <1>5 DEF VoidMark
  <2>2. \A j \in InvoiceIds : j # i => invoices'[j] = invoices[j]
    BY <1>2, <1>5 DEF VoidMark, TypeInv, TypeOK
  <2>3. invoices'[i] # None /\ invoices'[i].voided
    <3> DEFINE inv == [invoices[i] EXCEPT !.voided = TRUE, !.status = "void"]
    <3>1. invoices[i] \in Invoice BY <1>2 DEF TypeInv, TypeOK
    <3>2. inv \in Invoice /\ inv.voided BY <3>1 DEF Invoice
    <3>3. invoices'[i] = inv BY <1>2, <1>5, <3>1 DEF VoidMark, TypeInv, TypeOK, Invoice
    <3> QED BY <3>2, <3>3, Constants
  <2>4. Live' = Live \ {i} BY <1>2, <2>2, <2>3 DEF Live, Certified
  <2>5. r.pc = "unlock" /\ r.inv = i BY <1>1 DEF Request
  <2>6. AllSettled'
    <3>1. Settled(r, entries', invoices') BY <2>3, <2>5 DEF Settled
    <3> QED BY <2>1, <3>1, SettledStep DEF Proceed
  <2>7. AllHeld' BY <1>4, <2>1, <2>2, <2>4 DEF AllHeld, Live, Certified
  <2>8. AllReleased'
    <3> SUFFICES ASSUME NEW e \in Rows, entries[e].lock # None
                 PROVE  entries[e].lock \in Live' \/ (req'[s].pc = "unlock" /\ req'[s].inv = entries[e].lock)
      BY <2>1 DEF AllReleased, Rows, At
    <3>1. entries[e].lock \in Live BY <1>3, <2>1 DEF SerialInv, AllReleased, At
    <3>2. req'[s] = r BY <2>1 DEF Proceed, TypeInv, TypeOK
    <3> QED BY <2>4, <2>5, <3>1, <3>2
  <2> QED BY <2>6, <2>7, <2>8 DEF SerialInv
<1>6. CASE VoidUnlock(s)
  <2>1. invoices' = invoices /\ Live' = Live /\ Return(s) /\ At(s, "unlock")
    BY <1>6 DEF VoidUnlock, Live, Certified
  <2>2. i \notin Live BY <1>1, <2>1 DEF Settled, At, Live
  <2>3. \A e \in EntryIds : Effect(s, e) BY <1>6, HandlerEffect DEF Handle
  <2>4. ASSUME NEW e \in EntryIds
        PROVE  \/ entries'[e] = entries[e]
               \/ e \in Rows /\ entries[e].lock = i /\ entries'[e].lock = None
    BY <2>1, <2>3 DEF Effect, At
  <2>5. AllSettled'
    <3>1. Settled(Idle, entries', invoices') BY DEF Settled, Idle
    <3> QED BY <2>1, <3>1, SettledStep DEF Return
  <2>6. AllHeld' BY <1>4, <2>1, <2>2, <2>4 DEF AllHeld, Rows, Stands
  <2>7. AllReleased'
    <3> SUFFICES ASSUME NEW e \in EntryIds, entries'[e] # None, entries'[e].lock # None
                 PROVE  entries'[e].lock \in Live
      BY <2>1 DEF AllReleased, Rows
    <3>1. entries'[e] = entries[e] BY <2>4
    <3>2. entries[e].lock \in Live \/ entries[e].lock = i BY <1>3, <3>1 DEF SerialInv, AllReleased, Rows
    <3>3. entries[e].lock = i => entries'[e].lock = None
      <4>1. CASE entries[e].lock = i
        <5>1. e \in Rows /\ entries[e] \in Entry BY <3>1 DEF Rows, TypeInv, TypeOK
        <5>2. entries'[e] = [entries[e] EXCEPT !.lock = None] BY <1>6, <4>1, <5>1 DEF VoidUnlock
        <5> QED BY <5>1, <5>2 DEF Entry
      <4> QED BY <4>1
    <3> QED BY <3>1, <3>2, <3>3
  <2> QED BY <2>5, <2>6, <2>7 DEF SerialInv
<1> QED BY <1>5, <1>6

\* A customer who goes takes the reference from the rows of standing bills too, and
\* that alone.
LEMMA SerialCustomer ==
  ASSUME TypeInv, SerialInv, NEW c \in Refs, DeleteCustomer(c)
  PROVE  SerialInv'
<1>1. invoices' = invoices /\ req' = req /\ Live' = Live
  BY DEF DeleteCustomer, Live, Certified
<1>2. ASSUME NEW e \in EntryIds
      PROVE  \/ entries'[e] = entries[e]
             \/ /\ e \in Rows /\ entries'[e] # None
                /\ SameHours(entries'[e].seal, entries[e].seal) /\ entries'[e].seal.ref = None
                /\ entries'[e].lock = entries[e].lock
  BY CustomerEffect
<1>3. ASSUME NEW l \in Line, Stands(l, entries)
      PROVE  Stands(l, entries') /\ entries'[l.id].lock = entries[l.id].lock
  <2>1. l.id \in EntryIds BY DEF Line
  <2> QED BY <1>2, <1>3, <2>1, HoursAgree DEF Stands
<1>4. AllHeld' BY <1>1, <1>3, LinesNameRows DEF SerialInv, AllHeld, At
<1>5. AllReleased' BY <1>1, <1>2 DEF SerialInv, AllReleased, Rows, At
<1>6. AllSettled'
  <2> SUFFICES ASSUME NEW s \in Slots PROVE Settled(req[s], entries', invoices)
    BY <1>1 DEF AllSettled
  <2>1. Settled(req[s], entries, invoices) BY DEF SerialInv, AllSettled
  <2>2. ASSUME NEW l \in req[s].lines, Stands(l, entries), entries[l.id].lock = None
        PROVE  Stands(l, entries') /\ entries'[l.id].lock = None
    BY <1>3, <2>2, LinesNameRows
  <2>3. req[s].pc \in {"cut", "stopGate", "stop", "update", "delete"} => req[s].id \in EntryIds
    BY DEF TypeInv, WellFormed
  <2>4. req[s].pc \in {"cut", "stopGate", "stop", "update", "delete"} /\ entries'[req[s].id] # None =>
          entries'[req[s].id].lock = None
    BY <1>2, <2>1, <2>3 DEF Settled, Rows
  <2> QED BY <2>1, <2>2, <2>4 DEF Settled
<1> QED BY <1>4, <1>5, <1>6 DEF SerialInv

LEMMA SerialInvHolds ==
  ASSUME OneAtATime, "crash" \notin Ops
  PROVE  Spec => [](TypeInv /\ InvoiceInv /\ SerialInv)
<1>1. Init => SerialInv
  BY DEF Init, SerialInv, AllSettled, Settled, AllHeld, AllReleased, Live, Certified, Rows, Idle
<1>2. TypeInv /\ Allocated /\ InvoiceInv /\ SerialInv /\ [Next]_vars => SerialInv'
  <2> SUFFICES ASSUME TypeInv, Allocated, InvoiceInv, SerialInv, [Next]_vars PROVE SerialInv'
    OBVIOUS
  <2>1. ASSUME NEW s \in Slots, Call(s) PROVE SerialInv' BY <2>1, SerialCall
  <2>2. ASSUME NEW s \in Slots, Handle(s) PROVE SerialInv'
    <3>1. CASE req[s].pc \notin {"draft", "issue", "certify", "lock", "void", "unlock"}
      BY <2>2, <3>1, SerialRows
    <3>2. CASE req[s].pc \in {"draft", "issue", "certify", "lock", "void", "unlock"}
      <4>1. Draft(s) \/ Issue(s) \/ Certify(s) \/ Lock(s) \/ VoidMark(s) \/ VoidUnlock(s)
        BY <2>2, <3>2 DEF Handle, CutEntry, InsertEntry, StopGate, StopWrite, UpdateWrite,
                          DeleteWrite, ApprovalWrite, At
      <4> QED BY <4>1, SerialDraft, SerialCertify, SerialLock, SerialVoid
    <3> QED BY <3>1, <3>2
  <2>3. ASSUME entries' = entries, invoices' = invoices, req' = req PROVE SerialInv'
    BY <2>3 DEF SerialInv, AllSettled, AllHeld, AllReleased, Live, Certified, Rows, At
  <2>4. ASSUME NEW u \in Users, NEW b \in BOOLEAN, NEW a \in BOOLEAN, SetBilling(u, b, a)
        PROVE  SerialInv'
    BY <2>3, <2>4 DEF SetBilling
  <2>5. ASSUME NEW c \in Refs, DeleteCustomer(c) PROVE SerialInv' BY <2>5, SerialCustomer
  <2>6. Tick \/ vars' = vars => SerialInv' BY <2>3 DEF Tick, vars
  <2>7. ~Crash BY DEF Crash
  <2> QED BY Zenon, <2>1, <2>2, <2>4, <2>5, <2>6, <2>7 DEF Next
<1> QED BY <1>1, <1>2, AllocatedHolds, InvoiceInvHolds, PTL DEF Spec

\* Requests handled one at a time bill an hour at most once: no entry is a line of
\* two standing invoices (Draft refuses what an earlier invoice claimed).
THEOREM BilledOnceHolds ==
  ASSUME OneAtATime, "crash" \notin Ops
  PROVE  Spec => []BilledOnce
<1>1. TypeInv /\ SerialInv => BilledOnce
  <2> SUFFICES ASSUME TypeInv, SerialInv, NEW i \in Live, NEW j \in Live,
                      NEW k \in invoices[i].lines, NEW l \in invoices[j].lines, k.id = l.id
               PROVE  i = j
    BY DEF BilledOnce
  <2>1. i # None /\ j # None BY Constants DEF Live, Certified
  <2>2. \/ entries[k.id].lock = i
        \/ \E s \in Slots : req[s].inv = i /\ entries[k.id].lock = None
    BY DEF SerialInv, AllHeld
  <2>3. \/ entries[k.id].lock = j
        \/ \E s \in Slots : req[s].inv = j /\ entries[k.id].lock = None
    BY DEF SerialInv, AllHeld
  <2> QED BY <2>1, <2>2, <2>3 DEF OneAtATime
<1> QED BY <1>1, SerialInvHolds, PTL

\* Requests handled one at a time leave the hours behind a standing invoice as
\* they were signed, every row in its lock (entryForWrite, certify).
THEOREM FrozenHoursHold ==
  ASSUME OneAtATime, "crash" \notin Ops
  PROVE  Spec => []FrozenHoursStand
<1>1. TypeInv /\ SerialInv => FrozenHoursStand
  <2> SUFFICES ASSUME TypeInv, SerialInv, Quiet, NEW i \in Live, NEW l \in invoices[i].lines
               PROVE  /\ l.id \in Rows /\ entries[l.id].lock = i
                      /\ SameHours(entries[l.id].seal, l.seal)
                      /\ entries[l.id].seal.ref \in {l.seal.ref, None}
    BY DEF FrozenHoursStand
  <2>1. l.id \in EntryIds BY LinesNameRows DEF Line
  <2>2. \A s \in Slots : ~At(s, "lock") BY DEF Quiet, At
  <2> QED BY <2>1, <2>2 DEF SerialInv, AllHeld, Stands, Rows
<1> QED BY <1>1, SerialInvHolds, PTL

\* Requests handled one at a time leave no lock behind a voided invoice.
THEOREM VoidReleasesHolds ==
  ASSUME OneAtATime, "crash" \notin Ops
  PROVE  Spec => []VoidReleases
<1>1. SerialInv => VoidReleases
  BY DEF SerialInv, AllReleased, VoidReleases, Quiet, At
<1> QED BY <1>1, SerialInvHolds, PTL

\* The two together: a lock and the standing invoice that took it never part.
THEOREM LocksMatch ==
  ASSUME OneAtATime, "crash" \notin Ops
  PROVE  Spec => []LocksMatchBills
BY FrozenHoursHold, VoidReleasesHolds, PTL DEF LocksMatchBills

-----------------------------------------------------------------------------
\* The abstract state, column by column.
ReadingsNow == [e \in EntryIds |-> ReadingOf(e)]
Statements == [i \in InvoiceIds |-> StatedBy(i)]

LEMMA PromiseStutters ==
  ASSUME ReadingsNow' = ReadingsNow, Statements' = Statements, Certified' = Certified, Live' = Live
  PROVE  UNCHANGED Promise!vars
BY DEF Promise!vars, ReadingsNow, Statements

LEMMA SameStatements ==
  ASSUME \A i \in InvoiceIds :
           /\ i \in Certified' <=> i \in Certified
           /\ i \in Certified => invoices'[i].lines = invoices[i].lines
  PROVE  Statements' = Statements
BY DEF Statements, StatedBy

LEMMA SameReadings ==
  ASSUME \A e \in EntryIds :
           \/ entries'[e] = entries[e]
           \/ e \in Rows /\ entries'[e] # None /\ SameHours(entries'[e].seal, entries[e].seal)
  PROVE  ReadingsNow' = ReadingsNow
BY DEF ReadingsNow, ReadingOf, Reading, Rows, SameHours

\* An hour that a standing invoice charges for has its row, in that invoice's
\* lock, but while the lock is about to be taken.
LEMMA ChargedIsHeld ==
  ASSUME TypeInv, SerialInv, NEW e \in EntryIds, Promise!Charged(e)
  PROVE  /\ e \in Rows
         /\ \/ entries[e].lock # None
            \/ \E s \in Slots : At(s, "lock")
<1>1. PICK i \in Live : \E p \in Statements[i] : p[1] = e BY DEF Promise!Charged, Statements
<1>2. i \in InvoiceIds /\ i \in Certified /\ i # None BY Constants DEF Live, Certified
<1>3. PICK l \in invoices[i].lines : l.id = e BY <1>1, <1>2 DEF Statements, StatedBy
<1>4. Stands(l, entries) BY <1>3 DEF SerialInv, AllHeld
<1>5. entries[e].lock = i \/ \E s \in Slots : At(s, "lock") BY <1>3 DEF SerialInv, AllHeld
<1> QED BY <1>2, <1>3, <1>4, <1>5 DEF Stands, Rows

\* One row written, that nobody charges for.
LEMMA OneCorrected ==
  ASSUME NEW e \in EntryIds, ~Promise!Charged(e), Statements' = Statements, Certified' = Certified, Live' = Live,
         \A f \in EntryIds : f # e => ReadingOf(f)' = ReadingOf(f)
  PROVE  Promise!Next
<1>1. ReadingsNow' = [ReadingsNow EXCEPT ![e] = ReadingsNow'[e]] BY DEF ReadingsNow
<1>2. Promise!Correct(e) BY <1>1 DEF Promise!Correct, ReadingsNow, Statements
<1> QED BY <1>2 DEF Promise!Next

LEMMA InvoicesKept ==
  ASSUME invoices' = invoices PROVE Statements' = Statements /\ Certified' = Certified /\ Live' = Live
<1>1. Certified' = Certified /\ Live' = Live BY DEF Certified, Live
<1> QED BY <1>1, SameStatements

\* A handler that writes rows corrects one hour, of those nobody charges for.
LEMMA RowsCertify ==
  ASSUME TypeInv, Allocated, InvoiceInv, SerialInv, OneAtATime, NEW s \in Slots, Handle(s),
         req[s].pc \notin {"draft", "issue", "certify", "lock", "void", "unlock"}
  PROVE  [Promise!Next]_(Promise!vars)
<1>1. invoices' = invoices
  BY DEF Handle, CutEntry, InsertEntry, StopGate, StopWrite, UpdateWrite, DeleteWrite, ApprovalWrite,
         Draft, Issue, Certify, Lock, VoidMark, VoidUnlock, At, ledger
<1>2. Statements' = Statements /\ Certified' = Certified /\ Live' = Live BY <1>1, InvoicesKept
<1>3. \A e \in EntryIds : Effect(s, e) BY HandlerEffect
<1>4. Settled(req[s], entries, invoices) BY DEF SerialInv, AllSettled
<1>5. \A t \in Slots : ~At(t, "lock") BY DEF OneAtATime, At
<1>6. CASE \A e \in EntryIds : ReadingOf(e)' = ReadingOf(e)
  <2>1. ReadingsNow' = ReadingsNow BY <1>6 DEF ReadingsNow
  <2> QED BY <1>2, <2>1, PromiseStutters
<1>7. CASE ~\A e \in EntryIds : ReadingOf(e)' = ReadingOf(e)
  <2>1. PICK e \in EntryIds : ReadingOf(e)' # ReadingOf(e) BY <1>7
  <2>2. ASSUME NEW f \in EntryIds, ReadingOf(f)' # ReadingOf(f)
        PROVE  \/ req[s].pc \in {"cut", "stop", "update", "delete"} /\ req[s].id = f
               \/ At(s, "insert") /\ f = nextEntry
    <3>1. CASE \/ entries'[f] = entries[f]
               \/ f \in Rows /\ entries'[f] # None /\ entries'[f].seal = entries[f].seal
      BY <2>2, <3>1 DEF ReadingOf, Reading, Rows
    <3>2. CASE ~(\/ entries'[f] = entries[f]
                 \/ f \in Rows /\ entries'[f] # None /\ entries'[f].seal = entries[f].seal)
      BY <1>3, <3>2 DEF Effect, At
    <3> QED BY <3>1, <3>2
  <2>3. \A f \in EntryIds : f # e => ReadingOf(f)' = ReadingOf(f) BY <2>1, <2>2 DEF At
  <2>4. ~Promise!Charged(e)
    <3> SUFFICES ASSUME Promise!Charged(e) PROVE FALSE OBVIOUS
    <3>1. e \in Rows /\ entries[e].lock # None BY <1>5, ChargedIsHeld
    <3>2. e # nextEntry BY <3>1, Constants DEF Allocated, Rows, TypeInv, TypeOK
    <3>3. ~(req[s].pc \in {"cut", "stop", "update", "delete"} /\ req[s].id = e)
      BY <1>4, <3>1 DEF Settled, Rows
    <3> QED BY <2>1, <2>2, <3>2, <3>3
  <2> QED BY <1>2, <2>3, <2>4, OneCorrected
<1> QED BY <1>6, <1>7

\* Locking and releasing write no hour.
LEMMA LocksCertify ==
  ASSUME TypeInv, NEW s \in Slots, Lock(s) \/ VoidUnlock(s)
  PROVE  UNCHANGED Promise!vars
<1>1. invoices' = invoices /\ req[s].pc \in {"lock", "unlock"} BY DEF Lock, VoidUnlock, At
<1>2. Statements' = Statements /\ Certified' = Certified /\ Live' = Live BY <1>1, InvoicesKept
<1>3. \A e \in EntryIds : Effect(s, e) BY HandlerEffect DEF Handle
<1>4. ReadingsNow' = ReadingsNow
  <2>1. \A e \in EntryIds : \/ entries'[e] = entries[e]
                            \/ e \in Rows /\ entries'[e] # None /\ entries'[e].seal = entries[e].seal
    BY <1>1, <1>3 DEF Effect, At
  <2> QED BY <2>1, SameReadings, HoursAgree
<1> QED BY <1>2, <1>4, PromiseStutters

\* Drawing the rows and opening an invoice promise nothing yet.
LEMMA DraftCertifies ==
  ASSUME TypeInv, InvoiceInv, NEW s \in Slots, Draft(s) \/ Issue(s)
  PROVE  UNCHANGED Promise!vars
<1>1. entries' = entries BY DEF Draft, Issue, ledger
<1>2. \A i \in InvoiceIds : InvoiceEffect(s, i) BY HandlerInvoices DEF Handle
<1>3. req[s].pc \in {"draft", "issue"} BY DEF Draft, Issue, At
<1>4. ASSUME NEW i \in InvoiceIds
      PROVE  invoices'[i] = invoices[i] \/ (invoices[i] = None /\ ~invoices'[i].certified)
  <2>1. i = nextInvoice => invoices[i] = None BY Constants DEF InvoiceInv, Numbered, TypeInv, TypeOK
  <2> QED BY <1>2, <1>3, <2>1 DEF InvoiceEffect, At
<1>5. Live' = Live /\ Certified' = Certified BY <1>4 DEF Live, Certified
<1>6. Statements' = Statements BY <1>4, <1>5, SameStatements DEF Certified
<1>7. ReadingsNow' = ReadingsNow BY <1>1, SameReadings
<1> QED BY <1>5, <1>6, <1>7, PromiseStutters

\* A void withdraws the invoice, when it was signed and stood.
LEMMA VoidCertifies ==
  ASSUME TypeInv, NEW s \in Slots, VoidMark(s)
  PROVE  [Promise!Next]_(Promise!vars)
<1>1. entries' = entries /\ At(s, "void") BY DEF VoidMark
<1>2. \A i \in InvoiceIds : InvoiceEffect(s, i) BY HandlerInvoices DEF Handle
<1>3. PICK j : j = req[s].inv OBVIOUS
<1>4. \A i \in InvoiceIds : \/ invoices'[i] = invoices[i]
                            \/ /\ i = j /\ invoices[i] # None /\ invoices'[i] # None
                               /\ invoices'[i].certified = invoices[i].certified
                               /\ invoices'[i].lines = invoices[i].lines /\ invoices'[i].voided
  BY <1>1, <1>2, <1>3 DEF InvoiceEffect, At
<1>5. Certified' = Certified BY <1>4 DEF Certified
<1>6. Statements' = Statements
  <2>1. \A i \in InvoiceIds : invoices'[i].lines = invoices[i].lines BY <1>4
  <2> QED BY <1>5, <2>1, SameStatements
<1>7. Live' = Live \/ (j \in Live /\ Live' = Live \ {j}) BY <1>4, <1>5 DEF Live, Certified
<1>8. ReadingsNow' = ReadingsNow BY <1>1, SameReadings
<1>9. CASE Live' = Live BY <1>5, <1>6, <1>8, <1>9, PromiseStutters
<1>10. CASE j \in Live /\ Live' = Live \ {j}
  <2>1. Promise!Withdraw(j) BY <1>5, <1>6, <1>8, <1>10 DEF Promise!Withdraw, ReadingsNow, Statements
  <2> QED BY <1>10, <2>1 DEF Promise!Next
<1> QED BY <1>7, <1>9, <1>10

\* The signature is the promise: every line reads as its row does, and the row
\* is free.
LEMMA SignatureCertifies ==
  ASSUME TypeInv, InvoiceInv, SerialInv, OneAtATime, NEW s \in Slots, Certify(s)
  PROVE  Promise!Next
<1>1. entries' = entries /\ At(s, "certify") BY DEF Certify
<1>2. PICK j : j = req[s].inv OBVIOUS
<1>3. j \in InvoiceIds /\ invoices[j] # None /\ req[s].lines \subseteq Line
  BY <1>1, <1>2, LinesNameRows DEF At, TypeInv, WellFormed, Issued
<1>4. /\ Settled(req[s], entries, invoices) /\ Drafted(req[s], invoices)
  BY DEF SerialInv, AllSettled, InvoiceInv, AllDrafted
<1>5. j \notin Certified /\ ~invoices[j].voided BY <1>1, <1>2, <1>4 DEF At, Settled, Drafted, Certified
<1>6. \A i \in InvoiceIds : i # j => invoices'[i] = invoices[i] BY <1>2, <1>3 DEF Certify, TypeInv, TypeOK
<1>7. /\ invoices'[j] # None /\ invoices'[j].certified /\ ~invoices'[j].voided
      /\ invoices'[j].lines = req[s].lines
  <2> DEFINE inv == [invoices[j] EXCEPT !.lines = req[s].lines, !.certified = TRUE, !.status = "issued"]
  <2>1. invoices[j] \in Invoice /\ req[s] \in Request BY <1>3 DEF TypeInv, TypeOK, WellFormed
  <2>2. inv \in Invoice /\ inv.certified /\ inv.voided = invoices[j].voided /\ inv.lines = req[s].lines
    BY <2>1 DEF Invoice, Request
  <2>3. invoices'[j] = inv BY <1>2, <1>3, <2>1 DEF Certify, TypeInv, TypeOK, Invoice
  <2> QED BY <1>5, <2>2, <2>3, Constants
<1>8. Certified' = Certified \cup {j} /\ Live' = Live \cup {j} BY <1>3, <1>6, <1>7 DEF Certified, Live
<1>10. Statements'[j] = {<<l.id, Reading(l.seal)>> : l \in req[s].lines}
  BY <1>3, <1>7, <1>8 DEF Statements, StatedBy
<1>11. Statements' = [Statements EXCEPT ![j] = Statements'[j]]
  <2>1. \A i \in InvoiceIds : i # j => StatedBy(i)' = StatedBy(i) BY <1>6, <1>8 DEF StatedBy
  <2> QED BY <2>1 DEF Statements
<1>12. ASSUME NEW p \in Statements'[j]
       PROVE  p[1] \in EntryIds /\ ReadingsNow[p[1]] = p[2] /\ ~Promise!Charged(p[1])
  <2>1. PICK l \in req[s].lines : p = <<l.id, Reading(l.seal)>> BY <1>10
  <2>2. l.id \in EntryIds BY <1>3 DEF Line
  <2>3. Stands(l, entries) /\ entries[l.id].lock = None BY <1>1, <1>4 DEF Settled, At
  <2>4. ReadingsNow[l.id] = Reading(l.seal)
    BY <2>2, <2>3 DEF ReadingsNow, ReadingOf, Rows, Stands, SameHours, Reading
  <2>5. \A t \in Slots : ~At(t, "lock") BY <1>1 DEF OneAtATime, At
  <2>6. ~Promise!Charged(l.id) BY <2>2, <2>3, <2>5, ChargedIsHeld
  <2> QED BY <2>1, <2>2, <2>4, <2>6
<1>14. ReadingsNow' = ReadingsNow BY <1>1, SameReadings
<1>15. Promise!Sign(j) BY <1>5, <1>8, <1>11, <1>12, <1>14 DEF Promise!Sign, ReadingsNow, Statements
<1> QED BY <1>3, <1>15 DEF Promise!Next

LEMMA PromiseStep ==
  ASSUME OneAtATime, "crash" \notin Ops, TypeInv, Allocated, InvoiceInv, SerialInv, [Next]_vars
  PROVE  [Promise!Next]_(Promise!vars)
<1>1. ASSUME entries' = entries, invoices' = invoices PROVE UNCHANGED Promise!vars
  BY <1>1, InvoicesKept, SameReadings, PromiseStutters
<1>2. ASSUME NEW s \in Slots, Call(s) PROVE UNCHANGED Promise!vars BY <1>1, <1>2, CallReads DEF ledger
<1>3. ASSUME NEW s \in Slots, Handle(s) PROVE [Promise!Next]_(Promise!vars)
  <2>1. CASE req[s].pc \notin {"draft", "issue", "certify", "lock", "void", "unlock"}
    BY <1>3, <2>1, RowsCertify
  <2>2. CASE req[s].pc \in {"draft", "issue", "certify", "lock", "void", "unlock"}
    <3>1. Draft(s) \/ Issue(s) \/ Certify(s) \/ Lock(s) \/ VoidMark(s) \/ VoidUnlock(s)
      BY <1>3, <2>2 DEF Handle, CutEntry, InsertEntry, StopGate, StopWrite, UpdateWrite,
                        DeleteWrite, ApprovalWrite, At
    <3> QED BY <3>1, DraftCertifies, SignatureCertifies, LocksCertify, VoidCertifies
  <2> QED BY <2>1, <2>2
<1>4. ASSUME NEW c \in Refs, DeleteCustomer(c) PROVE UNCHANGED Promise!vars
  <2>1. \A e \in EntryIds : \/ entries'[e] = entries[e]
                            \/ e \in Rows /\ entries'[e] # None /\ SameHours(entries'[e].seal, entries[e].seal)
    BY <1>4, CustomerEffect
  <2>2. invoices' = invoices BY <1>4 DEF DeleteCustomer
  <2> QED BY <2>1, <2>2, InvoicesKept, SameReadings, PromiseStutters
<1>5. ASSUME NEW u \in Users, NEW b \in BOOLEAN, NEW a \in BOOLEAN, SetBilling(u, b, a)
      PROVE  UNCHANGED Promise!vars
  BY <1>1, <1>5 DEF SetBilling
<1>6. Tick \/ vars' = vars => UNCHANGED Promise!vars BY <1>1 DEF Tick, vars
<1>7. ~Crash BY DEF Crash
<1> QED BY Zenon, <1>2, <1>3, <1>4, <1>5, <1>6, <1>7 DEF Next

\* When requests come one at a time and none is cut short, the ledger implements
\* the promise of a certified invoice: the signature is the abstract one, a void
\* the withdrawal, and every row written an hour nobody charges for.
THEOREM LedgerCertifies ==
  ASSUME OneAtATime, "crash" \notin Ops
  PROVE  Spec => HoursAreCertified
<1>1. Init => Promise!Init
  BY DEF Init, Promise!Init, ReadingOf, StatedBy, Rows, Certified, Live
<1>2. TypeInv /\ Allocated /\ InvoiceInv /\ SerialInv /\ [Next]_vars => [Promise!Next]_(Promise!vars)
  BY PromiseStep
<1> USE DEF HoursAreCertified, Promise!Spec
<1> QED BY <1>1, <1>2, AllocatedHolds, SerialInvHolds, PTL DEF Spec
=============================================================================
