----------------------------- MODULE Invoicing -----------------------------
(* Approvals and certified invoices: server/actions/invoicing.ts, the         *)
(* customer half of server/actions/reports.ts, and server/invoices/issue.ts.  *)
EXTENDS TimeEntries

\* member.set_billing, by an admin.
SetBilling(u, billable, requireApproval) ==
  /\ "set_billing" \in Ops
  /\ members' = [members EXCEPT ![u] = [billable |-> billable, requireApproval |-> requireApproval]]
  /\ UNCHANGED <<entries, nextEntry, invoices, nextInvoice, refs, now, req>>

Window(u, from, to) ==
  {e \in Rows : entries[e].seal.user = u /\ entries[e].seal.checkIn \in from..to /\ Approvable(e)}

\* resolveTargets: entries named by id, of which it asks only that they exist.
\* A member and a window name some of these, the approvable ones.
ResolveTargets == SUBSET Rows \ {{}}

\* time_entry.submit: the caller's approvable entries not yet approved.
Submit(s, u, from, to) ==
  /\ "submit" \in Ops
  /\ LET pending == {e \in Window(u, from, to) : entries[e].approval # "approved"} IN
       /\ pending # {}
       /\ Begin(s, [Idle EXCEPT !.pc = "submit", !.ids = pending])
  /\ UNCHANGED ledger

\* time_entry.approve and time_entry.reject, by a manager.
Approve(s, ids) ==
  /\ "approve" \in Ops
  /\ ids \in ResolveTargets
  /\ Begin(s, [Idle EXCEPT !.pc = "approve", !.ids = ids])
  /\ UNCHANGED ledger

Reject(s, ids) ==
  /\ "reject" \in Ops
  /\ ids \in ResolveTargets
  /\ Begin(s, [Idle EXCEPT !.pc = "reject", !.ids = ids])
  /\ UNCHANGED ledger

Verdict_Bug(pc) == IF pc = "submit" THEN "submitted" ELSE "approved"

Verdict(pc) == CASE pc = "submit"  -> "pending"
                 [] pc = "approve" -> "approved"
                 [] OTHER          -> "rejected"

\* The UPDATE all three end in: by id, nothing else looked at.
ApprovalWrite(s) ==
  /\ req[s].pc \in {"submit", "approve", "reject"}
  /\ entries' = [e \in EntryIds |->
       IF e \in Rows \cap req[s].ids
       THEN [entries[e] EXCEPT !.approval = Verdict(req[s].pc)] ELSE entries[e]]
  /\ Return(s)
  /\ UNCHANGED <<nextEntry, invoices, nextInvoice, members, refs, now>>
-----------------------------------------------------------------------------
\* The member's billing profile, read first.  onlyApproved defaults to the
\* profile's own requireApproval.
GenerateContractor(s, u, forced) ==
  /\ "contractor_generate" \in Ops /\ RoomForInvoice
  /\ members[u].billable
  /\ Begin(s, [Idle EXCEPT !.pc = "draft",
               !.bill = [kind |-> "contractor", party |-> u,
                         onlyApproved |-> IF forced = None THEN members[u].requireApproval ELSE forced]])
  /\ UNCHANGED ledger

\* invoice.generate: the customer has to exist; no approval is asked for.
GenerateCustomer(s, c) ==
  /\ "generate" \in Ops /\ RoomForInvoice
  /\ c \in refs
  /\ Begin(s, [Idle EXCEPT !.pc = "draft",
               !.bill = [kind |-> "customer", party |-> c, onlyApproved |-> FALSE]])
  /\ UNCHANGED ledger

IncludedFor(onlyApproved, approval) ==
  IF onlyApproved THEN approval = "approved" ELSE approval # "rejected"

Billable_Bug(bill) == {e \in Rows : bill.party \in {entries[e].seal.user, entries[e].seal.ref}}

\* billableEntries, narrowed to what the bill is for.
Billable(bill) ==
  {e \in Rows : /\ ~entries[e].seal.isBreak /\ ~IsOpen(e)
                /\ IF bill.kind = "contractor"
                   THEN /\ entries[e].seal.user = bill.party
                        /\ IncludedFor(bill.onlyApproved, entries[e].approval)
                   ELSE entries[e].seal.ref = bill.party}

Draft_Bug(s) ==
  /\ At(s, "draft")
  /\ Proceed(s, [req[s] EXCEPT !.pc = "issue", !.lines = {LineOf(e) : e \in Billable(req[s].bill)}])
  /\ UNCHANGED ledger

\* The read an invoice starts from.  Refused when an earlier invoice claimed a
\* row, and, for a contractor, when there is nothing to bill.
Draft(s) ==
  /\ At(s, "draft")
  /\ LET rows == Billable(req[s].bill) IN
       IF \/ \E e \in rows : entries[e].lock # None
          \/ req[s].bill.kind = "contractor" /\ rows = {}
       THEN Return(s)
       ELSE Proceed(s, [req[s] EXCEPT !.pc = "issue", !.lines = {LineOf(e) : e \in rows}])
  /\ UNCHANGED ledger

\* INSERT INTO invoices, which gives the number the reference is built from.
\* The customer may be gone by now (a foreign key).
Issue(s) ==
  /\ At(s, "issue") /\ nextInvoice <= MaxInvoices
  /\ LET bill == req[s].bill IN
       IF bill.kind = "customer" /\ bill.party \notin refs
       THEN Return(s) /\ UNCHANGED <<invoices, nextInvoice>>
       ELSE /\ invoices' = [invoices EXCEPT ![nextInvoice] =
                 [kind |-> bill.kind, party |-> bill.party, lines |-> {},
                  certified |-> FALSE, status |-> "issued", voided |-> FALSE]]
            /\ nextInvoice' = nextInvoice + 1
            /\ Proceed(s, [req[s] EXCEPT !.pc = "certify", !.inv = nextInvoice])
  /\ UNCHANGED <<entries, nextEntry, members, refs, now>>

Certify_Bug(s) ==
  /\ At(s, "certify") /\ ~invoices[req[s].inv].voided
  /\ invoices' = [invoices EXCEPT ![req[s].inv].lines = req[s].lines, ![req[s].inv].certified = TRUE]
  /\ Proceed(s, [req[s] EXCEPT !.pc = "lock"])
  /\ UNCHANGED <<entries, nextEntry, nextInvoice, members, refs, now>>

\* certify's UPDATE of the invoice: snapshot, hash, signature, token, status.
Certify(s) ==
  /\ At(s, "certify")
  /\ invoices' = [invoices EXCEPT ![req[s].inv].lines = req[s].lines,
                                  ![req[s].inv].certified = TRUE,
                                  ![req[s].inv].status = "issued"]
  /\ IF req[s].lines = {} THEN Return(s) ELSE Proceed(s, [req[s] EXCEPT !.pc = "lock"])
  /\ UNCHANGED <<entries, nextEntry, nextInvoice, members, refs, now>>

Lock_Bug(s) ==
  /\ At(s, "lock")
  /\ entries' = [e \in EntryIds |->
       IF e \in Rows /\ \E l \in req[s].lines : l.id = e
       THEN [entries[e] EXCEPT !.lock = req[s].inv] ELSE entries[e]]
  /\ Return(s)
  /\ UNCHANGED <<nextEntry, invoices, nextInvoice, members, refs, now>>

\* certify's UPDATE of the entries: only those still free.
Lock(s) ==
  /\ At(s, "lock")
  /\ LET ids == {l.id : l \in req[s].lines} IN
       entries' = [e \in EntryIds |->
         IF e \in Rows \cap ids /\ entries[e].lock = None
         THEN [entries[e] EXCEPT !.lock = req[s].inv] ELSE entries[e]]
  /\ Return(s)
  /\ UNCHANGED <<nextEntry, invoices, nextInvoice, members, refs, now>>
-----------------------------------------------------------------------------
\* voidInvoice, by an admin: refused when the row reads voided already.
Void(s, i) ==
  /\ "void" \in Ops
  /\ invoices[i] # None /\ ~invoices[i].voided
  /\ Begin(s, [Idle EXCEPT !.pc = "void", !.inv = i])
  /\ UNCHANGED ledger

VoidMark_Bug(s) ==
  /\ At(s, "void")
  /\ invoices' = [invoices EXCEPT ![req[s].inv].voided = TRUE, ![req[s].inv].lines = {}]
  /\ Return(s)
  /\ UNCHANGED <<entries, nextEntry, nextInvoice, members, refs, now>>

VoidMark(s) ==
  /\ At(s, "void")
  /\ invoices' = [invoices EXCEPT ![req[s].inv].voided = TRUE, ![req[s].inv].status = "void"]
  /\ Proceed(s, [req[s] EXCEPT !.pc = "unlock"])
  /\ UNCHANGED <<entries, nextEntry, nextInvoice, members, refs, now>>

VoidUnlock(s) ==
  /\ At(s, "unlock")
  /\ entries' = [e \in EntryIds |->
       IF e \in Rows /\ entries[e].lock = req[s].inv
       THEN [entries[e] EXCEPT !.lock = None] ELSE entries[e]]
  /\ Return(s)
  /\ UNCHANGED <<nextEntry, invoices, nextInvoice, members, refs, now>>
=============================================================================
