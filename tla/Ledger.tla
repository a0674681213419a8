------------------------------- MODULE Ledger -------------------------------
(* The work ledger of one organization: the timer, the corrections, the       *)
(* approvals and the certified invoices over the same rows, with the requests *)
(* of up to |Slots| callers interleaving at every await, the clock moving     *)
(* between any two of them, and the process stopping at any point.            *)
EXTENDS Track, Invoicing

Init ==
  /\ entries = [e \in EntryIds |-> None]
  /\ nextEntry = 1
  /\ invoices = [i \in InvoiceIds |-> None]
  /\ nextInvoice = 1
  /\ members \in [Users -> [billable: BOOLEAN, requireApproval: BOOLEAN]]
  /\ refs = Refs
  /\ now = 0
  /\ req = [s \in Slots |-> Idle]

Tick == now < MaxNow /\ now' = now + 1
        /\ UNCHANGED <<entries, nextEntry, invoices, nextInvoice, members, refs, req>>

\* The process is replaced: every handler in flight is lost where it stood.
Crash ==
  /\ "crash" \in Ops /\ ~Quiet
  /\ req' = [s \in Slots |-> Idle]
  /\ UNCHANGED ledger

\* A client's call reaches a handler, which runs up to its first read.
Call(s) ==
  /\ At(s, "idle")
  /\ \/ \E u \in Users, src \in Credentials, brk \in BOOLEAN, r \in Refs \cup {None} :
           Start(s, u, src, brk, r)
     \/ \E u \in Users, src \in Credentials, r \in Refs \cup {None} : SwitchBreak(s, u, src, r)
     \/ \E u \in Users, tok \in BOOLEAN : Stop(s, u, tok)
     \/ \E u \in Users, src \in Credentials, in \in Time, out \in Time, brk \in BOOLEAN,
           tok \in BOOLEAN, r \in Refs \cup {None} : LogPast(s, u, src, in, out, brk, tok, r)
     \/ \E u \in Users, e \in Rows, in \in Time, out \in Time \cup {None},
           r \in Refs \cup {None} : Update(s, u, e, in, out, r)
     \/ \E u \in Users, e \in Rows : Delete(s, u, e)
     \/ \E u \in Users, from \in Time, to \in Time : Submit(s, u, from, to)
     \/ \E ids \in ResolveTargets : Approve(s, ids) \/ Reject(s, ids)
     \/ \E u \in Users, forced \in BOOLEAN \cup {None} : GenerateContractor(s, u, forced)
     \/ \E c \in Refs : GenerateCustomer(s, c)
     \/ \E i \in InvoiceIds : Void(s, i)

\* A handler resumes after an await.
Handle(s) ==
  \/ CutEntry(s) \/ InsertEntry(s)
  \/ StopGate(s) \/ StopWrite(s)
  \/ UpdateWrite(s) \/ DeleteWrite(s)
  \/ ApprovalWrite(s)
  \/ Draft(s) \/ Issue(s) \/ Certify(s) \/ Lock(s)
  \/ VoidMark(s) \/ VoidUnlock(s)

Next ==
  \/ \E s \in Slots : Call(s) \/ Handle(s)
  \/ \E u \in Users, b \in BOOLEAN, a \in BOOLEAN : SetBilling(u, b, a)
  \/ \E c \in Refs : DeleteCustomer(c)
  \/ Tick \/ Crash

Spec == Init /\ [][Next]_vars

\* The event loop resumes every handler whose await settles.
FairSpec == Spec /\ \A s \in Slots : WF_vars(Handle(s))
-----------------------------------------------------------------------------
\* Every variable keeps to the columns the schema declares (db/schema.ts).
TypeOK ==
  /\ entries \in [EntryIds -> Entry \cup {None}]
  /\ nextEntry \in 1..(MaxEntries + 1)
  /\ invoices \in [InvoiceIds -> Invoice \cup {None}]
  /\ nextInvoice \in 1..(MaxInvoices + 1)
  /\ members \in [Users -> [billable: BOOLEAN, requireApproval: BOOLEAN]]
  /\ refs \in SUBSET Refs
  /\ now \in Time
  /\ req \in [Slots -> Request]

\* A member has at most one open entry (track.ts:14).  Holds when requests come
\* one at a time; start and switch_break read before they insert.
OneTimer == \A u \in Users : \A e, f \in OpenOf(u) : e = f

\* No closed entry spans more than a day: a timer forgotten overnight never
\* becomes a 300-hour line (docs/concepts.md:243).
NoOverlongEntry ==
  \A e \in Rows : ~IsOpen(e) => entries[e].seal.checkOut - entries[e].seal.checkIn <= MaxSpan

\* An hour is billed by one invoice: no entry is a line of two that stand
\* (contractor_generate refuses entries an earlier invoice already claimed).
BilledOnce ==
  \A i, j \in Live : \A k \in invoices[i].lines, l \in invoices[j].lines :
     k.id = l.id => i = j

SameHours(a, b) == [a EXCEPT !.ref = None] = [b EXCEPT !.ref = None]

\* Once nothing is in flight, the hours behind a standing invoice have not
\* moved since it was signed, and every row of it is held by its lock
\* (entryForWrite: what the verification URL promises).
FrozenHoursStand ==
  Quiet => \A i \in Live : \A l \in invoices[i].lines :
     /\ l.id \in Rows
     /\ entries[l.id].lock = i
     /\ SameHours(entries[l.id].seal, l.seal)
     /\ entries[l.id].seal.ref \in {l.seal.ref, None}

\* Once nothing is in flight, a lock is held by an invoice that stands: voiding
\* releases every row it froze (voidInvoice).
VoidReleases ==
  Quiet => \A e \in Rows : entries[e].lock # None => entries[e].lock \in Live

\* A lock names a certified invoice that bills that very row, however the
\* requests interleave and wherever the process stops (certify's order).
LockNamesBill ==
  \A e \in Rows : entries[e].lock # None =>
     /\ entries[e].lock \in Certified
     /\ \E l \in invoices[entries[e].lock].lines : l.id = e

\* A frozen line is finished work of the party billed: closed, not a break, in
\* the contractor's own name or booked against the customer.
LinesAreBillable ==
  \A i \in Certified : \A l \in invoices[i].lines :
     /\ l.seal.checkOut # None /\ ~l.seal.isBreak
     /\ invoices[i].party = IF invoices[i].kind = "contractor" THEN l.seal.user ELSE l.seal.ref

\* Tokens and cost are facts of agent work only, whichever credential opened
\* the entry and whichever one closes it (attribution.ts).
MetricsAreAgents == \A e \in Rows : entries[e].seal.metered => entries[e].seal.source = "agent"

\* A lock passes from one invoice to another only through its release: a row
\* taken between the check and the lock stays with its first invoice (certify).
LockNotStolen ==
  [][\A e \in Rows : entries'[e] # None /\ entries[e].lock # None
        => entries'[e].lock \in {entries[e].lock, None}]_vars

\* Whose work an entry is, and by human or agent, is never rewritten; a row
\* that was struck never comes back through a write that was under way.
AttributionStands ==
  [][\A e \in EntryIds : e < nextEntry /\ entries'[e] # None =>
        /\ entries[e] # None
        /\ entries'[e].seal.user = entries[e].seal.user
        /\ entries'[e].seal.source = entries[e].seal.source]_vars

\* A signed document is final: its lines never change, and once withdrawn it
\* never stands again (voidInvoice leaves the snapshot in place).
DocumentsAreFinal ==
  [][\A i \in Certified :
        /\ invoices'[i].certified /\ invoices'[i].lines = invoices[i].lines
        /\ invoices[i].voided => invoices'[i].voided]_vars

\* Locks and standing bills are the same thing, from either side.
LocksMatchBills == FrozenHoursStand /\ VoidReleases

\* How an hour reads, its reference aside, and what a signed invoice states.
Reading(seal) == [seal EXCEPT !.ref = None]
ReadingOf(e) == IF e \in Rows THEN Reading(entries[e].seal) ELSE None
StatedBy(i) == IF i \in Certified THEN {<<l.id, Reading(l.seal)>> : l \in invoices[i].lines} ELSE {}

\* When requests come one at a time the ledger keeps what a signed invoice
\* promises: an hour changes only while no standing invoice charges for it, is
\* charged by one at most, and as it reads; what was signed is final, and a
\* withdrawn invoice never stands again (certify, voidInvoice, entryForWrite).
Promise == INSTANCE CertifiedHours WITH
  Hours <- EntryIds,
  Bills <- InvoiceIds,
  Nothing <- None,
  hours <- [e \in EntryIds |-> ReadingOf(e)],
  bills <- [i \in InvoiceIds |-> StatedBy(i)],
  signed <- Certified,
  standing <- Live
HoursAreCertified == Promise!Spec

\* Every invoice row inserted is signed in the end.
IssuedGetsCertified ==
  \A i \in InvoiceIds : (invoices[i] # None) ~> (i \in Certified)
=============================================================================
