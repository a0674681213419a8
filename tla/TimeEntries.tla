---------------------------- MODULE TimeEntries ----------------------------
(* The tables the Track surface shares: time_entries, invoices and the        *)
(* billing flags of memberships, the queries of server/track/entries.ts and   *)
(* server/invoices/entries.ts over them, and the requests in flight.          *)
(*                                                                            *)
(* No handler opens a transaction and no index makes an open entry unique, so *)
(* every `await` of a handler is a point where another request may run.  A    *)
(* request is a record holding its program counter and what its handler read  *)
(* so far; each action of Track and Invoicing is the code between two awaits  *)
(* that touch the database.                                                   *)
EXTENDS Integers, FiniteSets

CONSTANTS
  Users,        \* members of one organization
  Managers,     \* members whose role is manager or above
  Refs,         \* what an entry may be booked against (a customer)
  Slots,        \* requests the server may have in flight at once
  Ops,          \* the operations clients call in this instance
  Credentials,  \* the credentials they present: "human", "agent" or both
  MaxEntries,   \* bound: entries ever inserted
  MaxInvoices,  \* bound: invoices ever inserted
  MaxNow,       \* bound: the wall clock stops there
  MaxSpan,      \* MAX_ENTRY_MS
  None          \* SQL null, and an absent row

EntryIds   == 1..MaxEntries
InvoiceIds == 1..MaxInvoices
Time       == 0..MaxNow
Sources    == {"human", "agent"}
Approvals  == {"none", "pending", "approved", "rejected"}

\* What entrySha256 hashes: the columns an invoice's truthfulness rests on.
Sealed == [user: Users, checkIn: Time, checkOut: Time \cup {None}, isBreak: BOOLEAN,
           source: Sources, metered: BOOLEAN, ref: Refs \cup {None}]

\* A row of time_entries: the sealed columns, approval_status, locked_invoice_id.
\* metered abstracts tokens_used and api_cost_usd: whether they are stored.
Entry == [seal: Sealed, approval: Approvals, lock: InvoiceIds \cup {None}]

Line == [id: EntryIds, seal: Sealed]

Parties == Users \cup Refs

\* certified: snapshot, contentHash, signature and verifyToken are written.
Invoice == [kind: {"contractor", "customer"}, party: Parties, lines: SUBSET Line,
            certified: BOOLEAN, status: {"issued", "void"}, voided: BOOLEAN]

Bill == [kind: {"contractor", "customer"}, party: Parties, onlyApproved: BOOLEAN]

PC == {"idle", "cut", "insert", "stopGate", "stop", "update", "delete",
       "submit", "approve", "reject", "draft", "issue", "certify", "lock",
       "void", "unlock"}

Request == [pc: PC, id: EntryIds \cup {None}, row: Entry \cup {None},
            ids: SUBSET EntryIds, bill: Bill \cup {None}, lines: SUBSET Line,
            inv: InvoiceIds \cup {None}]

Idle == [pc |-> "idle", id |-> None, row |-> None, ids |-> {}, bill |-> None,
         lines |-> {}, inv |-> None]

\* The bounds are numbers, None is neither the value of a column nor a row, a
\* manager is a member and a credential is a session or a token.
ASSUME LedgerAssumption ==
  /\ MaxEntries \in Nat /\ MaxInvoices \in Nat /\ MaxNow \in Nat /\ MaxSpan \in Nat
  /\ None \notin Users \cup Refs \cup Nat \cup BOOLEAN
  /\ None \notin Entry /\ None \notin Invoice
  /\ Managers \subseteq Users /\ Credentials \subseteq Sources

VARIABLES
  entries,      \* time_entries by id; None before the insert and after a delete
  nextEntry,    \* the serial of time_entries.id: ids are never reused
  invoices,     \* invoices by id; rows are never deleted
  nextInvoice,
  members,      \* memberships.billable and .require_approval
  refs,         \* customers that exist
  now,          \* the wall clock
  req           \* the requests in flight

vars == <<entries, nextEntry, invoices, nextInvoice, members, refs, now, req>>
ledger == <<entries, nextEntry, invoices, nextInvoice, members, refs, now>>
-----------------------------------------------------------------------------
Rows == {e \in EntryIds : entries[e] # None}
Certified == {i \in InvoiceIds : invoices[i] # None /\ invoices[i].certified}
Live == {i \in Certified : ~invoices[i].voided}
Quiet == \A s \in Slots : req[s].pc = "idle"

IsOpen(e) == entries[e].seal.checkOut = None

OpenOf(u) == {e \in Rows : entries[e].seal.user = u /\ IsOpen(e)}

\* Latest check_in first, limit 1: a tie is broken by the engine.
OpenEntryFor(u) ==
  {e \in OpenOf(u) : \A f \in OpenOf(u) : entries[f].seal.checkIn <= entries[e].seal.checkIn}

\* Definitions ending in _Bug are plausible errors, used only to show that a
\* property notices them.
EntryForWrite_Bug(u, e) == e \in Rows /\ (entries[e].seal.user = u \/ u \in Managers)

EntryForWrite(u, e) ==
  /\ e \in Rows
  /\ entries[e].seal.user = u \/ u \in Managers
  /\ entries[e].lock = None

ResolveRefs(ref) == ref \in refs \cup {None}

\* APPROVABLE: closed, not a break, not already frozen into an invoice.
Approvable(e) == ~entries[e].seal.isBreak /\ ~IsOpen(e) /\ entries[e].lock = None

ApprovalOnWrite(u, isBreak) ==
  IF ~isBreak /\ members[u].requireApproval THEN "pending" ELSE "none"

AgentMetricsFor_Bug(source, reported) == reported

\* agentMetricsFor: tokens and cost are kept only for agent work.
AgentMetricsFor(source, reported) == reported /\ source = "agent"

LineOf(e) == [id |-> e, seal |-> entries[e].seal]
-----------------------------------------------------------------------------
\* The registry dispatches a call to a free slot; a handler that throws or
\* returns frees it.
Begin(s, r)   == req' = [req EXCEPT ![s] = r]
Proceed(s, r) == req' = [req EXCEPT ![s] = r]
Return(s)     == req' = [req EXCEPT ![s] = Idle]
At(s, pc)     == req[s].pc = pc

\* Bounds: a call that will insert begins only when an id is left for it.
Inserting == {s \in Slots : req[s].pc \in {"cut", "insert"}}
Issuing   == {s \in Slots : req[s].pc \in {"draft", "issue"}}
RoomForEntry   == nextEntry + Cardinality(Inserting) <= MaxEntries
RoomForInvoice == nextInvoice + Cardinality(Issuing) <= MaxInvoices
=============================================================================
