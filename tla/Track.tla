------------------------------- MODULE Track -------------------------------
(* The timer and the corrections of server/actions/track.ts.                  *)
EXTENDS TimeEntries

NewRow(u, source, checkIn, checkOut, isBreak, metered, ref, approval) ==
  [seal |-> [user |-> u, checkIn |-> checkIn, checkOut |-> checkOut,
             isBreak |-> isBreak, source |-> source, metered |-> metered, ref |-> ref],
   approval |-> approval, lock |-> None]

OpenAfterCut_Bug(s, u, row) == Begin(s, [Idle EXCEPT !.pc = "insert", !.row = row])

\* Open a row now, or first cut what is running.
OpenAfterCut(s, u, row) ==
  \/ /\ OpenEntryFor(u) = {}
     /\ Begin(s, [Idle EXCEPT !.pc = "insert", !.row = row])
  \/ \E e \in OpenEntryFor(u) :
        Begin(s, [Idle EXCEPT !.pc = "cut", !.id = e, !.row = row])

\* time_entry.start.  A running entry refuses a session; a break cuts it.  The
\* references are resolved only after the cut.
Start(s, u, source, isBreak, ref) ==
  /\ "start" \in Ops /\ RoomForEntry
  /\ isBreak \/ OpenEntryFor(u) = {}
  /\ OpenAfterCut(s, u, NewRow(u, source, now, None, isBreak, FALSE, ref, "none"))
  /\ UNCHANGED ledger

\* time_entry.switch_break.  A template's references are resolved first.
SwitchBreak(s, u, source, ref) ==
  /\ "switch_break" \in Ops /\ RoomForEntry
  /\ ResolveRefs(ref)
  /\ OpenAfterCut(s, u, NewRow(u, source, now, None, TRUE, FALSE, ref, "none"))
  /\ UNCHANGED ledger

\* cutEntry: UPDATE ... WHERE id.  When the row is gone the handler fails on
\* the empty result before it opens anything.
CutEntry(s) ==
  /\ At(s, "cut")
  /\ LET e == req[s].id IN
       IF e \in Rows
       THEN /\ entries' = [entries EXCEPT ![e].seal.checkOut = req[s].row.seal.checkIn]
            /\ Proceed(s, [req[s] EXCEPT !.pc = "insert"])
       ELSE Return(s) /\ UNCHANGED entries
  /\ UNCHANGED <<nextEntry, invoices, nextInvoice, members, refs, now>>

\* insertEntry, shared by start, switch_break and log_past.  A reference that
\* does not resolve, or is deleted before the insert (a foreign key), fails it.
InsertEntry(s) ==
  /\ At(s, "insert") /\ nextEntry <= MaxEntries
  /\ IF ResolveRefs(req[s].row.seal.ref)
     THEN /\ entries' = [entries EXCEPT ![nextEntry] = req[s].row]
          /\ nextEntry' = nextEntry + 1
     ELSE UNCHANGED <<entries, nextEntry>>
  /\ Return(s)
  /\ UNCHANGED <<invoices, nextInvoice, members, refs, now>>

\* time_entry.stop: find the open entry, refuse one that ran past MAX_ENTRY_MS.
\* The row's source judges the reported tokens.
Stop(s, u, reported) ==
  /\ "stop" \in Ops
  /\ \E e \in OpenEntryFor(u) :
       LET seal == entries[e].seal IN
       /\ now - seal.checkIn <= MaxSpan
       /\ Begin(s, [Idle EXCEPT !.pc = "stopGate", !.id = e,
                    !.row = [entries[e] EXCEPT
                      !.seal.checkOut = now,
                      !.seal.metered = AgentMetricsFor(seal.source, reported)]])
  /\ UNCHANGED ledger

\* stop's read of memberships.require_approval.
StopGate(s) ==
  /\ At(s, "stopGate")
  /\ LET row == req[s].row IN
       Proceed(s, [req[s] EXCEPT !.pc = "stop",
                   !.row.approval = ApprovalOnWrite(row.seal.user, row.seal.isBreak)])
  /\ UNCHANGED ledger

\* The columns of e that stop sets.  Not pending, or not reported: left alone.
Stopped(e, row) ==
  [entries[e] EXCEPT
     !.seal.checkOut = row.seal.checkOut,
     !.seal.metered  = @ \/ row.seal.metered,
     !.approval      = IF row.approval = "pending" THEN "pending" ELSE @]

StopWrite(s) ==
  /\ At(s, "stop")
  /\ LET e == req[s].id IN
       entries' = IF e \in Rows THEN [entries EXCEPT ![e] = Stopped(e, req[s].row)] ELSE entries
  /\ Return(s)
  /\ UNCHANGED <<nextEntry, invoices, nextInvoice, members, refs, now>>

ValidSpan(checkIn, checkOut) == checkIn < checkOut /\ checkOut - checkIn <= MaxSpan

\* time_entry.log_past: an already finished entry, never in the future.
LogPast(s, u, source, checkIn, checkOut, isBreak, reported, ref) ==
  /\ "log_past" \in Ops /\ RoomForEntry
  /\ ValidSpan(checkIn, checkOut) /\ checkOut <= now
  /\ ResolveRefs(ref)
  /\ Begin(s, [Idle EXCEPT !.pc = "insert",
               !.row = NewRow(u, source, checkIn, checkOut, isBreak,
                              AgentMetricsFor(source, reported), ref,
                              ApprovalOnWrite(u, isBreak))])
  /\ UNCHANGED ledger

\* time_entry.update: checkIn, checkOut and the reference, each the row's own
\* when the caller leaves it out.
Update(s, u, e, checkIn, checkOut, ref) ==
  /\ "update" \in Ops
  /\ EntryForWrite(u, e)
  /\ LET seal == entries[e].seal IN
       /\ checkOut # None \/ seal.checkOut = None
       /\ checkOut # None => ValidSpan(checkIn, checkOut)
       /\ ref # None \/ seal.ref = None
       /\ ResolveRefs(ref)
       /\ Begin(s, [Idle EXCEPT !.pc = "update", !.id = e,
                    !.row = [entries[e] EXCEPT
                      !.seal.checkIn = checkIn, !.seal.checkOut = checkOut, !.seal.ref = ref]])
  /\ UNCHANGED ledger

\* The columns of e that update sets, from what the handler read and was given.
Corrected(e, row) ==
  [entries[e] EXCEPT !.seal.checkIn = row.seal.checkIn,
                     !.seal.checkOut = row.seal.checkOut,
                     !.seal.ref = row.seal.ref]

UpdateWrite_Bug(s) ==
  /\ At(s, "update")
  /\ entries' = [entries EXCEPT ![req[s].id] = req[s].row]
  /\ Return(s)
  /\ UNCHANGED <<nextEntry, invoices, nextInvoice, members, refs, now>>

\* UPDATE ... WHERE id: the lock is not looked at again.
UpdateWrite(s) ==
  /\ At(s, "update")
  /\ LET e == req[s].id
         row == req[s].row
     IN  entries' = IF e \in Rows /\ ResolveRefs(row.seal.ref)
                    THEN [entries EXCEPT ![e] = Corrected(e, row)] ELSE entries
  /\ Return(s)
  /\ UNCHANGED <<nextEntry, invoices, nextInvoice, members, refs, now>>

\* time_entry.delete.
Delete(s, u, e) ==
  /\ "delete" \in Ops
  /\ EntryForWrite(u, e)
  /\ Begin(s, [Idle EXCEPT !.pc = "delete", !.id = e])
  /\ UNCHANGED ledger

DeleteWrite(s) ==
  /\ At(s, "delete")
  /\ entries' = [entries EXCEPT ![req[s].id] = None]
  /\ Return(s)
  /\ UNCHANGED <<nextEntry, invoices, nextInvoice, members, refs, now>>

\* customer.delete: entries that pointed at it lose the reference (ON DELETE
\* SET NULL), the locked ones too.
DeleteCustomer(c) ==
  /\ "customer.delete" \in Ops
  /\ c \in refs
  /\ refs' = refs \ {c}
  /\ entries' = [e \in EntryIds |->
       IF e \in Rows /\ entries[e].seal.ref = c
       THEN [entries[e] EXCEPT !.seal.ref = None] ELSE entries[e]]
  /\ UNCHANGED <<nextEntry, invoices, nextInvoice, members, now, req>>
=============================================================================
