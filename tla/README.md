# PTD in TLA+

PTD (Plan, Track, Done) is an Express and PostgreSQL server on which people and
agents plan tasks, record the hours and tokens spent on them, and turn approved
work into signed invoices. This directory holds TLA+ models of its logic, the TLC
configurations that check them on small instances, and proofs that TLAPS checks
for every instance. Paths below are relative to the repository.

## 1. Inventory

Almost every mutation reaches the server as an *action* of one registry
(`server/actions/registry.ts`), whether it comes from the web client, the CLI, an
MCP client or a chat command. A handler is an async function that reads and writes
through Drizzle. No handler opens a database transaction and few tables have a
uniqueness constraint beyond their key, so **every `await` is a point where another
request may run, and a restart may leave any prefix of a handler's writes**. That
is the fact most of the hazards of this code follow from.

| component | state | operations | hard part | what makes it correct |
|---|---|---|---|---|
| Time ledger (`server/actions/track.ts`, `server/track/`) | `time_entries` | start, switch_break, stop, log_past, update, delete, customer.delete | read, await, write by id; forgotten timers | one timer per member; attribution never rewritten; tokens only on agent work; invoiced rows frozen; no overlong line |
| Approvals and invoices (`server/actions/invoicing.ts`, `reports.ts`, `server/invoices/`) | `approval_status`, `locked_invoice_id`, `invoices` | submit, approve, reject, set_billing, two generates, void | draft, insert, sign and lock are four writes | an hour is billed once; a lock names the invoice that bills the row; a document is final; voiding releases |
| Sharing and access codes (`server/invoices/access.ts`) | one JSON column of the invoice | share, unshare, request, redeem | read-modify-write of the whole block | a code opens the details once, for its address, in time, while no write undoes another's |
| Plan board (`server/actions/plan.ts`, `server/cascade.ts`, `server/plan/taskOps.ts`, `streamOps.ts`) | cards, their dates, dependencies, lanes and apps | create, update, schedule, dependencies, complete, delete, attach, detach, move | a breadth-first push that compounds, persisted row by row | acyclic; a push moves exactly what it must; status and dates agree; a card's app belongs to its lane |
| Recurring work (`server/plan/scheduler.ts`, `recurrences.ts`, `recurrence.ts`) | `task_recurrences` | tick, set, clear, delete | several servers, failures and restarts after a claim | a slot fires at most once, until two ticks hold one row at different moments; a due rule does not stay due |
| Attachments (`server/plan/attachments.ts`, `routes.ts`) | rows and content-addressed files | upload, delete | the file outlives or predates the row | every row's file exists, except where an upload met a delete of the same bytes; a file goes with its last row |
| Billing (`server/billing/`) | plan and Stripe ids of the organization, stored billing state | webhook events, seat sync, plan change, join | duplicated, delayed and reordered events; idempotency keys | plan and seats converge to what Stripe holds; limits are kept |
| OAuth 2.1 (`server/oauth/`) | codes, refresh and access tokens | redeem, refresh, revoke | replays race rotations, answers are lost | one live grant per code, until a refresh goes on from a token retired under it; a refused replay ends what the client held |
| Import (`server/importers/`) | cards, entries, lanes, customers by key or name | dry run, commit | chunks fail, a commit stops half way | a second import updates; the preview is what happens, up to the spelling of names |
| Verification (`server/invoices/verify.ts`, `keys.ts`, `snapshot.ts`) | signing keys, the sealed part of an invoice | draw, sign, redraw, verify | rounding; a key retired or a row changed after the signature | documents add up; the verdict is exact |
| Usage and budgets (`server/usage/`) with the CLI and hooks (`cli/src/commands/agent.ts`, `hooks/`) | reports and attestations on `time_entries`, stream budgets | offer, start, stop, report, attest, set_budget, summary | the wall is read at the offer, the spend comes at the stop; terminals share a seat | offers stop at the ceiling; wall and report differ by what is dated ahead; evidence is a run's own |
| Accounts (`server/auth.ts`, `server/auth/`) | the TOTP columns of `users`, `password_resets`, signed tokens | login, step-up, enrol, disable, recovery codes, reset | each request writes from the row it read; a list is rewritten whole | the first factor alone opens nothing; a code opens one door; once a reset has run to its end no letter out by then can begin another |
| Single sign-on (`server/oidc/`) | `user_identities`, nonces and handoffs in memory | start, callback, exchange, unlink; registration | identity, user, membership and organization are four writes | a subject is one person; a sign-in delivers one token; an account has an organization |
| Two-factor policy (`server/auth/security.ts`, `orgs.ts`) | one `org_integrations` row and a cache of it | the gate of every request, set_security | a cache filled across an await | a change bites when it is answered; nobody locks themselves out |
| Organizations, invitations, roles (`server/orgs.ts`, `server/actions/orgadmin.ts`) | memberships | invite, join, remove | seat count read before insert | limits and bill follow the roll |
| Integrations (Slack, Teams, Telegram, GitHub) | link codes, identities, mirrored issues | mint, link, unlink, command, sync | redelivered and concurrent calls | a link code links once; an account speaks for one member |
| Reports, overview, export, mail, metrics, web client | read-only or outside the ledger | | | not modelled |

The last column is what a component is for. Where the code stops short of it section 7
says so, and the property states the exception.

Components meet in the database: a time entry points at a customer, a stream and a
task; an invoice points at the entries it froze; the plan gate reads the billing
columns before an invoice is certified; a cascade is triggered by a task edit.

## 2. Plan

Done in this order; each item is one module (or a few) with its instance, runs,
mutants and, where it says so, proofs.

1. **Ledger** (done): `TimeEntries`, `Track`, `Invoicing`, composed by `Ledger`;
   proofs in `LedgerProofs` and `InvoiceProofs`.
2. **Billing** (done, one handler at a time): `Stripe`, the external actor that
   repeats, delays and reorders, and `Billing` on top of it; proofs in `BillingProofs`.
3. **Services** (done): `Cascade` and `Board`, `Calendar` and `Recurrence`,
   `Attachments`, `Grants`, `Import`, `Sharing`, `Documents`, `AgentRuns`,
   `Linking`, `Accounts`, `SignOn`, `Policy`, composed by `Services`; `AtMostOnce`, the abstract specification
   `Recurrence` implements.
4. **Proofs about the services** (done, a theorem for each of the twelve scenes): `ServiceProofs`
   (attachments, grants, links, policy, accounts, sign-on, and the refinement of
   `AtMostOnce`), `WorkProofs` (agents, documents, shared invoices, imports),
   `BoardProofs` (the cards, the forward push, the critical path), over `FoldLemmas`, induction over
   numbers, folds and sums in the form the provers can use; `SystemProofs` carries what
   they prove of the parts over to `Services`.
5. **An abstract certified ledger** (done): `CertifiedHours`, what a signed invoice
   promises its reader, which the serial ledger implements (`Ledger!Promise`).
6. Invitations and roles in full, composed with the seat count of Billing; API tokens
   and their expiry; the GitHub mirror with its echo (left, no module yet).

## 3. The ledger model

| module | models |
|---|---|
| `TimeEntries` | the tables, the queries over them, and the requests in flight |
| `Track` | `server/actions/track.ts`, `server/track/entries.ts`, `server/track/attribution.ts` |
| `Invoicing` | `server/actions/invoicing.ts`, the customer half of `server/actions/reports.ts`, `server/invoices/issue.ts` and its reads |
| `Ledger` | their composition: calls, resumed handlers, the clock, restarts; the properties |
| `CertifiedHours` | the abstract promise of a certified invoice: hours, the bills that state them, which were signed and which stand |
| `MCLedger` | small instances and the operations each run calls |

**State.** `entries` and `invoices` are the tables by id, `None` for a row that
does not exist; `nextEntry` and `nextInvoice` are the serials; `members` holds the
two membership flags billing reads, `refs` the customers that exist, `now` the
clock. `req` holds what each request in flight remembers: its program counter and
the row, ids, bill or lines it has read. A row keeps the columns `entrySha256`
seals (`seal`) apart from its approval and its lock, because freezing is a statement
about exactly those.

**Actions.** One action is the code of a handler between two awaits that touch the
database. `Start`, `Stop`, `Update`, `GenerateContractor` and the others take a
call up to the values its first read gives; `CutEntry`, `InsertEntry`, `StopGate`,
`StopWrite`, `UpdateWrite`, `DeleteWrite`, `ApprovalWrite`, `Draft`, `Issue`,
`Certify`, `Lock`, `VoidMark` and `VoidUnlock` are the later steps. A call a
handler would refuse is not taken; a step that fails returns.

| code | actions |
|---|---|
| `time_entry.start`, `switch_break` | `Start` or `SwitchBreak`, [`CutEntry`], `InsertEntry` |
| `time_entry.stop` | `Stop`, `StopGate`, `StopWrite` |
| `time_entry.log_past` | `LogPast`, `InsertEntry` |
| `time_entry.update`, `delete` | `Update`, `UpdateWrite`; `Delete`, `DeleteWrite` |
| `customer.delete` | `DeleteCustomer` |
| `time_entry.submit`, `approve`, `reject` | `Submit`, `Approve` or `Reject`, then `ApprovalWrite` |
| `member.set_billing` | `SetBilling` |
| `invoice.contractor_generate`, `invoice.generate` | `GenerateContractor` or `GenerateCustomer`, `Draft`, `Issue`, `Certify`, [`Lock`] |
| `invoice.void` | `Void`, `VoidMark`, `VoidUnlock` |

**Abstractions.** One organization and one billing month. A reference stands for the
customer an entry is booked to, directly or through its stream (the code takes the
stream's customer when there is one). `metered` says whether tokens or cost are
stored, not how many. Rates, amounts, hashes and signatures are left out: a
certified invoice is its lines as they were sealed. The plan gate, history events,
sockets and mail are fire-and-forget and change none of this state. Two reads with
nothing but a read between them are one step where no write could tell them apart.
Definitions ending in `_Bug` are plausible errors; they belong to no specification
and exist to show that a property notices them.

**The promise.** `CertifiedHours` says what the seal on an invoice is for: an hour is
entered, corrected or struck only while no standing bill charges it, a bill is signed
once, over hours as they read that no standing bill charges, and it is withdrawn for good.
`Ledger!Promise` maps the ledger to it: `hours` are the sealed columns of the rows without
their reference (`customer.delete` may take that), `bills` the lines of the certified
invoices, `signed` those invoices, `standing` the ones not voided. `Certify` is `Sign`,
`VoidMark` is `Withdraw`, the writes of rows are `Correct`; the locks are how the code keeps
the promise, and do not occur in it. It holds when requests come one at a time: the second
finding is a run of two that breaks it.

## 4. The billing model

| module | models |
|---|---|
| `Stripe` | external: checkout sessions, subscriptions and their items, events until they are answered, idempotency keys |
| `Billing` | `server/billing/service.ts`, `webhook.ts`, `state.ts`, `limits.ts`, `server/actions/billing.ts`, and the paths that move a seat in `server/orgs.ts`, `server/agentSignup.ts`, `server/oidc/link.ts` |
| `MCBilling` | small instances and the acts each run lets happen |

**State.** `org` is the plan column and the subscription on file, `cache` the
`org_integrations` row of kind `billing`, `roll` the memberships, `processed` the
event ids this process remembers (in memory: a `Crash` empties it), `job` the handler
in each slot with what it has read. `high`, `calm` and `owed` are history: the latest
event begun; whether events were begun in order, one handler at a time, none dropped
by a failure, with one live subscription; whether Stripe was never told of a seat, or
what it answered was not heard.

| code | actions |
|---|---|
| `handleStripeEvent` | `Duplicate`, or `Deliver`, [`FetchSubscription`], `ReadOrg`, `WriteOrg`, `WriteCache`, [the seat sync], `MarkProcessed` |
| `applySubscriptionState` | `ReadOrg`, `WriteOrg`, `WriteCache` |
| `syncSeatQuantity` | `SyncSeats`, [`PostAccepted`, `PostRecalled` or `PostRefused`, `StoreSeats`] |
| `billing.checkout`, `change_plan` | `Checkout`; `ChangePlan`, one of the three posts, `ReadOrg`, `WriteOrg`, `WriteCache` |
| `billing.sync`, `billing.status` | `Sync` or `SyncSession`, `ReadOrg`, `WriteOrg`, `WriteCache` |
| accept an invitation, register an agent, accept while signing in | `Join`, `InsertMember`, [the seat sync] |
| remove a member | `RemoveMember`, the seat sync |
| a throw in a handler | `FailApplying`, `FailSeats` |

**Stripe's side** is assumed as its callers assume it: an event is sent until it is
answered 200, in any order and more than once; an item is changed by its id; a price
sits on a subscription once; a known idempotency key with the same body is answered
from memory, with another body refused, and forgotten after a day (`Forget`).

**Abstractions.** One organization and one interval; every subscription carries its
base item. The metered items, periods, prices and `past_due` (access as for `active`)
are left out, as are the signature check, the portal and `invoice.payment_failed`,
which is only logged. The reads `syncSeatQuantity` makes before its POST are one
step, as are the read and the write of the billing row.

## 5. The service models

Parts of the server that share no row with one another in these models. `Services`
extends them all, and its variable `scene` says which of them a behaviour is about;
the others keep their initial state. One run then checks all of them, since each
alone is small; no property relates two of them.

| module | models |
|---|---|
| `Cascade` | pure operators: the forward push of `server/cascade.ts` (the client's copy is the same code), the cycle test, the longest chain and the two passes of the critical-path method in `server/plan/taskOps.ts` |
| `Board` | the card mutations of `server/actions/plan.ts`, `applyCascade`, `deriveStatus`, and `server/plan/streamOps.ts` |
| `Calendar` | `nextRunAfter` and `catchUp` of `server/plan/recurrence.ts`, on a calendar of common years with two moments a day |
| `Recurrence` | `server/plan/scheduler.ts` in every server process, and `server/plan/recurrences.ts` |
| `AtMostOnce` | what the schedule promises: slots are taken in order, and each is delivered once or lost, until a source is forsaken |
| `Attachments` | the upload route, `task.attachment_delete` and the store of `server/plan/attachments.ts` |
| `Grants` | `server/oauth/token.ts` over `server/oauth/store.ts`, for one authorization code |
| `Import` | `server/importers/apply.ts`: the preview and the commit of one file |
| `Sharing` | `server/invoices/access.ts`, for one invoice |
| `Documents` | the folds and the sealed part of both kinds of invoice (`server/track/invoice.ts`, `server/invoices/contractor.ts`, `snapshot.ts`), `keys.ts`, `verify.ts` |
| `AgentRuns` | `cli/src/commands/agent.ts` and `hooks/claude-code/` at work on `server/usage/` (`budget.ts`, `nextTask.ts`, `attest.ts`, `fold.ts`, `summary.ts`) |
| `Linking` | `server/integrations/shared/linkCodes.ts`, `link.ts`, `identity.ts`, for one provider and one organization |
| `Accounts` | `server/auth/mfa.ts`, `totpRoutes.ts`, `jwt.ts` and the login and reset routes of `server/auth.ts`, for one person |
| `SignOn` | `server/oidc/link.ts`, `state.ts`, `routes.ts` for one provider, and registration and `createOrganization` of `server/auth.ts` |
| `Policy` | `server/auth/security.ts`, the gate of `resolveOrg` (`server/orgs.ts`) and `org.set_security` (`server/actions/orgadmin.ts`), for one organization |

**Board.** `board` is the tasks table by id, `attached` the lane and app pairs,
`detaching` the pairs a detach removed and has not cleared from the cards. A call
takes its reads (`Create`, `Update`, `Schedule`, `SetDependencies`, ...); `Insert`,
`UpdateWrite` and `Write` store it; `ApplyCascade` reads every card, in any row
order, and computes the push, and `Shift` writes it one row at a time; `Crash` may
come between any two. A duration of 0 is the column's null, the end of a dependency
is its start plus its duration, as in the code. A write puts the columns the call named
over the row as it is then (`Over`), never the row as it was read.

**Recurrence.** A tick is `StartTick`, then for each due row `Claim`, `ReadTemplate`,
`InsertCard`; `CloneFails`, `TickFails` and `Restart` are its failures; an edit is
`SetRecurrence`, `StoreRule` or `ClearRecurrence`, `Deactivate`. The clock moves at any
time, so that ticks of different moments overlap and a server may hold a row it read long
ago. `consumed` is history: the slots the claims took; so is `astray`: the cards whose
schedule went back, since a claim took a row that had come due again at another slot than
the one read (`DueAgain`), or a rule was written after its first slot had passed. The
refinement maps the last slot consumed of each template to `last`, the claims whose clone
is under way to `pending`, and the cards to `delivered`, each with how many there were of
its slot: the abstract step only ever delivers the first. A card that goes astray is
`forsaken` there: nothing more is said of it, and everything still of the others.

**Attachments.** `StatBlob`, `RenameBlob`, `FindDuplicate`, `InsertFile` upload;
`DeleteRow`, `CountRows`, `UnlinkBlob` delete. A content stands for its hash and the
path made of it. Any two requests overlap; an upload remembers which deletes of its bytes
and which uploads of them to its card were in flight beside it (`met`), and leaves its row
in the histories `raced` and `doubled`, of which the properties excuse no more than that.

**Grants.** A grant is an access token and the refresh row that owns it. A handler
is `Redeem`, `ClaimCode`, `Member`, `Mint`, `InsertRefresh`; or `Refresh`, `Member`,
`Retire`, `RetireAccess`, `Mint`, `InsertRefresh`; or, on a replay, `Lineage`,
`LineageRetire`, `LineageAccess`, `Ended`; a revocation is `Retire`, `RetireAccess` or the
second alone. Requests of every kind overlap at every await, and any may be cut short. The
client may miss any answer (`held`). `forked` is history: a refresh went on from a token
that another request had retired since it was read. So is `doomed`: the grants a client
held when it presented what a refused replay ended.

**Import.** `Preview` tells the file row by row from the index a commit of that moment
reads, and is kept beside the commit (`foreseen`), as the code runs one function twice. Rows name a key, a lane and
a customer, or none; chunks, updates, lanes and customers may fail, and the commit
may stop. A name is a spelling: `NameKey` is what it is looked up by (trimmed, in lower
case), `Stored` what the column keeps of it (255 characters). The preview collects
spellings, the commit creates one name for each key and remembers it whole.

**Sharing.** `column` is the JSON block, which a handler reads at its call and
`WriteAccess` puts back whole. An address stands for its salted hash and a code for
its own; the codes mailed are a set, numbered in order. The mail between the two always
arrives. Any two requests overlap. History says what the column cannot: the code last
mailed to each address (`latest`), the wrong guesses answered against each code, who was
taken off the list, and `lost`, the codes and addresses a write found changed since its
request read the column, whose change it overwrote.

**Documents.** `sheet` is the month's rows, `papers` the invoices with the lines as
they were sealed, `signers` the keys. A request is `Draw`, `ReadActive`, [`UseSigner`
or `CreateSigner`], `Certify`; corrections, deletions, voids, prices, retired keys and
edits of the record (`edits` counts them) come in between, counted by `incidents`. Money is in cents and
rounds as `Math.round` does; a hash is the value it is the hash of, a signature the
pair of that value and the key. `RowsAsSealed` and `Verdict` are the three checks of
the public page.

**AgentRuns.** A terminal picks a card (`Pick`: named, or offered by `next_task`),
starts a timer (`Clock`, `ClockRefused`; `LeaveBe` is the start hook that finds one
running), stops and reports (`Stop`; `LogRun` is `ci-report`), and attests
(`AttestOwn`). `Dies` leaves a timer running; `Amend` (to a day to come as well),
`AttestOther`, `SetBudget`, `Archive` and `NewDay` are what people and time do. What was
used is a measurement (`Measures`): tokens in total and itemised, cache traffic and its
lifetime, a cost or none. A stop claims what the price table answers to the split the
command or hook sends (`ClaimsOf`); the attestation stores the price of the split made
from the evidence (`Evidence`), and `Exact` says when the two are the same arithmetic. A
card stands for its stream. `overruns` is history: the sessions each terminal has begun on
an offer since the stream was exhausted, and `Exhausted` is written beside the code's own
sum.

**Linking.** Mint is `MintLink`, `DropFor`, `InsertCode`; a link is `Peek`,
`ClaimLink`, `FreeAccount`, `FreePerson`, `Bind`, and a restart (`LinksStop`) may come
between any two. `bound` is history: the chats each code was spent for.

**Accounts.** `user` is the TOTP columns, `letters` the reset rows, `tokens` every
token signed, with what was shown to earn it. A request on the second factor is a read
and a write: `Setup` and `SetupWrite`, `Verify` and `VerifyWrite`, `SpendSlip` and
`SpendWrite` (which goes on to `DisableWrite` when it turns the factor off), `Disable`,
`Regenerate`. A reset is `Redeems`, `SetPassword`, `StampLetters`. The right password
and the right code of a secret are given; what a wrong one changes is a counter in
memory. `buried` is history: how many letters were out when a redemption last ran to its
end, which each redemption notes as it begins. A token is not forgotten when it expires: the properties hold of it for longer.

**SignOn.** A callback is `Callback` (the nonce is consumed), `FetchProfile`, `Lookup`,
`MatchAddress`, [`CreateUser`], [`Bond`], `PassOver` or `JoinByInvite` and
`StampInvite`, [`MakeHome`], `MintHandoff`; `Exchange` redeems the handoff. `Register`
shares `CreateUser` and `MakeHome`. At the provider addresses change and are confirmed
at any moment. `known`, `vouched` and `cut` are history: whom a subject was taken for,
which addresses were confirmed, which accounts were cut short.

**Policy.** `required` is the row, `kept` the cached entry. Whoever asks either finds a
fresh entry (`Hit`) or reads and keeps (`Load`, `Keep`); an administrator asks three
times, at the gate, in the action and in `setOrgSecurity`, before `WritePolicy` and
`ForgetPolicy`. `late` is history: the entry was read before the last write and kept
after it.

## 6. Runs

| run | instance | question |
|---|---|---|
| `ledger_serial` | one request at a time; 2 entries, 2 invoices, clock 0..1 | does the ledger keep its promises when nothing interleaves? `TypeOK`, `OneTimer`, `BilledOnce`, `LocksMatchBills` (`FrozenHoursStand` and `VoidReleases`), `HoursAreCertified` (the refinement of `CertifiedHours`) |
| `ledger_concurrent` | two requests, restarts; 1 entry, 2 invoices | what survives any interleaving and a restart at any await? `LinesAreBillable`, `MetricsAreAgents`, `LockNotStolen`, `DocumentsAreFinal` |
| `ledger_settles` | two requests, no restart, fair | what holds when every await is resumed? `LockNamesBill`, `AttributionStands`, `IssuedGetsCertified` |
| `ledger_two_timers` | two starts | violates `OneTimer` |
| `ledger_double_bill` | two generates | violates `BilledOnce` |
| `ledger_forgotten` | one request, clock 0..2, limit 1 | violates `NoOverlongEntry` |
| `billing_order` | one handler, 2 subscriptions, 4 acts | do plan, cache and bill agree with Stripe once everything in flight is handled? `TypeOK`, `PlanAgrees`, `FreeKeepsNothing`, `BillFollowsRoll` |
| `billing_unlock` | one handler, 1 subscription, 3 acts, fair | `PaidIsUnlocked` |
| `billing_seats` | joins and removals on Business | violates `SeatsFollowRoll` |
| `billing_items` | plan changes with a seat item | violates `ItemsAreLive` |
| `services` | the twelve scenes below, one at a time; fair ticks | Board: `TypeOK`, `DepsSound`, `PushIsSound`, `NeverPulledBack`, `StatusFollowsDates`, `ScheduleIsTrue`, `AppsMatchLane`. Recurrence: `NextIsFirst`, `FiresAtMostOnce`, `RuleFires`. Attachments: `AttachmentsHold`. Grants: `GrantsHold`. Import: `ImportsHold`. Sharing: `DetailsAreEarned`. Documents: `DocumentsAgree`, `VerdictIsExact`. AgentRuns: `WallHolds`, `DollarsAgree`, `EvidenceIsOwn`. Linking: `LinksAreExclusive`. `AccountsHold`, `SignOnHolds` and `PolicyBites`, of the modules they are named for |
| `board_push` | four cards, one rescheduled | violates `PushReaches` |

**Bounds.** One member, who is also the manager, and one customer: no query joins
two members' rows and no property relates them, and the proofs hold for any number.
Two invoices and one entry are the least for which an hour can be billed twice or a
lock pass from one invoice to another; two entries are the least for two timers. Two
slots, because each race here is one request's read against another's write. The
serial run adds the second entry instead of the second request. `MaxSpan` is one
tick, so that a clock of two ticks has an overlong session. A call that will insert
begins only when an id is left for it (`RoomForEntry`, `RoomForInvoice`), so a bound
never stops a handler midway. Between them the three passing runs of the
ledger call every operation; each calls those its properties depend on.

In the billing runs `MaxInputs` bounds what people, Stripe's clock and restarts do;
deliveries, retries and handlers are not bounded. Four acts are enough to buy, cancel,
buy again and have a restart or a plan change in between; two subscriptions are the
least for one to outlive another. One included seat and a cap of three members give
the quantities 0, 1 and 2. `ProcessedLimit` is 2, so that the set of handled events
does forget. `billing_order` explores only states where `calm` holds (`StaysCalm`): it
never becomes true again, and every property there but the type assumes it. What
happens without it is listed under the hazards: the code compares no event times, and
the last snapshot applied wins.

The scenes of `services`, each the least in which its races and its arithmetic occur. Where
the last column names a history, the overlap is in the model and in the run, and the
property excuses only what it did:

| scene | bounds | assumed by the properties |
|---|---|---|
| Board | one request, three cards, one call more than it takes to draw them, two lanes, one app, a card is made with a length (an edit can clear it), a crash anywhere; four cards in `board_push` | one request at a time: two in flight can close a cycle. `StatusFollowsDates` is about cards to which nobody gave a status by hand |
| Recurrence | two servers, two templates, a morning and an evening daily rule, four moments, two edits by one editor, one failure or restart; the clock moves at any time | one editor: two make two rows of one card. A card is promised its slots until it is `astray`. `NextIsFirst` takes every kind of rule from every moment of four months |
| Attachments | two requests, two holders, one content, two files | one content is enough: no step reads the rows of another. `RowHasBlob` leaves out the rows that `raced`, `OneRowPerContent` pairs of rows that were `doubled` |
| Grants | two requests, three grants, four calls | `OneLiveGrant`: until a refresh `forked`. `RefusalEndsGrant` is about what the client held when it asked |
| Import | files of three rows with repeated and refused ones, four lane names of which two spell one and one is longer than the column, two spellings of a customer, chunks of two, three commits, two faults | one import at a time. One lane of a name, save of one that is what the column keeps of a longer (`Lasts`) |
| Sharing | two requests, four reads, two codes, two attempts, a clock of two | a code is judged unless a write overwrote a change of it, an address likewise (`lost`) |
| Documents | two rows at work and five in the folds, two invoices, two keys, two price lists, two requests, two incidents | the writes of a certification are one step: Ledger has their order |
| AgentRuns | two terminals of one seat, a stream with a budget and none, two days that are each a month, three sessions of which one may be there at first, one measurement that names its cost and one that the table prices, with cached tokens inside the total, one act of people or of time | starting and stopping are one step each: Track has their races |
| Accounts | two requests, two batches of two codes, two secrets, two letters, five requests or restarts | `SecondFactorStands`: requests on the second factor do not overlap (`spaced`), though any may be cut short. `LettersDieTogether`: about redemptions that begin after another came to its end (`buried`) |
| SignOn | two requests, one subject at the provider and two addresses, one invitation, two sign-ins begun, three visits | `SubjectIsOnePerson`: callbacks of one subject do not overlap (`single`). `EveryoneHasHome`: no restart and no full plan in the creation (`cut`) |
| Policy | one request and one administrator, two ticks of the clock, entries kept for one, four requests or restarts | one process, one administrator at a time, and an entry that is not `late` |
| Linking | two requests, two members, two chats, two codes, four calls, one tick of the clock | where it says `alone`, no two mints and no two links overlap |

**Deadlock** is not checked: clients may stop calling, and at the bounds nothing is
left to call.

**Fairness.** `FairSpec` is weak fairness of `Handle(s)` for each request: Node's
event loop resumes a handler whose awaited query has settled. It is used in the run
without restarts, since after one an inserted invoice is never signed: nothing in the
code resumes it. No fairness is assumed of clients or the clock.

For billing, `FairSpec` adds strong fairness of delivering an unhandled event of each
type, strong because a busy handler disables it: Stripe retries for days.

In `services` the ticks of the scheduler are weakly fair for each server, and nothing
else is: `setInterval` keeps calling `tick`, whose awaits return or throw, and `finally`
clears its guard. The fairness is that of `RecurrenceFairness`, limited to its scene.
`FiresAtMostOnce` is the refinement of `AtMostOnce`, `HoursAreCertified` that of
`CertifiedHours`; neither needs any.

**Symmetry.** `ledger_concurrent` permutes the two slots, which the specification
does not tell apart; it checks no liveness.

## 7. Findings

- **Two timers** (`ledger_two_timers`). `track.ts:14` and `docs/concepts.md:239` say
  a member has at most one open entry. `time_entry.start` reads and inserts in
  separate statements and no index forbids a second open row.
- **Billed twice** (`ledger_double_bill`). `docs/billing.md:232` says a second
  generate is refused. It is if the first has finished: the check is made at the
  draft and the lock taken three awaits later, and `certify` does not count the rows
  it locked.
- **Forgotten overnight** (`ledger_forgotten`). `docs/concepts.md:242` says an
  entry open longer than a day cannot be stopped normally. A break cuts it without
  asking.
- **The bill stays up** (`billing_seats`). `docs/billing.md:67` says the bill follows
  the roll without anybody reconciling. The key of a seat update names the quantity
  alone, so after 51, 52 and 51 humans within a day the third update meets the first
  one's key with another body and is refused; the error is swallowed.
- **A removed seat item is remembered** (`billing_items`). `state.ts:11` calls the
  billing row a cache rebuilt by every webhook and by `billing.sync`. Items are merged
  and never dropped, so after Business to Team the deleted seat item stays, and the
  change back to Business names it and is refused by Stripe.

- **The push stops short** (`board_push`). `cascade.ts:4-6` says every task that
  depends on a rescheduled one, directly or not, is pushed behind it. The walk visits a
  card once (`cascade.ts:82`), so a card that is moved again by a longer path does not
  push its own dependents a second time.

Other places where the code does something other than it says, met while modelling and
proving.
The models follow the code, and the properties except them by the assumptions and the
histories named above; no run is spent on them.

- The cascade ends a card at start plus duration and ignores a later due date
  (`cascade.ts:103` against `cascade.ts:10-11` and `taskOps.ts:55-56`).
- A detach removes the attachment before it clears the cards (`streamOps.ts:265`); after
  a restart in between only a second detach repairs them.
- `externalKey` is called unique in an organization (`sync.ts:16-17`, `plan.ts:240`), and
  `db/schema.ts:136` has no index that makes it so; two `setRecurrence` calls
  (`recurrences.ts:95`) can likewise give a card two rules.
- A recurring slot is cloned twice when two servers tick at different moments: one claims
  the first slot and moves the row to the second; the other read the row before, ticks
  after the second slot, still finds `next_run_at` due and clones the first again, so that
  the second is never cloned (`scheduler.ts:87-115`, against `scheduler.ts:17-21`). A rule
  written after the first slot computed for it has passed goes back in the same way.
- Deleting a card leaves the bytes of its attachments, and an upload that races a delete
  of the same content keeps a row without bytes (`attachments.ts:230`). Two uploads of the
  same bytes to one card in flight make two rows, "one row, so a retried upload is
  idempotent" notwithstanding (`routes.ts:122-124`).
- A code presented again between its claim and the insert of its grant is answered "every
  token issued from it has been revoked" when none exists yet; the grant is then minted and
  stays (`token.ts:96-98`, `:114-123`, `store.ts:126`, against `token.ts:7-8`). A
  redemption that read the code as unused and lost the claim is refused with nothing
  revoked (`token.ts:114-116`).
- `retireRefresh` does not ask whether the token is still live (`store.ts:195`): two
  refreshes of one token in flight both get a grant, and so does a refresh that overlaps
  the replay that ends its grant.
- Two writers of the access block lose one another's change (`access.ts:151-160`, which
  says so of codes): a code revoked, spent or replaced meanwhile is live again, a guess
  goes uncounted, an address taken off the list is back on it.
- A dry run names two spellings of one lane or customer where the commit makes one
  (`apply.ts:262`, `:305-306`). A name longer than the column is stored cut and looked up
  whole, so every import makes it again (`apply.ts:563-586`).
- A run's claim is to be the same arithmetic as its evidence (`agent.ts:146-150`). It is
  not for a total that holds cache traffic, which the claim prices twice
  (`agent.ts:119-131` against `cost.ts:117-122`), nor for a cache write of an hour, whose
  lifetime `usage.price` is not told.
- The wall counts entries dated ahead, which `time_entry.update` allows, and the report does
  not (`budget.ts:104`, `track.ts:354-358`, `summary.ts:49-50`), although `budget.ts:16-17`
  says bar and block agree. `DollarsAgree` states the difference.
- A lane that is archived has no wall, and `next_task` still offers its cards
  (`budget.ts:125-126`, `nextTask.ts:87-117`, against `budget.ts:4-8`).
- Two reset letters of one account redeemed together both set the password, and a restart
  between a password and the stamp leaves every letter usable (`auth.ts:133-144`, against
  `auth.ts:126-130`).
- Deleting a card or a customer nulls the references of sealed rows
  (`db/schema.ts:166-169`), so a genuine invoice whose hours nobody touched reports
  changed entries, which `docs/billing.md:285` explains as moved ledger rows.
- A seat update that changes nothing at Stripe raises no event: if its answer is lost, a
  quantity that an answer recalled by Stripe left in the cache stays there, and the next
  change of the roll to that quantity is skipped (`service.ts:610`). Met
  in the proof of `BillFollowsRoll`, 53 steps from the start, out of the reach of
  `billing_order`; the property takes such an answer for one still `owed`.
- The overview says over budget above the reported cost (`hybrid.ts:360`); the wall goes
  up at the verified cost (`budget.ts:68`), although `budget.ts:16-17` says bar and
  block agree.
- Attesting again without a price drops the verified cost: the claim counts against the
  budget again, while `fold.ts` counts nothing. `DollarsAgree` states the difference.
- `agent-run --task` asks no budget, and a stop closes whichever entry of the seat is
  open, so a report can land on an entry another terminal began (`agent.ts:57`, `:155`).
- Two links in flight leave one member with two accounts or the reverse, and two mints
  two live codes (`identity.ts:66-68`, `linkCodes.ts:286`).
- A recovery code is to open the door once (`mfa.ts:94-95`): two sign-ins in flight that
  present one code both pass, and of two that present different codes the later write
  puts the other one's code back.
- A policy change is said to invalidate the cache at once, so that the cache only serves
  the unchanged case (`security.ts:10-12`): a request that read the row before the write
  keeps the old value after the invalidation, for up to five seconds.
- A sign-up through a provider that the plan refuses, or a restart cuts, leaves a user
  with an identity and no organization, and no later sign-in makes one (`link.ts:93-101`).
- `user_identities` has no unique index on provider and subject (`db/schema.ts:366`): two
  first callbacks of one subject in flight can bind it to two accounts.
- One `task.update` that completes a card and gives it a start writes the status the
  dates suggest over `completed` (`plan.ts:372` and `:414-415`: `deriveStatus` is asked about
  the row as it was), although `taskOps.ts:311-312` says completed cards are never
  re-derived; the card is then completed and in progress, and unscheduling it leaves it
  so. Met in the proof of `StatusStands`, which excludes it by `DatesApart`.

## 8. Proofs

Proved for every value of the constants: any number of members, rows, invoices, cards,
accounts, requests in flight and steps. Each theorem is about the `Spec` of its
component (`BoardSpec`, `GrantSpec`, ...), whose actions `Services` takes as they are.
A theorem that needs a condition its run states as an instance (one slot, say) names
it; the finding that refutes the property without it is given. Almost no property is
inductive: a handler that writes after an await depends on what it has read, so each
invariant adds, for every program counter, what the handler knows and what nobody may
have changed since.

| theorem | says | argument |
|---|---|---|
| `LedgerProofs!TypeCorrect`, `TypesHold` | `[]TypeInv`, `[]TypeOK` | `WellFormed` adds to `TypeOK`, for each program counter, that the row, id, bill or invoice it needs is there |
| `LedgerProofs!LockStays` | `LockNotStolen` | `NextRows`: what one step can do to one row, proved once per handler. A lock is only taken while free |
| `LedgerProofs!AttributionIsFinal` | `AttributionStands` | the same lemma, with `Allocated` (no row at or above the serial), so that an id is never used twice |
| `LedgerProofs!MetricsHold` | `[]MetricsAreAgents` | `Honest`: a stop in flight holds tokens only if the row it will write is an agent's; it needs the step lemma of `AttributionIsFinal`, since the row may change between the read and the write |
| `LedgerProofs!OneTimerHolds` | `OneAtATime` implies `[]OneTimer` | `Poised`: what a lone handler read about the open entry is still true when it writes. The first finding refutes it without `OneAtATime` (any two slots are the same) |
| `InvoiceProofs!LinesHold`, `LocksHold` | `[]LinesAreBillable`, `[]LockNamesBill` | `InvoiceInv`: the bill is followed from the draft through the insert and the signature to the locks, for any interleaving and restart; the bill a lock names lists the row, and may have been voided since, its rows not yet released; numbers come from a serial (`Numbered`), and no two handlers sign one invoice (`OneSigner`) |
| `InvoiceProofs!DocumentsStand` | `DocumentsAreFinal` | a step of `InvoiceInv`: who signs an invoice finds it unsigned |
| `InvoiceProofs!BilledOnceHolds`, `LocksMatch` (from `FrozenHoursHold` and `VoidReleasesHolds`) | the property, if `OneAtATime` and no restart | `SerialInv`: every line of a standing invoice has its row, locked by it with the sealed hours (`AllHeld`), save the bill being locked, whose rows are still free and as drafted (`AllSettled`); every lock is a standing invoice's, save the one being released. A restart after the signature leaves rows free; the second finding refutes it for two requests |
| `InvoiceProofs!LedgerCertifies` | `HoursAreCertified`, the refinement of `CertifiedHours`, under the same assumptions | a signature is `Sign`: the rows drawn are still as drawn and free (`AllSettled`), and a row a standing invoice charges for is locked (`ChargedIsHeld`). A void is `Withdraw`. Start, stop, update and delete each write one row that is free, which is `Correct`. Draft, issue, lock, unlock, approval and the loss of a customer's reference stutter: `Reading` sets the reference aside |
| `ServiceProofs!AttachmentsMatch` | `[]AttachmentsHold` | `FilingInv`: an upload past its rename keeps the bytes, since whoever is about to unlink them has seen the last row go, or it has met that delete; who overlaps whom is known to both sides (`MeetingsAreKnown`), so that a row which is neither `raced` nor `doubled` was written with nobody beside it |
| `ServiceProofs!OneGrantLives` | `[]GrantsHold` | `GrantInv`, over requests that overlap at every await: of the live refresh tokens and the handlers about to insert one there is one at most until the line is `forked` (`OneLine`); the family a replay has read holds what its client held, and what it retired stays so |
| `ServiceProofs!LinksStayExclusive` | `[]LinksAreExclusive` | `LinkInv`: what a mint or a link has freed stays free until it binds, while no other runs (`alone`); a code's claim is atomic, whoever else runs |
| `ServiceProofs!PolicyAlwaysBites` | `[]PolicyBites` | `PolicyInv`: a kept entry or one just read is the row, or `late`; an administrator without a second factor turns on only what is on |
| `ServiceProofs!AccountsStand` | `[]AccountsHold` | `AccountInv`: every token carries what earned it, a slip spent was issued; while requests are `spaced`, a handler's read of the second factor is still the row when it writes. Every letter out when a redemption came to its end is used (`BuriedAreUsed`), so none that begins later can hold one of them |
| `ServiceProofs!SignOnStands` | `[]SignOnHolds` | `SignOnInv`: who a callback takes the subject for was vouched for by the provider; a subject is one person while its callbacks are `single`; whoever creates an account is on the way to its organization, unless it was `cut` |
| `WorkProofs!EvidenceStands` | `[]EvidenceIsOwn` | `AgentInv`: a terminal about to attest has closed the entry it names with a claim made on the same measurement, and no other terminal reopens it. Claim and evidence are one price where `Exact` says so, by arithmetic over the two splits |
| `WorkProofs!WallStands` | `[]WallHolds` | `WallInv`: past the wall a terminal that has begun its one session holds no other offer of the stream, and an offer made past the wall is of another stream. A lane that is archived or gets another budget, and a new month, start the count over. The offer asks `MonthToDateSpend` and the property asks `Reckoned`, a fold of its own over the rows; both are shown to be one sum (`SpendIs`, `ReckonIs`), which needs that a verified cost is an attestation's (`RowsAreTold`) |
| `WorkProofs!DollarsStand` | `[]DollarsAgree` | `WallInv` again: an open row has no cost. The fold of the report is carried through row by row (`ReportIs`): at each row every part of the totals is the sum over the seats and over the streams (`AddsUp`), and a stream's bucket is the sum over its rows; then the spend, less what is dated ahead, is compared with the buckets row by row (`SpentIsFiled`) |
| `WorkProofs!VerdictStands` | `[]VerdictIsExact` | `DocumentInv`: what each invoice sealed and which rows and records have been touched since; the sum of the record is never computed, only compared |
| `WorkProofs!AgreementStands` | `[]DocumentsAgree` | `AgreeInv`: the month is a finite set of rows, and what each issuer in flight and each certified paper holds is a snapshot that redraws as it was totalled. A document's sums group the same rows differently (lines by stream and task, the parts of a line by source, the customer's amounts by rate): a sum over the rows is the sum over the groups of the sums within them (`SumGroups`), whatever they are grouped by, and each rounding adds half a unit at most, so that a bound on each line is a bound on the total (`SumsNear`). Lines and rows are carried over to each other by the key that names them (`SumMaps`) |
| `WorkProofs!DetailsStayEarned` | `[]DetailsAreEarned` | `SharingInv`, over any overlap: every code in the column was mailed to its address, and unless a write has overwritten a change of it, it is unspent, the last one mailed there and counts every guess against it (`StillGood`); each request writes back what it read, but for the one code and address it is about |
| `WorkProofs!ImportsStand` | `[]ImportsHold` | `NothingTwice`: what a commit is about to insert is logged nowhere yet and, while it reads rows, its index knows every key and interval there is and the key of every name, save of a name that is what the column keeps of a longer (`Lasts`). `KeysFit`: what is pending of a key fits beside its cards, within the rows met so far. `WordKept`: the dry run's fold is unfolded into a chain (`PreviewRuns`) which the commit follows row by row; after that, what is done and what is left make what was foreseen, one spelling for each key, while the commit is `whole` |
| `ServiceProofs!RowsStand` | `[]RecurrenceTypeOK` | `ScheduleInv` |
| `ServiceProofs!SlotsFireOnce` | `FiresAtMostOnce`, the refinement of `AtMostOnce` | `ScheduleInv`, for a clock that moves at any time: a tick in flight read a moment that has come and rows that were due then; unless its card is `astray`, a row's next slot is after every slot consumed, one server holds a claimed slot of which there is no card yet, and a slot has one card. Then step by step: a claim is the abstract take, an inserted card the abstract delivery, a failure the abstract loss, a schedule that goes back the forsaking of its card, everything else a stutter |
| `BillingProofs!BillingTypesHold` | `[]TypeOK` | first part of `BillingInv` |
| `BillingProofs!PlanIsTrue`, `FreeHasNoRow` | `[]PlanAgrees`, `[]FreeKeepsNothing` | `BillingInv`: while handlers are alone (`calm`), what the last writer read follows from how far Stripe has told it (`Told`), and each handler in flight keeps the truth it has established (`Keeps`) |
| `BillingProofs!BillStands` | `[]BillFollowsRoll` | `SeatInv`, over `BillingInv`, while `calm`. What is posted for the seats is what the roll says then (`Aims`); an answer Stripe keeps holds the quantity that was asked (`AnswersCount`). Once the last `updated` that says how the subscription is now was handled (`AllSaid`), nothing out of date is still to come (`InStep`, `CaughtUp`), so that organization and cache know the subscription (`Kept`), the quantity in the cache is Stripe's and Stripe's is the roll's, unless one is `owed` or the one handler in flight is about to put it right (`Fits`). A change that Stripe announces starts this over (`Announces`); one that changes nothing is not announced, and there the answer has to arrive |
| `BoardProofs!BoardInductive` | `OneRequest` implies `[]BoardInv` | `Knows`: what the one handler in flight read is still so; `Pushing`: what is left to write moves its card later |
| `BoardProofs!DependenciesStand`, `LanesStand` | `[]DepsSound`, `[]AppsMatchLane` | parts of `BoardInv`. A path round a card would have gone round before the edit, or through the new edges, which the cycle test followed (`Reached` is proved closed). Two edits in flight can close a cycle, so `OneRequest` (any two slots are the same) is needed |
| `BoardProofs!PushesForward` | `NeverPulledBack` | the fold over the rows that each visit of the walk makes, unfolded and carried by induction: a column it writes is a later day |
| `BoardProofs!BoardTyped` | `OneRequest` implies `[]BoardTypeOK` | `TypedInv`: what each handler has still to write is a row of the right shape |
| `BoardProofs!PushStands` | `OneRequest` implies `[]PushIsSound` | The edited card lies outside the set of cards that wait for it, or the edit would have been refused, and that set is closed; so the walk never comes back to it, and once it has been visited its dependents stay clear of it (`Tracks`, carried through the fold of a visit and the fold of the walk). On a board where each card waits for one at most a card is queued once, by the card it waits for; the size of `seen` counts the turns, so the queue is empty at the end. While the rows are written, the starts they lead to are the walk's (`Leads`) |
| `BoardProofs!ScheduleStands` | `OneRequest` implies `[]ScheduleIsTrue` | From `BoardInv`: nothing waits for itself (`Acyclic`). While cards are left to place, the one that reaches the fewest is ready, so `TopoOrder` is all the cards, dependencies first (`TopoIs`). Each pass is a fold over that order which notes a number per card; what it reads was noted before and is not touched again (`NotesRun`), so the passes satisfy the equations one expects of them (`LongestFor`, `StartsFor`, `LateFor`). A card that starts by its latest start moves no card past its own, or the first such card in order would have one before it (`InTime`); one that starts later drags a card past the plan's end, the last such card in order (`TooLate`). No chain without a repeat weighs more than the longest that ends with its last card, weighed step by step (`NoLonger`), and there is one of that weight (`AsLong`) |
| `SystemProofs!PartsRun` | `Spec` of `Services` implies the specification of each part | a step of the composition is a step of one part and a stutter of every other |
| `SystemProofs!ServicesTyped` | `OneRequest` implies `[]TypeOK` of `Services` | `PartsRun`, `BoardTyped`, `ScheduleInv` |
| `SystemProofs!ServicesHold` | `OneRequest`, `DatesApart` and the assumption `OneEditAtATime` imply every safety property of the run `services` but `NextIsFirst`, each with the exceptions its statement names | `PartsRun` and the theorems above |
| `BoardProofs!StatusStands` | `OneRequest` and `DatesApart` imply `[]StatusFollowsDates` | `PlacedInv`: whatever is to be written puts each row where its start says, over the row as it will be then |

**Folds.** The library's induction theorems take an operator, which the provers cannot
instantiate, so `FoldLemmas` states induction on *sets*: `Counting` (a set with 0 and the
successor of each of its numbers is all of them, from well-foundedness), `FoldExists`
(a fold whose step is a function has a value: `MapThenFoldSet` is a CHOOSE, which says
nothing until something satisfies it) and `FoldRuns` (the values it goes through, one
position after the other). With them an induction over a fold is a chain that stays in a set.
Its second half is about the library's sum over a finite set, a recursion that takes its
elements in an order of its own: whichever goes first, the sum is the same (`SumTakes`), so
that sums can be compared, split, added term by term and run along a sequence (`SumSame`,
`SumSkips`, `SumAdds`, `SumRuns`), follow a change at one place (`SumBumps`), be taken by
groups or through a bijection (`SumGroups`, `SumMaps`), scaled, and kept near each other
(`SumScales`, `SumsNear`).

**Assumptions on constants**, each named where the constant is declared and evaluated by
TLC: `LedgerAssumption` (bounds are naturals, `None` is no value of a column, managers
are members), `LimitsAssumption` and `NoneIsNothing` of Billing, `BoardAssumption` (every
order of the rows names each card id; a plan's usage is a number within its bound),
`AgentAssumption` (costs, counts of tokens and rates are numbers, terminals and streams are finitely many, a
month begins no later than its day, and a behaviour begins with rows that the handlers write:
what a terminal attested is the price of its measurement, a verified cost has its attestation,
an open row no cost), `SheetsHoldRows` (a month is finitely many rows with their columns, each id once), `RatesAreCents` (a rate, where there is one, is
a number), `SharingAssumption`, `LifeIsSpan` and `NobodyIsNone` (lives are
numbers, "none" is nobody's name), `ImportAssumption` (a chunk is a positive number of rows, a file's rows are of its
kind, "no name" is nobody's name, what the column keeps of a name is a name). `Recurrence` assumes an editor at most
(`OneEditAtATime`), times that count from 0 (`TimesRun`) and a calendar whose next slot
is later (`CalendarMovesOn`), which the run's `NextIsFirst` checks of the calendar itself.

**Only model-checked.** Liveness under fairness (`IssuedGetsCertified`, `PaidIsUnlocked`,
`RuleFires`) is out of the prover's reach. `NextIsFirst` is about a table of the calendar, where checking every moment says all there is to say.
The runs that end in a violation say what those theorems must assume.

## 9. Not modelled

`PROJECT.json` lists every component with its status and every hazard with its line.

- **Web client, legacy port, seed and documentation scripts, tests**: most lines of the
  repository. The client computes nothing the server relies on but the cascade, which
  is the same code; the port is the program before this one.
- **Reports, insights, overview, exports**: reads without a state of their own. The two
  folds that money depends on are in `Documents` and `AgentRuns`.
- **API tokens, the sending of invitations, roles**: checks of secrets and columns over
  single rows. What joins and removals do to the seats is in `Billing`; the rest is item 6.
- **AI suggestions, mail, metrics, telemetry, audit, webhooks out, metering**: calls to
  other systems that are made once, after the fact, and change none of this state.
- **GitHub mirror and chat commands**: each side writes what it last heard, and the
  commands are calls of the actions modelled here.
- **HTTP, MCP, sockets**: a request becomes a call of an action. Argument schemas,
  roles and scopes are not modelled.
- Parts left out of modelled components are named in the notes of `PROJECT.json`.
