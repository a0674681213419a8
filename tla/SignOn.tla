-------------------------------- MODULE SignOn --------------------------------
(* Who a sign-in is: the callback of an identity provider with its state and    *)
(* handoff (server/oidc/routes.ts, state.ts), what its profile means for the    *)
(* accounts there are (link.ts), and a registration with a password (auth.ts).  *)
(* An address names one account, for good: users.email is unique and nothing    *)
(* writes it.  One invitation is out.  What the token a handoff delivers is     *)
(* worth is the matter of Accounts.                                             *)
EXTENDS Integers, FiniteSets

CONSTANTS
  Subjects, Mailboxes,  \* people at the provider, and addresses
  Tabs,                 \* requests in flight
  Invited,              \* the address the invitation is for
  MaxFlows, MaxVisits   \* bounds: sign-ins begun, requests

ASSUME NobodyIsNone == "none" \notin Subjects /\ "none" \notin Mailboxes

VARIABLES
  profiles,    \* at the provider: the address of a subject, and whether it is verified
  accounts,    \* the addresses with a row of users
  bonds,       \* user_identities: rows [id, subject, account]
  homes,       \* memberships: the accounts with an organization
  accepted,    \* whether the invitation is accepted
  flows,       \* each sign-in: its nonce, its handoff, the tokens it delivered
  visiting,    \* the handler in flight in each slot
  known,       \* history: the account each subject was taken for, since its last unlink
  vouched,     \* history: the addresses a provider has confirmed for a subject
  cut,         \* history: accounts whose creation a restart or a full plan cut short
  single,      \* history: no two callbacks of one subject overlapped
  counted      \* bounds: rows of user_identities and requests so far

signOnVars ==
  <<profiles, accounts, bonds, homes, accepted, flows, visiting, known, vouched, cut, single, counted>>
atProvider == <<profiles, vouched>>

NoVisit == [pc |-> "none", subject |-> "none", account |-> "none"]
Unsent == [nonce |-> "none", handoff |-> FALSE, delivered |-> 0]

SignOnInit ==
  /\ profiles \in [Subjects -> {[address |-> a, verified |-> FALSE] : a \in Mailboxes}]
  /\ accounts = {} /\ bonds = {} /\ homes = {} /\ accepted = FALSE
  /\ flows = [f \in 1..MaxFlows |-> Unsent] /\ visiting = [s \in Tabs |-> NoVisit]
  /\ known = {} /\ vouched = {} /\ cut = {} /\ single = TRUE
  /\ counted = [bonds |-> 0, visits |-> 0]

Steps(s, r) == visiting' = [visiting EXCEPT ![s] = r]
Ends(s) == Steps(s, NoVisit)
Visits ==
  /\ counted.visits < MaxVisits
  /\ counted' = [counted EXCEPT !.visits = @ + 1]
-----------------------------------------------------------------------------
\* The provider: an address is changed, or confirmed.
ChangeAddress(p, a) ==
  /\ profiles[p].address # a /\ Visits
  /\ profiles' = [profiles EXCEPT ![p] = [address |-> a, verified |-> FALSE]]
  /\ UNCHANGED <<accounts, bonds, homes, accepted, flows, visiting, known, vouched, cut, single>>

ConfirmAddress(p) ==
  /\ ~profiles[p].verified
  /\ \A q \in Subjects : profiles[q].verified => profiles[q].address # profiles[p].address
  /\ profiles' = [profiles EXCEPT ![p].verified = TRUE]
  /\ vouched' = vouched \cup {<<p, profiles[p].address>>}
  /\ UNCHANGED <<accounts, bonds, homes, accepted, flows, visiting, known, cut, single, counted>>

\* GET /start: startFlow keeps the nonce.
StartFlow(f) ==
  /\ flows[f].nonce = "none" /\ \A g \in 1..(f - 1) : flows[g].nonce # "none"
  /\ flows' = [flows EXCEPT ![f].nonce = "pending"]
  /\ UNCHANGED <<atProvider, accounts, bonds, homes, accepted, visiting, known, cut, single, counted>>

\* consumeFlow: a state is taken up once.
ConsumeFlow(f) == flows[f].nonce = "pending" /\ flows' = [flows EXCEPT ![f].nonce = "spent"]

\* GET /callback, with or without the token of the invitation.
Callback(s, f, p, invite) ==
  /\ visiting[s].pc = "none" /\ Visits /\ ConsumeFlow(f)
  /\ Steps(s, [pc |-> "profile", flow |-> f, subject |-> p, invite |-> invite, account |-> "none"])
  /\ single' = (single /\ \A u \in Tabs : visiting[u].subject # p)
  /\ UNCHANGED <<atProvider, accounts, bonds, homes, accepted, known, cut>>

\* fetchProfile; or the provider does not answer.
FetchProfile(s) ==
  LET r == visiting[s] IN
  /\ r.pc = "profile"
  /\ \/ Steps(s, [pc |-> "lookup", flow |-> r.flow, subject |-> r.subject, invite |-> r.invite, account |-> "none",
                  address |-> profiles[r.subject].address, verified |-> profiles[r.subject].verified])
     \/ Ends(s)
  /\ UNCHANGED <<atProvider, accounts, bonds, homes, accepted, flows, known, cut, single, counted>>

SignsInAs(s, account, pc) ==
  LET r == visiting[s] IN
  /\ known' = known \cup {<<r.subject, account>>}
  /\ Steps(s, [r EXCEPT !.account = account, !.pc = pc])

\* resolveOidcLogin.  The subject is the identity, whatever its address is now;
\* Mutant: the address is.
KnownBy_Bug(r) == {b \in bonds : b.subject = r.subject /\ b.account = r.address}

KnownBy(r) == {b \in bonds : b.subject = r.subject}

Lookup(s) ==
  LET r == visiting[s] IN
  /\ r.pc = "lookup"
  /\ \/ \E b \in KnownBy(r) : SignsInAs(s, b.account, "invitation")
     \/ KnownBy(r) = {} /\ Steps(s, [r EXCEPT !.pc = "address"]) /\ UNCHANGED known
  /\ UNCHANGED <<atProvider, accounts, bonds, homes, accepted, flows, cut, single, counted>>

\* a subject without one needs an address its provider has confirmed,
Trusted(r) == r.verified

MatchAddress(s) ==
  LET r == visiting[s] IN
  /\ r.pc = "address"
  /\ \/ ~Trusted(r) /\ Ends(s)
     \/ Trusted(r) /\ Steps(s, [r EXCEPT !.pc = IF r.address \in accounts THEN "bond" ELSE "create"])
  /\ UNCHANGED <<atProvider, accounts, bonds, homes, accepted, flows, known, cut, single, counted>>

\* and is bound to the account of that address,
Bond(s) ==
  LET r == visiting[s] IN
  /\ r.pc \in {"bond", "bondNew"}
  /\ bonds' = bonds \cup {[id |-> counted.bonds + 1, subject |-> r.subject, account |-> r.address]}
  /\ counted' = [counted EXCEPT !.bonds = @ + 1]
  /\ SignsInAs(s, r.address, IF r.pc = "bond" THEN "invitation" ELSE "invitationNew")
  /\ UNCHANGED <<atProvider, accounts, homes, accepted, flows, cut, single>>

\* which is created if there is none: the insert fails if one has come since.
CreateUser(s) ==
  LET r == visiting[s] IN
  /\ r.pc = "create"
  /\ IF r.address \in accounts
       THEN Ends(s) /\ UNCHANGED accounts
       ELSE /\ accounts' = accounts \cup {r.address}
            /\ Steps(s, [r EXCEPT !.pc = IF r.subject = "none" THEN "home" ELSE "bondNew", !.account = r.address])
  /\ UNCHANGED <<atProvider, bonds, homes, accepted, flows, known, cut, single, counted>>

Finishes(r, joined) == IF r.pc = "invitation" \/ joined THEN "handoff" ELSE "home"
InviteStands(r) == r.invite /\ ~accepted /\ r.account = Invited

\* acceptInvitationFor: an invitation that is not theirs, or taken, is passed over,
\* Mutant: and a new account that came with one is given no organization either.
PassOver_Bug(s) ==
  LET r == visiting[s] IN
  /\ r.pc \in {"invitation", "invitationNew"} /\ ~InviteStands(r)
  /\ Steps(s, [r EXCEPT !.pc = Finishes(r, r.invite)])
  /\ UNCHANGED <<atProvider, accounts, bonds, homes, accepted, flows, known, cut, single, counted>>

PassOver(s) ==
  LET r == visiting[s] IN
  /\ r.pc \in {"invitation", "invitationNew"} /\ ~InviteStands(r)
  /\ Steps(s, [r EXCEPT !.pc = Finishes(r, FALSE)])
  /\ UNCHANGED <<atProvider, accounts, bonds, homes, accepted, flows, known, cut, single, counted>>

\* one that stands makes a member, if the plan has room, and is stamped.
JoinByInvite(s) ==
  LET r == visiting[s] IN
  /\ r.pc \in {"invitation", "invitationNew"} /\ InviteStands(r)
  /\ \/ homes' = homes \cup {r.account} /\ Steps(s, [r EXCEPT !.pc = "stamp"]) /\ UNCHANGED cut
     \/ Ends(s) /\ cut' = cut \cup {r.account} /\ UNCHANGED homes
  /\ UNCHANGED <<atProvider, accounts, bonds, accepted, flows, known, single, counted>>

StampInvite(s) ==
  /\ visiting[s].pc = "stamp" /\ accepted' = TRUE
  /\ Steps(s, [visiting[s] EXCEPT !.pc = "handoff"])
  /\ UNCHANGED <<atProvider, accounts, bonds, homes, flows, known, cut, single, counted>>

\* createOrganization, and the membership of its owner.
MakeHome(s) ==
  LET r == visiting[s] IN
  /\ r.pc = "home" /\ homes' = homes \cup {r.account}
  /\ IF r.subject = "none" THEN Ends(s) ELSE Steps(s, [r EXCEPT !.pc = "handoff"])
  /\ UNCHANGED <<atProvider, accounts, bonds, accepted, flows, known, cut, single, counted>>

\* mintHandoff: the browser is sent on with a code, never with the token.
MintHandoff(s) ==
  /\ visiting[s].pc = "handoff"
  /\ flows' = [flows EXCEPT ![visiting[s].flow].handoff = TRUE]
  /\ Ends(s) /\ UNCHANGED <<atProvider, accounts, bonds, homes, accepted, known, cut, single, counted>>

\* POST /exchange: redeemHandoff gives the token for the code.
RedeemHandoff(f) == flows' = [flows EXCEPT ![f].delivered = @ + 1, ![f].handoff = FALSE]

Exchange(f) ==
  /\ flows[f].handoff /\ flows[f].delivered < 2 /\ RedeemHandoff(f)
  /\ UNCHANGED <<atProvider, accounts, bonds, homes, accepted, visiting, known, cut, single, counted>>

\* POST /register: the address is looked up, and CreateUser and MakeHome follow.
Register(s, a) ==
  /\ visiting[s].pc = "none" /\ a \notin accounts /\ Visits
  /\ Steps(s, [pc |-> "create", subject |-> "none", address |-> a, account |-> "none"])
  /\ UNCHANGED <<atProvider, accounts, bonds, homes, accepted, flows, known, cut, single>>

\* DELETE /identities/:id.
UnlinkIdentity(b) ==
  /\ Visits /\ bonds' = bonds \ {b}
  /\ known' = {k \in known : k[1] # b.subject}
  /\ UNCHANGED <<atProvider, accounts, homes, accepted, flows, visiting, cut, single>>

\* The process is replaced: nonces and handoffs are kept in its memory.
SignOnStops ==
  /\ \E s \in Tabs : visiting[s].pc # "none"
  /\ Visits
  /\ visiting' = [s \in Tabs |-> NoVisit]
  /\ flows' = [f \in DOMAIN flows |->
                 [flows[f] EXCEPT !.handoff = FALSE, !.nonce = IF @ = "pending" THEN "spent" ELSE @]]
  /\ cut' = cut \cup ({visiting[s].account : s \in Tabs} \ {"none"})
  /\ UNCHANGED <<atProvider, accounts, bonds, homes, accepted, known, single>>

SignOnNext ==
  \/ \E p \in Subjects : ConfirmAddress(p) \/ \E a \in Mailboxes : ChangeAddress(p, a)
  \/ \E f \in 1..MaxFlows :
       \/ StartFlow(f) \/ Exchange(f)
       \/ \E s \in Tabs, p \in Subjects, invite \in BOOLEAN : Callback(s, f, p, invite)
  \/ \E s \in Tabs :
       \/ FetchProfile(s) \/ Lookup(s) \/ MatchAddress(s) \/ Bond(s) \/ CreateUser(s)
       \/ PassOver(s) \/ JoinByInvite(s) \/ StampInvite(s) \/ MakeHome(s) \/ MintHandoff(s)
       \/ \E a \in Mailboxes : Register(s, a)
  \/ \E b \in bonds : UnlinkIdentity(b)
  \/ SignOnStops

SignOnSpec == SignOnInit /\ [][SignOnNext]_signOnVars
-----------------------------------------------------------------------------
\* A subject is one person, whatever its address becomes, until it is unlinked,
\* as long as its callbacks do not overlap (link.ts:6-8); and it has got into an
\* account only by an address its provider confirmed (link.ts:9-12).
SubjectIsOnePerson ==
  /\ single => \A j, k \in known : j[1] = k[1] => j = k
  /\ \A b \in bonds : <<b.subject, b.account>> \in vouched

\* A sign-in delivers one token at most, however often its state or its code is
\* presented again (state.ts:7-12).
DeliveredOnce == \A f \in DOMAIN flows : flows[f].delivered <= 1

\* Whoever has an account has an organization to work in once its creation is
\* over, unless a restart or a full plan cut that short: then no later sign-in
\* makes up for it (link.ts:93-101, 118-121).
EveryoneHasHome ==
  \A a \in accounts \ (homes \cup cut) : \E s \in Tabs : visiting[s].account = a

\* All three.
SignOnHolds == SubjectIsOnePerson /\ DeliveredOnce /\ EveryoneHasHome
=============================================================================
