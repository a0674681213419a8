------------------------------- MODULE Grants -------------------------------
(* One authorization code of the OAuth server and the tokens that come of it:   *)
(* redemption, refresh with rotation, and revocation (server/oauth/token.ts     *)
(* over server/oauth/store.ts).  A grant is an access token and the refresh row *)
(* that owns it, under one id.  The client may miss any answer, and then asks   *)
(* again with what it holds.                                                    *)
EXTENDS Integers, FiniteSets

CONSTANTS
  TokenSlots,  \* requests in flight
  MaxGrants,   \* bound: access tokens ever minted
  MaxAsked     \* bound: requests made

VARIABLES
  codeUsed,    \* oauth_codes.usedAt of the code
  belongs,     \* the approving user is still a member of the organization
  nextGrant,   \* the next id
  access,      \* api_tokens of the code that are not revoked
  refresh,     \* oauth_refresh_tokens of the code,
  retired,     \*   and those of them that are revoked
  held,        \* grants whose tokens reached the client
  asking,      \* the handler in flight in each slot
  forked,      \* history: a refresh went on from a token another request had retired
  doomed,      \* history: grants held when a replay that was refused was presented
  asked        \* bound: requests made

tokenVars == <<nextGrant, access, refresh, retired>>
grantVars == <<codeUsed, belongs, tokenVars, held, asking, forked, doomed, asked>>

NoRequest == [pc |-> "none", op |-> "none", grant |-> 0, known |-> {}, family |-> {}]
Ops == {"redeem", "refresh", "revoke"}

GrantInit ==
  /\ codeUsed = FALSE /\ belongs = TRUE
  /\ nextGrant = 1 /\ access = {} /\ refresh = {} /\ retired = {} /\ held = {}
  /\ asking = [s \in TokenSlots |-> NoRequest] /\ asked = 0
  /\ forked = FALSE /\ doomed = {}

Asking(s, r) == asking' = [asking EXCEPT ![s] = r]
AsksAt(s, pc) == asking[s].pc = pc
AsksOn(s, pc) == Asking(s, [asking[s] EXCEPT !.pc = pc])
Done(s) == Asking(s, NoRequest)

\* A request arrives, whatever others are in flight; known is what the client
\* holds by then, for the properties.
Ask(s, pc, op, g) ==
  /\ AsksAt(s, "none") /\ asked < MaxAsked /\ asked' = asked + 1
  /\ Asking(s, [pc |-> pc, op |-> op, grant |-> g, known |-> held, family |-> {}])
  /\ UNCHANGED <<codeUsed, belongs, tokenVars, held, forked, doomed>>
-----------------------------------------------------------------------------
\* authorizationCodeGrant reads the code: a used one ends every grant of it.
Redeem(s) == Ask(s, IF codeUsed THEN "lineage" ELSE "claim", "redeem", 0)

\* claimCode: the first caller gets the code, another is refused.
\* Mutant: the update does not ask whether the code is still unused.
ClaimCode_Bug(s) ==
  /\ AsksAt(s, "claim")
  /\ codeUsed' = TRUE
  /\ AsksOn(s, "member")
  /\ UNCHANGED <<belongs, tokenVars, held, forked, doomed, asked>>

ClaimCode(s) ==
  /\ AsksAt(s, "claim")
  /\ codeUsed' = TRUE
  /\ IF codeUsed THEN Done(s) ELSE AsksOn(s, "member")
  /\ UNCHANGED <<belongs, tokenVars, held, forked, doomed, asked>>

\* refreshTokenGrant reads the row: a retired one ends every grant of its code.
Refresh(s, g) == g \in held /\ Ask(s, IF g \in retired THEN "lineage" ELSE "member", "refresh", g)

\* membershipRole, after the claim or before the rotation.
Member(s) ==
  /\ AsksAt(s, "member")
  /\ IF ~belongs THEN Done(s) ELSE AsksOn(s, IF asking[s].op = "redeem" THEN "mint" ELSE "retire")
  /\ UNCHANGED <<codeUsed, belongs, tokenVars, held, forked, doomed, asked>>

\* retireRefresh: the refresh token dies, whether or not it has died since it was
\* read, and then the access token it owns; a refresh goes on to issue the next
\* grant, a revocation is done.
Retire(s) ==
  LET r == asking[s] IN
  /\ AsksAt(s, "retire")
  /\ retired' = retired \cup {r.grant}
  /\ forked' = (forked \/ (r.op = "refresh" /\ r.grant \in retired))
  /\ AsksOn(s, "retireAccess")
  /\ UNCHANGED <<codeUsed, belongs, nextGrant, access, refresh, held, doomed, asked>>

RetireAccess(s) ==
  /\ AsksAt(s, "retireAccess")
  /\ access' = access \ {asking[s].grant}
  /\ IF asking[s].op = "refresh" THEN AsksOn(s, "mint") ELSE Done(s)
  /\ UNCHANGED <<codeUsed, belongs, nextGrant, refresh, retired, held, forked, doomed, asked>>

\* issueGrant mints the access token,
Mint(s) ==
  /\ AsksAt(s, "mint") /\ nextGrant <= MaxGrants
  /\ access' = access \cup {nextGrant} /\ nextGrant' = nextGrant + 1
  /\ Asking(s, [asking[s] EXCEPT !.pc = "insert", !.grant = nextGrant])
  /\ UNCHANGED <<codeUsed, belongs, refresh, retired, held, forked, doomed, asked>>

\* and inserts the refresh row that owns it; the answer may not arrive.
InsertRefresh(s) ==
  LET g == asking[s].grant IN
  /\ AsksAt(s, "insert")
  /\ refresh' = refresh \cup {g}
  /\ held' \in {held, held \cup {g}}
  /\ Done(s)
  /\ UNCHANGED <<codeUsed, belongs, nextGrant, access, retired, forked, doomed, asked>>

\* handleRevoke: a refresh token takes its access token along, an access token
\* goes alone.  revokeGrantById retires the row in the same way.
RevokeRefresh(s, g) == g \in refresh \ retired /\ Ask(s, "retire", "revoke", g)

RevokeAccess(s, g) == g \in held /\ Ask(s, "retireAccess", "revoke", g)

\* revokeCodeLineage reads the rows of the code; none, and there is nothing to do.
\* Mutant: the rows that are live.
Lineage_Bug(s) ==
  /\ AsksAt(s, "lineage")
  /\ IF refresh = {} THEN AsksOn(s, "ended")
     ELSE Asking(s, [asking[s] EXCEPT !.pc = "lineageRetire", !.family = refresh \ retired])
  /\ UNCHANGED <<codeUsed, belongs, tokenVars, held, forked, doomed, asked>>

Lineage(s) ==
  /\ AsksAt(s, "lineage")
  /\ IF refresh = {} THEN AsksOn(s, "ended")
     ELSE Asking(s, [asking[s] EXCEPT !.pc = "lineageRetire", !.family = refresh])
  /\ UNCHANGED <<codeUsed, belongs, tokenVars, held, forked, doomed, asked>>

\* It revokes those that were live, and then the access tokens of them all.
LineageRetire(s) ==
  /\ AsksAt(s, "lineageRetire")
  /\ retired' = retired \cup asking[s].family
  /\ AsksOn(s, "lineageAccess")
  /\ UNCHANGED <<codeUsed, belongs, nextGrant, access, refresh, held, forked, doomed, asked>>

LineageAccess(s) ==
  /\ AsksAt(s, "lineageAccess")
  /\ access' = access \ asking[s].family
  /\ AsksOn(s, "ended")
  /\ UNCHANGED <<codeUsed, belongs, nextGrant, refresh, retired, held, forked, doomed, asked>>

\* The refusal that follows.
Ended(s) ==
  /\ AsksAt(s, "ended")
  /\ doomed' = doomed \cup asking[s].known
  /\ Done(s)
  /\ UNCHANGED <<codeUsed, belongs, tokenVars, held, forked, asked>>

\* The member leaves the organization.
Leave ==
  /\ belongs /\ belongs' = FALSE
  /\ UNCHANGED <<codeUsed, tokenVars, held, asking, forked, doomed, asked>>

\* The process that serves the request is replaced.
StopAsking(s) ==
  /\ ~AsksAt(s, "none") /\ Done(s)
  /\ UNCHANGED <<codeUsed, belongs, tokenVars, held, forked, doomed, asked>>

GrantNext ==
  \/ \E s \in TokenSlots :
       \/ Redeem(s) \/ ClaimCode(s) \/ Member(s) \/ Mint(s) \/ InsertRefresh(s)
       \/ \E g \in held : Refresh(s, g) \/ RevokeAccess(s, g)
       \/ \E g \in refresh : RevokeRefresh(s, g)
       \/ Retire(s) \/ RetireAccess(s)
       \/ Lineage(s) \/ LineageRetire(s) \/ LineageAccess(s) \/ Ended(s)
       \/ StopAsking(s)
  \/ Leave

GrantSpec == GrantInit /\ [][GrantNext]_grantVars
-----------------------------------------------------------------------------
\* However often the code and its tokens are presented, one at a time or together,
\* after lost answers and restarts, at most one refresh token of the code is live
\* (token.ts:4-8).  That is so until a refresh goes on from a token that another
\* request retired after it was read: retireRefresh does not ask (store.ts:193),
\* so two refreshes of one token, or a refresh and the replay that ends its grant,
\* leave one live token more.
OneLiveGrant == forked \/ Cardinality(refresh \ retired) <= 1

\* When a code read as used, or a refresh token read as retired, is refused, the
\* grants the client held when it presented it are dead, refresh and access token,
\* and stay so, whatever a restart had left half done and whatever else is in
\* flight (store.ts:118-121).  It says nothing of a grant handed out since, nor
\* of a redemption that read the code as unused and lost the claim: that one is
\* refused with nothing revoked (token.ts:114-116).
RefusalEndsGrant == doomed \subseteq retired /\ doomed \cap access = {}

\* What a stolen or repeated code or token can obtain: one line of grants, and a
\* refusal ends what was held.
GrantsHold == OneLiveGrant /\ RefusalEndsGrant
=============================================================================
