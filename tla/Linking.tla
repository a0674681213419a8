------------------------------- MODULE Linking -------------------------------
(* Linking a chat account to a member: the one-time codes of                    *)
(* server/integrations/shared/linkCodes.ts, the flow of link.ts that spends     *)
(* one, and linkChatIdentity of identity.ts, which takes three statements.  One *)
(* organization and one provider; codes are not guessed, so the count of failed *)
(* tries, which is kept in memory, is left out.                                 *)
EXTENDS Integers, Sequences, FiniteSets

CONSTANTS
  Persons, Chats,  \* members, and accounts of a chat service
  LinkSlots,       \* requests in flight
  LinkLife,        \* LINK_CODE_TTL_MS
  MaxLinkCodes, LastHour, MaxLinks  \* bounds: codes, the clock, requests

ASSUME LifeIsSpan == LinkLife \in Nat

VARIABLES
  linkCodes,   \* link_codes by number, deleted rows included
  identities,  \* chat_identities: which account speaks for which member
  hour,        \* the clock
  linking,     \* the handler in flight in each slot
  bound,       \* history: the accounts each code was spent for
  alone,       \* history: no two mints overlapped, no two links, no two of one kind
  links        \* bound

linkVars == <<linkCodes, identities, hour, linking, bound, alone, links>>

NoLink == [op |-> "none", pc |-> "none"]

LinkInit ==
  /\ linkCodes = <<>> /\ identities = {} /\ hour = 0 /\ bound = {} /\ alone = TRUE /\ links = 0
  /\ linking = [s \in LinkSlots |-> NoLink]

Goes(s, r) == linking' = [linking EXCEPT ![s] = r]
Arrives(s, r) ==
  /\ linking[s].pc = "none" /\ links < MaxLinks /\ links' = links + 1
  /\ alone' = (alone /\ \A u \in LinkSlots : linking[u].op # r.op)
  /\ Goes(s, r)

Usable(c, now) == linkCodes[c].row /\ ~linkCodes[c].used /\ linkCodes[c].until > now
-----------------------------------------------------------------------------
\* mintLinkCode: spent and expired rows go, then the member's unspent ones, then
\* the new code is inserted.
MintLink(s, person) ==
  /\ Len(linkCodes) + Cardinality({u \in LinkSlots : linking[u].op = "mint"}) < MaxLinkCodes
  /\ Arrives(s, [op |-> "mint", pc |-> "drop", person |-> person, now |-> hour])
  /\ linkCodes' = [c \in DOMAIN linkCodes |->
                     [linkCodes[c] EXCEPT !.row = @ /\ linkCodes[c].until >= hour /\ ~linkCodes[c].used]]
  /\ UNCHANGED <<identities, hour, bound>>

DropFor(s) ==
  /\ linking[s].pc = "drop"
  /\ linkCodes' = [c \in DOMAIN linkCodes |->
                     [linkCodes[c] EXCEPT !.row = @ /\ (linkCodes[c].owner # linking[s].person \/ linkCodes[c].used)]]
  /\ Goes(s, [linking[s] EXCEPT !.pc = "insert"])
  /\ UNCHANGED <<identities, hour, bound, alone, links>>

InsertCode(s) ==
  /\ linking[s].pc = "insert"
  /\ linkCodes' = Append(linkCodes, [owner |-> linking[s].person, until |-> linking[s].now + LinkLife,
                                     used |-> FALSE, row |-> TRUE])
  /\ Goes(s, NoLink)
  /\ UNCHANGED <<identities, hour, bound, alone, links>>

\* runLinkFlow: the code is looked at,
Peek(s, chat, c) ==
  /\ Usable(c, hour)
  /\ Arrives(s, [op |-> "link", pc |-> "claim", chat |-> chat, code |-> c, now |-> hour])
  /\ UNCHANGED <<linkCodes, identities, hour, bound>>

\* then spent by the one UPDATE that finds used_at still null,
\* Mutant: whoever has looked at it spends it.
ClaimLink_Bug(s) ==
  LET r == linking[s] IN
  /\ r.pc = "claim"
  /\ linkCodes' = [linkCodes EXCEPT ![r.code].used = TRUE]
  /\ Goes(s, [r EXCEPT !.pc = "freeAccount"]) /\ bound' = bound \cup {<<r.code, r.chat, s>>}
  /\ UNCHANGED <<identities, hour, alone, links>>

ClaimLink(s) ==
  LET r == linking[s] IN
  /\ r.pc = "claim"
  /\ \/ /\ Usable(r.code, r.now)
        /\ linkCodes' = [linkCodes EXCEPT ![r.code].used = TRUE]
        /\ Goes(s, [r EXCEPT !.pc = "freeAccount"]) /\ bound' = bound \cup {<<r.code, r.chat, s>>}
     \/ /\ ~Usable(r.code, r.now)
        /\ Goes(s, NoLink) /\ UNCHANGED <<linkCodes, bound>>
  /\ UNCHANGED <<identities, hour, alone, links>>

\* and linkChatIdentity clears the account, then the member, and binds the two.
FreeAccount(s) ==
  /\ linking[s].pc = "freeAccount"
  /\ identities' = {i \in identities : i.chat # linking[s].chat}
  /\ Goes(s, [linking[s] EXCEPT !.pc = "freePerson"])
  /\ UNCHANGED <<linkCodes, hour, bound, alone, links>>

FreePerson(s) ==
  /\ linking[s].pc = "freePerson"
  /\ identities' = {i \in identities : i.person # linkCodes[linking[s].code].owner}
  /\ Goes(s, [linking[s] EXCEPT !.pc = "bind"])
  /\ UNCHANGED <<linkCodes, hour, bound, alone, links>>

Bind(s) ==
  /\ linking[s].pc = "bind"
  /\ identities' = identities \cup {[person |-> linkCodes[linking[s].code].owner, chat |-> linking[s].chat]}
  /\ Goes(s, NoLink)
  /\ UNCHANGED <<linkCodes, hour, bound, alone, links>>

\* `unlink` from the chat, or the member's own from the settings.
Unlink(kept) ==
  /\ kept # identities /\ links < MaxLinks /\ links' = links + 1
  /\ identities' = kept
  /\ UNCHANGED <<linkCodes, hour, linking, bound, alone>>

\* The process is replaced.
LinksStop ==
  /\ \E s \in LinkSlots : linking[s].pc # "none"
  /\ links < MaxLinks /\ links' = links + 1
  /\ linking' = [s \in LinkSlots |-> NoLink]
  /\ UNCHANGED <<linkCodes, identities, hour, bound, alone>>

HourPasses ==
  /\ hour < LastHour /\ hour' = hour + 1
  /\ UNCHANGED <<linkCodes, identities, linking, bound, alone, links>>

LinkNext ==
  \/ \E s \in LinkSlots : \/ \E p \in Persons : MintLink(s, p)
                          \/ DropFor(s) \/ InsertCode(s)
                          \/ \E chat \in Chats, c \in DOMAIN linkCodes : Peek(s, chat, c)
                          \/ ClaimLink(s) \/ FreeAccount(s) \/ FreePerson(s) \/ Bind(s)
  \/ \E chat \in Chats : Unlink({i \in identities : i.chat # chat})
  \/ \E p \in Persons : Unlink({i \in identities : i.person # p})
  \/ LinksStop \/ HourPasses

LinkSpec == LinkInit /\ [][LinkNext]_linkVars
-----------------------------------------------------------------------------
\* A code links once, however many chats present it at the same moment, and each
\* link was made by somebody who had the code its member was given.  As long as
\* no two mints and no two links overlapped, an account speaks for one member, a
\* member through one account, and only the newest code of a member can be spent
\* (linkCodes.ts:162-163, 286, identity.ts:66-68), whatever stopped half way.
LinksAreExclusive ==
  /\ \A a, b \in bound : a[1] = b[1] => a = b
  /\ \A i \in identities : \E b \in bound : b[2] = i.chat /\ linkCodes[b[1]].owner = i.person
  /\ alone =>
       /\ \A i, j \in identities : i.person = j.person <=> i.chat = j.chat
       /\ \A c, d \in DOMAIN linkCodes :
            linkCodes[c].owner = linkCodes[d].owner /\ Usable(c, hour) /\ Usable(d, hour) => c = d
=============================================================================
