------------------------------ MODULE Sharing ------------------------------
(* Who may read a certified invoice: the allowlist and the mailed codes of      *)
(* server/invoices/access.ts, for one invoice.  Both live in one JSON column    *)
(* that every handler reads, changes and writes back whole; a share sends its   *)
(* letters in between.  An address stands for its salted hash, a code for its   *)
(* own, and a letter leaves with the write it waits for.  Codes are numbered as *)
(* they are minted, which is their order in the column.                         *)
EXTENDS Integers, Sequences, FiniteSets

CONSTANTS
  Addresses,
  Standing,       \* managers and the contractor: eligible without being named
  Initial,        \* initialAccess: the addresses the invoice is issued with
  MaxRecipients,  \* MAX_RECIPIENTS
  MaxLiveCodes,   \* MAX_LIVE_CODES
  MaxAttempts,    \* MAX_CODE_ATTEMPTS
  CodeLife,       \* CODE_TTL_SECONDS
  ReadSlots,      \* requests in flight
  MaxCodes, LastMoment, MaxReads  \* bounds: codes mailed, the clock, requests

ASSUME SharingAssumption ==
  Standing \cup Initial \subseteq Addresses /\ {CodeLife, MaxCodes, MaxAttempts} \subseteq Nat

VARIABLES
  column,      \* snapshot.access
  moment,      \* the clock
  codesMade,   \* codes minted so far
  mailed,      \* history: the codes that were mailed
  latest,      \* history: the code last mailed to each address
  guesses,     \* history: the wrong guesses answered against each code
  opened,      \* history: the redemptions that were granted, in order
  withdrawn,   \* history: addresses taken off the list since they were last put on
  lost,        \* history: codes and addresses that a write found changed since it read
  reading,     \* the handler in flight in each slot
  reads        \* bound

histories == <<mailed, latest, guesses, opened, withdrawn, lost>>
sharingVars == <<column, moment, codesMade, histories, reading, reads>>

NoReader == [pc |-> "none"]

SharingInit ==
  /\ column = [recipients |-> Initial, codes |-> {}]
  /\ moment = 0 /\ codesMade = 0 /\ reads = 0
  /\ mailed = {} /\ latest = [a \in Addresses |-> 0] /\ guesses = [n \in 1..MaxCodes |-> 0]
  /\ opened = <<>> /\ withdrawn = {} /\ lost = [codes |-> {}, people |-> {}]
  /\ reading = [s \in ReadSlots |-> NoReader]

Reader(s, r) == reading' = [reading EXCEPT ![s] = r]

\* A request has read the column and decided what it will write back, and why.
Open(s, op, who, why, next) ==
  /\ reading[s].pc = "none" /\ reads < MaxReads /\ reads' = reads + 1
  /\ Reader(s, [pc |-> "write", op |-> op, who |-> who, why |-> why, read |-> column, next |-> next])
  /\ UNCHANGED <<column, moment, histories>>

Plain == [result |-> "none", code |-> 0, at |-> 0]
CodesBut(who) == {c \in column.codes : c.who # who}
LastFew(codes) == {c \in codes : Cardinality({d \in codes : d.code > c.code}) < MaxLiveCodes}
-----------------------------------------------------------------------------
\* requestAccessCode: an eligible address gets a new code in place of its last,
\* and codes that have expired are dropped on the way.
RequestCode(s, who) ==
  LET code == [who |-> who, code |-> codesMade + 1, until |-> moment + CodeLife, attempts |-> 0]
      kept == {c \in CodesBut(who) : c.until > moment}
  IN
  /\ who \in column.recipients \cup Standing
  /\ codesMade < MaxCodes /\ codesMade' = codesMade + 1
  /\ Open(s, "request", who, [result |-> "mail", code |-> codesMade + 1, at |-> moment],
          [column EXCEPT !.codes = LastFew(kept \cup {code})])

\* redeemAccessCode: the outcome is decided on what was read.  Mutant: a wrong
\* guess is not counted.
Wrong_Bug(entry) == column.codes

Wrong(entry) ==
  IF entry.attempts + 1 >= MaxAttempts THEN CodesBut(entry.who)
  ELSE (column.codes \ {entry}) \cup {[entry EXCEPT !.attempts = @ + 1]}

AnswerTo(entry, typed) ==
  IF entry.until <= moment \/ entry.attempts >= MaxAttempts THEN "dead"
  ELSE IF entry.code = typed THEN "right" ELSE "wrong"

\* Mutant: a code that opened the details stays in the column.
Redeem_Bug(s, who, typed) ==
  \E entry \in {c \in column.codes : c.who = who} :
    /\ Open(s, "redeem", who, [result |-> AnswerTo(entry, typed), code |-> entry.code, at |-> moment], column)
    /\ UNCHANGED codesMade

RedeemCode(s, who, typed) ==
  \E entry \in {c \in column.codes : c.who = who} :
    LET verdict == AnswerTo(entry, typed) IN
    /\ Open(s, "redeem", who, [result |-> verdict, code |-> entry.code, at |-> moment],
            [column EXCEPT !.codes = IF verdict = "wrong" THEN Wrong(entry) ELSE CodesBut(who)])
    /\ UNCHANGED codesMade

\* shareInvoice: an address that is on the list keeps its place.
Share(s, who) ==
  /\ Open(s, "share", who, Plain,
          [column EXCEPT !.recipients = IF Cardinality(@) < MaxRecipients THEN @ \cup {who} ELSE @])
  /\ UNCHANGED codesMade

\* unshareInvoice: the outstanding code goes with the address.
Unshare(s, who) ==
  /\ who \in column.recipients
  /\ Open(s, "unshare", who, Plain, [column EXCEPT !.recipients = @ \ {who}, !.codes = CodesBut(who)])
  /\ UNCHANGED codesMade

\* What a write overwrites: whatever changed since the column was read.
Differ(before, now) == (before \ now) \cup (now \ before)
Loses(r) ==
  [codes  |-> {c.code : c \in Differ(r.read.codes, column.codes)},
   people |-> Differ(r.read.recipients, column.recipients)]

\* writeAccess puts the whole column back, and the request is answered: the letter
\* leaves, the access token is given or the guess is refused.
WriteAccess(s) ==
  LET r == reading[s]
      mails == {c \in r.next.codes : c.code = r.why.code} IN
  /\ r.pc = "write"
  /\ column' = r.next
  /\ lost' = [codes |-> lost.codes \cup Loses(r).codes, people |-> lost.people \cup Loses(r).people]
  /\ mailed' = IF r.why.result = "mail" THEN mailed \cup mails ELSE mailed
  /\ latest' = IF r.why.result = "mail" THEN [latest EXCEPT ![r.who] = r.why.code] ELSE latest
  /\ guesses' = IF r.why.result = "wrong" THEN [guesses EXCEPT ![r.why.code] = @ + 1] ELSE guesses
  /\ opened' = IF r.why.result # "right" THEN opened
               ELSE Append(opened, [code |-> r.why.code, who |-> r.who, at |-> r.why.at,
                                    newest |-> latest[r.who] = r.why.code,
                                    guessed |-> guesses[r.why.code],
                                    named |-> r.who \notin withdrawn])
  /\ withdrawn' = CASE r.op = "unshare" -> withdrawn \cup {r.who}
                    [] r.op = "share" /\ r.who \in r.next.recipients -> withdrawn \ {r.who}
                    [] OTHER -> withdrawn
  /\ Reader(s, NoReader)
  /\ UNCHANGED <<moment, codesMade, reads>>

\* The process is replaced, and with it every handler in flight.
StopReading ==
  /\ \E s \in ReadSlots : reading[s].pc # "none"
  /\ reading' = [s \in ReadSlots |-> NoReader]
  /\ UNCHANGED <<column, moment, codesMade, histories, reads>>

TimePasses ==
  /\ moment < LastMoment
  /\ moment' = moment + 1
  /\ UNCHANGED <<column, codesMade, histories, reading, reads>>

SharingNext ==
  \/ \E s \in ReadSlots :
       \/ \E who \in Addresses : \/ RequestCode(s, who) \/ Share(s, who) \/ Unshare(s, who)
                                 \/ \E typed \in 1..MaxCodes : RedeemCode(s, who, typed)
       \/ WriteAccess(s)
  \/ StopReading \/ TimePasses

SharingSpec == SharingInit /\ [][SharingNext]_sharingVars
-----------------------------------------------------------------------------
\* The details open for a code that was mailed to that very address and has not
\* expired.  Unless a write has overwritten a change made to the code or to the
\* address since it read the column (access.ts:151-159), the code opens them once,
\* no newer one has been mailed to the address by then, fewer wrong guesses than
\* the limit were answered against it, and the address, if it is not a standing
\* one, was not taken off the list (access.ts:377-380, 399-401, 427, 442-444 and
\* unshareInvoice), however many requests overlap.
DetailsAreEarned ==
  \A i \in DOMAIN opened :
    LET o == opened[i] IN
    /\ \E m \in mailed : m.code = o.code /\ m.who = o.who /\ o.at < m.until
    /\ o.code \notin lost.codes =>
         /\ \A j \in DOMAIN opened : opened[j].code = o.code => j = i
         /\ o.newest /\ o.guessed < MaxAttempts
         /\ o.named \/ o.who \in Standing \cup lost.people
=============================================================================
