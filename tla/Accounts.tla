------------------------------- MODULE Accounts -------------------------------
(* One person's account: the second factor of server/auth/mfa.ts and            *)
(* totpRoutes.ts, the tokens of auth/jwt.ts, and the reset letters of auth.ts.  *)
(* Each request reads the row of users, awaits, and writes what it decided from *)
(* what it read.  A wrong code, an expired letter or token changes nothing and  *)
(* is a step not taken; the count of wrong codes is kept in memory and left out. *)
EXTENDS Integers, Sequences, FiniteSets

CONSTANTS
  Browsers,       \* requests in flight
  SlipsPerBatch,  \* RECOVERY_CODE_COUNT
  MaxBatches, MaxSecrets, MaxLetters, MaxCalls  \* bounds: batches of slips, enrolments, letters, requests

VARIABLES
  user,     \* the row: whether TOTP is on, its secret (0 for none), the unspent recovery codes
  letters,  \* password_resets: for each letter, whether it is used
  tokens,   \* every token signed for the account, and what was shown to earn it
  calling,  \* the handler in flight in each slot
  entered,  \* history: the token that passed auth last
  proved,   \* history: the secrets a code of theirs was verified for
  spent,    \* history: the recovery codes that were accepted
  buried,   \* history: how many letters there were when a redemption last ran to its end
  spaced,   \* history: no two requests on the second factor overlapped
  minted    \* bounds: secrets, batches of codes and requests so far

accountVars ==
  <<user, letters, tokens, calling, entered, proved, spent, buried, spaced, minted>>
history == <<entered, proved, spent, buried, spaced>>

NoCall == [op |-> "none"]
Slips(batch) == {<<batch, i>> : i \in 1..SlipsPerBatch}

AccountInit ==
  /\ user = [enabled |-> FALSE, secret |-> 0, slips |-> {}]
  /\ letters = <<>> /\ tokens = {} /\ calling = [s \in Browsers |-> NoCall]
  /\ entered = {} /\ proved = {} /\ spent = {} /\ buried = 0 /\ spaced = TRUE
  /\ minted = [secrets |-> 0, batches |-> 0, calls |-> 0]

OnFactor == {"setup", "verify", "disable", "codes", "spend"}

\* A handler that has read what it needs, and awaits.
Takes(s, r) ==
  /\ calling[s].op = "none" /\ minted.calls < MaxCalls
  /\ calling' = [calling EXCEPT ![s] = r]
  /\ minted' = [minted EXCEPT !.calls = @ + 1]
  /\ spaced' = (spaced /\ ~(r.op \in OnFactor /\ \E u \in Browsers : calling[u].op \in OnFactor))

Answers(s) == calling' = [calling EXCEPT ![s] = NoCall]

NextBatch == Slips(minted.batches + 1)
MintsBatch ==
  /\ minted.batches < MaxBatches
  /\ minted' = [minted EXCEPT !.batches = @ + 1]
-----------------------------------------------------------------------------
\* What was shown for a token: a first factor (a password, or a provider), a
\* second, or a letter; and whether 2FA was off when it was asked for.
Token(purpose, shown, off) == [purpose |-> purpose, shown |-> shown, off |-> off]
Signs(token) == tokens' = tokens \cup {token}

\* POST /login, and the callback of a provider, which ends the same way.
SignIn ==
  /\ Signs(IF user.enabled THEN Token("mfa", {"first"}, FALSE) ELSE Token("session", {"first"}, TRUE))
  /\ UNCHANGED <<user, letters, calling, minted, history>>

\* verifySessionJwt, on every authenticated request: a purposed token is none.
\* Mutant: whatever bears the signature passes.
VerifySession_Bug(t) == t \in tokens

VerifySession(t) == t \in tokens /\ t.purpose = "session"

Enter(t) ==
  /\ VerifySession(t) /\ entered' = {t}
  /\ UNCHANGED <<user, letters, tokens, calling, minted, proved, spent, buried, spaced>>

PreAuth == \E t \in tokens : t.purpose = "mfa"

\* POST /totp/login with a code of the authenticator.
StepUp ==
  /\ PreAuth /\ user.enabled /\ user.secret # 0
  /\ Signs(Token("session", {"first", "second"}, FALSE))
  /\ UNCHANGED <<user, letters, calling, minted, history>>

\* consumeRecoveryCode, for a sign-in or to turn 2FA off: the list is read,
SpendSlip(s, slip, goal) ==
  /\ user.enabled /\ slip \in user.slips
  /\ IF goal = "login" THEN PreAuth ELSE entered # {}
  /\ Takes(s, [op |-> "spend", slip |-> slip, left |-> user.slips, goal |-> goal])
  /\ UNCHANGED <<user, letters, tokens, entered, proved, spent, buried>>

\* and rewritten without the one code; then the session is signed, or 2FA goes.
SpendWrite(s) ==
  LET r == calling[s] IN
  /\ r.op = "spend" /\ spent' = spent \cup {r.slip}
  /\ user' = [user EXCEPT !.slips = r.left \ {r.slip}]
  /\ IF r.goal = "login"
       THEN Signs(Token("session", {"first", "second"}, FALSE)) /\ Answers(s)
       ELSE calling' = [calling EXCEPT ![s] = [op |-> "disable"]] /\ UNCHANGED tokens
  /\ UNCHANGED <<letters, minted, entered, proved, buried, spaced>>
-----------------------------------------------------------------------------
\* POST /totp/setup: a secret, with TOTP still off.
\* Mutant: a new device can be enrolled over the one in use.
MayEnrol_Bug == TRUE

MayEnrol == ~user.enabled

Setup(s) ==
  /\ entered # {} /\ MayEnrol /\ Takes(s, [op |-> "setup"])
  /\ UNCHANGED <<user, letters, tokens, entered, proved, spent, buried>>

SetupWrite(s) ==
  /\ calling[s].op = "setup" /\ minted.secrets < MaxSecrets
  /\ minted' = [minted EXCEPT !.secrets = @ + 1]
  /\ user' = [user EXCEPT !.secret = minted.secrets + 1]
  /\ Answers(s) /\ UNCHANGED <<letters, tokens, history>>

\* POST /totp/verify: a code of that secret turns it on and mints the slips.
Verify(s) ==
  /\ entered # {} /\ ~user.enabled /\ user.secret # 0
  /\ Takes(s, [op |-> "verify", secret |-> user.secret])
  /\ UNCHANGED <<user, letters, tokens, entered, proved, spent, buried>>

VerifyWrite(s) ==
  /\ calling[s].op = "verify" /\ MintsBatch
  /\ user' = [user EXCEPT !.enabled = TRUE, !.slips = NextBatch]
  /\ proved' = proved \cup {calling[s].secret}
  /\ Answers(s) /\ UNCHANGED <<letters, tokens, entered, spent, buried, spaced>>

\* POST /totp/disable with a live code; SpendSlip is its other half.
Disable(s) ==
  /\ entered # {} /\ user.enabled /\ user.secret # 0
  /\ Takes(s, [op |-> "disable"])
  /\ UNCHANGED <<user, letters, tokens, entered, proved, spent, buried>>

DisableWrite(s) ==
  /\ calling[s].op = "disable"
  /\ user' = [enabled |-> FALSE, secret |-> 0, slips |-> {}]
  /\ Answers(s) /\ UNCHANGED <<letters, tokens, minted, history>>

\* POST /totp/recovery-codes replaces the batch.
Regenerate(s) ==
  /\ entered # {} /\ user.enabled /\ user.secret # 0
  /\ Takes(s, [op |-> "codes"])
  /\ UNCHANGED <<user, letters, tokens, entered, proved, spent, buried>>

RegenerateWrite(s) ==
  /\ calling[s].op = "codes" /\ MintsBatch
  /\ user' = [user EXCEPT !.slips = NextBatch]
  /\ Answers(s) /\ UNCHANGED <<letters, tokens, history>>
-----------------------------------------------------------------------------
\* issuePasswordReset.
Forgot ==
  /\ Len(letters) < MaxLetters /\ letters' = Append(letters, [used |-> FALSE])
  /\ minted.calls < MaxCalls /\ minted' = [minted EXCEPT !.calls = @ + 1]
  /\ UNCHANGED <<user, tokens, calling, history>>

\* redeemPasswordReset: the letter is read,
Redeems(s, l) ==
  /\ ~letters[l].used /\ Takes(s, [op |-> "password", letter |-> l, after |-> buried])
  /\ UNCHANGED <<user, letters, tokens, entered, proved, spent, buried>>

\* the password set,
SetPassword(s) ==
  /\ calling[s].op = "password"
  /\ calling' = [calling EXCEPT ![s].op = "stamp"]
  /\ UNCHANGED <<user, letters, tokens, minted, entered, proved, spent, buried, spaced>>

\* and every outstanding letter of the account stamped; the answer is a session.
\* Mutant: only the letter that was used.
Stamped_Bug(l) == [letters EXCEPT ![l].used = TRUE]

Stamped(l) == [i \in DOMAIN letters |-> [used |-> TRUE]]

StampLetters(s) ==
  /\ calling[s].op = "stamp"
  /\ letters' = Stamped(calling[s].letter) /\ buried' = Len(letters)
  /\ Signs(Token("session", {"letter"}, FALSE)) /\ Answers(s)
  /\ UNCHANGED <<user, minted, entered, proved, spent, spaced>>

\* The process is replaced.
AccountsStop ==
  /\ \E s \in Browsers : calling[s].op # "none"
  /\ minted.calls < MaxCalls /\ minted' = [minted EXCEPT !.calls = @ + 1]
  /\ calling' = [s \in Browsers |-> NoCall]
  /\ UNCHANGED <<user, letters, tokens, history>>

AccountNext ==
  \/ SignIn \/ StepUp \/ Forgot \/ AccountsStop
  \/ \E t \in tokens : Enter(t)
  \/ \E s \in Browsers :
       \/ Setup(s) \/ SetupWrite(s) \/ Verify(s) \/ VerifyWrite(s)
       \/ Disable(s) \/ DisableWrite(s) \/ Regenerate(s) \/ RegenerateWrite(s)
       \/ \E slip \in user.slips, goal \in {"login", "disable"} : SpendSlip(s, slip, goal)
       \/ SpendWrite(s)
       \/ \E l \in DOMAIN letters : Redeems(s, l)
       \/ SetPassword(s) \/ StampLetters(s)

AccountSpec == AccountInit /\ [][AccountNext]_accountVars
-----------------------------------------------------------------------------
\* A password alone opens nothing while 2FA is on: whatever passed auth was earned
\* with a second factor, asked for while 2FA was off, or sent by letter
\* (jwt.ts:5-9).
FirstAloneOpensNothing ==
  \A t \in entered : "first" \in t.shown => "second" \in t.shown \/ t.off

\* As long as requests on the second factor do not overlap, and wherever one is
\* cut short: 2FA is on only with a secret somebody has produced a code for (a
\* half-finished enrolment locks nobody out, mfa.ts:10-13), a code of the slip
\* opens one door, and a new slip replaces the old one.
SecondFactorStands ==
  spaced => /\ user.enabled => user.secret \in proved
           /\ user.slips \cap spent = {}
           /\ \A a, b \in user.slips : a[1] = b[1]

\* No letter sets the password that was out when a redemption before it came to
\* its end, be it that letter or another of the account (auth.ts:126-130): not
\* even after a restart, or with other redemptions in flight.  One that began
\* before that end has read its letter as unused and sets the password again.
LettersDieTogether ==
  \A s \in Browsers : calling[s].op \in {"password", "stamp"} => calling[s].letter > calling[s].after

\* All three.
AccountsHold == FirstAloneOpensNothing /\ SecondFactorStands /\ LettersDieTogether
=============================================================================
