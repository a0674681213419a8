-------------------------------- MODULE Policy --------------------------------
(* The two-factor requirement of an organization: the row behind it and the     *)
(* few seconds it is cached for (server/auth/security.ts), consulted by         *)
(* resolveOrg on every request (orgs.ts) and changed by org.set_security        *)
(* (actions/orgadmin.ts).  One organization, one process, and one administrator *)
(* at work on the policy at a time; each await is a step.                       *)
EXTENDS Integers

CONSTANTS
  Callers,             \* requests in flight
  Administrator,       \* and the one that changes the policy
  Ttl,                 \* TTL_MS
  LastSecond, MaxConsults  \* bounds: the clock, requests

VARIABLES
  required,    \* org_integrations: what the row of kind `security` says, FALSE if there is none
  kept,        \* the cache: NotKept, or the value and the moment it was kept
  second,      \* the clock
  consulting,  \* the handler in flight in each slot
  late,        \* history: the cached value was read before the last write and kept after it
  lockout,     \* history: somebody without TOTP has turned the policy on, with the truth before them
  consults     \* bound

policyVars == <<required, kept, second, consulting, late, lockout, consults>>

NotKept == [at |-> -1]
NoConsult == [pc |-> "none"]
Consulters == Callers \cup {Administrator}

PolicyInit ==
  /\ required = FALSE /\ kept = NotKept /\ second = 0
  /\ consulting = [c \in Consulters |-> NoConsult]
  /\ late = FALSE /\ lockout = FALSE /\ consults = 0

Moves(c, r) == consulting' = [consulting EXCEPT ![c] = r]
Leaves(c) == Moves(c, NoConsult)

\* A request of a person with or without TOTP, as auth or the action read it.  An
\* administrator asks for the policy three times before writing it: at the gate,
\* in the action, and in setOrgSecurity.
Consult(c, totp, goal) ==
  /\ consulting[c].pc = "none" /\ consults < MaxConsults /\ consults' = consults + 1
  /\ Moves(c, [pc |-> "gate", totp |-> totp, goal |-> goal, loading |-> FALSE, read |-> FALSE,
               overtaken |-> FALSE, misled |-> FALSE])
  /\ UNCHANGED <<required, kept, second, late, lockout>>

\* resolveOrg refuses a person without TOTP.  (An agent seat passes in any case.)
Admits(r, value) == value => r.totp

\* org.set_security refuses to turn the policy on for one without.
\* Mutant: it leaves that to the gate.
MayRequire_Bug(r, value) == TRUE

MayRequire(r, value) == r.goal /\ ~value => r.totp

\* What becomes of a handler that is told the policy.
Told(c, value) ==
  LET r       == [consulting[c] EXCEPT !.loading = FALSE, !.overtaken = FALSE, !.misled = @ \/ value # required]
      refused == \/ r.pc = "gate" /\ ~Admits(r, value)
                 \/ r.pc = "action" /\ ~MayRequire(r, value)
      after   == [gate |-> "action", action |-> "merge", merge |-> "write"]
  IN Moves(c, IF c = Administrator /\ ~refused THEN [r EXCEPT !.pc = after[r.pc]] ELSE NoConsult)

Asks(c) == consulting[c].pc \in {"gate", "action", "merge"} /\ ~consulting[c].loading
-----------------------------------------------------------------------------
\* getOrgSecurity: a fresh entry answers at once,
Fresh == kept # NotKept /\ second - kept.at < Ttl

Hit(c) ==
  /\ Asks(c) /\ Fresh /\ Told(c, kept.value)
  /\ UNCHANGED <<required, kept, second, late, lockout, consults>>

\* without one the row is read,
Load(c) ==
  /\ Asks(c) /\ ~Fresh
  /\ Moves(c, [consulting[c] EXCEPT !.loading = TRUE, !.read = required])
  /\ UNCHANGED <<required, kept, second, late, lockout, consults>>

\* and kept, at whatever the clock says by then.
Keep(c) ==
  LET r == consulting[c] IN
  /\ r.pc \in {"gate", "action", "merge"} /\ r.loading
  /\ kept' = [at |-> second, value |-> r.read] /\ late' = r.overtaken
  /\ Told(c, r.read)
  /\ UNCHANGED <<required, second, lockout, consults>>

\* setOrgSecurity writes the row,
WritePolicy ==
  LET r == consulting[Administrator] IN
  /\ r.pc = "write" /\ required' = r.goal
  /\ lockout' = (lockout \/ (r.goal /\ ~required /\ ~r.totp /\ ~r.misled))
  /\ consulting' = [c \in Consulters |->
                      IF c = Administrator THEN [pc |-> "forget"]
                      ELSE IF consulting[c].pc = "none" THEN NoConsult
                      ELSE [consulting[c] EXCEPT !.overtaken = consulting[c].loading]]
  /\ UNCHANGED <<kept, second, late, consults>>

\* and invalidates the entry before it answers.
\* Mutant: it leaves the entry to run out.
ForgetPolicy_Bug ==
  /\ consulting[Administrator].pc = "forget"
  /\ Leaves(Administrator)
  /\ UNCHANGED <<required, kept, second, late, lockout, consults>>

ForgetPolicy ==
  /\ consulting[Administrator].pc = "forget"
  /\ kept' = NotKept /\ late' = FALSE
  /\ Leaves(Administrator)
  /\ UNCHANGED <<required, second, lockout, consults>>

SecondPasses ==
  /\ second < LastSecond /\ second' = second + 1
  /\ UNCHANGED <<required, kept, consulting, late, lockout, consults>>

\* The process is replaced, and the cache with it.
PolicyStops ==
  /\ \E c \in Consulters : consulting[c].pc # "none"
  /\ consults < MaxConsults /\ consults' = consults + 1
  /\ kept' = NotKept /\ late' = FALSE
  /\ consulting' = [c \in Consulters |-> NoConsult]
  /\ UNCHANGED <<required, second, lockout>>

PolicyNext ==
  \/ \E c \in Consulters :
       \/ \E totp \in BOOLEAN, goal \in BOOLEAN : (c = Administrator \/ goal) /\ Consult(c, totp, goal)
       \/ Hit(c) \/ Load(c) \/ Keep(c)
  \/ WritePolicy \/ ForgetPolicy \/ SecondPasses \/ PolicyStops

PolicySpec == PolicyInit /\ [][PolicyNext]_policyVars
-----------------------------------------------------------------------------
\* Once set_security has answered, the cache tells the policy there is: the one
\* entry that does not is that of a request which had read the row before it was
\* written and kept it afterwards, and it runs out (security.ts:10-12).  And
\* nobody without a second factor turns the policy on, unless such an entry has
\* told them it was on already (orgs.ts:49-51).
PolicyBites ==
  /\ Fresh /\ kept.value # required => late \/ consulting[Administrator].pc = "forget"
  /\ ~lockout
=============================================================================
