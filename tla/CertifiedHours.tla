--------------------------- MODULE CertifiedHours ---------------------------
(* What a certified invoice promises its reader (server/invoices/issue.ts:1-22): *)
(* the hours it was signed over read as they did for as long as it stands, and   *)
(* no other standing invoice charges for them.                                   *)
CONSTANTS Hours, Bills, Nothing
VARIABLES
  hours,      \* how each hour reads now; Nothing when there is no such hour
  bills,      \* what each bill states: hours, each with how it read when signed
  signed,     \* the bills that were signed
  standing    \* the signed bills that were not withdrawn

vars == <<hours, bills, signed, standing>>

Init ==
  /\ hours = [h \in Hours |-> Nothing]
  /\ bills = [b \in Bills |-> {}]
  /\ signed = {} /\ standing = {}

Charged(h) == \E b \in standing : \E p \in bills[b] : p[1] = h

\* An hour is entered, corrected or struck, while no standing bill charges it.
Correct(h) ==
  /\ ~Charged(h)
  /\ hours' = [hours EXCEPT ![h] = hours'[h]]
  /\ UNCHANGED <<bills, signed, standing>>

\* A bill is signed, once, over hours as they read that nobody charges yet.
Sign(b) ==
  /\ b \notin signed
  /\ bills' = [bills EXCEPT ![b] = bills'[b]]
  /\ \A p \in bills'[b] : p[1] \in Hours /\ hours[p[1]] = p[2] /\ ~Charged(p[1])
  /\ signed' = signed \cup {b} /\ standing' = standing \cup {b}
  /\ UNCHANGED hours

\* A bill is withdrawn for good; what it stated stays.
Withdraw(b) ==
  /\ standing' = standing \ {b}
  /\ UNCHANGED <<hours, bills, signed>>

Next == (\E h \in Hours : Correct(h)) \/ (\E b \in Bills : Sign(b)) \/ (\E b \in standing : Withdraw(b))

Spec == Init /\ [][Next]_vars
=============================================================================
