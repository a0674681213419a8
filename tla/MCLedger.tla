----------------------------- MODULE MCLedger -----------------------------
(* Instances of Ledger for TLC. *)
EXTENDS Ledger, TLC

CONSTANTS ann, acme, s1, s2

OneUser  == {ann}
Boss     == {ann}
OneRef   == {acme}
OneSlot  == {s1}
TwoSlots == {s1, s2}

HumanOnly == {"human"}
BothCredentials == {"human", "agent"}

\* Together the runs call every operation; each run calls those its properties
\* depend on.
SerialOps == {"start", "log_past", "stop", "update", "delete", "customer.delete",
              "submit", "contractor_generate", "void"}
ConcurrentOps == {"start", "stop", "delete", "contractor_generate", "generate",
                  "void", "crash"}
SettlesOps == {"log_past", "switch_break", "update", "delete", "set_billing",
               "submit", "approve", "reject", "contractor_generate", "void"}
TimerOps  == {"start", "stop"}
BreakOps  == {"start", "switch_break", "stop"}
IssueOps  == {"log_past", "contractor_generate"}

SlotSymmetry == Permutations(TwoSlots)
=============================================================================
