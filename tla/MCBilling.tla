---------------------------- MODULE MCBilling ----------------------------
(* Instances of Billing for TLC. *)
EXTENDS Billing, TLC

CONSTANT h1

OneHandler == {h1}

\* Each run lets the acts happen that its properties depend on.
OrderOps == {"change_plan", "sync", "redirect", "invite", "remove",
             "pay", "cancel", "crash", "lost", "outage"}
UnlockOps == {"sync", "invite", "sso", "agent", "remove",
              "pay", "cancel", "crash", "day", "fail", "lost", "outage"}
SeatOps == {"invite", "remove", "pay"}
ItemOps == {"invite", "change_plan", "pay"}

\* calm never returns: the states after its loss can break no property that
\* assumes it, and are not explored further.
StaysCalm == calm
=============================================================================
