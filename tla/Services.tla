------------------------------ MODULE Services ------------------------------
(* The parts of the server beside the ledger and the billing that share no row  *)
(* with one another in these models: the Plan board, the recurrence scheduler,  *)
(* attachments, the grants of the OAuth server, imports, the sharing and the    *)
(* verification of an invoice, agents under a budget, the linking of chat       *)
(* accounts, a person's account, the sign-in through a provider, and the        *)
(* two-factor policy.  A behaviour is one of them at work.                      *)
EXTENDS Board, Recurrence, Attachments, Grants, Import, Sharing, Documents, AgentRuns, Linking,
        Accounts, SignOn, Policy

VARIABLE scene  \* the part at work

vars ==
  <<scene, boardVars, recurrenceVars, attachmentVars, grantVars, importVars,
    sharingVars, documentVars, agentVars, linkVars, accountVars, signOnVars, policyVars>>

Init ==
  /\ scene \in {"board", "recurrence", "attachments", "grants", "import", "sharing", "documents", "agents", "linking",
              "accounts", "signon", "policy"}
  /\ BoardInit /\ (scene # "board" => usage = CHOOSE u \in Usages : TRUE)
  /\ RecurrenceInit /\ AttachmentInit /\ GrantInit /\ ImportInit /\ SharingInit
  /\ DocumentInit /\ (scene = "documents" <=> sheet # {}) /\ prices = CHOOSE p \in PriceLists : TRUE
  /\ AgentInit /\ (scene = "agents" <=> sessions # <<>>)
  /\ \A l \in Streams : walls[l].mode = "enforce"
  /\ LinkInit /\ AccountInit /\ PolicyInit
  /\ SignOnInit /\ (scene # "signon" => \A p \in Subjects : profiles[p].address = Invited)

Next ==
  /\ UNCHANGED scene
  /\ \/ /\ scene = "board" /\ BoardNext
        /\ UNCHANGED <<recurrenceVars, attachmentVars, grantVars, importVars,
                       sharingVars, documentVars, agentVars, linkVars, accountVars,
                       signOnVars, policyVars>>
     \/ /\ scene = "recurrence" /\ RecurrenceNext
        /\ UNCHANGED <<boardVars, attachmentVars, grantVars, importVars, sharingVars,
                       documentVars, agentVars, linkVars, accountVars, signOnVars,
                       policyVars>>
     \/ /\ scene = "attachments" /\ AttachmentNext
        /\ UNCHANGED <<boardVars, recurrenceVars, grantVars, importVars, sharingVars,
                       documentVars, agentVars, linkVars, accountVars, signOnVars,
                       policyVars>>
     \/ /\ scene = "grants" /\ GrantNext
        /\ UNCHANGED <<boardVars, recurrenceVars, attachmentVars, importVars,
                       sharingVars, documentVars, agentVars, linkVars, accountVars,
                       signOnVars, policyVars>>
     \/ /\ scene = "import" /\ ImportNext
        /\ UNCHANGED <<boardVars, recurrenceVars, attachmentVars, grantVars,
                       sharingVars, documentVars, agentVars, linkVars, accountVars,
                       signOnVars, policyVars>>
     \/ /\ scene = "sharing" /\ SharingNext
        /\ UNCHANGED <<boardVars, recurrenceVars, attachmentVars, grantVars,
                       importVars, documentVars, agentVars, linkVars, accountVars,
                       signOnVars, policyVars>>
     \/ /\ scene = "documents" /\ DocumentNext
        /\ UNCHANGED <<boardVars, recurrenceVars, attachmentVars, grantVars,
                       importVars, sharingVars, agentVars, linkVars, accountVars,
                       signOnVars, policyVars>>
     \/ /\ scene = "agents" /\ AgentNext
        /\ UNCHANGED <<boardVars, recurrenceVars, attachmentVars, grantVars,
                       importVars, sharingVars, documentVars, linkVars, accountVars,
                       signOnVars, policyVars>>
     \/ /\ scene = "linking" /\ LinkNext
        /\ UNCHANGED <<boardVars, recurrenceVars, attachmentVars, grantVars,
                       importVars, sharingVars, documentVars, agentVars, accountVars,
                       signOnVars, policyVars>>
     \/ /\ scene = "accounts" /\ AccountNext
        /\ UNCHANGED <<boardVars, recurrenceVars, attachmentVars, grantVars,
                       importVars, sharingVars, documentVars, agentVars, linkVars,
                       signOnVars, policyVars>>
     \/ /\ scene = "signon" /\ SignOnNext
        /\ UNCHANGED <<boardVars, recurrenceVars, attachmentVars, grantVars,
                       importVars, sharingVars, documentVars, agentVars, linkVars,
                       accountVars, policyVars>>
     \/ /\ scene = "policy" /\ PolicyNext
        /\ UNCHANGED <<boardVars, recurrenceVars, attachmentVars, grantVars,
                       importVars, sharingVars, documentVars, agentVars, linkVars,
                       accountVars, signOnVars>>

Spec == Init /\ [][Next]_vars /\ \A v \in Servers : WF_recurrenceVars(scene = "recurrence" /\ Tick(v))

\* The parts with the widest state keep its shape.
TypeOK == BoardTypeOK /\ RecurrenceTypeOK
=============================================================================
