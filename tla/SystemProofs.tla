----------------------------- MODULE SystemProofs -----------------------------
(* The parts of the server together: each of them runs in Services as it does   *)
(* alone, so what is proved of the parts holds of the whole.                    *)
EXTENDS Services, BoardProofs, ServiceProofs, WorkProofs

-----------------------------------------------------------------------------
LEMMA PartsBegin ==
  Init => /\ BoardInit /\ RecurrenceInit /\ AttachmentInit /\ GrantInit /\ ImportInit /\ SharingInit
          /\ DocumentInit /\ AgentInit /\ LinkInit /\ AccountInit /\ SignOnInit /\ PolicyInit
BY DEF Init

\* One part moves, and no other sees it.
LEMMA PartsStep ==
  [Next]_vars =>
    /\ [BoardNext]_boardVars /\ [RecurrenceNext]_recurrenceVars /\ [AttachmentNext]_attachmentVars
    /\ [GrantNext]_grantVars /\ [ImportNext]_importVars /\ [SharingNext]_sharingVars
    /\ [DocumentNext]_documentVars /\ [AgentNext]_agentVars /\ [LinkNext]_linkVars
    /\ [AccountNext]_accountVars /\ [SignOnNext]_signOnVars /\ [PolicyNext]_policyVars
<1>1. Next => /\ [BoardNext]_boardVars /\ [RecurrenceNext]_recurrenceVars /\ [AttachmentNext]_attachmentVars
              /\ [GrantNext]_grantVars /\ [ImportNext]_importVars /\ [SharingNext]_sharingVars
              /\ [DocumentNext]_documentVars /\ [AgentNext]_agentVars /\ [LinkNext]_linkVars
              /\ [AccountNext]_accountVars /\ [SignOnNext]_signOnVars /\ [PolicyNext]_policyVars
  BY DEF Next
<1>2. UNCHANGED vars =>
        UNCHANGED <<boardVars, recurrenceVars, attachmentVars, grantVars, importVars, sharingVars, documentVars,
                    agentVars, linkVars, accountVars, signOnVars, policyVars>>
  BY DEF vars
<1> QED BY <1>1, <1>2

\* A behaviour of the server is one of each of its parts.
THEOREM PartsRun ==
  Spec => /\ BoardSpec /\ RecurrenceInit /\ [][RecurrenceNext]_recurrenceVars /\ AttachmentSpec /\ GrantSpec
          /\ ImportSpec /\ SharingSpec /\ DocumentSpec /\ AgentSpec /\ LinkSpec /\ AccountSpec /\ SignOnSpec
          /\ PolicySpec
BY PartsBegin, PartsStep, PTL DEF Spec, BoardSpec, AttachmentSpec, GrantSpec, ImportSpec, SharingSpec, DocumentSpec,
                                  AgentSpec, LinkSpec, AccountSpec, SignOnSpec, PolicySpec

\* The Plan board and the schedule keep the shape of their rows: the invariant
\* TypeOK of the run services.
THEOREM ServicesTyped == OneRequest => (Spec => []TypeOK)
<1> SUFFICES ASSUME OneRequest PROVE Spec => []TypeOK OBVIOUS
<1>1. BoardSpec => []BoardTypeOK BY BoardTyped
<1>2. RecurrenceInit /\ [][RecurrenceNext]_recurrenceVars => []RecurrenceTypeOK BY RowsFollow, ScheduleInvHolds, PTL
<1>3. BoardTypeOK /\ RecurrenceTypeOK => TypeOK BY DEF TypeOK
<1> QED BY <1>1, <1>2, <1>3, PartsRun, PTL

\* What the server promises beside its ledger, all of it at once: whichever part
\* is at work, nothing the others hold to is lost.
THEOREM ServicesHold ==
  OneRequest /\ DatesApart =>
    (Spec => /\ [](/\ DepsSound /\ AppsMatchLane /\ PushIsSound /\ StatusFollowsDates /\ ScheduleIsTrue
                   /\ AttachmentsHold /\ GrantsHold /\ ImportsHold /\ DetailsAreEarned
                   /\ DocumentsAgree /\ VerdictIsExact /\ WallHolds /\ DollarsAgree /\ EvidenceIsOwn
                   /\ LinksAreExclusive /\ AccountsHold /\ SignOnHolds /\ PolicyBites)
             /\ NeverPulledBack /\ FiresAtMostOnce)
<1> SUFFICES ASSUME OneRequest, DatesApart
             PROVE  Spec => /\ [](/\ DepsSound /\ AppsMatchLane /\ PushIsSound /\ StatusFollowsDates /\ ScheduleIsTrue
                                  /\ AttachmentsHold /\ GrantsHold /\ ImportsHold /\ DetailsAreEarned
                                  /\ DocumentsAgree /\ VerdictIsExact /\ WallHolds /\ DollarsAgree /\ EvidenceIsOwn
                                  /\ LinksAreExclusive /\ AccountsHold /\ SignOnHolds /\ PolicyBites)
                            /\ NeverPulledBack /\ FiresAtMostOnce
  OBVIOUS
<1>1. BoardSpec => /\ [](DepsSound /\ AppsMatchLane /\ PushIsSound /\ StatusFollowsDates /\ ScheduleIsTrue)
                   /\ NeverPulledBack
  BY DependenciesStand, LanesStand, PushStands, StatusStands, ScheduleStands, PushesForward, PTL
<1>2. AttachmentSpec /\ GrantSpec /\ LinkSpec /\ AccountSpec /\ SignOnSpec /\ PolicySpec
        => [](/\ AttachmentsHold /\ GrantsHold /\ LinksAreExclusive /\ AccountsHold /\ SignOnHolds /\ PolicyBites)
  BY AttachmentsMatch, OneGrantLives, LinksStayExclusive, AccountsStand, SignOnStands, PolicyAlwaysBites, PTL
<1>3. ImportSpec /\ SharingSpec /\ DocumentSpec /\ AgentSpec
        => [](/\ ImportsHold /\ DetailsAreEarned /\ DocumentsAgree /\ VerdictIsExact /\ WallHolds /\ DollarsAgree
              /\ EvidenceIsOwn)
  BY ImportsStand, DetailsStayEarned, AgreementStands, VerdictStands, WallStands, DollarsStand, EvidenceStands, PTL
<1> QED BY <1>1, <1>2, <1>3, ScheduleFires, PartsRun, PTL
=============================================================================
