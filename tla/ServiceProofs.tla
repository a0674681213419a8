---------------------------- MODULE ServiceProofs ----------------------------
(* The parts of the server that share no row with the ledger, for any number of *)
(* requests in flight: files and their bytes, the grants of one authorization   *)
(* code, the linking of chat accounts, a person's account, the two-factor       *)
(* policy, single sign-on; and the recurrence scheduler, for any number of      *)
(* server processes, cards and rules.                                           *)
EXTENDS Attachments, Grants, Linking, Policy, Accounts, SignOn, Recurrence, FiniteSetTheorems, SequenceTheorems,
        TLAPS

-----------------------------------------------------------------------------
\* Attachments (server/plan/attachments.ts).

UploadRequest ==
  [pc : {"stat", "rename", "duplicate", "insert"}, card : Holders, content : Contents,
   met : SUBSET {"upload", "delete"}]
FileRow == [id : Nat, card : Holders, content : Contents]
DeleteRequest == [pc : {"delete"}, file : FileRow, content : Contents]
DropRequest == [pc : {"count", "unlink"}, content : Contents]
FilingRequest == {Unasked} \cup UploadRequest \cup DeleteRequest \cup DropRequest

FilingTypes ==
  /\ nextFile \in Nat /\ files \subseteq FileRow
  /\ filing \in [FileSlots -> FilingRequest]

\* An upload knows of every delete of its bytes in flight, and of every upload of
\* them to its card.
MeetingsAreKnown ==
  \A s, o \in FileSlots :
    /\ Uploading(s) /\ Dropping(o) /\ filing[o].content = filing[s].content => "delete" \in filing[s].met
    /\ s # o /\ Uploading(s) /\ Uploading(o) /\ filing[o].content = filing[s].content
         /\ filing[o].card = filing[s].card => "upload" \in filing[s].met

\* An upload past its rename has its bytes, or met a delete of them; beside one
\* about to insert are only rows of uploads it met; a delete about to unlink has
\* seen the last row go, and what came since came beside it.
FilingKnows(s) ==
  /\ filing[s].pc \in {"duplicate", "insert"} => filing[s].content \in blobs \/ "delete" \in filing[s].met
  /\ filing[s].pc = "insert" =>
       \A f \in files : f.card = filing[s].card /\ f.content = filing[s].content
                          => f.id \in doubled /\ "upload" \in filing[s].met
  /\ filing[s].pc = "delete" => filing[s].file.content = filing[s].content
  /\ filing[s].pc = "unlink" => \A f \in files : f.content = filing[s].content => f.id \in raced

\* Bytes without a row belong to a request in flight, or were left behind.
BytesAreWanted ==
  \A content \in blobs \ stranded :
    \/ \E f \in files : f.content = content
    \/ \E s \in FileSlots : ~Idling(s) /\ filing[s].content = content

FilingInv ==
  /\ FilingTypes /\ MeetingsAreKnown /\ \A s \in FileSlots : FilingKnows(s)
  /\ RowHasBlob /\ OneRowPerContent /\ BytesAreWanted

\* A request that begins is remembered by the uploads it meets, and changes no other.
LEMMA BeginKeeps ==
  ASSUME FilingInv, NEW s \in FileSlots, Idling(s), NEW r \in UploadRequest \cup DeleteRequest, Begins(s, r),
         r.pc \in {"stat", "delete"}, r.pc = "delete" => r.file.content = r.content,
         r.pc = "stat" => r.met = Beside(s, r.card, r.content),
         UNCHANGED <<holders, files, nextFile, blobs, stranded, raced, doubled>>
  PROVE  FilingInv'
<1> DEFINE New(o) == [filing[o] EXCEPT !.met = @ \cup Meets(s, o, r)]
<1>1. /\ filing'[s] = r
      /\ \A o \in FileSlots \ {s} :
           filing'[o] = IF Meets(s, o, r) # {} THEN New(o) ELSE filing[o]
  BY DEF Begins
<1>2. \A o \in FileSlots : Meets(s, o, r) # {} => filing[o] \in UploadRequest
  BY DEF Meets, Uploading, FilingInv, FilingTypes, FilingRequest, Unasked, UploadRequest, DeleteRequest, DropRequest
<1>3. ASSUME NEW o \in FileSlots \ {s}
      PROVE  /\ filing'[o] \in FilingRequest /\ filing'[o].pc = filing[o].pc
             /\ ~Idling(o) => filing'[o].content = filing[o].content
             /\ Uploading(o) => /\ filing'[o].card = filing[o].card
                                /\ filing'[o].met = filing[o].met \cup Meets(s, o, r)
             /\ filing[o].pc = "delete" => filing'[o].file = filing[o].file
  <2>1. CASE Meets(s, o, r) # {}
    <3>1. filing[o] \in UploadRequest /\ filing'[o] = New(o) BY <1>1, <1>2, <2>1
    <3>2. Meets(s, o, r) \subseteq {"upload", "delete"} BY DEF Meets
    <3>3. New(o) \in UploadRequest /\ New(o).pc = filing[o].pc /\ New(o).content = filing[o].content
          /\ New(o).card = filing[o].card /\ New(o).met = filing[o].met \cup Meets(s, o, r)
      BY <3>1, <3>2 DEF UploadRequest
    <3>4. filing[o].pc # "delete" BY <3>1 DEF UploadRequest
    <3> QED BY <3>1, <3>3, <3>4 DEF FilingRequest
  <2>2. CASE Meets(s, o, r) = {}
    <3>1. filing'[o] = filing[o] BY <1>1, <2>2
    <3>2. filing[o].met = filing[o].met \cup Meets(s, o, r) BY <2>2
    <3> QED BY <3>1, <3>2 DEF FilingInv, FilingTypes
  <2> QED BY <2>1, <2>2
<1> HIDE DEF New
<1>4. r \in FilingRequest /\ r.pc # "none" /\ r.content \in Contents
  BY DEF FilingRequest, UploadRequest, DeleteRequest
<1>5. FilingTypes'
  <2>1. filing' = [o \in FileSlots |-> filing'[o]] BY DEF Begins
  <2>2. \A o \in FileSlots : filing'[o] \in FilingRequest BY <1>1, <1>3, <1>4
  <2> QED BY <2>1, <2>2 DEF FilingInv, FilingTypes
<1>6. MeetingsAreKnown'
  <2> SUFFICES ASSUME NEW u \in FileSlots, NEW o \in FileSlots, Uploading(u)', Uploading(o)' \/ Dropping(o)',
                      filing'[o].content = filing'[u].content, u # o,
                      Uploading(o)' => filing'[o].card = filing'[u].card
               PROVE  /\ Dropping(o)' => "delete" \in filing'[u].met
                      /\ Uploading(o)' => "upload" \in filing'[u].met
    BY DEF MeetingsAreKnown, Uploading, Dropping
  <2>1. CASE u # s /\ o # s
    <3>1. /\ Uploading(u) /\ (Uploading(o) <=> Uploading(o)') /\ (Dropping(o) <=> Dropping(o)')
          /\ filing[o].content = filing[u].content /\ (Uploading(o) => filing[o].card = filing[u].card)
          /\ filing[u].met \subseteq filing'[u].met
      BY <1>3, <2>1 DEF Uploading, Dropping, Idling
    <3> QED BY <3>1 DEF FilingInv, MeetingsAreKnown
  <2>2. CASE u = s
    <3>1. r.pc = "stat" /\ filing'[u].met = Beside(s, r.card, r.content) BY <1>1, <2>2 DEF Uploading
    <3>2. /\ o \in FileSlots \ {s} /\ (Uploading(o) <=> Uploading(o)') /\ (Dropping(o) <=> Dropping(o)')
          /\ filing[o].content = r.content /\ (Uploading(o) => filing[o].card = r.card)
      BY <1>1, <1>3, <2>2 DEF Uploading, Dropping, Idling
    <3> QED BY <3>1, <3>2 DEF Beside, Twins
  <2>3. CASE o = s
    <3>1. /\ u \in FileSlots \ {s} /\ Uploading(u) /\ filing[u].content = r.content
          /\ filing'[u].met = filing[u].met \cup Meets(s, u, r) /\ filing'[u].card = filing[u].card
      BY <1>1, <1>3, <2>3 DEF Uploading, Idling
    <3>2. /\ Dropping(o)' => r.pc = "delete"
          /\ Uploading(o)' => r.pc = "stat" /\ filing[u].card = r.card
      BY <1>1, <2>3, <3>1 DEF Dropping, Uploading
    <3> QED BY <3>1, <3>2 DEF Meets
  <2> QED BY <2>1, <2>2, <2>3
<1>7. ASSUME NEW o \in FileSlots PROVE FilingKnows(o)'
  <2>1. CASE o = s BY <1>1, <2>1 DEF FilingKnows
  <2>2. CASE o # s
    <3>1. FilingKnows(o) /\ filing'[o].pc = filing[o].pc BY <1>3, <2>2 DEF FilingInv
    <3>2. filing[o].pc # "none" => filing'[o].content = filing[o].content BY <1>3, <2>2 DEF Idling
    <3>3. filing[o].pc \in {"duplicate", "insert"} =>
            filing'[o].card = filing[o].card /\ filing[o].met \subseteq filing'[o].met
      BY <1>3, <2>2 DEF Uploading
    <3>4. filing[o].pc = "delete" => filing'[o].file = filing[o].file BY <1>3, <2>2
    <3> QED BY <3>1, <3>2, <3>3, <3>4 DEF FilingKnows
  <2> QED BY <2>1, <2>2
<1>8. BytesAreWanted'
  <2> SUFFICES ASSUME NEW c \in blobs \ stranded, \A f \in files : f.content # c
               PROVE  \E o \in FileSlots : filing'[o].pc # "none" /\ filing'[o].content = c
    BY DEF BytesAreWanted, Idling
  <2>1. PICK o \in FileSlots : ~Idling(o) /\ filing[o].content = c BY DEF FilingInv, BytesAreWanted
  <2> QED BY <1>3, <2>1 DEF Idling
<1> QED BY <1>5, <1>6, <1>7, <1>8 DEF FilingInv, RowHasBlob, OneRowPerContent

\* Every other step of a request, but the insertion, only moves it on.
LEMMA FilingStep ==
  ASSUME FilingInv, NEW s \in FileSlots,
         \/ StatBlob(s) \/ RenameBlob(s) \/ FindDuplicate(s)
         \/ DeleteRow(s) \/ CountRows(s) \/ UnlinkBlob(s)
  PROVE  FilingInv'
<1> USE DEF FilingInv, FilingTypes, MeetingsAreKnown, FilingKnows, RowHasBlob, OneRowPerContent, BytesAreWanted,
            UploadRequest, FileRow, DeleteRequest, DropRequest, FilingRequest, Unasked, Filing, Idling,
            Uploading, Dropping
<1>1. CASE StatBlob(s) BY <1>1 DEF StatBlob
<1>2. CASE RenameBlob(s) BY <1>2 DEF RenameBlob
<1>3. CASE FindDuplicate(s) BY <1>3 DEF FindDuplicate
<1>4. CASE DeleteRow(s)
  <2>1. FilingTypes' /\ MeetingsAreKnown' BY <1>4 DEF DeleteRow
  <2>2. \A t \in FileSlots : FilingKnows(t)' BY <1>4 DEF DeleteRow
  <2>3. RowHasBlob' /\ OneRowPerContent' BY <1>4 DEF DeleteRow
  <2>4. BytesAreWanted' BY <1>4 DEF DeleteRow
  <2> QED BY <2>1, <2>2, <2>3, <2>4
<1>5. CASE CountRows(s) BY <1>5 DEF CountRows
<1>6. CASE UnlinkBlob(s)
  <2>1. FilingTypes' /\ MeetingsAreKnown' BY <1>6 DEF UnlinkBlob
  <2>2. \A t \in FileSlots : FilingKnows(t)' BY <1>6 DEF UnlinkBlob
  <2>3. RowHasBlob' /\ OneRowPerContent' BY <1>6 DEF UnlinkBlob
  <2>4. BytesAreWanted' BY <1>6 DEF UnlinkBlob
  <2> QED BY <2>1, <2>2, <2>3, <2>4
<1> QED BY <1>1, <1>2, <1>3, <1>4, <1>5, <1>6

LEMMA FileInsertKeeps ==
  ASSUME FilingInv, NEW s \in FileSlots, InsertFile(s)
  PROVE  FilingInv'
<1> DEFINE r == filing[s]
<1>1. /\ r \in UploadRequest /\ r.pc = "insert" /\ filing' = [filing EXCEPT ![s] = Unasked]
      /\ UNCHANGED <<holders, blobs>>
  BY DEF InsertFile, Filing, FilingInv, FilingTypes, FilingRequest, Unasked, UploadRequest, DeleteRequest, DropRequest
<1>2. FilingKnows(s) /\ \A o \in FileSlots : FilingKnows(o) BY DEF FilingInv
<1>3. /\ filing' \in [FileSlots -> FilingRequest] /\ filing'[s].pc = "none"
      /\ \A o \in FileSlots \ {s} : filing'[o] = filing[o]
  BY <1>1 DEF FilingInv, FilingTypes, FilingRequest, Unasked
<1>4. MeetingsAreKnown' BY <1>3 DEF FilingInv, MeetingsAreKnown, Uploading, Dropping
<1>5. CASE r.card \notin holders
  <2>1. UNCHANGED <<files, nextFile, raced, doubled>> /\ stranded' = stranded \cup {r.content}
    BY <1>5 DEF InsertFile
  <2>2. FilingTypes' BY <1>3, <2>1 DEF FilingInv, FilingTypes
  <2>3. ASSUME NEW o \in FileSlots PROVE FilingKnows(o)' BY <1>1, <1>2, <1>3, <2>1, <2>3 DEF FilingKnows
  <2>4. BytesAreWanted' BY <1>1, <1>3, <2>1 DEF FilingInv, BytesAreWanted, Idling
  <2> QED BY <1>1, <1>4, <2>1, <2>2, <2>3, <2>4 DEF FilingInv, RowHasBlob, OneRowPerContent
<1>6. CASE r.card \in holders
  <2>1. PICK f : /\ f = [id |-> nextFile, card |-> r.card, content |-> r.content]
                 /\ files' = files \cup {f} /\ nextFile' = nextFile + 1 /\ stranded' = stranded
                 /\ raced' = raced \cup {nextFile : w \in r.met \cap {"delete"}}
                 /\ doubled' = doubled \cup {nextFile : w \in r.met \cap {"upload"}}
    BY <1>6 DEF InsertFile
  <2>2. /\ f \in FileRow /\ f.id = nextFile /\ f.card = r.card /\ f.content = r.content
    BY <1>1, <2>1 DEF FilingInv, FilingTypes, FileRow, UploadRequest
  <2>3. /\ raced \subseteq raced' /\ doubled \subseteq doubled'
        /\ "delete" \in r.met => f.id \in raced'
        /\ "upload" \in r.met => f.id \in doubled'
    BY <2>1, <2>2
  <2>4. FilingTypes' BY <1>3, <2>1, <2>2 DEF FilingInv, FilingTypes
  <2>5. ASSUME NEW o \in FileSlots PROVE FilingKnows(o)'
    <3>1. CASE o = s BY <1>3, <3>1 DEF FilingKnows
    <3>2. CASE o # s
      <4>1. filing'[o] = filing[o] /\ FilingKnows(o) BY <1>2, <1>3, <3>2
      <4>2. filing[o].pc = "unlink" /\ f.content = filing[o].content => f.id \in raced'
        BY <1>1, <2>2, <2>3 DEF FilingInv, MeetingsAreKnown, Uploading, Dropping
      <4>3. filing[o].pc = "insert" /\ f.content = filing[o].content /\ f.card = filing[o].card
              => f.id \in doubled' /\ "upload" \in filing[o].met
        BY <1>1, <2>2, <2>3, <3>2 DEF FilingInv, MeetingsAreKnown, Uploading
      <4> QED BY <1>1, <2>1, <2>3, <4>1, <4>2, <4>3 DEF FilingKnows
    <3> QED BY <3>1, <3>2
  <2>6. RowHasBlob' BY <1>1, <1>2, <2>1, <2>2, <2>3 DEF FilingInv, RowHasBlob, FilingKnows
  <2>7. OneRowPerContent'
    <3>1. \A g \in files : g.card = f.card /\ g.content = f.content => {g.id, f.id} \subseteq doubled'
      BY <1>1, <1>2, <2>2, <2>3 DEF FilingKnows
    <3> QED BY <2>1, <2>3, <3>1 DEF FilingInv, OneRowPerContent
  <2>8. BytesAreWanted'
    <3> SUFFICES ASSUME NEW c \in blobs \ stranded, \A g \in files' : g.content # c
                 PROVE  \E o \in FileSlots : filing'[o].pc # "none" /\ filing'[o].content = c
      BY <1>1, <2>1 DEF BytesAreWanted, Idling
    <3>1. PICK o \in FileSlots : ~Idling(o) /\ filing[o].content = c BY <2>1 DEF FilingInv, BytesAreWanted
    <3>2. o # s BY <2>1, <2>2, <3>1
    <3> QED BY <1>3, <3>1, <3>2 DEF Idling
  <2> QED BY <1>4, <2>4, <2>5, <2>6, <2>7, <2>8 DEF FilingInv
<1> QED BY <1>5, <1>6

LEMMA UploadsBegin ==
  ASSUME FilingInv, NEW s \in FileSlots,
         \/ \E card \in Holders, content \in Contents : Upload(s, card, content)
         \/ \E file \in files : DeleteFile(s, file)
  PROVE  FilingInv'
<1>1. ASSUME NEW card \in Holders, NEW content \in Contents, Upload(s, card, content) PROVE FilingInv'
  <2>1. Beside(s, card, content) \subseteq {"upload", "delete"} BY DEF Beside
  <2>2. PICK r \in UploadRequest : /\ Begins(s, r) /\ r.pc = "stat" /\ r.met = Beside(s, r.card, r.content)
                                   /\ r = [pc |-> "stat", card |-> card, content |-> content,
                                           met |-> Beside(s, card, content)]
    BY <1>1, <2>1 DEF Upload, UploadRequest
  <2> QED BY <1>1, <2>2, BeginKeeps DEF Upload
<1>2. ASSUME NEW file \in files, DeleteFile(s, file) PROVE FilingInv'
  <2>1. file \in FileRow BY DEF FilingInv, FilingTypes
  <2>2. PICK r \in DeleteRequest : Begins(s, r) /\ r.pc = "delete" /\ r.file.content = r.content
    BY <1>2, <2>1 DEF DeleteFile, DeleteRequest, FileRow
  <2> QED BY <1>2, <2>2, BeginKeeps DEF DeleteFile
<1> QED BY <1>1, <1>2

LEMMA FilingInvHolds == AttachmentSpec => []FilingInv
<1>1. AttachmentInit => FilingInv
  BY DEF AttachmentInit, FilingInv, FilingTypes, FilingRequest, MeetingsAreKnown, FilingKnows, RowHasBlob,
         OneRowPerContent, BytesAreWanted, Idling, Unasked, Uploading, Dropping
<1>2. FilingInv /\ [AttachmentNext]_attachmentVars => FilingInv'
  <2> SUFFICES ASSUME FilingInv, [AttachmentNext]_attachmentVars PROVE FilingInv' OBVIOUS
  <2> USE DEF FilingInv, FilingTypes, MeetingsAreKnown, FilingKnows, RowHasBlob, OneRowPerContent, BytesAreWanted,
              UploadRequest, FileRow, DeleteRequest, DropRequest, FilingRequest, Unasked, Idling, Uploading, Dropping
  <2>1. ASSUME NEW card \in Holders, DeleteHolder(card) PROVE FilingInv' BY <2>1 DEF DeleteHolder
  <2>2. CASE StopFiling BY <2>2 DEF StopFiling
  <2>3. CASE UNCHANGED attachmentVars BY <2>3 DEF attachmentVars
  <2> QED BY <2>1, <2>2, <2>3, UploadsBegin, FilingStep, FileInsertKeeps DEF AttachmentNext
<1> QED BY <1>1, <1>2, PTL DEF AttachmentSpec

\* A row has its bytes, a card the same bytes once, and the bytes go with their last
\* row, through any restart and any interleaving (attachments.ts: written before
\* the row, unlinked after it); a row without bytes is of an upload that met a
\* delete of them, and two rows for one are of uploads that met.
THEOREM AttachmentsMatch == AttachmentSpec => []AttachmentsHold
<1>1. FilingInv => AttachmentsHold
  BY DEF FilingInv, AttachmentsHold, BytesAreWanted, BytesGoWithLastRow
<1> QED BY <1>1, FilingInvHolds, PTL
-----------------------------------------------------------------------------
\* The grants of one authorization code (server/oauth/token.ts).

AskRequest ==
  [pc : {"none", "claim", "member", "mint", "insert", "retire", "retireAccess", "lineage", "lineageRetire",
         "lineageAccess", "ended"},
   op : Ops \cup {"none"}, grant : Nat, known : SUBSET Nat, family : SUBSET Nat]

GrantTypes ==
  /\ codeUsed \in BOOLEAN /\ belongs \in BOOLEAN /\ forked \in BOOLEAN /\ nextGrant \in Nat
  /\ access \subseteq Nat /\ refresh \subseteq Nat
  /\ retired \subseteq refresh /\ held \subseteq refresh /\ doomed \subseteq refresh
  /\ asking \in [TokenSlots -> AskRequest]

Live == refresh \ retired

\* A handler that will insert a refresh row.
Issuing(s) ==
  \/ asking[s].pc \in {"mint", "insert"}
  \/ AsksAt(s, "member") /\ asking[s].op = "redeem"
  \/ AsksAt(s, "retireAccess") /\ asking[s].op = "refresh"

\* Ids come from a serial, and a grant between its two inserts has no row yet.
GrantsNumbered ==
  /\ \A g \in refresh : g < nextGrant
  /\ \A s \in TokenSlots : AsksAt(s, "insert") =>
       /\ asking[s].grant < nextGrant /\ asking[s].grant \notin refresh
       /\ \A t \in TokenSlots : AsksAt(t, "insert") /\ asking[t].grant = asking[s].grant => t = s

\* Of the live refresh tokens and the handlers that will insert one there is one at
\* most, and none before the code is used, while no refresh has forked the line.
OneLine ==
  /\ ~codeUsed => refresh = {} /\ \A s \in TokenSlots : ~Issuing(s)
  /\ ~forked =>
       /\ \A g, h \in Live : g = h
       /\ \A s, t \in TokenSlots : Issuing(s) /\ Issuing(t) => s = t
       /\ \A s \in TokenSlots : Issuing(s) => Live = {}

\* What a request holds: rows of the code; and what a replay has ended so far.
AskHolds(s) ==
  /\ asking[s].known \subseteq refresh /\ asking[s].family \subseteq refresh
  /\ asking[s].pc \in {"member", "retire", "retireAccess"} /\ asking[s].op # "redeem" => asking[s].grant \in refresh
  /\ asking[s].pc \in {"lineageRetire", "lineageAccess"} => asking[s].known \subseteq asking[s].family
  /\ AsksAt(s, "lineageAccess") => asking[s].family \subseteq retired
  /\ AsksAt(s, "ended") => asking[s].known \subseteq retired /\ asking[s].known \cap access = {}
  /\ asking[s].pc \in {"retire", "retireAccess"} => asking[s].op # "redeem"
  /\ AsksAt(s, "claim") => asking[s].op = "redeem"

GrantInv ==
  /\ GrantTypes /\ GrantsNumbered /\ OneLine
  /\ \A s \in TokenSlots : AskHolds(s)
  /\ doomed \subseteq retired /\ doomed \cap access = {}

\* A step of slot s: the rows of the code, those retired and those doomed only grow,
\* no access token of a row comes back, and what it leaves behind is in order.
LEMMA GrantMoves ==
  ASSUME GrantInv, NEW s \in TokenSlots, NEW r \in AskRequest, asking' = [asking EXCEPT ![s] = r], GrantTypes',
         refresh \subseteq refresh', retired \subseteq retired', \A g \in refresh : g \in access' => g \in access,
         doomed' \subseteq retired', doomed' \cap access' = {},
         OneLine', nextGrant <= nextGrant', \A g \in refresh' : g < nextGrant',
         r.pc = "insert" =>
           /\ r.grant < nextGrant' /\ r.grant \notin refresh'
           /\ \A t \in TokenSlots \ {s} : AsksAt(t, "insert") => asking[t].grant # r.grant,
         \A t \in TokenSlots \ {s} : AsksAt(t, "insert") => asking[t].grant \notin refresh',
         r.known \subseteq refresh', r.family \subseteq refresh',
         r.pc \in {"member", "retire", "retireAccess"} /\ r.op # "redeem" => r.grant \in refresh',
         r.pc \in {"lineageRetire", "lineageAccess"} => r.known \subseteq r.family,
         r.pc = "lineageAccess" => r.family \subseteq retired',
         r.pc = "ended" => r.known \subseteq retired' /\ r.known \cap access' = {},
         r.pc \in {"retire", "retireAccess"} => r.op # "redeem",
         r.pc = "claim" => r.op = "redeem"
  PROVE  GrantInv'
<1>1. \A t \in TokenSlots : asking'[t] = IF t = s THEN r ELSE asking[t] BY DEF GrantInv, GrantTypes
<1>2. GrantsNumbered'
  <2>1. nextGrant \in Nat /\ nextGrant' \in Nat BY DEF GrantInv, GrantTypes
  <2>2. \A t \in TokenSlots : asking[t].grant \in Nat BY DEF GrantInv, GrantTypes, AskRequest
  <2> QED BY <1>1, <2>1, <2>2 DEF GrantInv, GrantsNumbered, AsksAt
<1>3. ASSUME NEW t \in TokenSlots PROVE AskHolds(t)'
  <2>1. CASE t = s BY <1>1, <2>1 DEF AskHolds, AsksAt
  <2>2. CASE t # s
    <3>1. AskHolds(t) BY DEF GrantInv
    <3> QED BY <1>1, <2>2, <3>1 DEF AskHolds, AsksAt
  <2> QED BY <2>1, <2>2
<1> QED BY <1>2, <1>3 DEF GrantInv

\* A step that leaves rows, tokens and ids alone, and issues nothing new.
LEMMA GrantWaits ==
  ASSUME GrantInv, NEW s \in TokenSlots, NEW r \in AskRequest, asking' = [asking EXCEPT ![s] = r],
         UNCHANGED <<tokenVars, held, forked>>, codeUsed' \in BOOLEAN, belongs' \in BOOLEAN, codeUsed => codeUsed',
         doomed' \subseteq retired, doomed' \cap access = {},
         r.pc \notin {"insert", "lineageAccess", "retireAccess"},
         r.pc = "mint" \/ (r.pc = "member" /\ r.op = "redeem") =>
           \/ Issuing(s) /\ codeUsed
           \/ ~codeUsed /\ codeUsed',
         r.known \subseteq refresh, r.family \subseteq refresh,
         r.pc \in {"member", "retire"} /\ r.op # "redeem" => r.grant \in refresh,
         r.pc = "lineageRetire" => r.known \subseteq r.family,
         r.pc = "ended" => r.known \subseteq retired /\ r.known \cap access = {},
         r.pc = "retire" => r.op # "redeem", r.pc = "claim" => r.op = "redeem"
  PROVE  GrantInv'
<1> USE DEF tokenVars
<1>1. GrantTypes'
  <2>1. asking' \in [TokenSlots -> AskRequest] BY DEF GrantInv, GrantTypes
  <2> QED BY <2>1 DEF GrantInv, GrantTypes
<1>2. \A t \in TokenSlots : asking'[t] = IF t = s THEN r ELSE asking[t] BY DEF GrantInv, GrantTypes
<1>3. \A t \in TokenSlots : t # s => (Issuing(t)' <=> Issuing(t)) BY <1>2 DEF Issuing, AsksAt
<1>4. Issuing(s)' => (Issuing(s) /\ codeUsed) \/ (~codeUsed /\ codeUsed') BY <1>2 DEF Issuing, AsksAt
<1>5. Live' = Live /\ (refresh = {} => Live = {}) BY DEF Live
<1>6. OneLine' BY <1>3, <1>4, <1>5 DEF GrantInv, OneLine
<1>7. /\ nextGrant <= nextGrant' /\ \A g \in refresh' : g < nextGrant'
      /\ \A t \in TokenSlots \ {s} : AsksAt(t, "insert") => asking[t].grant \notin refresh'
  BY DEF GrantInv, GrantTypes, GrantsNumbered
<1> QED BY <1>1, <1>6, <1>7, GrantMoves DEF GrantInv

\* A request that has begun.
LEMMA AskBegins ==
  ASSUME GrantInv, NEW s \in TokenSlots, NEW pc \in {"claim", "lineage", "member", "retire", "retireAccess"},
         NEW op \in Ops, NEW g \in Nat, Ask(s, pc, op, g),
         op = "redeem" => pc \in {"claim", "lineage"},
         pc = "retireAccess" => op = "revoke", pc = "claim" => op = "redeem", op # "redeem" => g \in refresh
  PROVE  GrantInv'
<1> DEFINE r == [pc |-> pc, op |-> op, grant |-> g, known |-> held, family |-> {}]
<1>1. r \in AskRequest /\ r.pc = pc /\ r.op = op /\ r.grant = g /\ r.known = held /\ r.family = {}
  BY DEF AskRequest, GrantInv, GrantTypes
<1>2. asking' = [asking EXCEPT ![s] = r] /\ UNCHANGED <<codeUsed, belongs, tokenVars, held, forked, doomed>>
  BY DEF Ask, Asking
<1> HIDE DEF r
<1> USE DEF tokenVars
<1>3. GrantTypes'
  <2>1. asking' \in [TokenSlots -> AskRequest] BY <1>1, <1>2 DEF GrantInv, GrantTypes
  <2> QED BY <1>2, <2>1 DEF GrantInv, GrantTypes
<1>4. \A t \in TokenSlots : asking'[t] = IF t = s THEN r ELSE asking[t] BY <1>2 DEF GrantInv, GrantTypes
<1>5. Live' = Live BY <1>2 DEF Live
<1>6. \A t \in TokenSlots : Issuing(t)' => Issuing(t) BY <1>1, <1>4 DEF Issuing, AsksAt, Ops
<1>7. OneLine' BY <1>2, <1>5, <1>6 DEF GrantInv, OneLine
<1>8. /\ nextGrant <= nextGrant' /\ \A h \in refresh' : h < nextGrant'
      /\ \A t \in TokenSlots \ {s} : AsksAt(t, "insert") => asking[t].grant \notin refresh'
      /\ r.known \subseteq refresh'
  BY <1>1, <1>2 DEF GrantInv, GrantTypes, GrantsNumbered
<1> QED BY <1>1, <1>2, <1>3, <1>7, <1>8, GrantMoves DEF GrantInv, Ops

LEMMA GrantStep ==
  ASSUME GrantInv, NEW s \in TokenSlots,
         \/ Redeem(s) \/ ClaimCode(s) \/ Member(s) \/ Mint(s) \/ InsertRefresh(s)
         \/ \E g \in held : Refresh(s, g) \/ RevokeAccess(s, g)
         \/ \E g \in refresh : RevokeRefresh(s, g)
         \/ Retire(s) \/ RetireAccess(s)
         \/ Lineage(s) \/ LineageRetire(s) \/ LineageAccess(s) \/ Ended(s)
         \/ StopAsking(s)
  PROVE  GrantInv'
<1> DEFINE a == asking[s]
<1>1. /\ GrantTypes /\ GrantsNumbered /\ OneLine /\ AskHolds(s) /\ a \in AskRequest
      /\ doomed \subseteq retired /\ doomed \cap access = {}
  BY DEF GrantInv, GrantTypes
<1>2. /\ a.op \in Ops \cup {"none"} /\ a.grant \in Nat
      /\ a.known \subseteq Nat /\ a.family \subseteq Nat
  BY <1>1 DEF AskRequest
<1>3. NoRequest \in AskRequest /\ NoRequest.pc = "none" /\ NoRequest.known = {} /\ NoRequest.family = {}
  BY DEF NoRequest, AskRequest
<1>4. \A pc \in {"member", "mint", "retire", "retireAccess", "lineageAccess", "ended"} :
        LET r == [a EXCEPT !.pc = pc] IN
        /\ r \in AskRequest /\ r.pc = pc /\ r.op = a.op /\ r.grant = a.grant
        /\ r.known = a.known /\ r.family = a.family
  BY <1>1 DEF AskRequest
<1>5. \A t \in TokenSlots : GrantTypes /\ asking[t] \in AskRequest BY DEF GrantInv, GrantTypes
<1>still. UNCHANGED <<refresh, nextGrant>> =>
         /\ nextGrant <= nextGrant' /\ \A g \in refresh' : g < nextGrant'
         /\ \A t \in TokenSlots \ {s} : AsksAt(t, "insert") => asking[t].grant \notin refresh'
  BY <1>1 DEF GrantTypes, GrantsNumbered, AsksAt
<1> USE DEF AsksAt
<1>6. CASE Redeem(s)
  <2> DEFINE pc == IF codeUsed THEN "lineage" ELSE "claim"
  <2>1. pc \in {"claim", "lineage"} /\ Ask(s, pc, "redeem", 0) BY <1>6 DEF Redeem
  <2> HIDE DEF pc
  <2> QED BY <2>1, AskBegins DEF Ops
<1>7. ASSUME NEW g \in held, Refresh(s, g) PROVE GrantInv'
  <2> DEFINE pc == IF g \in retired THEN "lineage" ELSE "member"
  <2>1. pc \in {"member", "lineage"} /\ Ask(s, pc, "refresh", g) BY <1>7 DEF Refresh
  <2>2. g \in refresh /\ g \in Nat BY <1>1 DEF GrantTypes
  <2> HIDE DEF pc
  <2> QED BY <2>1, <2>2, AskBegins DEF Ops
<1>8. ASSUME NEW g \in held, RevokeAccess(s, g) PROVE GrantInv'
  <2>1. g \in refresh /\ g \in Nat BY <1>1 DEF GrantTypes
  <2> QED BY <1>8, <2>1, AskBegins DEF RevokeAccess, Ops
<1>9. ASSUME NEW g \in refresh, RevokeRefresh(s, g) PROVE GrantInv'
  <2>1. g \in Nat BY <1>1 DEF GrantTypes
  <2> QED BY <1>9, <2>1, AskBegins DEF RevokeRefresh, Ops
<1>10. CASE \/ StopAsking(s) \/ Ended(s) \/ (ClaimCode(s) /\ codeUsed)
            \/ Member(s) /\ ~belongs
  <2>1. /\ asking' = [asking EXCEPT ![s] = NoRequest]
        /\ UNCHANGED <<belongs, tokenVars, held, forked>> /\ codeUsed' \in BOOLEAN /\ (codeUsed => codeUsed')
    BY <1>1, <1>10 DEF StopAsking, Ended, ClaimCode, Member, Done, Asking, GrantTypes
  <2>2. doomed' \subseteq retired /\ doomed' \cap access = {}
    BY <1>1, <1>10 DEF StopAsking, Ended, ClaimCode, Member, AskHolds
  <2> QED BY <1>1, <1>3, <2>1, <2>2, GrantWaits DEF GrantTypes
<1>11. CASE ClaimCode(s) /\ ~codeUsed
  <2> DEFINE r == [a EXCEPT !.pc = "member"]
  <2>1. /\ asking' = [asking EXCEPT ![s] = r] /\ codeUsed' = TRUE /\ a.pc = "claim"
        /\ UNCHANGED <<belongs, tokenVars, held, forked, doomed>>
    BY <1>11 DEF ClaimCode, AsksOn, Asking
  <2>2. r \in AskRequest /\ r.pc = "member" /\ r.op = a.op /\ r.grant = a.grant
        /\ r.known = a.known /\ r.family = a.family
    BY <1>4
  <2>3. a.op = "redeem" BY <1>1, <2>1 DEF AskHolds
  <2> HIDE DEF r
  <2> QED BY <1>1, <1>11, <2>1, <2>2, <2>3, GrantWaits DEF GrantTypes, AskHolds
<1>12. CASE Member(s) /\ belongs
  <2> DEFINE pc == IF a.op = "redeem" THEN "mint" ELSE "retire"
             r == [a EXCEPT !.pc = pc]
  <2>1. /\ asking' = [asking EXCEPT ![s] = r] /\ a.pc = "member"
        /\ UNCHANGED <<codeUsed, belongs, tokenVars, held, forked, doomed>>
    BY <1>12 DEF Member, AsksOn, Asking
  <2>2. r \in AskRequest /\ r.pc = pc /\ r.op = a.op /\ r.grant = a.grant
        /\ r.known = a.known /\ r.family = a.family
    BY <1>4
  <2>3. a.op = "redeem" => Issuing(s) /\ codeUsed BY <1>1, <2>1 DEF Issuing, OneLine
  <2> HIDE DEF r
  <2> QED BY <1>1, <2>1, <2>2, <2>3, GrantWaits DEF GrantTypes, AskHolds
<1>13. CASE Retire(s)
  <2> DEFINE r == [a EXCEPT !.pc = "retireAccess"]
  <2>1. /\ asking' = [asking EXCEPT ![s] = r] /\ a.pc = "retire" /\ retired' = retired \cup {a.grant}
        /\ forked' = (forked \/ (a.op = "refresh" /\ a.grant \in retired))
        /\ UNCHANGED <<codeUsed, belongs, nextGrant, access, refresh, held, doomed>>
    BY <1>13 DEF Retire, AsksOn, Asking
  <2>2. r \in AskRequest /\ r.pc = "retireAccess" /\ r.op = a.op /\ r.grant = a.grant
        /\ r.known = a.known /\ r.family = a.family
    BY <1>4
  <2>3. a.grant \in refresh /\ a.op # "redeem" BY <1>1, <2>1 DEF AskHolds
  <2> HIDE DEF r
  <2>4. GrantTypes'
    <3>1. asking' \in [TokenSlots -> AskRequest] BY <1>1, <2>1, <2>2 DEF GrantTypes
    <3> QED BY <1>1, <2>1, <2>3, <3>1 DEF GrantTypes
  <2>5. \A t \in TokenSlots : asking'[t] = IF t = s THEN r ELSE asking[t] BY <1>1, <2>1 DEF GrantTypes
  <2>6. Live' = Live \ {a.grant} BY <2>1 DEF Live
  <2>7. OneLine'
    <3>1. \A t \in TokenSlots \ {s} : Issuing(t)' <=> Issuing(t) BY <2>5 DEF Issuing
    <3>2. Issuing(s)' <=> a.op = "refresh" BY <2>2, <2>5 DEF Issuing
    <3>3. CASE a.op = "refresh" /\ a.grant \notin retired
      <4>1. a.grant \in Live /\ codeUsed BY <1>1, <2>3, <3>3 DEF Live, OneLine
      <4> QED BY <1>1, <2>1, <2>6, <3>1, <3>3, <4>1 DEF OneLine
    <3>4. CASE a.op = "refresh" /\ a.grant \in retired
      <4>1. forked' /\ codeUsed' = codeUsed BY <2>1, <3>4
      <4>2. ~codeUsed => refresh = {}
        BY <1>1, <2>3, <3>4 DEF OneLine, GrantTypes
      <4> QED BY <2>3, <4>1, <4>2 DEF OneLine
    <3>5. CASE a.op # "refresh"
      <4>1. forked' = forked /\ ~Issuing(s)' BY <1>1, <2>1, <3>2, <3>5 DEF GrantTypes
      <4> QED BY <1>1, <2>1, <2>6, <3>1, <4>1 DEF OneLine
    <3> QED BY <3>3, <3>4, <3>5
  <2> QED BY <1>1, <1>still, <2>1, <2>2, <2>3, <2>4, <2>7, GrantMoves DEF GrantTypes, GrantsNumbered, AskHolds
<1>14. CASE RetireAccess(s)
  <2> DEFINE r == IF a.op = "refresh" THEN [a EXCEPT !.pc = "mint"] ELSE NoRequest
  <2>1. /\ asking' = [asking EXCEPT ![s] = r] /\ a.pc = "retireAccess" /\ access' = access \ {a.grant}
        /\ UNCHANGED <<codeUsed, belongs, nextGrant, refresh, retired, held, forked, doomed>>
    BY <1>14 DEF RetireAccess, AsksOn, Done, Asking
  <2>2. /\ r \in AskRequest /\ r.pc \in {"mint", "none"} /\ (r.pc = "mint" => a.op = "refresh")
        /\ r.known \subseteq refresh /\ r.family \subseteq refresh
    BY <1>1, <1>3, <1>4 DEF AskHolds
  <2> HIDE DEF r
  <2>3. GrantTypes'
    <3>1. asking' \in [TokenSlots -> AskRequest] BY <1>1, <2>1, <2>2 DEF GrantTypes
    <3> QED BY <1>1, <2>1, <3>1 DEF GrantTypes
  <2>4. \A t \in TokenSlots : asking'[t] = IF t = s THEN r ELSE asking[t] BY <1>1, <2>1 DEF GrantTypes
  <2>5. OneLine'
    <3>1. \A t \in TokenSlots : Issuing(t)' => Issuing(t) BY <2>1, <2>2, <2>4 DEF Issuing
    <3> QED BY <1>1, <2>1, <3>1 DEF OneLine, Live
  <2>6. /\ refresh \subseteq refresh' /\ retired \subseteq retired' /\ \A h \in refresh : h \in access' => h \in access
        /\ doomed' \subseteq retired' /\ doomed' \cap access' = {}
    BY <1>1, <2>1
  <2>7. r.pc \notin {"insert", "claim", "member", "retire", "retireAccess", "lineageRetire", "lineageAccess", "ended"}
    BY <2>2
  <2>8. /\ nextGrant <= nextGrant' /\ \A g \in refresh' : g < nextGrant'
        /\ \A t \in TokenSlots \ {s} : AsksAt(t, "insert") => asking[t].grant \notin refresh'
    BY <1>still, <2>1
  <2>9. r.known \subseteq refresh' /\ r.family \subseteq refresh' BY <2>1, <2>2
  <2> HIDE DEF a
  <2> QED BY <2>1, <2>2, <2>3, <2>5, <2>6, <2>7, <2>8, <2>9, GrantMoves
<1>15. CASE Mint(s)
  <2> DEFINE r == [a EXCEPT !.pc = "insert", !.grant = nextGrant]
  <2>1. /\ asking' = [asking EXCEPT ![s] = r] /\ a.pc = "mint" /\ access' = access \cup {nextGrant}
        /\ nextGrant' = nextGrant + 1 /\ nextGrant \in Nat
        /\ UNCHANGED <<codeUsed, belongs, refresh, retired, held, forked, doomed>>
    BY <1>1, <1>15 DEF Mint, Asking, GrantTypes
  <2>2. /\ r \in AskRequest /\ r.pc = "insert" /\ r.grant = nextGrant /\ r.op = a.op
        /\ r.known = a.known /\ r.family = a.family
    BY <1>1, <2>1 DEF AskRequest
  <2> HIDE DEF r
  <2>3. GrantTypes'
    <3>1. asking' \in [TokenSlots -> AskRequest] BY <1>1, <2>1, <2>2 DEF GrantTypes
    <3> QED BY <1>1, <2>1, <3>1 DEF GrantTypes
  <2>4. \A t \in TokenSlots : asking'[t] = IF t = s THEN r ELSE asking[t] BY <1>1, <2>1 DEF GrantTypes
  <2>5. OneLine'
    <3>1. \A t \in TokenSlots : Issuing(t)' => Issuing(t) BY <2>1, <2>2, <2>4 DEF Issuing
    <3> QED BY <1>1, <2>1, <3>1 DEF OneLine, Live
  <2>6. \A g \in refresh : g \in Nat /\ g < nextGrant BY <1>1 DEF GrantTypes, GrantsNumbered
  <2>7. nextGrant \notin refresh /\ nextGrant \notin doomed BY <1>1, <2>1, <2>6 DEF GrantTypes
  <2>8. \A t \in TokenSlots : AsksAt(t, "insert") => asking[t].grant # nextGrant
    BY <1>1, <1>5, <2>1 DEF GrantsNumbered, AskRequest
  <2>9. /\ refresh \subseteq refresh' /\ retired \subseteq retired' /\ \A h \in refresh : h \in access' => h \in access
        /\ doomed' \subseteq retired' /\ doomed' \cap access' = {}
    BY <1>1, <2>1, <2>7
  <2>10. /\ nextGrant <= nextGrant' /\ \A g \in refresh' : g < nextGrant'
         /\ r.grant < nextGrant' /\ r.grant \notin refresh'
    BY <1>1, <2>1, <2>2, <2>6, <2>7 DEF GrantTypes
  <2>11. \A t \in TokenSlots \ {s} : AsksAt(t, "insert") => asking[t].grant \notin refresh' /\ asking[t].grant # r.grant
    BY <1>1, <2>1, <2>2, <2>8 DEF GrantsNumbered
  <2>12. r.known \subseteq refresh' /\ r.family \subseteq refresh' BY <1>1, <2>1, <2>2 DEF AskHolds
  <2> HIDE DEF a
  <2> QED BY <2>1, <2>2, <2>3, <2>5, <2>9, <2>10, <2>11, <2>12, GrantMoves
<1>16. CASE InsertRefresh(s)
  <2> DEFINE g == a.grant
  <2>1. /\ asking' = [asking EXCEPT ![s] = NoRequest] /\ a.pc = "insert" /\ refresh' = refresh \cup {g}
        /\ held' \in {held, held \cup {g}}
        /\ UNCHANGED <<codeUsed, belongs, nextGrant, access, retired, forked, doomed>>
    BY <1>16 DEF InsertRefresh, Done, Asking
  <2>2. g \in Nat /\ g < nextGrant /\ g \notin refresh BY <1>1, <1>2, <2>1 DEF GrantsNumbered
  <2>3. \A t \in TokenSlots \ {s} : AsksAt(t, "insert") => asking[t].grant # g
    BY <1>1, <2>1 DEF GrantsNumbered
  <2> HIDE DEF g
  <2>4. GrantTypes'
    <3>1. asking' \in [TokenSlots -> AskRequest] BY <1>1, <1>3, <2>1 DEF GrantTypes
    <3> QED BY <1>1, <2>1, <2>2, <3>1 DEF GrantTypes
  <2>5. \A t \in TokenSlots : asking'[t] = IF t = s THEN NoRequest ELSE asking[t] BY <1>1, <2>1 DEF GrantTypes
  <2>6. OneLine'
    <3>1. \A t \in TokenSlots : Issuing(t)' => t # s /\ Issuing(t) BY <1>3, <2>5 DEF Issuing
    <3>2. Issuing(s) /\ codeUsed BY <1>1, <2>1 DEF Issuing, OneLine
    <3>3. Live' \subseteq Live \cup {g} BY <2>1 DEF Live
    <3> QED BY <1>1, <2>1, <3>1, <3>2, <3>3 DEF OneLine
  <2>7. \A t \in TokenSlots \ {s} : AsksAt(t, "insert") => asking[t].grant \notin refresh'
    BY <1>1, <2>1, <2>3 DEF GrantsNumbered
  <2>8. \A h \in refresh' : h < nextGrant' BY <1>1, <2>1, <2>2 DEF GrantsNumbered
  <2>9. /\ refresh \subseteq refresh' /\ retired \subseteq retired' /\ \A h \in refresh : h \in access' => h \in access
        /\ doomed' \subseteq retired' /\ doomed' \cap access' = {}
    BY <1>1, <2>1
  <2>10. nextGrant <= nextGrant' BY <1>1, <2>1 DEF GrantTypes
  <2> HIDE DEF a
  <2> QED BY <1>3, <2>1, <2>4, <2>6, <2>7, <2>8, <2>9, <2>10, GrantMoves
<1>17. CASE Lineage(s) /\ refresh = {}
  <2> DEFINE r == [a EXCEPT !.pc = "ended"]
  <2>1. /\ asking' = [asking EXCEPT ![s] = r] /\ a.pc = "lineage"
        /\ UNCHANGED <<codeUsed, belongs, tokenVars, held, forked, doomed>>
    BY <1>17 DEF Lineage, AsksOn, Asking
  <2>2. r \in AskRequest /\ r.pc = "ended" /\ r.known = a.known /\ r.family = a.family BY <1>4
  <2>3. a.known = {} /\ a.family = {} BY <1>1, <1>17 DEF AskHolds
  <2> HIDE DEF r
  <2> QED BY <1>1, <2>1, <2>2, <2>3, GrantWaits DEF GrantTypes
<1>18. CASE Lineage(s) /\ refresh # {}
  <2> DEFINE r == [a EXCEPT !.pc = "lineageRetire", !.family = refresh]
  <2>1. /\ asking' = [asking EXCEPT ![s] = r] /\ a.pc = "lineage"
        /\ UNCHANGED <<codeUsed, belongs, tokenVars, held, forked, doomed>>
    BY <1>18 DEF Lineage, Asking
  <2>2. r \in AskRequest /\ r.pc = "lineageRetire" /\ r.known = a.known /\ r.family = refresh
    BY <1>1 DEF AskRequest, GrantTypes
  <2> HIDE DEF r
  <2> QED BY <1>1, <2>1, <2>2, GrantWaits DEF GrantTypes, AskHolds
<1>19. CASE LineageRetire(s)
  <2> DEFINE r == [a EXCEPT !.pc = "lineageAccess"]
  <2>1. /\ asking' = [asking EXCEPT ![s] = r] /\ a.pc = "lineageRetire" /\ retired' = retired \cup a.family
        /\ UNCHANGED <<codeUsed, belongs, nextGrant, access, refresh, held, forked, doomed>>
    BY <1>19 DEF LineageRetire, AsksOn, Asking
  <2>2. r \in AskRequest /\ r.pc = "lineageAccess" /\ r.known = a.known /\ r.family = a.family BY <1>4
  <2>3. a.family \subseteq refresh /\ a.known \subseteq a.family BY <1>1, <2>1 DEF AskHolds
  <2> HIDE DEF r
  <2>4. GrantTypes'
    <3>1. asking' \in [TokenSlots -> AskRequest] BY <1>1, <2>1, <2>2 DEF GrantTypes
    <3> QED BY <1>1, <2>1, <2>3, <3>1 DEF GrantTypes
  <2>5. \A t \in TokenSlots : asking'[t] = IF t = s THEN r ELSE asking[t] BY <1>1, <2>1 DEF GrantTypes
  <2>6. OneLine'
    <3>1. \A t \in TokenSlots : Issuing(t)' => Issuing(t) BY <2>2, <2>5 DEF Issuing
    <3>2. Live' \subseteq Live BY <2>1 DEF Live
    <3> QED BY <1>1, <2>1, <3>1, <3>2 DEF OneLine
  <2>7. /\ refresh \subseteq refresh' /\ retired \subseteq retired' /\ \A h \in refresh : h \in access' => h \in access
        /\ doomed' \subseteq retired' /\ doomed' \cap access' = {}
    BY <1>1, <2>1
  <2>8. /\ nextGrant <= nextGrant' /\ \A g \in refresh' : g < nextGrant'
        /\ \A t \in TokenSlots \ {s} : AsksAt(t, "insert") => asking[t].grant \notin refresh'
    BY <1>still, <2>1
  <2>9. r.known \subseteq refresh' /\ r.family \subseteq refresh' BY <1>1, <2>1, <2>2 DEF AskHolds
  <2>10. r.family \subseteq retired' /\ r.known \subseteq r.family BY <2>1, <2>2, <2>3
  <2> HIDE DEF a
  <2> QED BY <2>1, <2>2, <2>4, <2>6, <2>7, <2>8, <2>9, <2>10, GrantMoves
<1>20. CASE LineageAccess(s)
  <2> DEFINE r == [a EXCEPT !.pc = "ended"]
  <2>1. /\ asking' = [asking EXCEPT ![s] = r] /\ a.pc = "lineageAccess" /\ access' = access \ a.family
        /\ UNCHANGED <<codeUsed, belongs, nextGrant, refresh, retired, held, forked, doomed>>
    BY <1>20 DEF LineageAccess, AsksOn, Asking
  <2>2. r \in AskRequest /\ r.pc = "ended" /\ r.known = a.known /\ r.family = a.family BY <1>4
  <2>3. a.family \subseteq retired /\ a.known \subseteq a.family BY <1>1, <2>1 DEF AskHolds
  <2> HIDE DEF r
  <2>4. GrantTypes'
    <3>1. asking' \in [TokenSlots -> AskRequest] BY <1>1, <2>1, <2>2 DEF GrantTypes
    <3> QED BY <1>1, <2>1, <3>1 DEF GrantTypes
  <2>5. \A t \in TokenSlots : asking'[t] = IF t = s THEN r ELSE asking[t] BY <1>1, <2>1 DEF GrantTypes
  <2>6. OneLine'
    <3>1. \A t \in TokenSlots : Issuing(t)' => Issuing(t) BY <2>2, <2>5 DEF Issuing
    <3> QED BY <1>1, <2>1, <3>1 DEF OneLine, Live
  <2>7. /\ refresh \subseteq refresh' /\ retired \subseteq retired' /\ \A h \in refresh : h \in access' => h \in access
        /\ doomed' \subseteq retired' /\ doomed' \cap access' = {}
    BY <1>1, <2>1
  <2>8. /\ nextGrant <= nextGrant' /\ \A g \in refresh' : g < nextGrant'
        /\ \A t \in TokenSlots \ {s} : AsksAt(t, "insert") => asking[t].grant \notin refresh'
    BY <1>still, <2>1
  <2>9. r.known \subseteq refresh' /\ r.family \subseteq refresh' BY <1>1, <2>1, <2>2 DEF AskHolds
  <2>10. r.known \subseteq retired' /\ r.known \cap access' = {} /\ r.family \subseteq retired'
         /\ r.known \subseteq r.family
    BY <2>1, <2>2, <2>3
  <2> HIDE DEF a
  <2> QED BY <2>1, <2>2, <2>4, <2>6, <2>7, <2>8, <2>9, <2>10, GrantMoves
<1> QED BY <1>6, <1>7, <1>8, <1>9, <1>10, <1>11, <1>12, <1>13, <1>14, <1>15, <1>16, <1>17, <1>18, <1>19, <1>20

LEMMA GrantInvHolds == GrantSpec => []GrantInv
<1>1. GrantInit => GrantInv
  <2> SUFFICES ASSUME GrantInit PROVE GrantInv OBVIOUS
  <2>1. NoRequest \in AskRequest /\ NoRequest.pc = "none" /\ NoRequest.known = {} /\ NoRequest.family = {}
    BY DEF NoRequest, AskRequest
  <2>2. \A s \in TokenSlots : asking[s] = NoRequest BY DEF GrantInit
  <2>3. GrantTypes BY <2>1 DEF GrantInit, GrantTypes
  <2>4. OneLine BY <2>1, <2>2 DEF GrantInit, OneLine, Live, Issuing, AsksAt
  <2> QED BY <2>1, <2>2, <2>3, <2>4 DEF GrantInit, GrantInv, GrantsNumbered, AskHolds, AsksAt
<1>2. GrantInv /\ [GrantNext]_grantVars => GrantInv'
  <2> SUFFICES ASSUME GrantInv, [GrantNext]_grantVars PROVE GrantInv' OBVIOUS
  <2>1. CASE Leave \/ UNCHANGED grantVars
    <3>1. belongs' \in BOOLEAN /\ UNCHANGED <<codeUsed, tokenVars, held, asking, forked, doomed>>
      BY <2>1 DEF Leave, grantVars, GrantInv, GrantTypes
    <3> QED BY <3>1 DEF GrantInv, GrantTypes, GrantsNumbered, OneLine, Live, Issuing, AskHolds, AsksAt, tokenVars
  <2> QED BY <2>1, GrantStep DEF GrantNext
<1> QED BY <1>1, <1>2, PTL DEF GrantSpec

\* However the presentations of a code and its tokens overlap, after lost answers and
\* restarts, one refresh token of the code is live at most, until a refresh goes on
\* from a token retired since it was read; and the grants held when a replay was
\* presented are dead once it is refused, and stay so (token.ts, store.ts:
\* retireRefresh and revokeCodeLineage).
THEOREM OneGrantLives == GrantSpec => []GrantsHold
<1>1. GrantInv => GrantsHold
  <2> SUFFICES ASSUME GrantInv, ~forked PROVE Cardinality(refresh \ retired) <= 1
    BY DEF GrantsHold, OneLiveGrant, RefusalEndsGrant, GrantInv
  <2>1. CASE refresh \ retired = {} BY <2>1, FS_EmptySet
  <2>2. ASSUME NEW g \in refresh \ retired PROVE Cardinality(refresh \ retired) <= 1
    <3>1. refresh \ retired = {g} BY DEF GrantInv, OneLine, Live
    <3> QED BY <3>1, FS_Singleton
  <2> QED BY <2>1, <2>2
<1> QED BY <1>1, GrantInvHolds, PTL
-----------------------------------------------------------------------------
\* Linking a chat account (server/integrations/shared/linkCodes.ts, link.ts, identity.ts).

CodeRow == [owner : Persons, until : Int, used : BOOLEAN, row : BOOLEAN]
MintRequest == [op : {"mint"}, pc : {"drop", "insert"}, person : Persons, now : Nat]
LinkRequest ==
  [op : {"link"}, pc : {"claim", "freeAccount", "freePerson", "bind"}, chat : Chats, code : Nat, now : Nat]

LinkTypes ==
  /\ linkCodes \in Seq(CodeRow) /\ identities \subseteq [person : Persons, chat : Chats]
  /\ hour \in Nat /\ alone \in BOOLEAN
  /\ linking \in [LinkSlots -> {NoLink} \cup MintRequest \cup LinkRequest]

\* A link names a code there is; past its claim, the code is spent and bound to it.
LinkKnows(s) ==
  linking[s].op = "link" =>
    /\ linking[s].code \in DOMAIN linkCodes
    /\ linking[s].pc # "claim" => <<linking[s].code, linking[s].chat, s>> \in bound

SpentOnce ==
  /\ \A b \in bound : b[1] \in DOMAIN linkCodes /\ linkCodes[b[1]].used
  /\ \A a, b \in bound : a[1] = b[1] => a = b
LinksAreEarned ==
  \A i \in identities : \E b \in bound : b[2] = i.chat /\ linkCodes[b[1]].owner = i.person

\* Requests of one kind are one at a time; a mint about to insert has left its
\* member no code, and a link about to bind has left neither side another.
StillFresh(c) == linkCodes[c].row /\ ~linkCodes[c].used
OneOfAKind(s) == \A u \in LinkSlots : linking[u].op = linking[s].op => u = s \/ linking[s].op = "none"
Cleared(s) ==
  /\ linking[s].pc = "insert" =>
       \A c \in DOMAIN linkCodes : ~(linkCodes[c].owner = linking[s].person /\ StillFresh(c))
  /\ linking[s].pc \in {"freePerson", "bind"} => \A i \in identities : i.chat # linking[s].chat
  /\ linking[s].pc = "bind" => \A i \in identities : i.person # linkCodes[linking[s].code].owner
Exclusive ==
  /\ \A i, j \in identities : i.person = j.person <=> i.chat = j.chat
  /\ \A c, d \in DOMAIN linkCodes :
       linkCodes[c].owner = linkCodes[d].owner /\ StillFresh(c) /\ StillFresh(d) => c = d
WhenAlone == alone => Exclusive /\ \A s \in LinkSlots : OneOfAKind(s) /\ Cleared(s)

LinkInv ==
  LinkTypes /\ (\A s \in LinkSlots : LinkKnows(s)) /\ SpentOnce /\ LinksAreEarned /\ WhenAlone

LinkRequests == {NoLink} \cup MintRequest \cup LinkRequest

\* The codes kept their numbers and owners, and none came back.
CodesKept ==
  /\ linkCodes' \in Seq(CodeRow) /\ DOMAIN linkCodes \subseteq DOMAIN linkCodes'
  /\ \A c \in DOMAIN linkCodes :
       /\ linkCodes'[c].owner = linkCodes[c].owner /\ (linkCodes[c].used => linkCodes'[c].used)
       /\ (linkCodes'[c].row => linkCodes[c].row)

LEMMA KeptIsHeld == ASSUME CodesKept, SpentOnce, LinksAreEarned, LinkTypes, identities' \subseteq identities, bound' = bound
  PROVE SpentOnce' /\ LinksAreEarned'
BY DEF CodesKept, SpentOnce, LinksAreEarned, LinkTypes

\* Rows are dropped: the codes are otherwise as they were.
LEMMA RowsDrop ==
  ASSUME LinkTypes, NEW P, linkCodes' = [c \in DOMAIN linkCodes |-> [linkCodes[c] EXCEPT !.row = @ /\ c \in P]]
  PROVE  /\ CodesKept /\ DOMAIN linkCodes' = DOMAIN linkCodes
         /\ \A c \in DOMAIN linkCodes : /\ linkCodes'[c].used = linkCodes[c].used
                                        /\ linkCodes'[c].row => c \in P
<1>1. linkCodes \in Seq(CodeRow) BY DEF LinkTypes
<1>2. \A c \in DOMAIN linkCodes : linkCodes[c] \in CodeRow BY <1>1
<1>3. \A c \in DOMAIN linkCodes :
        /\ linkCodes'[c] \in CodeRow /\ linkCodes'[c].owner = linkCodes[c].owner
        /\ linkCodes'[c].used = linkCodes[c].used
        /\ linkCodes'[c].row => linkCodes[c].row /\ c \in P
  BY <1>2 DEF CodeRow
<1>4. linkCodes' \in Seq(CodeRow)
  <2>1. DOMAIN linkCodes = 1..Len(linkCodes) /\ Len(linkCodes) \in Nat BY <1>1
  <2>2. linkCodes' \in [1..Len(linkCodes) -> CodeRow] BY <1>3, <2>1
  <2> QED BY <2>1, <2>2
<1> QED BY <1>3, <1>4 DEF CodesKept

\* A slot's request moves, codes keep their places, and no account is bound.
LEMMA LinkMoves ==
  ASSUME LinkInv, NEW s \in LinkSlots, NEW r \in LinkRequests, linking' = [linking EXCEPT ![s] = r],
         CodesKept, DOMAIN linkCodes' = DOMAIN linkCodes, identities' \subseteq identities, hour' = hour,
         bound \subseteq bound', SpentOnce', LinksAreEarned',
         alone' \in BOOLEAN, alone' => alone,
         alone' => \/ r = NoLink \/ r.op = linking[s].op
                   \/ \A u \in LinkSlots : linking[u].op # r.op,
         r.op = "link" =>
           r.code \in DOMAIN linkCodes /\ (r.pc # "claim" => <<r.code, r.chat, s>> \in bound'),
         alone' =>
           /\ r.pc = "insert" => \A c \in DOMAIN linkCodes : ~(linkCodes[c].owner = r.person /\ StillFresh(c)')
           /\ r.pc \in {"freePerson", "bind"} => \A i \in identities' : i.chat # r.chat
           /\ r.pc = "bind" => \A i \in identities' : i.person # linkCodes[r.code].owner
  PROVE  LinkInv'
<1>0. LinkTypes BY DEF LinkInv
<1>1. NoLink.op = "none" /\ NoLink.pc = "none" BY DEF NoLink
<1>2. \A c \in DOMAIN linkCodes :
        (StillFresh(c)' => StillFresh(c)) /\ linkCodes'[c].owner = linkCodes[c].owner
  BY DEF StillFresh, CodesKept
<1>4. \A u \in LinkSlots : linking'[u] = IF u = s THEN r ELSE linking[u] BY <1>0 DEF LinkTypes
<1>5. LinkTypes' BY <1>0 DEF LinkTypes, CodesKept, LinkRequests
<1>7. \A u \in LinkSlots : LinkKnows(u)' BY <1>4 DEF LinkInv, LinkKnows
<1>8. WhenAlone'
  <2> SUFFICES ASSUME alone' PROVE Exclusive' /\ \A u \in LinkSlots : OneOfAKind(u)' /\ Cleared(u)'
    BY DEF WhenAlone
  <2>1. alone /\ Exclusive /\ \A u \in LinkSlots : OneOfAKind(u) /\ Cleared(u)
    BY DEF WhenAlone, LinkInv
  <2>2. Exclusive' BY <1>2, <2>1 DEF Exclusive
  <2>3. \A u \in LinkSlots : OneOfAKind(u)' BY <1>1, <1>4, <2>1 DEF OneOfAKind
  <2>4. \A u \in LinkSlots : Cleared(u)'
    <3> TAKE u \in LinkSlots
    <3>1. linking'[u].pc = "bind" => linking'[u].code \in DOMAIN linkCodes
      <4>1. linking'[u] \in LinkRequests BY <1>5 DEF LinkTypes, LinkRequests
      <4>2. linking'[u].pc = "bind" => linking'[u].op = "link"
        BY <4>1 DEF LinkRequests, NoLink, MintRequest, LinkRequest
      <4> QED BY <1>7, <4>2 DEF LinkKnows
    <3>2. CASE u = s BY <1>2, <1>4, <3>1, <3>2 DEF Cleared
    <3>3. CASE u # s BY <1>2, <1>4, <2>1, <3>1, <3>3 DEF Cleared
    <3> QED BY <3>2, <3>3
  <2> QED BY <2>2, <2>3, <2>4
<1> QED BY <1>5, <1>7, <1>8 DEF LinkInv

LEMMA MintLinkKeeps == ASSUME LinkInv, NEW s \in LinkSlots, NEW p \in Persons, MintLink(s, p) PROVE LinkInv'
<1> DEFINE r == [op |-> "mint", pc |-> "drop", person |-> p, now |-> hour]
           P == {c \in DOMAIN linkCodes : linkCodes[c].until >= hour /\ ~linkCodes[c].used}
<1>0. LinkTypes BY DEF LinkInv
<1>1. /\ linking' = [linking EXCEPT ![s] = r]
      /\ alone' = (alone /\ \A u \in LinkSlots : linking[u].op # r.op)
      /\ UNCHANGED <<identities, hour, bound>>
      /\ linkCodes' = [c \in DOMAIN linkCodes |-> [linkCodes[c] EXCEPT !.row = @ /\ c \in P]]
  BY DEF MintLink, Arrives, Goes
<1>2. r \in LinkRequests /\ r.op = "mint" /\ r.pc = "drop"
  BY <1>0 DEF LinkTypes, MintRequest, LinkRequests
<1> HIDE DEF r, P
<1>3. CodesKept /\ DOMAIN linkCodes' = DOMAIN linkCodes BY <1>0, <1>1, RowsDrop
<1>4. SpentOnce' /\ LinksAreEarned' BY <1>0, <1>1, <1>3, KeptIsHeld DEF LinkInv
<1>5. alone' \in BOOLEAN BY <1>1, Zenon
<1> QED BY <1>1, <1>2, <1>3, <1>4, <1>5, LinkMoves

LEMMA PeekKeeps ==
  ASSUME LinkInv, NEW s \in LinkSlots, NEW chat \in Chats, NEW c \in DOMAIN linkCodes, Peek(s, chat, c)
  PROVE  LinkInv'
<1> DEFINE r == [op |-> "link", pc |-> "claim", chat |-> chat, code |-> c, now |-> hour]
<1>0. LinkTypes BY DEF LinkInv
<1>1. /\ linking' = [linking EXCEPT ![s] = r]
      /\ alone' = (alone /\ \A u \in LinkSlots : linking[u].op # r.op)
      /\ UNCHANGED <<linkCodes, identities, hour, bound>>
  BY DEF Peek, Arrives, Goes
<1>2. r \in LinkRequests /\ r.op = "link" /\ r.pc = "claim" /\ r.code = c
  <2>1. c \in Nat BY <1>0 DEF LinkTypes
  <2> QED BY <1>0, <2>1 DEF LinkTypes, LinkRequest, LinkRequests
<1> HIDE DEF r
<1>3. CodesKept BY <1>0, <1>1 DEF LinkTypes, CodesKept
<1>4. SpentOnce' /\ LinksAreEarned' BY <1>0, <1>1, <1>3, KeptIsHeld DEF LinkInv
<1>5. alone' \in BOOLEAN BY <1>1, Zenon
<1> QED BY <1>1, <1>2, <1>3, <1>4, <1>5, LinkMoves

\* The steps of a request in flight, but those that insert or bind.
LEMMA LinkStepKeeps ==
  ASSUME LinkInv, NEW s \in LinkSlots, DropFor(s) \/ ClaimLink(s) \/ FreeAccount(s) \/ FreePerson(s)
  PROVE  LinkInv'
<1>0. /\ LinkTypes /\ linking[s] \in LinkRequests /\ LinkKnows(s) /\ SpentOnce /\ LinksAreEarned
      /\ alone => Cleared(s)
  BY DEF LinkInv, LinkTypes, LinkRequests, WhenAlone
<1>1. CASE DropFor(s)
  <2> DEFINE r == [linking[s] EXCEPT !.pc = "insert"]
             P == {c \in DOMAIN linkCodes : linkCodes[c].owner # linking[s].person \/ linkCodes[c].used}
  <2>1. /\ linking' = [linking EXCEPT ![s] = r] /\ linking[s].pc = "drop"
        /\ UNCHANGED <<identities, hour, bound, alone>>
        /\ linkCodes' = [c \in DOMAIN linkCodes |-> [linkCodes[c] EXCEPT !.row = @ /\ c \in P]]
    BY <1>1 DEF DropFor, Goes
  <2>2. /\ r \in LinkRequests /\ r.op = "mint" /\ r.pc = "insert"
        /\ linking[s].op = "mint" /\ r.person = linking[s].person
    BY <1>0, <2>1 DEF LinkRequests, NoLink, MintRequest, LinkRequest
  <2> HIDE DEF r
  <2>3. /\ CodesKept /\ DOMAIN linkCodes' = DOMAIN linkCodes
        /\ \A c \in DOMAIN linkCodes : (linkCodes'[c].used <=> linkCodes[c].used) /\ (linkCodes'[c].row => c \in P)
    <3> HIDE DEF P
    <3> QED BY <1>0, <2>1, RowsDrop
  <2>4. \A c \in DOMAIN linkCodes : ~(linkCodes[c].owner = r.person /\ StillFresh(c)')
    BY <2>2, <2>3 DEF StillFresh
  <2> HIDE DEF P
  <2>5. SpentOnce' /\ LinksAreEarned' BY <1>0, <2>1, <2>3, KeptIsHeld
  <2>6. alone \in BOOLEAN BY <1>0 DEF LinkTypes
  <2> QED BY <2>1, <2>2, <2>3, <2>4, <2>5, <2>6, LinkMoves
<1>2. CASE ClaimLink(s) /\ ~Usable(linking[s].code, linking[s].now)
  <2>1. linking' = [linking EXCEPT ![s] = NoLink] /\ UNCHANGED <<linkCodes, identities, hour, bound, alone>>
    BY <1>2 DEF ClaimLink, Goes
  <2>2. NoLink \in LinkRequests /\ NoLink.op = "none" /\ NoLink.pc = "none" BY DEF LinkRequests, NoLink
  <2>3. CodesKept BY <1>0, <2>1 DEF LinkTypes, CodesKept
  <2>4. SpentOnce' /\ LinksAreEarned' BY <1>0, <2>1, <2>3, KeptIsHeld
  <2>5. alone \in BOOLEAN BY <1>0 DEF LinkTypes
  <2> QED BY <2>1, <2>2, <2>3, <2>4, <2>5, LinkMoves
<1>3. CASE ClaimLink(s) /\ Usable(linking[s].code, linking[s].now)
  <2> DEFINE r == [linking[s] EXCEPT !.pc = "freeAccount"]
             k == linking[s].code
             b == <<k, linking[s].chat, s>>
  <2>1. /\ linking' = [linking EXCEPT ![s] = r] /\ linking[s].pc = "claim"
        /\ bound' = bound \cup {b} /\ linkCodes' = [linkCodes EXCEPT ![k].used = TRUE]
        /\ UNCHANGED <<identities, hour, alone>>
    BY <1>3 DEF ClaimLink, Goes
  <2>2. /\ r \in LinkRequests /\ r.op = "link" /\ r.pc = "freeAccount"
        /\ linking[s].op = "link" /\ r.chat = linking[s].chat /\ r.code = k
    BY <1>0, <2>1 DEF LinkRequests, NoLink, MintRequest, LinkRequest
  <2>3. k \in DOMAIN linkCodes /\ ~linkCodes[k].used
    BY <1>0, <1>3, <2>2 DEF LinkKnows, Usable
  <2> HIDE DEF r, k
  <2>4. /\ CodesKept /\ DOMAIN linkCodes' = DOMAIN linkCodes /\ linkCodes'[k].used
    <3>1. linkCodes \in Seq(CodeRow) /\ \A c \in DOMAIN linkCodes : linkCodes[c] \in CodeRow
      BY <1>0 DEF LinkTypes
    <3>2. \A c \in DOMAIN linkCodes :
            /\ linkCodes'[c] = IF c = k THEN [linkCodes[c] EXCEPT !.used = TRUE] ELSE linkCodes[c]
            /\ linkCodes'[c] \in CodeRow
      BY <2>1, <2>3, <3>1 DEF CodeRow
    <3>3. DOMAIN linkCodes' = DOMAIN linkCodes /\ linkCodes' \in Seq(CodeRow) BY <2>1, <2>3, <3>1, <3>2
    <3>4. \A c \in DOMAIN linkCodes :
            /\ linkCodes'[c].owner = linkCodes[c].owner /\ (linkCodes[c].used => linkCodes'[c].used)
            /\ (linkCodes'[c].row => linkCodes[c].row)
      BY <3>1, <3>2 DEF CodeRow
    <3> QED BY <2>3, <3>1, <3>2, <3>3, <3>4 DEF CodesKept, CodeRow
  <2>5. b[1] = k /\ b[2] = linking[s].chat OBVIOUS
  <2>6. <<r.code, r.chat, s>> = b BY <2>2
  <2> HIDE DEF b
  <2>7. SpentOnce' BY <1>0, <2>1, <2>3, <2>4, <2>5 DEF SpentOnce, CodesKept
  <2>8. LinksAreEarned' BY <1>0, <2>1, <2>4 DEF LinksAreEarned, SpentOnce, CodesKept
  <2>9. alone \in BOOLEAN BY <1>0 DEF LinkTypes
  <2> QED BY <2>1, <2>2, <2>3, <2>4, <2>6, <2>7, <2>8, <2>9, LinkMoves
<1>4. CASE FreeAccount(s)
  <2> DEFINE r == [linking[s] EXCEPT !.pc = "freePerson"]
  <2>1. /\ linking' = [linking EXCEPT ![s] = r] /\ linking[s].pc = "freeAccount"
        /\ identities' = {i \in identities : i.chat # linking[s].chat}
        /\ UNCHANGED <<linkCodes, hour, bound, alone>>
    BY <1>4 DEF FreeAccount, Goes
  <2>2. /\ r \in LinkRequests /\ r.op = "link" /\ r.pc = "freePerson"
        /\ linking[s].op = "link" /\ r.chat = linking[s].chat /\ r.code = linking[s].code
    BY <1>0, <2>1 DEF LinkRequests, NoLink, MintRequest, LinkRequest
  <2> HIDE DEF r
  <2>3. CodesKept BY <1>0, <2>1 DEF LinkTypes, CodesKept
  <2>4. SpentOnce' /\ LinksAreEarned' BY <1>0, <2>1, <2>3, KeptIsHeld
  <2>5. alone \in BOOLEAN BY <1>0 DEF LinkTypes
  <2>6. r.code \in DOMAIN linkCodes /\ <<r.code, r.chat, s>> \in bound BY <1>0, <2>1, <2>2 DEF LinkKnows
  <2> QED BY <2>1, <2>2, <2>3, <2>4, <2>5, <2>6, LinkMoves
<1>5. CASE FreePerson(s)
  <2> DEFINE r == [linking[s] EXCEPT !.pc = "bind"]
  <2>1. /\ linking' = [linking EXCEPT ![s] = r] /\ linking[s].pc = "freePerson"
        /\ identities' = {i \in identities : i.person # linkCodes[linking[s].code].owner}
        /\ UNCHANGED <<linkCodes, hour, bound, alone>>
    BY <1>5 DEF FreePerson, Goes
  <2>2. /\ r \in LinkRequests /\ r.op = "link" /\ r.pc = "bind"
        /\ linking[s].op = "link" /\ r.chat = linking[s].chat /\ r.code = linking[s].code
    BY <1>0, <2>1 DEF LinkRequests, NoLink, MintRequest, LinkRequest
  <2> HIDE DEF r
  <2>3. CodesKept BY <1>0, <2>1 DEF LinkTypes, CodesKept
  <2>4. SpentOnce' /\ LinksAreEarned' BY <1>0, <2>1, <2>3, KeptIsHeld
  <2>5. alone \in BOOLEAN BY <1>0 DEF LinkTypes
  <2>6. r.code \in DOMAIN linkCodes /\ <<r.code, r.chat, s>> \in bound BY <1>0, <2>1, <2>2 DEF LinkKnows
  <2>7. alone => \A i \in identities' : i.chat # r.chat BY <1>0, <2>1, <2>2 DEF Cleared
  <2> QED BY <2>1, <2>2, <2>3, <2>4, <2>5, <2>6, <2>7, LinkMoves
<1> QED BY <1>1, <1>2, <1>3, <1>4, <1>5

LEMMA InsertCodeKeeps == ASSUME LinkInv, NEW s \in LinkSlots, InsertCode(s) PROVE LinkInv'
<1> DEFINE new == [owner |-> linking[s].person, until |-> linking[s].now + LinkLife, used |-> FALSE, row |-> TRUE]
           k == Len(linkCodes) + 1
<1>0. LinkTypes /\ linking[s] \in LinkRequests /\ SpentOnce /\ LinksAreEarned
  BY DEF LinkInv, LinkTypes, LinkRequests
<1>1. /\ linking[s].pc = "insert" /\ linkCodes' = Append(linkCodes, new) /\ linking' = [linking EXCEPT ![s] = NoLink]
      /\ UNCHANGED <<identities, hour, bound, alone>>
  BY DEF InsertCode, Goes
<1>2. linking[s].op = "mint" /\ linking[s].person \in Persons /\ linking[s].now \in Nat
  BY <1>0, <1>1 DEF LinkRequests, NoLink, MintRequest, LinkRequest
<1>3. new \in CodeRow /\ new.owner = linking[s].person BY <1>2, LifeIsSpan DEF CodeRow
<1> HIDE DEF new
<1>4. /\ linkCodes' \in Seq(CodeRow) /\ k \notin DOMAIN linkCodes /\ DOMAIN linkCodes' = DOMAIN linkCodes \cup {k}
      /\ linkCodes'[k] = new /\ \A c \in DOMAIN linkCodes : linkCodes'[c] = linkCodes[c]
  <2>1. linkCodes \in Seq(CodeRow) BY <1>0 DEF LinkTypes
  <2>2. linkCodes' \in Seq(CodeRow) /\ Len(linkCodes') = k BY <1>1, <1>3, <2>1
  <2>3. DOMAIN linkCodes = 1..Len(linkCodes) /\ DOMAIN linkCodes' = 1..k /\ Len(linkCodes) \in Nat
    BY <2>1, <2>2
  <2> QED BY <1>1, <1>3, <2>1, <2>2, <2>3
<1> HIDE DEF k
<1>5. CodesKept BY <1>4 DEF CodesKept
<1>6. SpentOnce' /\ LinksAreEarned' BY <1>0, <1>1, <1>5, KeptIsHeld
<1>7. \A u \in LinkSlots : linking'[u] = IF u = s THEN NoLink ELSE linking[u] BY <1>0, <1>1 DEF LinkTypes
<1>8. NoLink.op = "none" /\ NoLink.pc = "none" BY DEF NoLink
<1>9. LinkTypes' BY <1>0, <1>1, <1>4 DEF LinkTypes
<1>10. \A u \in LinkSlots : LinkKnows(u)' BY <1>1, <1>4, <1>7, <1>8 DEF LinkInv, LinkKnows
<1>11. WhenAlone'
  <2> SUFFICES ASSUME alone' PROVE Exclusive' /\ \A u \in LinkSlots : OneOfAKind(u)' /\ Cleared(u)'
    BY DEF WhenAlone
  <2>1. alone /\ Exclusive /\ \A u \in LinkSlots : OneOfAKind(u) /\ Cleared(u)
    BY <1>1 DEF WhenAlone, LinkInv
  <2>2. \A c \in DOMAIN linkCodes : ~(linkCodes[c].owner = new.owner /\ StillFresh(c))
    BY <1>1, <1>3, <2>1 DEF Cleared
  <2>3. \A c \in DOMAIN linkCodes : StillFresh(c)' => StillFresh(c) BY <1>4 DEF StillFresh
  <2>4. Exclusive'
    <3>1. identities' = identities BY <1>1
    <3>2. \A c, d \in DOMAIN linkCodes' :
            linkCodes'[c].owner = linkCodes'[d].owner /\ StillFresh(c)' /\ StillFresh(d)' => c = d
      BY <1>4, <2>1, <2>2, <2>3 DEF Exclusive
    <3> QED BY <2>1, <3>1, <3>2 DEF Exclusive
  <2>5. \A u \in LinkSlots : OneOfAKind(u)' BY <1>7, <1>8, <2>1 DEF OneOfAKind
  <2>6. \A u \in LinkSlots : Cleared(u)'
    <3> TAKE u \in LinkSlots
    <3>1. CASE u = s BY <1>7, <1>8, <3>1 DEF Cleared
    <3>2. CASE u # s
      <4>1. linking'[u] = linking[u] /\ Cleared(u) /\ linking[u] \in LinkRequests
        BY <1>0, <1>7, <2>1, <3>2 DEF LinkTypes, LinkRequests
      <4>2. linking[u].pc = "insert" => linking[u].op = "mint"
        BY <4>1 DEF LinkRequests, NoLink, MintRequest, LinkRequest
      <4>3. linking[u].op # "mint" BY <1>2, <2>1, <3>2 DEF OneOfAKind
      <4>4. linking[u].pc = "bind" => linking[u].code \in DOMAIN linkCodes
        <5>1. linking[u].pc = "bind" => linking[u].op = "link"
          BY <4>1 DEF LinkRequests, NoLink, MintRequest, LinkRequest
        <5> QED BY <5>1 DEF LinkInv, LinkKnows
      <4> QED BY <1>1, <1>4, <4>1, <4>2, <4>3, <4>4 DEF Cleared
    <3> QED BY <3>1, <3>2
  <2> QED BY <2>4, <2>5, <2>6
<1> QED BY <1>6, <1>9, <1>10, <1>11 DEF LinkInv

LEMMA BindKeeps == ASSUME LinkInv, NEW s \in LinkSlots, Bind(s) PROVE LinkInv'
<1> DEFINE k == linking[s].code
           new == [person |-> linkCodes[k].owner, chat |-> linking[s].chat]
<1>0. LinkTypes /\ linking[s] \in LinkRequests /\ SpentOnce /\ LinksAreEarned
  BY DEF LinkInv, LinkTypes, LinkRequests
<1>1. /\ linking[s].pc = "bind" /\ identities' = identities \cup {new} /\ linking' = [linking EXCEPT ![s] = NoLink]
      /\ UNCHANGED <<linkCodes, hour, bound, alone>>
  BY DEF Bind, Goes
<1>2. linking[s].op = "link" /\ linking[s].chat \in Chats
  BY <1>0, <1>1 DEF LinkRequests, NoLink, MintRequest, LinkRequest
<1>3. k \in DOMAIN linkCodes /\ <<k, linking[s].chat, s>> \in bound BY <1>1, <1>2 DEF LinkInv, LinkKnows
<1>4. new \in [person : Persons, chat : Chats] /\ new.chat = linking[s].chat /\ new.person = linkCodes[k].owner
  <2>1. linkCodes[k] \in CodeRow BY <1>0, <1>3 DEF LinkTypes
  <2> QED BY <1>2, <2>1 DEF CodeRow
<1>5. \E b \in bound : b[2] = new.chat /\ linkCodes[b[1]].owner = new.person
  <2> DEFINE b == <<k, linking[s].chat, s>>
  <2>1. b[1] = k /\ b[2] = linking[s].chat OBVIOUS
  <2> HIDE DEF new
  <2> QED BY <1>3, <1>4, <2>1
<1> HIDE DEF new, k
<1>7. \A u \in LinkSlots : linking'[u] = IF u = s THEN NoLink ELSE linking[u] BY <1>0, <1>1 DEF LinkTypes
<1>8. NoLink.op = "none" /\ NoLink.pc = "none" BY DEF NoLink
<1>9. LinkTypes' BY <1>0, <1>1, <1>4 DEF LinkTypes
<1>10. \A u \in LinkSlots : LinkKnows(u)' BY <1>1, <1>7, <1>8 DEF LinkInv, LinkKnows
<1>11. SpentOnce' BY <1>0, <1>1 DEF SpentOnce
<1>12. LinksAreEarned' BY <1>0, <1>1, <1>5 DEF LinksAreEarned
<1>13. WhenAlone'
  <2> SUFFICES ASSUME alone' PROVE Exclusive' /\ \A u \in LinkSlots : OneOfAKind(u)' /\ Cleared(u)'
    BY DEF WhenAlone
  <2>1. alone /\ Exclusive /\ \A u \in LinkSlots : OneOfAKind(u) /\ Cleared(u)
    BY <1>1 DEF WhenAlone, LinkInv
  <2>2. \A i \in identities : i.chat # new.chat /\ i.person # new.person
    BY <1>1, <1>4, <2>1 DEF Cleared, k
  <2>3. Exclusive'
    <3>1. \A i, j \in identities' : i.person = j.person <=> i.chat = j.chat
      BY <1>1, <2>1, <2>2 DEF Exclusive
    <3>2. linkCodes' = linkCodes BY <1>1
    <3> QED BY <2>1, <3>1, <3>2 DEF Exclusive, StillFresh
  <2>4. \A u \in LinkSlots : OneOfAKind(u)' BY <1>7, <1>8, <2>1 DEF OneOfAKind
  <2>5. \A u \in LinkSlots : Cleared(u)'
    <3> TAKE u \in LinkSlots
    <3>1. CASE u = s BY <1>7, <1>8, <3>1 DEF Cleared
    <3>2. CASE u # s
      <4>1. linking'[u] = linking[u] /\ Cleared(u) /\ linking[u] \in LinkRequests
        BY <1>0, <1>7, <2>1, <3>2 DEF LinkTypes, LinkRequests
      <4>2. linking[u].pc \in {"freePerson", "bind"} => linking[u].op = "link"
        BY <4>1 DEF LinkRequests, NoLink, MintRequest, LinkRequest
      <4>3. linking[u].op # "link" BY <1>2, <2>1, <3>2 DEF OneOfAKind
      <4> QED BY <1>1, <4>1, <4>2, <4>3 DEF Cleared, StillFresh
    <3> QED BY <3>1, <3>2
  <2> QED BY <2>3, <2>4, <2>5
<1> QED BY <1>9, <1>10, <1>11, <1>12, <1>13 DEF LinkInv

LEMMA OtherLinkSteps ==
  ASSUME LinkInv, \/ \E chat \in Chats : Unlink({i \in identities : i.chat # chat})
                  \/ \E p \in Persons : Unlink({i \in identities : i.person # p})
                  \/ LinksStop \/ HourPasses \/ UNCHANGED linkVars
  PROVE  LinkInv'
<1>0. LinkTypes /\ SpentOnce /\ LinksAreEarned /\ (\A s \in LinkSlots : LinkKnows(s)) /\ WhenAlone BY DEF LinkInv
<1>1. /\ UNCHANGED <<linkCodes, bound, alone>> /\ identities' \subseteq identities /\ hour' \in Nat
      /\ linking' \in {linking, [s \in LinkSlots |-> NoLink]}
  BY <1>0 DEF Unlink, LinksStop, HourPasses, linkVars, LinkTypes
<1>2. CodesKept BY <1>0, <1>1 DEF LinkTypes, CodesKept
<1>3. SpentOnce' /\ LinksAreEarned' BY <1>0, <1>1, <1>2, KeptIsHeld
<1>4. LinkTypes' BY <1>0, <1>1 DEF LinkTypes
<1>5. \A s \in LinkSlots : LinkKnows(s)' BY <1>0, <1>1 DEF LinkKnows, NoLink
<1>6. WhenAlone' BY <1>0, <1>1 DEF WhenAlone, Exclusive, OneOfAKind, Cleared, StillFresh, NoLink
<1> QED BY <1>3, <1>4, <1>5, <1>6 DEF LinkInv

\* A code links one account however many present it, and every link was made with
\* its member's code; while neither mints nor links overlap, links are one to one
\* and a member has one code to spend (linkCodes.ts:162-163, 286, identity.ts:66-68).
THEOREM LinksStayExclusive == LinkSpec => []LinksAreExclusive
<1>1. LinkInit => LinkInv
  <2> SUFFICES ASSUME LinkInit PROVE LinkInv OBVIOUS
  <2>1. LinkTypes BY DEF LinkInit, LinkTypes
  <2>2. (\A s \in LinkSlots : LinkKnows(s)) /\ SpentOnce /\ LinksAreEarned
    BY DEF LinkInit, LinkKnows, SpentOnce, LinksAreEarned, NoLink
  <2>3. WhenAlone BY DEF LinkInit, WhenAlone, Exclusive, OneOfAKind, Cleared, NoLink
  <2> QED BY <2>1, <2>2, <2>3 DEF LinkInv
<1>2. LinkInv /\ [LinkNext]_linkVars => LinkInv'
  BY MintLinkKeeps, PeekKeeps, LinkStepKeeps, InsertCodeKeeps, BindKeeps, OtherLinkSteps DEF LinkNext
<1>3. LinkInv => LinksAreExclusive
  <2> SUFFICES ASSUME LinkInv PROVE LinksAreExclusive OBVIOUS
  <2>1. SpentOnce /\ LinksAreEarned /\ (alone => Exclusive) BY DEF LinkInv, WhenAlone
  <2>2. \A c \in DOMAIN linkCodes : Usable(c, hour) => StillFresh(c) BY DEF Usable, StillFresh
  <2> QED BY <2>1, <2>2 DEF LinksAreExclusive, SpentOnce, LinksAreEarned, Exclusive
<1> QED BY <1>1, <1>2, <1>3, PTL DEF LinkSpec
-----------------------------------------------------------------------------
\* The two-factor policy (server/auth/security.ts, orgs.ts, actions/orgadmin.ts).

Consultation ==
  [pc : {"gate", "action", "merge", "write"}, totp : BOOLEAN, goal : BOOLEAN, loading : BOOLEAN,
   read : BOOLEAN, overtaken : BOOLEAN, misled : BOOLEAN]
Kept == [at : Nat, value : BOOLEAN]
AskStages == {"gate", "action", "merge"}

PolicyTypes ==
  /\ required \in BOOLEAN /\ late \in BOOLEAN /\ lockout \in BOOLEAN /\ second \in Nat
  /\ kept \in {NotKept} \cup Kept
  /\ consulting \in [Consulters -> {NoConsult, [pc |-> "forget"]} \cup Consultation]
  /\ \A c \in Callers \ {Administrator} : consulting[c].pc \in {"none", "gate"}

\* An entry that differs from the row was read before the last write, or the write
\* has yet to drop it; so was what a request has read and not kept.
KeptIsTrue == kept # NotKept /\ kept.value # required => late \/ consulting[Administrator].pc = "forget"
ReadIsTrue ==
  \A c \in Consulters :
    consulting[c].pc \in AskStages /\ consulting[c].loading /\ consulting[c].read # required => consulting[c].overtaken

\* Past the action, an administrator without TOTP turns on only what was on, or
\* what an old entry had told them was.
MayTurnOn ==
  LET r == consulting[Administrator] IN
  r.pc \in {"merge", "write"} /\ r.goal /\ ~r.totp => required \/ r.misled

PolicyInv == PolicyTypes /\ KeptIsTrue /\ ReadIsTrue /\ MayTurnOn /\ ~lockout

\* What a handler is told moves it on, or ends it.
LEMMA ToldMoves ==
  ASSUME PolicyInv, NEW c \in Consulters, NEW value \in BOOLEAN, Told(c, value), consulting[c].pc \in AskStages
  PROVE  \/ consulting' = [consulting EXCEPT ![c] = NoConsult]
         \/ \E r \in Consultation :
              /\ c = Administrator /\ consulting' = [consulting EXCEPT ![c] = r]
              /\ r.pc # "gate" /\ ~r.loading
              /\ r.pc \in {"merge", "write"} /\ r.goal /\ ~r.totp => required \/ r.misled
<1> DEFINE q == consulting[c]
           m == q.misled \/ value # required
           r == [consulting[c] EXCEPT !.loading = FALSE, !.overtaken = FALSE, !.misled = @ \/ value # required]
           refused == \/ r.pc = "gate" /\ ~Admits(r, value)
                      \/ r.pc = "action" /\ ~MayRequire(r, value)
           after == [gate |-> "action", action |-> "merge", merge |-> "write"]
<1>1. q \in Consultation BY DEF PolicyInv, PolicyTypes, AskStages, NoConsult
<1>2. r \in Consultation /\ r.pc = q.pc /\ r.goal = q.goal /\ r.totp = q.totp /\ ~r.loading
      /\ (r.misled <=> q.misled \/ value # required)
  BY <1>1 DEF Consultation
<1>3. \/ consulting' = [consulting EXCEPT ![c] = NoConsult]
      \/ /\ c = Administrator /\ ~refused
         /\ consulting' = [consulting EXCEPT ![c] = [r EXCEPT !.pc = after[r.pc]]]
  BY DEF Told, Moves
<1>4. \A p \in AskStages : /\ after[p] \in {"action", "merge", "write"}
                           /\ after[p] = "merge" => p = "action"
                           /\ after[p] = "write" => p = "merge"
  BY DEF AskStages
<1> HIDE DEF r, after
<1>5. ASSUME c = Administrator, ~refused
      PROVE  LET n == [r EXCEPT !.pc = after[r.pc]] IN
             /\ n \in Consultation /\ n.pc \in {"action", "merge", "write"} /\ ~n.loading
             /\ n.pc \in {"merge", "write"} /\ n.goal /\ ~n.totp => required \/ n.misled
  <2> DEFINE n == [r EXCEPT !.pc = after[r.pc]]
  <2>1. r.pc \in AskStages BY <1>2
  <2>2. /\ n \in Consultation /\ n.pc = after[r.pc] /\ n.goal = r.goal /\ n.totp = r.totp
        /\ n.loading = r.loading /\ (n.misled <=> r.misled)
    BY <1>2, <1>4, <2>1 DEF Consultation
  <2>3. r.pc = "action" /\ r.goal /\ ~r.totp => required \/ r.misled
    BY <1>2, <1>5 DEF MayRequire, PolicyInv, PolicyTypes
  <2>4. r.pc = "merge" /\ r.goal /\ ~r.totp => required \/ r.misled
    BY <1>2, <1>5 DEF PolicyInv, MayTurnOn
  <2> HIDE DEF n
  <2>5. n.pc \in {"merge", "write"} /\ n.goal /\ ~n.totp => required \/ n.misled
    BY <1>4, <2>1, <2>2, <2>3, <2>4
  <2> QED BY <1>2, <1>4, <2>1, <2>2, <2>5 DEF n
<1> HIDE DEF refused
<1> QED BY <1>3, <1>5

\* A handler that has been told: what is kept, and the rest.
LEMMA ToldKeeps ==
  ASSUME PolicyInv, NEW c \in Consulters, NEW value \in BOOLEAN, Told(c, value), consulting[c].pc \in AskStages,
         UNCHANGED <<required, second, lockout>>, late' \in BOOLEAN, kept' \in {NotKept} \cup Kept,
         (kept' = kept /\ late' = late) \/ (kept'.value # required => late')
  PROVE  PolicyInv'
<1>1. PICK r \in {NoConsult} \cup Consultation :
        /\ consulting' = [consulting EXCEPT ![c] = r]
        /\ r = NoConsult \/ c = Administrator
        /\ r # NoConsult => r.pc # "gate" /\ ~r.loading
        /\ r # NoConsult /\ r.pc \in {"merge", "write"} /\ r.goal /\ ~r.totp => required \/ r.misled
  BY ToldMoves
<1>2. NoConsult.pc = "none" BY DEF NoConsult
<1>3. \A d \in Consulters : consulting'[d] = IF d = c THEN r ELSE consulting[d]
  BY <1>1 DEF PolicyInv, PolicyTypes
<1>4. PolicyTypes' BY <1>1, <1>2, <1>3 DEF PolicyInv, PolicyTypes
<1>5. consulting[Administrator].pc = "forget" => c # Administrator BY DEF AskStages
<1>6. Administrator \in Consulters BY DEF Consulters
<1>7. consulting[Administrator].pc = "forget" => consulting'[Administrator].pc = "forget"
  BY <1>3, <1>5, <1>6
<1>8. KeptIsTrue' BY <1>7 DEF PolicyInv, KeptIsTrue
<1>9. ReadIsTrue' BY <1>1, <1>2, <1>3 DEF PolicyInv, ReadIsTrue, AskStages
<1>10. MayTurnOn' BY <1>1, <1>2, <1>3, <1>6 DEF PolicyInv, MayTurnOn
<1> QED BY <1>4, <1>8, <1>9, <1>10 DEF PolicyInv

LEMMA ConsultKeeps ==
  ASSUME PolicyInv, NEW c \in Consulters,
         \/ \E totp \in BOOLEAN, goal \in BOOLEAN : Consult(c, totp, goal)
         \/ Load(c)
  PROVE  PolicyInv'
<1>1. PICK r \in Consultation :
        /\ consulting' = [consulting EXCEPT ![c] = r]
        /\ r.loading => r.read = required
        /\ \/ r.pc = "gate"
           \/ /\ consulting[c] \in Consultation /\ r.pc = consulting[c].pc /\ r.goal = consulting[c].goal
              /\ r.totp = consulting[c].totp /\ r.misled = consulting[c].misled
  <2>1. ASSUME NEW totp \in BOOLEAN, NEW goal \in BOOLEAN, Consult(c, totp, goal)
        PROVE  \E r \in Consultation : consulting' = [consulting EXCEPT ![c] = r] /\ r.pc = "gate" /\ ~r.loading
    <3> DEFINE r == [pc |-> "gate", totp |-> totp, goal |-> goal, loading |-> FALSE, read |-> FALSE,
                     overtaken |-> FALSE, misled |-> FALSE]
    <3>1. r \in Consultation /\ r.pc = "gate" /\ ~r.loading BY DEF Consultation
    <3>2. consulting' = [consulting EXCEPT ![c] = r] BY <2>1 DEF Consult, Moves
    <3> QED BY <3>1, <3>2
  <2>2. ASSUME Load(c)
        PROVE  \E r \in Consultation :
                 /\ consulting' = [consulting EXCEPT ![c] = r] /\ r.read = required
                 /\ consulting[c] \in Consultation /\ r.pc = consulting[c].pc /\ r.goal = consulting[c].goal
                 /\ r.totp = consulting[c].totp /\ r.misled = consulting[c].misled
    <3> DEFINE r == [consulting[c] EXCEPT !.loading = TRUE, !.read = required]
    <3>1. consulting[c] \in Consultation
      BY <2>2 DEF Load, Asks, PolicyInv, PolicyTypes, NoConsult
    <3>2. /\ r \in Consultation /\ r.read = required /\ r.pc = consulting[c].pc /\ r.goal = consulting[c].goal
          /\ r.totp = consulting[c].totp /\ r.misled = consulting[c].misled
      BY <3>1 DEF Consultation, PolicyInv, PolicyTypes
    <3>3. consulting' = [consulting EXCEPT ![c] = r] BY <2>2 DEF Load, Moves
    <3> QED BY <3>1, <3>2, <3>3
  <2> QED BY <2>1, <2>2
<1>2. UNCHANGED <<required, kept, second, late, lockout>> BY DEF Consult, Load
<1>3. \A d \in Consulters : consulting'[d] = IF d = c THEN r ELSE consulting[d]
  BY <1>1 DEF PolicyInv, PolicyTypes
<1>4. PolicyTypes' BY <1>1, <1>2, <1>3 DEF PolicyInv, PolicyTypes
<1>5. consulting[c].pc # "forget" BY DEF Consult, Load, Asks
<1>6. Administrator \in Consulters BY DEF Consulters
<1>7. KeptIsTrue' BY <1>2, <1>3, <1>5, <1>6 DEF PolicyInv, KeptIsTrue
<1>8. ReadIsTrue' BY <1>1, <1>2, <1>3 DEF PolicyInv, ReadIsTrue
<1>9. MayTurnOn' BY <1>1, <1>2, <1>3, <1>6 DEF PolicyInv, MayTurnOn
<1> QED BY <1>2, <1>4, <1>7, <1>8, <1>9 DEF PolicyInv

LEMMA PolicyWriteKeeps == ASSUME PolicyInv, WritePolicy PROVE PolicyInv'
<1> DEFINE a == consulting[Administrator]
<1>0. Administrator \in Consulters BY DEF Consulters
<1>1. /\ a.pc = "write" /\ required' = a.goal
      /\ lockout' = (lockout \/ (a.goal /\ ~required /\ ~a.totp /\ ~a.misled))
      /\ consulting' = [c \in Consulters |->
                          IF c = Administrator THEN [pc |-> "forget"]
                          ELSE IF consulting[c].pc = "none" THEN NoConsult
                          ELSE [consulting[c] EXCEPT !.overtaken = consulting[c].loading]]
      /\ UNCHANGED <<kept, second, late>>
  BY DEF WritePolicy
<1>2. a \in Consultation BY <1>0, <1>1 DEF PolicyInv, PolicyTypes, NoConsult
<1>3. ~(a.goal /\ ~required /\ ~a.totp /\ ~a.misled) BY <1>1 DEF PolicyInv, MayTurnOn
<1>4. ~lockout' BY <1>1, <1>3 DEF PolicyInv
<1>5. \A c \in Consulters \ {Administrator} :
        consulting[c] = NoConsult \/ (consulting[c] \in Consultation /\ consulting[c].pc = "gate")
  <2> TAKE c \in Consulters \ {Administrator}
  <2>1. consulting[c] \in {NoConsult, [pc |-> "forget"]} \cup Consultation BY DEF PolicyInv, PolicyTypes
  <2>2. consulting[c].pc \in {"none", "gate"} BY DEF PolicyInv, PolicyTypes, Consulters
  <2>3. consulting[c] # [pc |-> "forget"] BY <2>2
  <2>4. consulting[c] \in Consultation => consulting[c].pc # "none" BY DEF Consultation
  <2> QED BY <2>1, <2>2, <2>3, <2>4 DEF NoConsult
<1>6. \A c \in Consulters \ {Administrator} :
        \/ consulting'[c] = NoConsult
        \/ /\ consulting'[c] \in Consultation /\ consulting'[c].pc = "gate"
           /\ consulting'[c].loading => consulting'[c].overtaken
  BY <1>1, <1>5 DEF Consultation, NoConsult
<1>7. consulting'[Administrator] = [pc |-> "forget"] /\ DOMAIN consulting' = Consulters BY <1>0, <1>1
<1>8. PolicyTypes'
  <2>1. required' \in BOOLEAN BY <1>1, <1>2 DEF Consultation
  <2>2. lockout' \in BOOLEAN BY <1>1, Zenon
  <2>3. \A c \in Consulters : consulting'[c] \in {NoConsult, [pc |-> "forget"]} \cup Consultation BY <1>6, <1>7
  <2>4. consulting' \in [Consulters -> {NoConsult, [pc |-> "forget"]} \cup Consultation] BY <1>1, <2>3
  <2>5. \A c \in Callers \ {Administrator} : consulting'[c].pc \in {"none", "gate"}
    BY <1>6 DEF Consulters, NoConsult
  <2> QED BY <1>1, <2>1, <2>2, <2>4, <2>5 DEF PolicyInv, PolicyTypes
<1>9. KeptIsTrue' BY <1>7 DEF KeptIsTrue
<1>10. ReadIsTrue' BY <1>6, <1>7 DEF ReadIsTrue, NoConsult, AskStages
<1>11. MayTurnOn' BY <1>7 DEF MayTurnOn
<1> QED BY <1>4, <1>8, <1>9, <1>10, <1>11 DEF PolicyInv

LEMMA OtherPolicySteps ==
  ASSUME PolicyInv, ForgetPolicy \/ SecondPasses \/ PolicyStops \/ UNCHANGED policyVars
  PROVE  PolicyInv'
<1>0. Administrator \in Consulters /\ NoConsult.pc = "none" BY DEF Consulters, NoConsult
<1>1. CASE SecondPasses \/ UNCHANGED policyVars
  BY <1>1 DEF SecondPasses, policyVars, PolicyInv, PolicyTypes, KeptIsTrue, ReadIsTrue, MayTurnOn
<1>2. CASE ForgetPolicy \/ PolicyStops
  <2>1. /\ kept' = NotKept /\ late' = FALSE /\ UNCHANGED <<required, second, lockout>>
        /\ \A c \in Consulters : consulting'[c] \in {NoConsult, consulting[c]}
        /\ consulting' \in [Consulters -> {NoConsult, [pc |-> "forget"]} \cup Consultation]
    BY <1>2 DEF ForgetPolicy, PolicyStops, Leaves, Moves, PolicyInv, PolicyTypes
  <2>2. PolicyTypes' BY <1>0, <2>1 DEF PolicyInv, PolicyTypes, Consulters
  <2>3. KeptIsTrue' BY <2>1 DEF KeptIsTrue
  <2>4. ReadIsTrue' BY <1>0, <2>1 DEF PolicyInv, ReadIsTrue, AskStages
  <2>5. MayTurnOn' BY <1>0, <2>1 DEF PolicyInv, MayTurnOn
  <2> QED BY <2>1, <2>2, <2>3, <2>4, <2>5 DEF PolicyInv
<1> QED BY <1>1, <1>2

\* Once set_security has answered, the cache tells the policy there is, but for a
\* row read before the write and kept after it, and nobody without TOTP turns the
\* policy on by themselves (security.ts:10-12, orgs.ts:49-51).
THEOREM PolicyAlwaysBites == PolicySpec => []PolicyBites
<1>1. PolicyInit => PolicyInv
  <2> SUFFICES ASSUME PolicyInit PROVE PolicyInv OBVIOUS
  <2>1. \A c \in Consulters : consulting[c] = NoConsult BY DEF PolicyInit
  <2>2. NoConsult.pc = "none" /\ Administrator \in Consulters BY DEF NoConsult, Consulters
  <2>3. PolicyTypes BY <2>1, <2>2 DEF PolicyInit, PolicyTypes, Consulters
  <2>4. KeptIsTrue /\ ~lockout BY DEF PolicyInit, KeptIsTrue
  <2>5. ReadIsTrue /\ MayTurnOn BY <2>1, <2>2 DEF ReadIsTrue, MayTurnOn, AskStages
  <2> QED BY <2>3, <2>4, <2>5 DEF PolicyInv
<1>2. PolicyInv /\ [PolicyNext]_policyVars => PolicyInv'
  <2> SUFFICES ASSUME PolicyInv, [PolicyNext]_policyVars PROVE PolicyInv' OBVIOUS
  <2>1. ASSUME NEW c \in Consulters, Hit(c) PROVE PolicyInv'
    <3>1. kept.value \in BOOLEAN /\ Told(c, kept.value) /\ consulting[c].pc \in AskStages
          /\ UNCHANGED <<required, kept, second, late, lockout>>
      BY <2>1 DEF Hit, Fresh, Asks, AskStages, PolicyInv, PolicyTypes, Kept
    <3> QED BY <3>1, ToldKeeps DEF PolicyInv, PolicyTypes
  <2>2. ASSUME NEW c \in Consulters, Keep(c) PROVE PolicyInv'
    <3> DEFINE r == consulting[c]
    <3>1. /\ r.pc \in AskStages /\ r.loading /\ kept' = [at |-> second, value |-> r.read] /\ late' = r.overtaken
          /\ Told(c, r.read) /\ UNCHANGED <<required, second, lockout>>
      BY <2>2 DEF Keep, AskStages
    <3>2. r \in Consultation BY <3>1 DEF PolicyInv, PolicyTypes, AskStages, NoConsult
    <3>3. r.read \in BOOLEAN /\ r.overtaken \in BOOLEAN BY <3>2 DEF Consultation
    <3>4. kept' \in Kept /\ kept'.value = r.read BY <3>1, <3>3 DEF Kept, PolicyInv, PolicyTypes
    <3>5. r.read # required => r.overtaken BY <3>1 DEF PolicyInv, ReadIsTrue
    <3> HIDE DEF r
    <3>6. kept'.value # required => late' BY <3>1, <3>4, <3>5
    <3> QED BY <3>1, <3>3, <3>4, <3>6, ToldKeeps DEF r
  <2> QED BY <2>1, <2>2, ConsultKeeps, PolicyWriteKeeps, OtherPolicySteps DEF PolicyNext
<1>3. PolicyInv => PolicyBites BY DEF PolicyInv, KeptIsTrue, PolicyBites, Fresh
<1> QED BY <1>1, <1>2, <1>3, PTL DEF PolicySpec
-----------------------------------------------------------------------------
\* A person's account (server/auth/mfa.ts, totpRoutes.ts, jwt.ts, auth.ts).

Slip == Nat \X (1..SlipsPerBatch)
UserRow == [enabled : BOOLEAN, secret : Nat, slips : SUBSET Slip]
SpendCall == [op : {"spend"}, slip : Slip, left : SUBSET Slip, goal : {"login", "disable"}]
FactorCall == [op : {"setup", "disable", "codes"}] \cup [op : {"verify"}, secret : Nat]
LetterCall == [op : {"password", "stamp"}, letter : Nat, after : Nat]
AccountCall == {NoCall} \cup SpendCall \cup FactorCall \cup LetterCall

AccountTypes ==
  /\ user \in UserRow /\ letters \in Seq([used : BOOLEAN]) /\ calling \in [Browsers -> AccountCall]
  /\ entered \subseteq tokens /\ spent \subseteq Slip /\ spaced \in BOOLEAN
  /\ buried \in Nat /\ buried <= Len(letters)
  /\ minted \in [secrets : Nat, batches : Nat, calls : Nat]

\* A session a first factor earned took a second, or was asked for without 2FA.
TokensAreEarned ==
  /\ \A t \in tokens : t.purpose = "session" /\ "first" \in t.shown => "second" \in t.shown \/ t.off
  /\ \A t \in entered : t.purpose = "session"

\* No recovery code is of a batch to come; one being spent is on the list read.
SlipsAreIssued ==
  /\ \A p \in user.slips \cup spent : p[1] <= minted.batches
  /\ \A s \in Browsers : calling[s].op = "spend" =>
       calling[s].slip \in calling[s].left /\ \A p \in calling[s].left : p[1] <= minted.batches

\* Without overlaps what a request on the second factor has read is still there.
Rereads(s) ==
  /\ calling[s].op = "setup" => ~user.enabled
  /\ calling[s].op = "verify" => calling[s].secret = user.secret /\ ~user.enabled
  /\ calling[s].op = "spend" => user.enabled /\ calling[s].left = user.slips
FactorStands ==
  /\ user.enabled => user.secret \in proved
  /\ \A p \in user.slips : p \notin spent
  /\ \A a, b \in user.slips : a[1] = b[1]
WhenSpaced ==
  spaced =>
    /\ FactorStands
    /\ \A s \in Browsers : Rereads(s)
    /\ \A s, u \in Browsers : calling[s].op \in OnFactor /\ calling[u].op \in OnFactor => s = u

\* What was out when a redemption ended is used, for good.
BuriedAreUsed == \A l \in 1..buried : letters[l].used

AccountInv ==
  AccountTypes /\ TokensAreEarned /\ SlipsAreIssued /\ WhenSpaced /\ BuriedAreUsed /\ LettersDieTogether

\* A request begins with what it has read.
LEMMA TakesKeeps ==
  ASSUME AccountInv, NEW s \in Browsers, NEW r \in AccountCall, Takes(s, r), r.op # "stamp",
         UNCHANGED <<user, letters, tokens, entered, proved, spent, buried>>,
         r.op = "setup" => ~user.enabled,
         r.op = "verify" => r.secret = user.secret /\ ~user.enabled,
         r.op = "spend" => user.enabled /\ r.left = user.slips /\ r.slip \in r.left,
         r.op = "password" => r.letter > r.after
  PROVE  AccountInv'
<1>1. /\ calling[s].op = "none" /\ calling' = [calling EXCEPT ![s] = r]
      /\ minted' = [minted EXCEPT !.calls = @ + 1]
      /\ spaced' = (spaced /\ ~(r.op \in OnFactor /\ \E u \in Browsers : calling[u].op \in OnFactor))
  BY DEF Takes
<1>2. \A u \in Browsers : calling'[u] = IF u = s THEN r ELSE calling[u]
  BY <1>1 DEF AccountInv, AccountTypes
<1>3. minted' \in [secrets : Nat, batches : Nat, calls : Nat] /\ minted'.batches = minted.batches
  BY <1>1 DEF AccountInv, AccountTypes
<1>4. spaced' \in BOOLEAN BY <1>1, Zenon
<1>5. AccountTypes' BY <1>1, <1>3, <1>4 DEF AccountInv, AccountTypes
<1>6. TokensAreEarned' BY DEF AccountInv, TokensAreEarned
<1>7. SlipsAreIssued' BY <1>2, <1>3 DEF AccountInv, SlipsAreIssued
<1>8. WhenSpaced'
  <2> SUFFICES ASSUME spaced'
               PROVE  /\ FactorStands' /\ \A u \in Browsers : Rereads(u)'
                      /\ \A u, w \in Browsers : calling'[u].op \in OnFactor /\ calling'[w].op \in OnFactor => u = w
    BY DEF WhenSpaced
  <2>1. /\ spaced /\ FactorStands /\ \A u \in Browsers : Rereads(u)
        /\ \A u, w \in Browsers : calling[u].op \in OnFactor /\ calling[w].op \in OnFactor => u = w
        /\ r.op \in OnFactor => \A u \in Browsers : calling[u].op \notin OnFactor
    BY <1>1 DEF AccountInv, WhenSpaced
  <2>2. FactorStands' BY <2>1 DEF FactorStands
  <2>3. \A u \in Browsers : Rereads(u)' BY <1>2, <2>1 DEF Rereads
  <2>4. \A u, w \in Browsers : calling'[u].op \in OnFactor /\ calling'[w].op \in OnFactor => u = w
    BY <1>2, <2>1
  <2> QED BY <2>2, <2>3, <2>4
<1>9. LettersDieTogether'
  BY <1>2 DEF AccountInv, LettersDieTogether
<1>10. BuriedAreUsed' BY DEF AccountInv, BuriedAreUsed
<1> QED BY <1>5, <1>6, <1>7, <1>8, <1>9, <1>10 DEF AccountInv

\* A request on the second factor writes.
LEMMA FactorWrites ==
  ASSUME AccountInv, NEW s \in Browsers, calling[s].op \in OnFactor,
         \E r \in {NoCall, [op |-> "disable"]} : calling' = [calling EXCEPT ![s] = r],
         UNCHANGED <<letters, entered, buried, spaced>>,
         tokens \subseteq tokens', TokensAreEarned', user' \in UserRow, spent' \subseteq Slip,
         minted' \in [secrets : Nat, batches : Nat, calls : Nat], minted'.batches >= minted.batches,
         \A p \in user'.slips \cup spent' : p[1] <= minted'.batches,
         spaced => FactorStands'
  PROVE  AccountInv'
<1>0. PICK r \in {NoCall, [op |-> "disable"]} : calling' = [calling EXCEPT ![s] = r] OBVIOUS
<1>1. \A u \in Browsers : calling'[u] = IF u = s THEN r ELSE calling[u]
  BY <1>0 DEF AccountInv, AccountTypes
<1>2. r \in AccountCall /\ r.op \in {"none", "disable"} BY DEF AccountCall, FactorCall, NoCall
<1>3. AccountTypes' BY <1>0, <1>2 DEF AccountInv, AccountTypes
<1>4. SlipsAreIssued'
  <2> SUFFICES ASSUME NEW u \in Browsers, calling'[u].op = "spend"
               PROVE  calling'[u].slip \in calling'[u].left /\ \A p \in calling'[u].left : p[1] <= minted'.batches
    BY DEF SlipsAreIssued
  <2>1. calling'[u] = calling[u] BY <1>1, <1>2
  <2>2. calling[u].left \in SUBSET Slip
    BY <2>1 DEF AccountInv, AccountTypes, AccountCall, NoCall, SpendCall, FactorCall, LetterCall
  <2>3. \A p \in calling[u].left : p[1] \in Nat /\ p[1] <= minted.batches
    BY <2>1, <2>2 DEF AccountInv, SlipsAreIssued, Slip
  <2>4. minted.batches \in Nat /\ minted'.batches \in Nat BY DEF AccountInv, AccountTypes
  <2> QED BY <2>1, <2>3, <2>4 DEF AccountInv, SlipsAreIssued
<1>5. WhenSpaced'
  <2> SUFFICES ASSUME spaced
               PROVE  /\ FactorStands' /\ \A u \in Browsers : Rereads(u)'
                      /\ \A u, w \in Browsers : calling'[u].op \in OnFactor /\ calling'[w].op \in OnFactor => u = w
    BY DEF WhenSpaced
  <2>1. \A u \in Browsers : u # s => calling[u].op \notin OnFactor
    BY DEF AccountInv, WhenSpaced
  <2>2. \A u \in Browsers : Rereads(u)' BY <1>1, <1>2, <2>1 DEF Rereads, OnFactor
  <2>3. \A u, w \in Browsers : calling'[u].op \in OnFactor /\ calling'[w].op \in OnFactor => u = w
    BY <1>1, <2>1
  <2> QED BY <2>2, <2>3
<1>6. LettersDieTogether'
  BY <1>1, <1>2 DEF AccountInv, LettersDieTogether
<1>7. BuriedAreUsed' BY DEF AccountInv, BuriedAreUsed
<1> QED BY <1>3, <1>4, <1>5, <1>6, <1>7 DEF AccountInv

\* The first halves: each handler reads, and awaits.
LEMMA AccountReadsKeep ==
  ASSUME AccountInv, NEW s \in Browsers,
         \/ Setup(s) \/ Verify(s) \/ Disable(s) \/ Regenerate(s)
         \/ \E slip \in user.slips, goal \in {"login", "disable"} : SpendSlip(s, slip, goal)
         \/ \E l \in DOMAIN letters : Redeems(s, l)
  PROVE  AccountInv'
<1>0. user.slips \in SUBSET Slip /\ user.secret \in Nat /\ letters \in Seq([used : BOOLEAN])
  BY DEF AccountInv, AccountTypes, UserRow
<1>1. CASE Setup(s) \/ Disable(s) \/ Regenerate(s)
  <2>1. PICK op \in {"setup", "disable", "codes"} :
          /\ Takes(s, [op |-> op]) /\ (op = "setup" => ~user.enabled)
          /\ UNCHANGED <<user, letters, tokens, entered, proved, spent, buried>>
    BY <1>1 DEF Setup, MayEnrol, Disable, Regenerate
  <2> DEFINE r == [op |-> op]
  <2>2. r \in AccountCall /\ r.op = op BY DEF AccountCall, FactorCall
  <2> HIDE DEF r
  <2> QED BY <2>1, <2>2, TakesKeeps DEF r
<1>2. CASE Verify(s)
  <2> DEFINE r == [op |-> "verify", secret |-> user.secret]
  <2>1. /\ Takes(s, r) /\ ~user.enabled
        /\ UNCHANGED <<user, letters, tokens, entered, proved, spent, buried>>
    BY <1>2 DEF Verify
  <2>2. r \in AccountCall /\ r.op = "verify" /\ r.secret = user.secret BY <1>0 DEF AccountCall, FactorCall
  <2> HIDE DEF r
  <2> QED BY <2>1, <2>2, TakesKeeps
<1>3. ASSUME NEW slip \in user.slips, NEW goal \in {"login", "disable"}, SpendSlip(s, slip, goal) PROVE AccountInv'
  <2> DEFINE r == [op |-> "spend", slip |-> slip, left |-> user.slips, goal |-> goal]
  <2>1. /\ Takes(s, r) /\ user.enabled
        /\ UNCHANGED <<user, letters, tokens, entered, proved, spent, buried>>
    BY <1>3 DEF SpendSlip
  <2>2. r \in AccountCall /\ r.op = "spend" /\ r.left = user.slips /\ r.slip \in r.left
    BY <1>0 DEF AccountCall, SpendCall
  <2> HIDE DEF r
  <2> QED BY <2>1, <2>2, TakesKeeps
<1>4. ASSUME NEW l \in DOMAIN letters, Redeems(s, l) PROVE AccountInv'
  <2> DEFINE r == [op |-> "password", letter |-> l, after |-> buried]
  <2>1. Takes(s, r) /\ UNCHANGED <<user, letters, tokens, entered, proved, spent, buried>>
    BY <1>4 DEF Redeems
  <2>2. r \in AccountCall /\ r.op = "password" /\ r.letter > r.after
    <3>1. l \in Nat /\ buried \in Nat /\ l >= 1 BY <1>0 DEF AccountInv, AccountTypes
    <3>2. l \notin 1..buried BY <1>4 DEF Redeems, AccountInv, BuriedAreUsed
    <3> QED BY <3>1, <3>2 DEF AccountCall, LetterCall
  <2> HIDE DEF r
  <2> QED BY <2>1, <2>2, TakesKeeps
<1> QED BY <1>1, <1>2, <1>3, <1>4

\* A batch of recovery codes is of one number, later than every number there was.
LEMMA NewBatch ==
  ASSUME AccountInv, MintsBatch
  PROVE  /\ minted' \in [secrets : Nat, batches : Nat, calls : Nat] /\ minted'.batches = minted.batches + 1
         /\ NextBatch \in SUBSET Slip /\ \A p \in NextBatch : p[1] = minted.batches + 1
         /\ minted.batches \in Nat /\ \A p \in spent : p \in Slip /\ p \notin NextBatch /\ p[1] <= minted'.batches
<1>1. /\ minted' \in [secrets : Nat, batches : Nat, calls : Nat] /\ minted'.batches = minted.batches + 1
      /\ minted.batches \in Nat
  BY DEF MintsBatch, AccountInv, AccountTypes
<1>2. NextBatch \in SUBSET Slip /\ \A p \in NextBatch : p[1] = minted.batches + 1
  BY <1>1 DEF NextBatch, Slips, Slip
<1>3. \A p \in spent : p \in Slip /\ p[1] \in Nat /\ p[1] <= minted.batches
  BY DEF AccountInv, AccountTypes, SlipsAreIssued, Slip
<1> QED BY <1>1, <1>2, <1>3

\* The second halves: each writes what it decided from what it had read.
LEMMA AccountWritesKeep ==
  ASSUME AccountInv, NEW s \in Browsers,
         SetupWrite(s) \/ VerifyWrite(s) \/ DisableWrite(s) \/ RegenerateWrite(s) \/ SpendWrite(s)
  PROVE  AccountInv'
<1>0. /\ user \in UserRow /\ user.enabled \in BOOLEAN /\ user.secret \in Nat /\ user.slips \in SUBSET Slip
      /\ minted \in [secrets : Nat, batches : Nat, calls : Nat] /\ minted.secrets \in Nat /\ minted.batches \in Nat
      /\ calling[s] \in AccountCall /\ spent \in SUBSET Slip
      /\ \A p \in user.slips \cup spent : p[1] \in Nat /\ p[1] <= minted.batches
  BY DEF AccountInv, AccountTypes, UserRow, SlipsAreIssued, Slip
<1>1. CASE SetupWrite(s)
  <2>1. /\ calling[s].op = "setup" /\ calling' = [calling EXCEPT ![s] = NoCall]
        /\ minted' = [minted EXCEPT !.secrets = @ + 1] /\ user' = [user EXCEPT !.secret = minted.secrets + 1]
        /\ UNCHANGED <<letters, tokens, entered, proved, spent, buried, spaced>>
    BY <1>1 DEF SetupWrite, Answers, history
  <2>2. /\ user' \in UserRow /\ user'.slips = user.slips /\ user'.enabled = user.enabled
        /\ minted' \in [secrets : Nat, batches : Nat, calls : Nat] /\ minted'.batches = minted.batches
    BY <1>0, <2>1 DEF UserRow
  <2>3. spaced => ~user.enabled /\ FactorStands BY <2>1 DEF AccountInv, WhenSpaced, Rereads
  <2>4. spaced => FactorStands' BY <2>1, <2>2, <2>3 DEF FactorStands
  <2>5. TokensAreEarned' BY <2>1 DEF AccountInv, TokensAreEarned
  <2>6. /\ calling[s].op \in OnFactor /\ tokens \subseteq tokens' /\ user' \in UserRow /\ spent' \subseteq Slip
        /\ \E n \in {NoCall, [op |-> "disable"]} : calling' = [calling EXCEPT ![s] = n]
        /\ minted' \in [secrets : Nat, batches : Nat, calls : Nat] /\ minted'.batches >= minted.batches
        /\ \A p \in user'.slips \cup spent' : p[1] <= minted'.batches
        /\ UNCHANGED <<letters, entered, buried, spaced>>
    BY <1>0, <2>1, <2>2 DEF OnFactor
  <2> QED BY <2>6, <2>4, <2>5, FactorWrites
<1>2. CASE VerifyWrite(s)
  <2>1. /\ calling[s].op = "verify" /\ calling' = [calling EXCEPT ![s] = NoCall] /\ MintsBatch
        /\ user' = [user EXCEPT !.enabled = TRUE, !.slips = NextBatch]
        /\ proved' = proved \cup {calling[s].secret}
        /\ UNCHANGED <<letters, tokens, entered, spent, buried, spaced>>
    BY <1>2 DEF VerifyWrite, Answers
  <2>2. user' \in UserRow /\ user'.slips = NextBatch /\ user'.secret = user.secret
    BY <1>0, <2>1, NewBatch DEF UserRow
  <2>3. spaced => calling[s].secret = user.secret BY <2>1 DEF AccountInv, WhenSpaced, Rereads
  <2>4. spaced => FactorStands' BY <2>1, <2>2, <2>3, NewBatch DEF FactorStands
  <2>5. TokensAreEarned' BY <2>1 DEF AccountInv, TokensAreEarned
  <2>6. \A p \in user'.slips \cup spent' : p[1] <= minted'.batches BY <2>1, <2>2, NewBatch
  <2>7. /\ calling[s].op \in OnFactor /\ tokens \subseteq tokens' /\ user' \in UserRow /\ spent' \subseteq Slip
        /\ \E n \in {NoCall, [op |-> "disable"]} : calling' = [calling EXCEPT ![s] = n]
        /\ minted' \in [secrets : Nat, batches : Nat, calls : Nat] /\ minted'.batches >= minted.batches
        /\ \A p \in user'.slips \cup spent' : p[1] <= minted'.batches
        /\ UNCHANGED <<letters, entered, buried, spaced>>
    BY <1>0, <2>1, <2>2, <2>6, NewBatch DEF OnFactor
  <2> QED BY <2>7, <2>4, <2>5, FactorWrites
<1>3. CASE DisableWrite(s)
  <2>1. /\ calling[s].op = "disable" /\ calling' = [calling EXCEPT ![s] = NoCall]
        /\ user' = [enabled |-> FALSE, secret |-> 0, slips |-> {}]
        /\ UNCHANGED <<letters, tokens, minted, entered, proved, spent, buried, spaced>>
    BY <1>3 DEF DisableWrite, Answers, history
  <2>2. user' \in UserRow /\ user'.slips = {} /\ ~user'.enabled BY <2>1 DEF UserRow
  <2>3. FactorStands' BY <2>2 DEF FactorStands
  <2>4. TokensAreEarned' BY <2>1 DEF AccountInv, TokensAreEarned
  <2>5. /\ calling[s].op \in OnFactor /\ tokens \subseteq tokens' /\ user' \in UserRow /\ spent' \subseteq Slip
        /\ \E n \in {NoCall, [op |-> "disable"]} : calling' = [calling EXCEPT ![s] = n]
        /\ minted' \in [secrets : Nat, batches : Nat, calls : Nat] /\ minted'.batches >= minted.batches
        /\ \A p \in user'.slips \cup spent' : p[1] <= minted'.batches
        /\ UNCHANGED <<letters, entered, buried, spaced>>
    BY <1>0, <2>1, <2>2 DEF OnFactor
  <2> QED BY <2>5, <2>3, <2>4, FactorWrites
<1>4. CASE RegenerateWrite(s)
  <2>1. /\ calling[s].op = "codes" /\ calling' = [calling EXCEPT ![s] = NoCall] /\ MintsBatch
        /\ user' = [user EXCEPT !.slips = NextBatch]
        /\ UNCHANGED <<letters, tokens, entered, proved, spent, buried, spaced>>
    BY <1>4 DEF RegenerateWrite, Answers, history
  <2>2. /\ user' \in UserRow /\ user'.slips = NextBatch
        /\ user'.secret = user.secret /\ user'.enabled = user.enabled
    BY <1>0, <2>1, NewBatch DEF UserRow
  <2>3. spaced => FactorStands BY DEF AccountInv, WhenSpaced
  <2>4. spaced => FactorStands' BY <2>1, <2>2, <2>3, NewBatch DEF FactorStands
  <2>5. TokensAreEarned' BY <2>1 DEF AccountInv, TokensAreEarned
  <2>6. \A p \in user'.slips \cup spent' : p[1] <= minted'.batches BY <2>1, <2>2, NewBatch
  <2>7. /\ calling[s].op \in OnFactor /\ tokens \subseteq tokens' /\ user' \in UserRow /\ spent' \subseteq Slip
        /\ \E n \in {NoCall, [op |-> "disable"]} : calling' = [calling EXCEPT ![s] = n]
        /\ minted' \in [secrets : Nat, batches : Nat, calls : Nat] /\ minted'.batches >= minted.batches
        /\ \A p \in user'.slips \cup spent' : p[1] <= minted'.batches
        /\ UNCHANGED <<letters, entered, buried, spaced>>
    BY <1>0, <2>1, <2>2, <2>6, NewBatch DEF OnFactor
  <2> QED BY <2>7, <2>4, <2>5, FactorWrites
<1>5. CASE SpendWrite(s)
  <2> DEFINE r == calling[s]
  <2>1. /\ r.op = "spend" /\ spent' = spent \cup {r.slip} /\ user' = [user EXCEPT !.slips = r.left \ {r.slip}]
        /\ UNCHANGED <<letters, minted, entered, proved, buried, spaced>>
    BY <1>5 DEF SpendWrite
  <2>2. /\ \E n \in {NoCall, [op |-> "disable"]} : calling' = [calling EXCEPT ![s] = n]
        /\ tokens' = tokens \/ tokens' = tokens \cup {Token("session", {"first", "second"}, FALSE)}
    BY <1>5 DEF SpendWrite, Answers, Signs
  <2>3. r.left \in SUBSET Slip /\ r.slip \in r.left /\ \A p \in r.left : p[1] <= minted.batches
    BY <1>0, <2>1 DEF AccountInv, SlipsAreIssued, AccountCall, NoCall, SpendCall, FactorCall, LetterCall
  <2>4. /\ user' \in UserRow /\ user'.slips = r.left \ {r.slip}
        /\ user'.secret = user.secret /\ user'.enabled = user.enabled
    BY <1>0, <2>1, <2>3 DEF UserRow
  <2>5. spaced => FactorStands /\ r.left = user.slips BY <2>1 DEF AccountInv, WhenSpaced, Rereads
  <2> HIDE DEF r
  <2>6. spaced => FactorStands' BY <2>1, <2>3, <2>4, <2>5 DEF FactorStands
  <2>7. TokensAreEarned' BY <2>1, <2>2 DEF AccountInv, TokensAreEarned, Token
  <2>8. spent' \in SUBSET Slip /\ \A p \in user'.slips \cup spent' : p[1] <= minted'.batches
    BY <1>0, <2>1, <2>3, <2>4
  <2>9. calling[s].op \in OnFactor BY <2>1 DEF OnFactor, r
  <2>10. /\ calling[s].op \in OnFactor /\ tokens \subseteq tokens' /\ user' \in UserRow /\ spent' \subseteq Slip
         /\ \E n \in {NoCall, [op |-> "disable"]} : calling' = [calling EXCEPT ![s] = n]
         /\ minted' \in [secrets : Nat, batches : Nat, calls : Nat] /\ minted'.batches >= minted.batches
         /\ \A p \in user'.slips \cup spent' : p[1] <= minted'.batches
         /\ UNCHANGED <<letters, entered, buried, spaced>>
    <3>1. calling[s].op \in OnFactor /\ user' \in UserRow BY <2>4, <2>9
    <3>2. (\E n \in {NoCall, [op |-> "disable"]} : calling' = [calling EXCEPT ![s] = n]) /\ tokens \subseteq tokens'
      BY <2>2
    <3>3. minted' = minted /\ minted.batches >= minted.batches BY <1>0, <2>1
    <3>4. UNCHANGED <<letters, entered, buried, spaced>> BY <2>1
    <3> QED BY <1>0, <2>8, <3>1, <3>2, <3>3, <3>4
  <2> QED BY <2>10, <2>6, <2>7, FactorWrites
<1> QED BY <1>1, <1>2, <1>3, <1>4, <1>5

\* Tokens signed and presented, and the letters.
LEMMA TokenSteps ==
  ASSUME AccountInv, \/ SignIn \/ StepUp \/ \E t \in tokens : Enter(t)
                     \/ UNCHANGED accountVars
  PROVE  AccountInv'
<1>1. UNCHANGED <<user, letters, calling, minted, spent, proved, buried, spaced>>
  BY DEF SignIn, StepUp, Enter, history, accountVars
<1>2. TokensAreEarned' /\ entered' \subseteq tokens'
  BY DEF SignIn, StepUp, Enter, VerifySession, Signs, Token, history, accountVars, AccountInv, AccountTypes, TokensAreEarned
<1>3. AccountTypes' BY <1>1, <1>2 DEF AccountInv, AccountTypes
<1>4. SlipsAreIssued' BY <1>1 DEF AccountInv, SlipsAreIssued
<1>5. WhenSpaced' BY <1>1 DEF AccountInv, WhenSpaced, FactorStands, Rereads
<1>6. LettersDieTogether' /\ BuriedAreUsed' BY <1>1 DEF AccountInv, LettersDieTogether, BuriedAreUsed
<1> QED BY <1>2, <1>3, <1>4, <1>5, <1>6 DEF AccountInv

LEMMA LetterSteps ==
  ASSUME AccountInv, Forgot \/ AccountsStop \/ \E s \in Browsers : SetPassword(s) \/ StampLetters(s)
  PROVE  AccountInv'
<1>0. /\ letters \in Seq([used : BOOLEAN]) /\ Len(letters) \in Nat /\ DOMAIN letters = 1..Len(letters)
      /\ buried \in Nat /\ buried <= Len(letters)
      /\ minted \in [secrets : Nat, batches : Nat, calls : Nat]
  BY DEF AccountInv, AccountTypes
<1>1. /\ UNCHANGED <<user, entered, proved, spent, spaced>> /\ tokens \subseteq tokens' /\ TokensAreEarned'
      /\ minted' \in [secrets : Nat, batches : Nat, calls : Nat] /\ minted'.batches = minted.batches
  BY <1>0 DEF Forgot, AccountsStop, SetPassword, StampLetters, Signs, Token, history, AccountInv, TokensAreEarned
<1> DEFINE Moved(u) ==
      \/ calling'[u] = calling[u] \/ calling'[u].op = "none"
      \/ /\ calling[u].op = "password" /\ calling'[u].op = "stamp"
         /\ calling'[u].letter = calling[u].letter /\ calling'[u].after = calling[u].after
<1>2. calling' \in [Browsers -> AccountCall] /\ \A u \in Browsers : Moved(u)
  <2>1. CASE Forgot BY <2>1 DEF Forgot, history, AccountInv, AccountTypes
  <2>2. CASE AccountsStop BY <2>2 DEF AccountsStop, NoCall, AccountCall
  <2>3. ASSUME NEW s \in Browsers, SetPassword(s) PROVE calling' \in [Browsers -> AccountCall] /\ \A u \in Browsers : Moved(u)
    <3>1. calling[s] \in LetterCall
      BY <2>3 DEF SetPassword, AccountInv, AccountTypes, AccountCall, NoCall, SpendCall, FactorCall
    <3>2. PICK r \in LetterCall : /\ calling' = [calling EXCEPT ![s] = r] /\ r.op = "stamp"
                                  /\ r.letter = calling[s].letter /\ r.after = calling[s].after
      <4>1. calling' = [calling EXCEPT ![s] = [calling[s] EXCEPT !.op = "stamp"]]
        BY <2>3 DEF SetPassword
      <4>2. /\ [calling[s] EXCEPT !.op = "stamp"] \in LetterCall
            /\ [calling[s] EXCEPT !.op = "stamp"].op = "stamp"
            /\ [calling[s] EXCEPT !.op = "stamp"].letter = calling[s].letter
            /\ [calling[s] EXCEPT !.op = "stamp"].after = calling[s].after
        BY <3>1 DEF LetterCall
      <4> QED BY <4>1, <4>2
    <3>3. calling[s].op = "password" BY <2>3 DEF SetPassword
    <3> QED BY <3>2, <3>3 DEF AccountCall, AccountInv, AccountTypes
  <2>4. ASSUME NEW s \in Browsers, StampLetters(s) PROVE calling' \in [Browsers -> AccountCall] /\ \A u \in Browsers : Moved(u)
    BY <2>4 DEF StampLetters, Answers, NoCall, AccountCall, AccountInv, AccountTypes
  <2> QED BY <2>1, <2>2, <2>3, <2>4
<1>3. letters' \in Seq([used : BOOLEAN]) /\ buried' \in Nat /\ buried' <= Len(letters') /\ BuriedAreUsed'
  <2>1. CASE Forgot
    <3>1. PICK new \in [used : BOOLEAN] : letters' = Append(letters, new) /\ buried' = buried
      BY <2>1 DEF Forgot, history
    <3> QED BY <1>0, <3>1 DEF AccountInv, BuriedAreUsed
  <2>2. ASSUME NEW s \in Browsers, StampLetters(s) 
        PROVE  letters' \in Seq([used : BOOLEAN]) /\ buried' \in Nat /\ buried' <= Len(letters') /\ BuriedAreUsed'
    <3>1. letters' = [i \in 1..Len(letters) |-> [used |-> TRUE]] /\ buried' = Len(letters)
      BY <1>0, <2>2 DEF StampLetters, Stamped
    <3>2. letters' \in [1..Len(letters) -> [used : BOOLEAN]] BY <3>1
    <3> QED BY <1>0, <3>1, <3>2 DEF BuriedAreUsed
  <2>3. AccountsStop \/ (\E s \in Browsers : SetPassword(s)) => UNCHANGED <<letters, buried>>
    BY DEF AccountsStop, SetPassword, history
  <2> QED BY <1>0, <2>1, <2>2, <2>3 DEF AccountInv, BuriedAreUsed
<1>4. AccountTypes' BY <1>0, <1>1, <1>2, <1>3 DEF AccountInv, AccountTypes
<1>5. SlipsAreIssued' BY <1>1, <1>2 DEF AccountInv, SlipsAreIssued
<1>6. WhenSpaced'
  <2> SUFFICES ASSUME spaced
               PROVE  /\ FactorStands' /\ \A u \in Browsers : Rereads(u)'
                      /\ \A u, w \in Browsers : calling'[u].op \in OnFactor /\ calling'[w].op \in OnFactor => u = w
    BY <1>1 DEF WhenSpaced
  <2>1. /\ FactorStands /\ \A u \in Browsers : Rereads(u)
        /\ \A u, w \in Browsers : calling[u].op \in OnFactor /\ calling[w].op \in OnFactor => u = w
    BY DEF AccountInv, WhenSpaced
  <2>2. FactorStands' BY <1>1, <2>1 DEF FactorStands
  <2>3. \A u \in Browsers : Rereads(u)' BY <1>1, <1>2, <2>1 DEF Rereads
  <2>4. \A u \in Browsers : calling'[u].op \in OnFactor => calling[u].op \in OnFactor
    BY <1>2 DEF OnFactor
  <2> QED BY <2>1, <2>2, <2>3, <2>4
<1>7. LettersDieTogether' BY <1>2 DEF AccountInv, LettersDieTogether
<1> QED BY <1>1, <1>3, <1>4, <1>5, <1>6, <1>7 DEF AccountInv

\* A password alone opens nothing while 2FA is on; requests on the second factor
\* that do not overlap leave no enrolment nobody proved, and no recovery code that
\* opens twice; no letter that was out when a redemption ended is taken up by one
\* that begins later (jwt.ts:5-9, mfa.ts:10-13, auth.ts:126-130).
THEOREM AccountsStand == AccountSpec => []AccountsHold
<1>1. AccountInit => AccountInv
  <2> SUFFICES ASSUME AccountInit PROVE AccountInv OBVIOUS
  <2>1. AccountTypes BY DEF AccountInit, AccountTypes, UserRow, AccountCall
  <2>2. TokensAreEarned /\ BuriedAreUsed /\ LettersDieTogether
    BY DEF AccountInit, TokensAreEarned, BuriedAreUsed, LettersDieTogether, NoCall
  <2>3. SlipsAreIssued BY DEF AccountInit, SlipsAreIssued, NoCall
  <2>4. WhenSpaced BY DEF AccountInit, WhenSpaced, FactorStands, Rereads, NoCall, OnFactor
  <2> QED BY <2>1, <2>2, <2>3, <2>4 DEF AccountInv
<1>2. AccountInv /\ [AccountNext]_accountVars => AccountInv'
  BY AccountReadsKeep, AccountWritesKeep, TokenSteps, LetterSteps DEF AccountNext
<1>3. AccountInv => AccountsHold
  <2> SUFFICES ASSUME AccountInv PROVE AccountsHold OBVIOUS
  <2>1. FirstAloneOpensNothing BY DEF AccountInv, AccountTypes, TokensAreEarned, FirstAloneOpensNothing
  <2>2. SecondFactorStands BY DEF AccountInv, WhenSpaced, FactorStands, SecondFactorStands
  <2> QED BY <2>1, <2>2 DEF AccountInv, AccountsHold
<1> QED BY <1>1, <1>2, <1>3, PTL DEF AccountSpec
-----------------------------------------------------------------------------
\* Who a sign-in is (server/oidc/routes.ts, state.ts, link.ts, server/auth/auth.ts).

CallbackVisit == [pc : {"profile"}, flow : 1..MaxFlows, subject : Subjects, invite : BOOLEAN, account : {"none"}]
ResolvedVisit ==
  [pc : {"lookup", "address", "bond", "create", "bondNew", "invitation", "invitationNew", "stamp", "home", "handoff"},
   flow : 1..MaxFlows, subject : Subjects, invite : BOOLEAN, account : Mailboxes \cup {"none"},
   address : Mailboxes, verified : BOOLEAN]
RegisterVisit == [pc : {"create", "home"}, subject : {"none"}, address : Mailboxes, account : Mailboxes \cup {"none"}]
TabVisit == {NoVisit} \cup CallbackVisit \cup ResolvedVisit \cup RegisterVisit

SignOnTypes ==
  /\ profiles \in [Subjects -> [address : Mailboxes, verified : BOOLEAN]]
  /\ accounts \subseteq Mailboxes /\ bonds \subseteq [id : Int, subject : Subjects, account : Mailboxes]
  /\ known \subseteq Subjects \X Mailboxes
  /\ flows \in [1..MaxFlows -> [nonce : {"none", "pending", "spent"}, handoff : BOOLEAN, delivered : Int]]
  /\ visiting \in [Tabs -> TabVisit]
  /\ single \in BOOLEAN /\ counted \in [bonds : Int, visits : Int]

\* An address is believed, bound or about to be, if the provider confirmed it.
AddressIsVouched(r) ==
  \/ r.pc \in {"lookup", "address"} /\ r.verified
  \/ r.pc \in {"bond", "create", "bondNew"} /\ r.subject \in Subjects
  => <<r.subject, r.address>> \in vouched

Vouching ==
  /\ \A p \in Subjects : profiles[p].verified => <<p, profiles[p].address>> \in vouched
  /\ \A b \in bonds : <<b.subject, b.account>> \in vouched
  /\ \A s \in Tabs : AddressIsVouched(visiting[s])

\* A callback has spent the nonce of a sign-in of its own, whose code is not out yet.
FlowIsSpent(r) ==
  r.subject \in Subjects =>
    flows[r.flow].nonce = "spent" /\ ~flows[r.flow].handoff /\ flows[r.flow].delivered = 0

FlowsAreOwn ==
  /\ \A f \in 1..MaxFlows :
       /\ flows[f].delivered \in {0, 1}
       /\ flows[f].nonce # "spent" => ~flows[f].handoff /\ flows[f].delivered = 0
       /\ flows[f].handoff => flows[f].delivered = 0
  /\ \A s \in Tabs : FlowIsSpent(visiting[s])
  /\ \A s, u \in Tabs :
       visiting[s].subject \in Subjects /\ visiting[u].subject \in Subjects /\ visiting[s].flow = visiting[u].flow => s = u

\* While no two callbacks of a subject overlap, it has one identity at most, none
\* while a handler is about to bind it, and it was taken for no other account.
OneCallback ==
  \A s, u \in Tabs : visiting[s].subject \in Subjects /\ visiting[s].subject = visiting[u].subject => s = u
OneBond == \A b, c \in bonds : b.subject = c.subject => b = c
IsUnbound(r) == r.pc \in {"address", "bond", "create", "bondNew"} => \A b \in bonds : b.subject # r.subject
KnownByBond == \A k \in known : \E b \in bonds : b.subject = k[1] /\ b.account = k[2]
OneIdentity == single => OneCallback /\ OneBond /\ KnownByBond /\ \A s \in Tabs : IsUnbound(visiting[s])

\* Whoever creates an account is on the way to an organization for it.
MakesHome(r) == r.pc \in {"bondNew", "invitationNew", "home"}
HomesComing ==
  /\ \A a \in accounts \ (homes \cup cut) : \E s \in Tabs : visiting[s].account = a /\ MakesHome(visiting[s])
  /\ \A s \in Tabs : visiting[s].pc = "bondNew" => visiting[s].account = visiting[s].address

SignOnInv == SignOnTypes /\ Vouching /\ FlowsAreOwn /\ OneIdentity /\ HomesComing

LEMMA SignOnStarts == SignOnInit => SignOnInv
<1> SUFFICES ASSUME SignOnInit PROVE SignOnInv OBVIOUS
<1>1. "none" \notin Subjects /\ "none" \notin Mailboxes BY NobodyIsNone
<1>2. \A s \in Tabs : visiting[s] = NoVisit BY DEF SignOnInit
<1>3. SignOnTypes
  <2>1. profiles \in [Subjects -> [address : Mailboxes, verified : BOOLEAN]]
    <3> DEFINE S == {[address |-> a, verified |-> FALSE] : a \in Mailboxes}
    <3>1. profiles \in [Subjects -> S] BY DEF SignOnInit
    <3>2. ASSUME NEW q \in S PROVE q \in [address : Mailboxes, verified : BOOLEAN]
      <4>1. PICK a \in Mailboxes : q = [address |-> a, verified |-> FALSE] BY <3>2
      <4> QED BY <4>1
    <3> HIDE DEF S
    <3> QED BY <3>1, <3>2
  <2> QED BY <1>2, <2>1 DEF SignOnInit, SignOnTypes, TabVisit, Unsent
<1>4. Vouching BY <1>1, <1>2, <1>3 DEF SignOnInit, SignOnTypes, Vouching, AddressIsVouched, NoVisit
<1>5. FlowsAreOwn BY <1>1, <1>2 DEF SignOnInit, FlowsAreOwn, FlowIsSpent, NoVisit, Unsent
<1>6. OneIdentity BY <1>1, <1>2 DEF SignOnInit, OneIdentity, OneCallback, OneBond, KnownByBond, IsUnbound, NoVisit
<1>7. HomesComing BY <1>2 DEF SignOnInit, HomesComing, NoVisit
<1> QED BY <1>3, <1>4, <1>5, <1>6, <1>7 DEF SignOnInv

\* A handler moves on: what it must know of the sign-in it is for,
LEMMA OnOwnFlow ==
  ASSUME SignOnInv, NEW s \in Tabs, NEW r \in TabVisit, visiting' = [visiting EXCEPT ![s] = r], UNCHANGED flows,
         r.subject \in Subjects => visiting[s].subject \in Subjects /\ r.flow = visiting[s].flow
  PROVE  FlowsAreOwn'
<1>1. \A u \in Tabs : visiting'[u] = IF u = s THEN r ELSE visiting[u] BY DEF SignOnInv, SignOnTypes
<1>2. FlowsAreOwn BY DEF SignOnInv
<1> QED BY <1>1, <1>2 DEF FlowsAreOwn, FlowIsSpent

\* of the address it goes by,
LEMMA OnItsAddress ==
  ASSUME SignOnInv, NEW s \in Tabs, NEW r \in TabVisit, visiting' = [visiting EXCEPT ![s] = r],
         UNCHANGED atProvider, AddressIsVouched(r), \A b \in bonds' : b \in bonds \/ <<b.subject, b.account>> \in vouched
  PROVE  Vouching'
<1>1. \A u \in Tabs : visiting'[u] = IF u = s THEN r ELSE visiting[u] BY DEF SignOnInv, SignOnTypes
<1>2. Vouching BY DEF SignOnInv
<1> QED BY <1>1, <1>2 DEF Vouching, AddressIsVouched, atProvider

\* of the identity of its subject,
LEMMA OnItsSubject ==
  ASSUME SignOnInv, NEW s \in Tabs, NEW r \in TabVisit, visiting' = [visiting EXCEPT ![s] = r],
         UNCHANGED <<bonds, single>>, r.subject \in Subjects => visiting[s].subject = r.subject,
         single => IsUnbound(r),
         \A k \in known' : k \in known \/ \E b \in bonds : b.subject = k[1] /\ b.account = k[2]
  PROVE  OneIdentity'
<1>1. \A u \in Tabs : visiting'[u] = IF u = s THEN r ELSE visiting[u] BY DEF SignOnInv, SignOnTypes
<1>2. OneIdentity BY DEF SignOnInv
<1>3. SUFFICES ASSUME single PROVE (OneCallback /\ OneBond /\ KnownByBond /\ \A u \in Tabs : IsUnbound(visiting[u]))'
  BY DEF OneIdentity
<1>4. OneCallback /\ OneBond /\ KnownByBond /\ \A u \in Tabs : IsUnbound(visiting[u]) BY <1>2, <1>3 DEF OneIdentity
<1>5. OneCallback' BY <1>1, <1>4 DEF OneCallback
<1>6. OneBond' /\ KnownByBond' BY <1>4 DEF OneBond, KnownByBond
<1>7. \A u \in Tabs : IsUnbound(visiting'[u]) BY <1>1, <1>3, <1>4
<1>8. (\A u \in Tabs : IsUnbound(visiting[u]))' BY <1>7 DEF IsUnbound
<1> QED BY <1>5, <1>6, <1>8

\* and of the account it has created.
LEMMA OnItsWayHome ==
  ASSUME SignOnInv, NEW s \in Tabs, NEW r \in TabVisit, visiting' = [visiting EXCEPT ![s] = r],
         homes \subseteq homes', cut \subseteq cut', r.pc = "bondNew" => r.account = r.address,
         \A a \in accounts' : a \in accounts \/ (r.account = a /\ MakesHome(r)),
         MakesHome(visiting[s]) =>
           \/ visiting[s].account \in homes' \cup cut'
           \/ MakesHome(r) /\ r.account = visiting[s].account
  PROVE  HomesComing'
<1>1. \A u \in Tabs : visiting'[u] = IF u = s THEN r ELSE visiting[u] BY DEF SignOnInv, SignOnTypes
<1>2. HomesComing BY DEF SignOnInv
<1> QED BY <1>1, <1>2 DEF HomesComing, MakesHome

\* A handler that writes no account, no identity, no sign-in.
LEMMA VisitMoves ==
  ASSUME SignOnInv, NEW s \in Tabs, NEW r \in TabVisit, visiting' = [visiting EXCEPT ![s] = r],
         UNCHANGED <<atProvider, accounts, bonds, flows, known, single>>, counted' \in [bonds : Int, visits : Int],
         r.subject \in Subjects => visiting[s].subject = r.subject /\ r.flow = visiting[s].flow,
         AddressIsVouched(r), single => IsUnbound(r),
         homes \subseteq homes', cut \subseteq cut', r.pc # "bondNew",
         MakesHome(visiting[s]) =>
           \/ visiting[s].account \in homes' \cup cut'
           \/ MakesHome(r) /\ r.account = visiting[s].account
  PROVE  SignOnInv'
<1>1. SignOnTypes' BY DEF SignOnInv, SignOnTypes, atProvider
<1>2. FlowsAreOwn' BY OnOwnFlow
<1>3. Vouching' BY OnItsAddress DEF SignOnInv, Vouching
<1>4. OneIdentity' BY OnItsSubject
<1>5. \A a \in accounts' : a \in accounts \/ (r.account = a /\ MakesHome(r)) BY DEF atProvider
<1>6. HomesComing' BY <1>5, OnItsWayHome
<1> QED BY <1>1, <1>2, <1>3, <1>4, <1>6 DEF SignOnInv

\* The provider, and what passes outside the handlers.
LEMMA ProviderActs ==
  ASSUME SignOnInv,
         \/ \E p \in Subjects : ConfirmAddress(p) \/ \E a \in Mailboxes : ChangeAddress(p, a)
         \/ \E f \in 1..MaxFlows : StartFlow(f) \/ Exchange(f)
  PROVE  SignOnInv'
<1>0. SignOnTypes /\ Vouching /\ FlowsAreOwn /\ OneIdentity /\ HomesComing BY DEF SignOnInv
<1>1. UNCHANGED <<accounts, bonds, homes, cut, known, single, visiting>>
  BY DEF ConfirmAddress, ChangeAddress, StartFlow, Exchange
<1>2. OneIdentity' BY <1>0, <1>1 DEF OneIdentity, OneCallback, OneBond, KnownByBond, IsUnbound
<1>3. HomesComing' BY <1>0, <1>1 DEF HomesComing, MakesHome
<1>4. ASSUME NEW p \in Subjects, ConfirmAddress(p) \/ \E a \in Mailboxes : ChangeAddress(p, a) PROVE SignOnInv'
  <2>0. profiles[p] \in [address : Mailboxes, verified : BOOLEAN] BY <1>0 DEF SignOnTypes
  <2>4. PICK q \in [address : Mailboxes, verified : BOOLEAN] : profiles' = [profiles EXCEPT ![p] = q]
    <3>1. [profiles[p] EXCEPT !.verified = TRUE] \in [address : Mailboxes, verified : BOOLEAN] BY <2>0
    <3> QED BY <1>4, <3>1 DEF ConfirmAddress, ChangeAddress
  <2>5. counted' \in [bonds : Int, visits : Int] BY <1>0, <1>4 DEF ConfirmAddress, ChangeAddress, Visits, SignOnTypes
  <2>6. UNCHANGED flows BY <1>4 DEF ConfirmAddress, ChangeAddress
  <2>1. SignOnTypes' BY <1>0, <1>1, <2>4, <2>5, <2>6 DEF SignOnTypes
  <2>2. Vouching' BY <1>0, <1>4 DEF ConfirmAddress, ChangeAddress, Visits, SignOnTypes, Vouching, AddressIsVouched
  <2>3. FlowsAreOwn' BY <1>0, <1>4 DEF ConfirmAddress, ChangeAddress, Visits, FlowsAreOwn, FlowIsSpent
  <2> QED BY <1>2, <1>3, <2>1, <2>2, <2>3 DEF SignOnInv
<1>5. ASSUME NEW f \in 1..MaxFlows, StartFlow(f) \/ Exchange(f) PROVE SignOnInv'
  <2> DEFINE Flow == [nonce : {"none", "pending", "spent"}, handoff : BOOLEAN, delivered : Int]
  <2>0. flows[f] \in Flow BY <1>0 DEF SignOnTypes
  <2>4. PICK w \in Flow :
          /\ flows' = [flows EXCEPT ![f] = w]
          /\ \/ flows[f].nonce = "none" /\ w.handoff = flows[f].handoff /\ w.delivered = flows[f].delivered
             \/ flows[f].handoff /\ w.nonce = flows[f].nonce /\ ~w.handoff /\ w.delivered = flows[f].delivered + 1
    <3>1. CASE StartFlow(f)
      <4>1. [flows[f] EXCEPT !.nonce = "pending"] \in Flow BY <2>0
      <4> QED BY <2>0, <3>1, <4>1 DEF StartFlow
    <3>2. CASE Exchange(f)
      <4>1. [flows[f] EXCEPT !.delivered = @ + 1, !.handoff = FALSE] \in Flow
        <5>1. flows[f].delivered + 1 \in Int BY <2>0
        <5> QED BY <2>0, <5>1
      <4>2. flows' = [flows EXCEPT ![f] = [flows[f] EXCEPT !.delivered = @ + 1, !.handoff = FALSE]]
        BY <3>2 DEF Exchange, RedeemHandoff
      <4> QED BY <2>0, <3>2, <4>1, <4>2 DEF Exchange
    <3> QED BY <1>5, <3>1, <3>2
  <2>5. UNCHANGED <<profiles, vouched, counted>> BY <1>5 DEF StartFlow, Exchange, atProvider
  <2>6. \A g \in 1..MaxFlows : flows'[g] = IF g = f THEN w ELSE flows[g] BY <1>0, <2>4 DEF SignOnTypes
  <2>1. SignOnTypes' BY <1>0, <1>1, <2>4, <2>5 DEF SignOnTypes
  <2>2. Vouching' BY <1>0, <1>1, <2>5 DEF Vouching, AddressIsVouched
  <2>3. FlowsAreOwn'
    <3>1. \A s \in Tabs : visiting[s].subject \in Subjects => visiting[s].flow \in 1..MaxFlows
      BY <1>0, NobodyIsNone DEF SignOnTypes, TabVisit, NoVisit, CallbackVisit, ResolvedVisit, RegisterVisit
    <3> QED BY <1>0, <1>1, <2>0, <2>4, <2>6, <3>1 DEF FlowsAreOwn, FlowIsSpent
  <2> QED BY <1>2, <1>3, <2>1, <2>2, <2>3 DEF SignOnInv
<1> QED BY <1>4, <1>5

\* GET /callback takes up a nonce that no other handler has.
LEMMA CallbackKeeps ==
  ASSUME SignOnInv, NEW s \in Tabs, NEW f \in 1..MaxFlows, NEW p \in Subjects, NEW invite \in BOOLEAN,
         Callback(s, f, p, invite)
  PROVE  SignOnInv'
<1> DEFINE r == [pc |-> "profile", flow |-> f, subject |-> p, invite |-> invite, account |-> "none"]
<1>0. SignOnTypes /\ Vouching /\ FlowsAreOwn /\ OneIdentity /\ HomesComing BY DEF SignOnInv
<1>1. /\ r \in TabVisit /\ r.pc = "profile" /\ r.subject = p /\ r.flow = f
      /\ IsUnbound(r) /\ ~MakesHome(r)
  BY DEF TabVisit, CallbackVisit, IsUnbound, MakesHome
<1>2. AddressIsVouched(r) BY DEF AddressIsVouched
<1>3. /\ visiting[s].pc = "none" /\ visiting' = [visiting EXCEPT ![s] = r]
      /\ flows[f].nonce = "pending" /\ flows' = [flows EXCEPT ![f].nonce = "spent"]
      /\ single' = (single /\ \A u \in Tabs : visiting[u].subject # p)
      /\ UNCHANGED <<atProvider, accounts, bonds, homes, accepted, known, cut>>
      /\ counted' = [counted EXCEPT !.visits = @ + 1]
  BY DEF Callback, ConsumeFlow, Steps, Visits
<1> HIDE DEF r
<1>4. \A u \in Tabs : visiting'[u] = IF u = s THEN r ELSE visiting[u] BY <1>0, <1>3 DEF SignOnTypes
<1>5. SignOnTypes' BY <1>0, <1>1, <1>3 DEF SignOnTypes, atProvider
<1>6. Vouching' BY <1>2, <1>3, OnItsAddress, <1>0, <1>1 DEF Vouching
<1>7. FlowsAreOwn' BY <1>0, <1>1, <1>3, <1>4 DEF FlowsAreOwn, FlowIsSpent, SignOnTypes
<1>8. OneIdentity'
  <2>1. SUFFICES ASSUME single' PROVE (OneCallback /\ OneBond /\ KnownByBond /\ \A u \in Tabs : IsUnbound(visiting[u]))'
    BY DEF OneIdentity
  <2>2. /\ OneCallback /\ OneBond /\ KnownByBond /\ \A u \in Tabs : IsUnbound(visiting[u])
        /\ \A u \in Tabs : visiting[u].subject # p
    BY <1>0, <1>3, <2>1 DEF OneIdentity
  <2>3. OneCallback' BY <1>1, <1>4, <2>2 DEF OneCallback
  <2>4. OneBond' /\ KnownByBond' BY <1>3, <2>2 DEF OneBond, KnownByBond
  <2>5. (\A u \in Tabs : IsUnbound(visiting[u]))' BY <1>1, <1>3, <1>4, <2>2 DEF IsUnbound
  <2> QED BY <2>3, <2>4, <2>5
<1>9. HomesComing' BY <1>0, <1>1, <1>3, <1>4 DEF HomesComing, MakesHome
<1> QED BY <1>5, <1>6, <1>7, <1>8, <1>9 DEF SignOnInv

LEMMA VisitShapes ==
  ASSUME SignOnTypes, NEW s \in Tabs
  PROVE  /\ visiting[s].pc = "profile" => visiting[s] \in CallbackVisit
         /\ visiting[s].pc \in {"lookup", "address", "bond", "bondNew", "invitation", "invitationNew", "stamp", "handoff"}
              => visiting[s] \in ResolvedVisit
         /\ visiting[s].pc \in {"create", "home"} => visiting[s] \in ResolvedVisit \cup RegisterVisit
<1>1. visiting[s] \in TabVisit BY DEF SignOnTypes
<1> QED BY <1>1 DEF TabVisit, NoVisit, CallbackVisit, ResolvedVisit, RegisterVisit

\* A handler that gives up, or whose process is gone.
LEMMA NobodyIsClean ==
  NoVisit \in TabVisit /\ NoVisit.pc = "none" /\ NoVisit.subject \notin Subjects /\ AddressIsVouched(NoVisit) /\ IsUnbound(NoVisit)
    /\ ~MakesHome(NoVisit)
BY NobodyIsNone DEF NoVisit, TabVisit, AddressIsVouched, IsUnbound, MakesHome

LEMMA FetchProfileKeeps == ASSUME SignOnInv, NEW s \in Tabs, FetchProfile(s) PROVE SignOnInv'
<1> DEFINE q == visiting[s]
<1>0. SignOnTypes /\ Vouching /\ q \in CallbackVisit BY VisitShapes DEF SignOnInv, FetchProfile
<1>1. /\ UNCHANGED <<atProvider, accounts, bonds, flows, known, single>> /\ UNCHANGED <<homes, cut, counted>>
      /\ q.pc = "profile" /\ ~MakesHome(q)
  BY DEF FetchProfile, MakesHome
<1>2. counted' \in [bonds : Int, visits : Int] BY <1>0, <1>1 DEF SignOnTypes
<1>3. CASE visiting' = [visiting EXCEPT ![s] = NoVisit]
  BY <1>1, <1>2, <1>3, NobodyIsClean, VisitMoves
<1>4. ASSUME NEW profile \in [address : Mailboxes, verified : BOOLEAN], profile = profiles[q.subject],
             visiting' = [visiting EXCEPT ![s] =
               [pc |-> "lookup", flow |-> q.flow, subject |-> q.subject, invite |-> q.invite, account |-> "none",
                address |-> profile.address, verified |-> profile.verified]]
      PROVE  SignOnInv'
  <2> DEFINE r == [pc |-> "lookup", flow |-> q.flow, subject |-> q.subject, invite |-> q.invite, account |-> "none",
                   address |-> profile.address, verified |-> profile.verified]
  <2>1. r \in TabVisit /\ r.pc = "lookup" /\ r.subject = q.subject /\ r.flow = q.flow
    BY <1>0 DEF TabVisit, CallbackVisit, ResolvedVisit
  <2>2. AddressIsVouched(r) /\ IsUnbound(r)
    BY <1>0, <1>4 DEF Vouching, AddressIsVouched, IsUnbound, CallbackVisit
  <2>3. visiting' = [visiting EXCEPT ![s] = r] BY <1>4
  <2> HIDE DEF r
  <2> QED BY <1>1, <1>2, <2>1, <2>2, <2>3, VisitMoves
<1>5. profiles[q.subject] \in [address : Mailboxes, verified : BOOLEAN] BY <1>0 DEF SignOnTypes, CallbackVisit
<1> QED BY <1>3, <1>4, <1>5 DEF FetchProfile, Steps, Ends

LEMMA LookupKeeps == ASSUME SignOnInv, NEW s \in Tabs, Lookup(s) PROVE SignOnInv'
<1> DEFINE q == visiting[s]
<1>0. SignOnTypes /\ Vouching /\ FlowsAreOwn /\ OneIdentity /\ HomesComing /\ q \in ResolvedVisit
  BY VisitShapes DEF SignOnInv, Lookup
<1>1. /\ UNCHANGED atProvider /\ UNCHANGED <<accounts, bonds, flows, single, homes, cut, counted>>
      /\ q.pc = "lookup" /\ ~MakesHome(q)
  BY DEF Lookup, MakesHome
<1>2. counted' \in [bonds : Int, visits : Int] BY <1>0, <1>1 DEF SignOnTypes
<1>3. ASSUME NEW b \in KnownBy(q), SignsInAs(s, b.account, "invitation") PROVE SignOnInv'
  <2> DEFINE r == [q EXCEPT !.account = b.account, !.pc = "invitation"]
  <2>0. b \in bonds /\ b.subject = q.subject /\ b.account \in Mailboxes /\ q.subject \in Subjects
    BY <1>0 DEF KnownBy, SignOnTypes, ResolvedVisit
  <2>1. r \in TabVisit /\ r.pc = "invitation" /\ r.subject = q.subject /\ r.flow = q.flow
    BY <1>0, <2>0 DEF TabVisit, ResolvedVisit
  <2>2. AddressIsVouched(r) /\ IsUnbound(r) BY <2>1 DEF AddressIsVouched, IsUnbound
  <2>3. visiting' = [visiting EXCEPT ![s] = r] /\ known' = known \cup {<<q.subject, b.account>>}
    BY <1>3 DEF SignsInAs, Steps
  <2> HIDE DEF r
  <2>4. SignOnTypes' BY <1>0, <1>1, <2>0, <2>1, <2>3 DEF SignOnTypes, atProvider
  <2>5. FlowsAreOwn' BY <1>1, <2>0, <2>1, <2>3, OnOwnFlow
  <2>6. Vouching' BY <1>0, <1>1, <2>1, <2>2, <2>3, OnItsAddress DEF Vouching
  <2>7. \A k \in known' : k \in known \/ \E c \in bonds : c.subject = k[1] /\ c.account = k[2] BY <2>0, <2>3
  <2>8. OneIdentity' BY <1>1, <2>1, <2>2, <2>3, <2>7, OnItsSubject
  <2>9. HomesComing' BY <1>1, <2>1, <2>3, OnItsWayHome
  <2> QED BY <2>4, <2>5, <2>6, <2>8, <2>9 DEF SignOnInv
<1>4. ASSUME KnownBy(q) = {}, Steps(s, [q EXCEPT !.pc = "address"]), UNCHANGED known PROVE SignOnInv'
  <2> DEFINE r == [q EXCEPT !.pc = "address"]
  <2>1. r \in TabVisit /\ r.pc = "address" /\ r.subject = q.subject /\ r.flow = q.flow
    BY <1>0 DEF TabVisit, ResolvedVisit
  <2>2. AddressIsVouched(r) /\ IsUnbound(r)
    BY <1>0, <1>1, <1>4 DEF Vouching, AddressIsVouched, IsUnbound, KnownBy, ResolvedVisit
  <2>3. visiting' = [visiting EXCEPT ![s] = r] BY <1>4 DEF Steps
  <2>4. UNCHANGED <<atProvider, accounts, bonds, flows, known, single>> BY <1>1, <1>4
  <2> HIDE DEF r
  <2> QED BY <1>1, <1>2, <2>1, <2>2, <2>3, <2>4, VisitMoves
<1> QED BY <1>3, <1>4 DEF Lookup

LEMMA MatchAddressKeeps == ASSUME SignOnInv, NEW s \in Tabs, MatchAddress(s) PROVE SignOnInv'
<1> DEFINE q == visiting[s]
<1>0. SignOnTypes /\ Vouching /\ OneIdentity /\ q \in ResolvedVisit BY VisitShapes DEF SignOnInv, MatchAddress
<1>1. /\ UNCHANGED <<atProvider, accounts, bonds, flows, known, single>> /\ UNCHANGED <<homes, cut, counted>>
      /\ q.pc = "address" /\ ~MakesHome(q)
  BY DEF MatchAddress, MakesHome
<1>2. counted' \in [bonds : Int, visits : Int] BY <1>0, <1>1 DEF SignOnTypes
<1>3. CASE visiting' = [visiting EXCEPT ![s] = NoVisit]
  BY <1>1, <1>2, <1>3, NobodyIsClean, VisitMoves
<1>4. ASSUME NEW pc \in {"bond", "create"}, q.verified, visiting' = [visiting EXCEPT ![s] = [q EXCEPT !.pc = pc]]
      PROVE  SignOnInv'
  <2> DEFINE r == [q EXCEPT !.pc = pc]
  <2>1. r \in TabVisit /\ r.pc = pc /\ r.subject = q.subject /\ r.flow = q.flow /\ r.address = q.address
    BY <1>0 DEF TabVisit, ResolvedVisit
  <2>2. AddressIsVouched(r) BY <1>0, <1>1, <1>4, <2>1 DEF Vouching, AddressIsVouched
  <2>3. single => IsUnbound(r) BY <1>0, <1>1, <2>1 DEF OneIdentity, IsUnbound
  <2>4. visiting' = [visiting EXCEPT ![s] = r] BY <1>4
  <2> HIDE DEF r
  <2> QED BY <1>1, <1>2, <2>1, <2>2, <2>3, <2>4, VisitMoves
<1> QED BY <1>3, <1>4 DEF MatchAddress, Trusted, Steps, Ends

LEMMA BondKeeps == ASSUME SignOnInv, NEW s \in Tabs, Bond(s) PROVE SignOnInv'
<1> DEFINE q == visiting[s]
           pc == IF q.pc = "bond" THEN "invitation" ELSE "invitationNew"
           r == [q EXCEPT !.account = q.address, !.pc = pc]
           new == [id |-> counted.bonds + 1, subject |-> q.subject, account |-> q.address]
<1>0. SignOnTypes /\ Vouching /\ FlowsAreOwn /\ OneIdentity /\ HomesComing /\ q \in ResolvedVisit
  BY VisitShapes DEF SignOnInv, Bond
<1>1. /\ UNCHANGED <<profiles, vouched, accounts, homes, flows, cut, single>> /\ q.pc \in {"bond", "bondNew"}
      /\ bonds' = bonds \cup {new} /\ known' = known \cup {<<q.subject, q.address>>}
      /\ counted' = [counted EXCEPT !.bonds = @ + 1] /\ visiting' = [visiting EXCEPT ![s] = r]
  BY DEF Bond, SignsInAs, Steps, atProvider
<1>2. /\ r \in TabVisit /\ r.pc \in {"invitation", "invitationNew"} /\ r.subject = q.subject /\ r.flow = q.flow
      /\ r.account = q.address /\ q.subject \in Subjects /\ q.address \in Mailboxes
      /\ q.pc = "bondNew" => r.pc = "invitationNew"
  BY <1>0, <1>1 DEF TabVisit, ResolvedVisit
<1>3. /\ new \in [id : Int, subject : Subjects, account : Mailboxes]
      /\ new.subject = q.subject /\ new.account = q.address
  BY <1>0, <1>2 DEF SignOnTypes
<1>4. AddressIsVouched(r) /\ IsUnbound(r) BY <1>2 DEF AddressIsVouched, IsUnbound
<1>5. <<q.subject, q.address>> \in vouched BY <1>0, <1>1, <1>2 DEF Vouching, AddressIsVouched
<1> HIDE DEF r, new
<1>6. SignOnTypes'
  <2>1. counted' \in [bonds : Int, visits : Int] BY <1>0, <1>1 DEF SignOnTypes
  <2> QED BY <1>0, <1>1, <1>2, <1>3, <2>1 DEF SignOnTypes
<1>7. FlowsAreOwn' BY <1>1, <1>2, OnOwnFlow
<1>8. Vouching'
  <2>1. \A b \in bonds' : b \in bonds \/ <<b.subject, b.account>> \in vouched BY <1>1, <1>3, <1>5
  <2>2. UNCHANGED atProvider BY <1>1 DEF atProvider
  <2> QED BY <1>1, <1>2, <1>4, <2>1, <2>2, OnItsAddress
<1>9. OneIdentity'
  <2>1. SUFFICES ASSUME single PROVE (OneCallback /\ OneBond /\ KnownByBond /\ \A u \in Tabs : IsUnbound(visiting[u]))'
    BY <1>1 DEF OneIdentity
  <2>2. OneCallback /\ OneBond /\ KnownByBond /\ \A u \in Tabs : IsUnbound(visiting[u]) BY <1>0, <2>1 DEF OneIdentity
  <2>3. \A u \in Tabs : visiting'[u] = IF u = s THEN r ELSE visiting[u] BY <1>0, <1>1 DEF SignOnTypes
  <2>4. \A b \in bonds : b.subject # q.subject BY <1>1, <2>2 DEF IsUnbound
  <2>5. OneCallback' BY <1>2, <2>2, <2>3 DEF OneCallback
  <2>6. OneBond' BY <1>1, <1>3, <2>2, <2>4 DEF OneBond
  <2>7. KnownByBond' BY <1>1, <1>3, <2>2 DEF KnownByBond
  <2>8. (\A u \in Tabs : IsUnbound(visiting[u]))' BY <1>1, <1>2, <1>3, <2>2, <2>3 DEF IsUnbound, OneCallback
  <2> QED BY <2>5, <2>6, <2>7, <2>8
<1>10. HomesComing'
  <2>1. q.pc = "bondNew" => q.account = q.address BY <1>0 DEF HomesComing
  <2>2. MakesHome(q) => MakesHome(r) /\ r.account = q.account BY <1>1, <1>2, <2>1 DEF MakesHome
  <2> QED BY <1>1, <1>2, <2>2, OnItsWayHome
<1> QED BY <1>6, <1>7, <1>8, <1>9, <1>10 DEF SignOnInv

LEMMA CreateUserKeeps == ASSUME SignOnInv, NEW s \in Tabs, CreateUser(s) PROVE SignOnInv'
<1> DEFINE q == visiting[s]
           pc == IF q.subject = "none" THEN "home" ELSE "bondNew"
           r == [q EXCEPT !.pc = pc, !.account = q.address]
<1>0. SignOnTypes /\ Vouching /\ FlowsAreOwn /\ OneIdentity /\ HomesComing /\ q \in ResolvedVisit \cup RegisterVisit
  BY VisitShapes DEF SignOnInv, CreateUser
<1>1. /\ UNCHANGED <<profiles, vouched, bonds, flows, known, single>> /\ UNCHANGED <<homes, cut, counted>>
      /\ q.pc = "create" /\ ~MakesHome(q)
  BY DEF CreateUser, MakesHome, atProvider
<1>2. counted' \in [bonds : Int, visits : Int] /\ UNCHANGED atProvider BY <1>0, <1>1 DEF SignOnTypes, atProvider
<1>3. CASE visiting' = [visiting EXCEPT ![s] = NoVisit] /\ UNCHANGED accounts
  <2>1. UNCHANGED <<atProvider, accounts, bonds, flows, known, single>> BY <1>1, <1>2, <1>3
  <2> QED BY <1>1, <1>2, <1>3, <2>1, NobodyIsClean, VisitMoves
<1>4. ASSUME accounts' = accounts \cup {q.address}, visiting' = [visiting EXCEPT ![s] = r] PROVE SignOnInv'
  <2>1. /\ r \in TabVisit /\ r.subject = q.subject /\ r.address = q.address /\ r.account = q.address
        /\ r.subject \in Subjects => r.pc = "bondNew" /\ r.flow = q.flow
        /\ q.address \in Mailboxes /\ MakesHome(r) /\ r.pc \in {"home", "bondNew"}
    BY <1>0, NobodyIsNone DEF TabVisit, ResolvedVisit, RegisterVisit, MakesHome
  <2>2. AddressIsVouched(r) BY <1>0, <1>1, <2>1 DEF Vouching, AddressIsVouched
  <2>3. single => IsUnbound(r) BY <1>0, <1>1, <2>1 DEF OneIdentity, IsUnbound
  <2> HIDE DEF r
  <2>4. SignOnTypes' BY <1>0, <1>1, <1>2, <1>4, <2>1 DEF SignOnTypes
  <2>5. FlowsAreOwn' BY <1>1, <1>4, <2>1, OnOwnFlow
  <2>6. \A b \in bonds' : b \in bonds \/ <<b.subject, b.account>> \in vouched BY <1>1
  <2>7. Vouching' BY <1>2, <1>4, <2>1, <2>2, <2>6, OnItsAddress
  <2>8. OneIdentity' BY <1>1, <1>4, <2>1, <2>3, OnItsSubject
  <2>9. HomesComing' BY <1>1, <1>4, <2>1, OnItsWayHome
  <2> QED BY <2>4, <2>5, <2>7, <2>8, <2>9 DEF SignOnInv
<1> QED BY <1>3, <1>4 DEF CreateUser, Steps, Ends

LEMMA JoiningKeeps ==
  ASSUME SignOnInv, NEW s \in Tabs, PassOver(s) \/ JoinByInvite(s) \/ StampInvite(s)
  PROVE  SignOnInv'
<1> DEFINE q == visiting[s]
<1>0. SignOnTypes /\ q \in ResolvedVisit
  BY VisitShapes DEF SignOnInv, PassOver, JoinByInvite, StampInvite
<1>1. /\ UNCHANGED <<atProvider, accounts, bonds, flows, known, single>> /\ UNCHANGED counted
      /\ homes \subseteq homes' /\ cut \subseteq cut'
  BY DEF PassOver, JoinByInvite, StampInvite
<1>2. counted' \in [bonds : Int, visits : Int] BY <1>0, <1>1 DEF SignOnTypes
<1>3. ASSUME NEW pc \in {"stamp", "handoff", "home"}, visiting' = [visiting EXCEPT ![s] = [q EXCEPT !.pc = pc]],
             MakesHome(q) => pc = "home" \/ q.account \in homes'
      PROVE  SignOnInv'
  <2> DEFINE r == [q EXCEPT !.pc = pc]
  <2>1. r \in TabVisit /\ r.pc = pc /\ r.subject = q.subject /\ r.flow = q.flow /\ r.account = q.account
    BY <1>0 DEF TabVisit, ResolvedVisit
  <2>2. AddressIsVouched(r) /\ IsUnbound(r) BY <2>1 DEF AddressIsVouched, IsUnbound
  <2>3. visiting' = [visiting EXCEPT ![s] = r] BY <1>3
  <2>4. MakesHome(q) => q.account \in homes' \cup cut' \/ (MakesHome(r) /\ r.account = q.account)
    BY <1>3, <2>1 DEF MakesHome
  <2> HIDE DEF r
  <2> QED BY <1>1, <1>2, <2>1, <2>2, <2>3, <2>4, VisitMoves
<1>4. CASE PassOver(s)
  <2>1. /\ visiting' = [visiting EXCEPT ![s] = [q EXCEPT !.pc = Finishes(q, FALSE)]]
        /\ Finishes(q, FALSE) \in {"handoff", "home"}
        /\ MakesHome(q) => Finishes(q, FALSE) = "home"
    BY <1>4 DEF PassOver, Steps, Finishes, MakesHome
  <2> QED BY <1>3, <2>1
<1>5. CASE JoinByInvite(s)
  <2>1. CASE homes' = homes \cup {q.account} /\ visiting' = [visiting EXCEPT ![s] = [q EXCEPT !.pc = "stamp"]]
    <3>1. "stamp" \in {"stamp", "handoff", "home"} /\ q.account \in homes' BY <2>1
    <3> QED BY <1>3, <2>1, <3>1
  <2>2. CASE cut' = cut \cup {q.account} /\ visiting' = [visiting EXCEPT ![s] = NoVisit]
    BY <1>1, <1>2, <2>2, NobodyIsClean, VisitMoves
  <2> QED BY <1>5, <2>1, <2>2 DEF JoinByInvite, Steps, Ends
<1>6. CASE StampInvite(s)
  <2>1. visiting' = [visiting EXCEPT ![s] = [q EXCEPT !.pc = "handoff"]] /\ ~MakesHome(q)
    BY <1>6 DEF StampInvite, Steps, MakesHome
  <2> QED BY <1>3, <2>1
<1> QED BY <1>4, <1>5, <1>6

LEMMA MakeHomeKeeps == ASSUME SignOnInv, NEW s \in Tabs, MakeHome(s) PROVE SignOnInv'
<1> DEFINE q == visiting[s]
           r == [q EXCEPT !.pc = "handoff"]
<1>0. SignOnTypes /\ q \in ResolvedVisit \cup RegisterVisit BY VisitShapes DEF SignOnInv, MakeHome
<1>1. /\ UNCHANGED <<atProvider, accounts, bonds, flows, known, single>> /\ UNCHANGED <<cut, counted>>
      /\ homes' = homes \cup {q.account}
  BY DEF MakeHome
<1>2. counted' \in [bonds : Int, visits : Int] BY <1>0, <1>1 DEF SignOnTypes
<1>3. CASE visiting' = [visiting EXCEPT ![s] = NoVisit] BY <1>1, <1>2, <1>3, NobodyIsClean, VisitMoves
<1>4. CASE q.subject # "none" /\ visiting' = [visiting EXCEPT ![s] = r]
  <2>1. r \in TabVisit /\ r.pc = "handoff" /\ r.subject = q.subject /\ r.flow = q.flow
    BY <1>0, <1>4 DEF TabVisit, ResolvedVisit, RegisterVisit
  <2>2. AddressIsVouched(r) /\ IsUnbound(r) BY <2>1 DEF AddressIsVouched, IsUnbound
  <2> HIDE DEF r
  <2> QED BY <1>1, <1>2, <1>4, <2>1, <2>2, VisitMoves
<1> QED BY <1>3, <1>4 DEF MakeHome, Steps, Ends

LEMMA MintHandoffKeeps == ASSUME SignOnInv, NEW s \in Tabs, MintHandoff(s) PROVE SignOnInv'
<1> DEFINE q == visiting[s]
           Flow == [nonce : {"none", "pending", "spent"}, handoff : BOOLEAN, delivered : Int]
           w == [flows[q.flow] EXCEPT !.handoff = TRUE]
<1>0. SignOnTypes /\ Vouching /\ FlowsAreOwn /\ OneIdentity /\ HomesComing /\ q \in ResolvedVisit
  BY VisitShapes DEF SignOnInv, MintHandoff
<1>1. /\ UNCHANGED <<profiles, vouched, accounts, bonds, homes, known, cut, single, counted>>
      /\ q.pc = "handoff" /\ ~MakesHome(q) /\ flows' = [flows EXCEPT ![q.flow] = w]
      /\ visiting' = [visiting EXCEPT ![s] = NoVisit]
  BY DEF MintHandoff, MakesHome, Ends, Steps, atProvider
<1>2. q.flow \in 1..MaxFlows /\ q.subject \in Subjects BY <1>0 DEF ResolvedVisit
<1>3. flows[q.flow] \in Flow BY <1>0, <1>2 DEF SignOnTypes
<1>4. w \in Flow /\ w.handoff = TRUE /\ w.nonce = flows[q.flow].nonce /\ w.delivered = flows[q.flow].delivered BY <1>3
<1>5. flows[q.flow].nonce = "spent" /\ flows[q.flow].delivered = 0 BY <1>0, <1>2 DEF FlowsAreOwn, FlowIsSpent
<1> HIDE DEF w
<1>6. /\ \A u \in Tabs : visiting'[u] = IF u = s THEN NoVisit ELSE visiting[u]
      /\ \A f \in 1..MaxFlows : flows'[f] = IF f = q.flow THEN w ELSE flows[f]
  BY <1>0, <1>1 DEF SignOnTypes
<1>7. SignOnTypes' BY <1>0, <1>1, <1>4, NobodyIsClean DEF SignOnTypes
<1>8. FlowsAreOwn'
  <2>1. \A u \in Tabs : visiting[u].subject \in Subjects => visiting[u].flow \in 1..MaxFlows
    BY <1>0, NobodyIsNone DEF SignOnTypes, TabVisit, NoVisit, CallbackVisit, ResolvedVisit, RegisterVisit
  <2> QED BY <1>0, <1>2, <1>4, <1>5, <1>6, <2>1, NobodyIsClean DEF FlowsAreOwn, FlowIsSpent
<1>9. Vouching' BY <1>0, <1>1, NobodyIsClean, OnItsAddress DEF Vouching, atProvider
<1>10. OneIdentity' BY <1>1, NobodyIsClean, OnItsSubject
<1>11. HomesComing' BY <1>1, NobodyIsClean, OnItsWayHome
<1> QED BY <1>7, <1>8, <1>9, <1>10, <1>11 DEF SignOnInv

LEMMA RegisterKeeps == ASSUME SignOnInv, NEW s \in Tabs, NEW a \in Mailboxes, Register(s, a) PROVE SignOnInv'
<1> DEFINE r == [pc |-> "create", subject |-> "none", address |-> a, account |-> "none"]
<1>0. SignOnTypes BY DEF SignOnInv
<1>1. /\ UNCHANGED <<atProvider, accounts, bonds, flows, known, single>> /\ UNCHANGED <<homes, cut>>
      /\ visiting' = [visiting EXCEPT ![s] = r] /\ ~MakesHome(visiting[s])
  BY DEF Register, Steps, MakesHome
<1>2. counted' \in [bonds : Int, visits : Int] BY <1>0 DEF SignOnTypes, Register, Visits
<1>3. /\ r \in TabVisit /\ r.pc = "create" /\ r.subject \notin Subjects
      /\ AddressIsVouched(r)
  BY NobodyIsNone DEF TabVisit, RegisterVisit, AddressIsVouched
<1>4. IsUnbound(r) BY <1>0, <1>3 DEF IsUnbound, SignOnTypes
<1> HIDE DEF r
<1> QED BY <1>1, <1>2, <1>3, <1>4, VisitMoves

LEMMA UnlinkIdentityKeeps == ASSUME SignOnInv, NEW b \in bonds, UnlinkIdentity(b) PROVE SignOnInv'
<1>0. SignOnTypes /\ Vouching /\ FlowsAreOwn /\ OneIdentity /\ HomesComing BY DEF SignOnInv
<1>1. /\ UNCHANGED <<profiles, vouched, accounts, homes, flows, visiting, cut, single>>
      /\ bonds' = bonds \ {b} /\ known' = {k \in known : k[1] # b.subject}
  BY DEF UnlinkIdentity, atProvider
<1>2. counted' \in [bonds : Int, visits : Int] BY <1>0 DEF SignOnTypes, UnlinkIdentity, Visits
<1>3. SignOnTypes' BY <1>0, <1>1, <1>2 DEF SignOnTypes
<1>4. Vouching' BY <1>0, <1>1 DEF Vouching, AddressIsVouched
<1>5. FlowsAreOwn' BY <1>0, <1>1 DEF FlowsAreOwn, FlowIsSpent
<1>6. OneIdentity' BY <1>0, <1>1 DEF OneIdentity, OneCallback, OneBond, KnownByBond, IsUnbound
<1>7. HomesComing' BY <1>0, <1>1 DEF HomesComing, MakesHome
<1> QED BY <1>3, <1>4, <1>5, <1>6, <1>7 DEF SignOnInv

\* A restart cuts short what was under way, and lets no nonce or code be used again.
LEMMA SignOnStopsKeeps == ASSUME SignOnInv, SignOnStops PROVE SignOnInv'
<1> DEFINE Flow == [nonce : {"none", "pending", "spent"}, handoff : BOOLEAN, delivered : Int]
           W(f) == [flows[f] EXCEPT !.handoff = FALSE, !.nonce = IF @ = "pending" THEN "spent" ELSE @]
<1>0. SignOnTypes /\ Vouching /\ FlowsAreOwn /\ OneIdentity /\ HomesComing BY DEF SignOnInv
<1>1. /\ UNCHANGED <<profiles, vouched, accounts, bonds, homes, known, single>>
      /\ visiting' = [s \in Tabs |-> NoVisit] /\ flows' = [f \in DOMAIN flows |-> W(f)]
      /\ cut' = cut \cup ({visiting[s].account : s \in Tabs} \ {"none"})
  BY DEF SignOnStops, atProvider
<1>2. counted' \in [bonds : Int, visits : Int]
  <2>1. counted' = [counted EXCEPT !.visits = @ + 1] /\ counted \in [bonds : Int, visits : Int]
    BY <1>0 DEF SignOnTypes, SignOnStops, Visits
  <2> QED BY <2>1
<1>3. ASSUME NEW f \in 1..MaxFlows
      PROVE  /\ W(f) \in Flow /\ W(f).handoff = FALSE /\ W(f).delivered = flows[f].delivered
             /\ flows[f].nonce = "spent" => W(f).nonce = "spent"
  <2>1. flows[f] \in Flow BY <1>0 DEF SignOnTypes
  <2> QED BY <2>1
<1> HIDE DEF W
<1>4. flows' = [f \in 1..MaxFlows |-> W(f)] BY <1>0, <1>1 DEF SignOnTypes
<1>5. \A s \in Tabs : visiting'[s] = NoVisit BY <1>1
<1>6. SignOnTypes'
  <2> HIDE DEF Flow
  <2>1. flows' \in [1..MaxFlows -> Flow] BY <1>3, <1>4
  <2>2. visiting' \in [Tabs -> TabVisit] BY <1>1, NobodyIsClean
  <2> QED BY <1>0, <1>1, <1>2, <2>1, <2>2 DEF SignOnTypes, Flow
<1>7. Vouching' BY <1>0, <1>1, <1>5, NobodyIsClean DEF Vouching, AddressIsVouched
<1>8. FlowsAreOwn' BY <1>0, <1>3, <1>4, <1>5, NobodyIsClean DEF FlowsAreOwn, FlowIsSpent
<1>9. OneIdentity' BY <1>0, <1>1, <1>5, NobodyIsClean DEF OneIdentity, OneCallback, OneBond, KnownByBond, IsUnbound
<1>10. HomesComing'
  <2>1. accounts \subseteq homes' \cup cut' BY <1>0, <1>1, NobodyIsNone DEF HomesComing, SignOnTypes
  <2> QED BY <1>1, <1>5, <2>1, NobodyIsClean DEF HomesComing
<1> QED BY <1>6, <1>7, <1>8, <1>9, <1>10 DEF SignOnInv

LEMMA SignOnSteps == SignOnInv /\ [SignOnNext]_signOnVars => SignOnInv'
<1> SUFFICES ASSUME SignOnInv, [SignOnNext]_signOnVars PROVE SignOnInv' OBVIOUS
<1>1. CASE UNCHANGED signOnVars
  <2>1. UNCHANGED <<profiles, accounts, bonds, homes, flows, visiting, known, vouched, cut, single, counted>>
    BY <1>1 DEF signOnVars
  <2> QED BY <2>1 DEF SignOnInv, SignOnTypes, Vouching, AddressIsVouched, FlowsAreOwn, FlowIsSpent, OneIdentity,
                     OneCallback, OneBond, KnownByBond, IsUnbound, HomesComing, MakesHome
<1>2. ASSUME NEW f \in 1..MaxFlows, NEW s \in Tabs, NEW p \in Subjects, NEW invite \in BOOLEAN, Callback(s, f, p, invite)
      PROVE  SignOnInv'
  BY <1>2, CallbackKeeps
<1>3. ASSUME NEW s \in Tabs,
             \/ FetchProfile(s) \/ Lookup(s) \/ MatchAddress(s) \/ Bond(s) \/ CreateUser(s)
             \/ PassOver(s) \/ JoinByInvite(s) \/ StampInvite(s) \/ MakeHome(s) \/ MintHandoff(s)
             \/ \E a \in Mailboxes : Register(s, a)
      PROVE  SignOnInv'
  BY <1>3, FetchProfileKeeps, LookupKeeps, MatchAddressKeeps, BondKeeps, CreateUserKeeps, JoiningKeeps, MakeHomeKeeps,
     MintHandoffKeeps, RegisterKeeps
<1>4. ASSUME NEW b \in bonds, UnlinkIdentity(b) PROVE SignOnInv' BY <1>4, UnlinkIdentityKeeps
<1>5. CASE SignOnStops BY <1>5, SignOnStopsKeeps
<1> QED BY <1>1, <1>2, <1>3, <1>4, <1>5, ProviderActs DEF SignOnNext

\* While no two callbacks of a subject overlap, it is taken for one account until
\* it is unlinked, and it got in by an address its provider confirmed; a sign-in
\* delivers one token; and every account gets an organization, or was cut short.
THEOREM SignOnStands == SignOnSpec => []SignOnHolds
<1>1. SignOnInit => SignOnInv BY SignOnStarts
<1>2. SignOnInv /\ [SignOnNext]_signOnVars => SignOnInv' BY SignOnSteps
<1>3. SignOnInv => SignOnHolds
  <2> SUFFICES ASSUME SignOnInv PROVE SignOnHolds OBVIOUS
  <2>1. SubjectIsOnePerson
    <3>1. ASSUME single, NEW j \in known, NEW k \in known, j[1] = k[1] PROVE j = k
      <4>1. OneBond /\ KnownByBond BY <3>1 DEF SignOnInv, OneIdentity
      <4>2. j[2] = k[2] BY <3>1, <4>1 DEF OneBond, KnownByBond
      <4>3. known \subseteq Subjects \X Mailboxes BY DEF SignOnInv, SignOnTypes
      <4> QED BY <3>1, <4>2, <4>3
    <3> QED BY <3>1 DEF SubjectIsOnePerson, SignOnInv, Vouching
  <2>2. DeliveredOnce BY DEF SignOnInv, SignOnTypes, FlowsAreOwn, DeliveredOnce
  <2>3. EveryoneHasHome BY DEF SignOnInv, HomesComing, EveryoneHasHome
  <2> QED BY <2>1, <2>2, <2>3 DEF SignOnHolds
<1> QED BY <1>1, <1>2, <1>3, PTL DEF SignOnSpec
-----------------------------------------------------------------------------
\* The recurrence scheduler (server/plan/scheduler.ts): it implements AtMostOnce.

\* What a row, a copy of one, a tick in flight and an edit in flight are.
RuleRow   == [rule : Rules, next : Nat, active : BOOLEAN]
DueRow    == [task : Tasks, rule : Rules, next : Nat]
TickState == [pc : {"claim", "template", "insert"}, at : Times, due : Seq(DueRow) \ {<<>>}]
EditState == [pc : {"set"}, task : Tasks, rule : Rules, next : Nat] \cup [pc : {"clear"}, task : Tasks]
CardRow   == [task : Tasks, slot : Nat, key : Nat]

ScheduleTypes ==
  /\ now \in Times /\ templates \subseteq Tasks /\ astray \subseteq Tasks
  /\ rows \in [DOMAIN rows -> RuleRow] /\ DOMAIN rows \subseteq templates /\ IsFiniteSet(DOMAIN rows)
  /\ server \in [Servers -> {Resting} \cup TickState]
  /\ editor \in [Editors -> {Resting} \cup EditState]
  /\ consumed \subseteq Tasks \X Nat
  /\ cards \subseteq CardRow /\ IsFiniteSet(cards)

\* A tick in flight read a time that has come, and rows that were due then.
TicksArePast ==
  \A v \in Servers : Ticking(v) =>
    /\ server[v].at <= now
    /\ \A i \in DOMAIN server[v].due : server[v].due[i].next <= server[v].at

\* Unless its card went astray, a row's next slot comes after every slot its
\* claims consumed.
SlotsArePast ==
  \A c \in consumed :
    c[2] <= now /\ (c[1] \in DOMAIN rows \ astray => rows[c[1]].next > c[2])

SlotsOf(t) == {-1} \cup {c[2] : c \in {c \in consumed : c[1] = t}}
LatestSlot == \A t \in Tasks \ astray : \E m \in SlotsOf(t) : \A n \in SlotsOf(t) : m >= n

\* The slot a server has claimed and not cloned yet.
Holding(v) == server[v].pc \in {"template", "insert"}
Held(v) == <<Head(server[v].due).task, Head(server[v].due).next>>

\* A claimed slot was consumed, a card's too.  Of a card that did not go astray
\* one server holds it and no card is made for it; a slot has one card.
ClaimsAreOwn ==
  \A v \in Servers : Holding(v) =>
    /\ Held(v) \in consumed
    /\ Held(v)[1] \notin astray =>
         /\ \A u \in Servers : Holding(u) /\ Held(u) = Held(v) => u = v
         /\ \A c \in cards : <<c.task, c.slot>> # Held(v)
CardsAreOwn ==
  \A c \in cards :
    /\ <<c.task, c.slot>> \in consumed
    /\ c.task \notin astray => \A d \in cards : d.task = c.task /\ d.slot = c.slot => d = c

\* The suffixes of a template and day are 1, 2, ... in turn.
KeysIn(t, slot) == {c.key : c \in {c \in cards : c.task = t /\ DayOf(c.slot) = DayOf(slot)}}
KeysRun ==
  \A t \in Tasks, slot \in Nat : \E k \in Nat : k <= Cardinality(cards) /\ KeysIn(t, slot) = 1..k

ScheduleInv ==
  /\ ScheduleTypes /\ TicksArePast /\ SlotsArePast
  /\ LatestSlot /\ ClaimsAreOwn /\ CardsAreOwn /\ KeysRun

Undisturbed == UNCHANGED <<now, templates, rows, cards, consumed, astray, editor>>
-----------------------------------------------------------------------------
\* The row after the head: the rest of the copies, or the end of the tick.
LEMMA NextRowMoves ==
  ASSUME NEW r \in TickState
  PROVE  \/ NextRow(r) = Resting
         \/ /\ NextRow(r) \in TickState
            /\ NextRow(r).pc = "claim" /\ NextRow(r).at = r.at
            /\ \A i \in DOMAIN NextRow(r).due : \E j \in DOMAIN r.due : NextRow(r).due[i] = r.due[j]
<1>1. r.due \in Seq(DueRow) /\ r.due # <<>> /\ r.at \in Times BY DEF TickState
<1>2. CASE Len(r.due) = 1 BY <1>2 DEF NextRow
<1>3. CASE Len(r.due) # 1
  <2>1. /\ Tail(r.due) \in Seq(DueRow) /\ Len(Tail(r.due)) = Len(r.due) - 1
        /\ \A i \in 1..Len(Tail(r.due)) : Tail(r.due)[i] = r.due[i + 1]
    BY <1>1, HeadTailProperties
  <2>2. Len(r.due) \in Nat /\ Len(r.due) # 0 BY <1>1
  <2>3. Tail(r.due) # <<>>
    <3>1. Len(Tail(r.due)) # 0 BY <2>1, <2>2, <1>3
    <3>2. Len(<<>>) = 0 OBVIOUS
    <3> QED BY <3>1, <3>2
  <2>4. NextRow(r) = [pc |-> "claim", at |-> r.at, due |-> Tail(r.due)] BY <1>3 DEF NextRow
  <2>5. DOMAIN Tail(r.due) = 1..Len(Tail(r.due)) /\ DOMAIN r.due = 1..Len(r.due) BY <1>1, <2>1
  <2>6. \A i \in DOMAIN Tail(r.due) : i + 1 \in DOMAIN r.due /\ Tail(r.due)[i] = r.due[i + 1]
    BY <2>1, <2>2, <2>5
  <2> QED BY <1>1, <2>1, <2>3, <2>4, <2>6 DEF TickState
<1> QED BY <1>2, <1>3

\* A server that goes on with rows it had, or rests, disturbs nothing.
LEMMA ServerMoves ==
  ASSUME ScheduleInv, NEW v \in Servers, NEW s \in {Resting} \cup TickState,
         server' = [server EXCEPT ![v] = s], Undisturbed,
         s # Resting =>
           /\ Ticking(v) /\ s.at = server[v].at
           /\ \A i \in DOMAIN s.due : \E j \in DOMAIN server[v].due : s.due[i] = server[v].due[j]
           /\ s.pc = "claim" \/ (Holding(v) /\ s.due = server[v].due)
  PROVE  ScheduleInv'
<1> USE DEF Undisturbed
<1>1. Resting.pc = "rest" BY DEF Resting
<1>2. s.pc = "rest" <=> s = Resting BY DEF Resting, TickState
<1>3. \A u \in Servers : server'[u] = IF u = v THEN s ELSE server[u]
  BY DEF ScheduleInv, ScheduleTypes
<1>4. ScheduleTypes' BY DEF ScheduleInv, ScheduleTypes
<1>5. TicksArePast'
  <2> SUFFICES ASSUME NEW u \in Servers, Ticking(u)'
               PROVE  /\ server'[u].at <= now
                      /\ \A i \in DOMAIN server'[u].due : server'[u].due[i].next <= server'[u].at
    BY DEF TicksArePast
  <2>1. CASE u # v BY <2>1, <1>3 DEF ScheduleInv, TicksArePast, Ticking
  <2>2. CASE u = v
    <3>1. server'[u] = s /\ s # Resting BY <2>2, <1>1, <1>3 DEF Ticking
    <3> QED BY <3>1 DEF ScheduleInv, TicksArePast
  <2> QED BY <2>1, <2>2
<1>7. SlotsArePast' /\ LatestSlot' /\ CardsAreOwn' /\ KeysRun'
  BY DEF ScheduleInv, SlotsArePast, LatestSlot, SlotsOf, CardsAreOwn, KeysRun, KeysIn
<1>8. \A u \in Servers : Holding(u)' => Holding(u) /\ Held(u)' = Held(u)
  BY <1>1, <1>3 DEF Holding, Held
<1>9. ClaimsAreOwn' BY <1>8 DEF ScheduleInv, ClaimsAreOwn
<1> QED BY <1>4, <1>5, <1>7, <1>9 DEF ScheduleInv

\* The steps of a server that write no row and no card.
LEMMA IdleSteps ==
  ASSUME ScheduleInv, NEW v \in Servers,
         \/ ReadTemplate(v) \/ CloneFails(v) \/ TickFails(v) \/ Restart(v)
         \/ Claim(v) /\ Head(server[v].due).task \notin Due(server[v].at)
  PROVE  ScheduleInv'
<1>1. server[v] # Resting => server[v] \in TickState BY DEF ScheduleInv, ScheduleTypes
<1>2. Resting.pc = "rest" BY DEF Resting
<1>3. CASE ReadTemplate(v) /\ Head(server[v].due).task \in templates
  <2> DEFINE s == [server[v] EXCEPT !.pc = "insert"]
  <2>1. server' = [server EXCEPT ![v] = s] /\ Undisturbed /\ server[v].pc = "template"
    BY <1>3 DEF ReadTemplate, Step, Unwritten, Undisturbed
  <2>2. server[v] \in TickState /\ s \in TickState BY <1>1, <1>2, <2>1 DEF TickState
  <2>3. s.pc = "insert" /\ s.at = server[v].at /\ s.due = server[v].due BY <2>2 DEF TickState
  <2>4. Ticking(v) /\ Holding(v) BY <2>1 DEF Ticking, Holding
  <2> HIDE DEF s
  <2> QED BY <2>1, <2>2, <2>3, <2>4, ServerMoves
<1>4. CASE \/ CloneFails(v) \/ (ReadTemplate(v) /\ Head(server[v].due).task \notin templates)
           \/ Claim(v) /\ Head(server[v].due).task \notin Due(server[v].at)
  <2>1. server' = [server EXCEPT ![v] = NextRow(server[v])] /\ Undisturbed /\ server[v].pc # "rest"
    BY <1>4 DEF CloneFails, ReadTemplate, Claim, Claims, Step, Unwritten, Undisturbed
  <2>2. server[v] \in TickState /\ Ticking(v) BY <1>1, <1>2, <2>1 DEF Ticking
  <2> QED BY <2>1, <2>2, NextRowMoves, ServerMoves
<1>5. CASE TickFails(v) \/ Restart(v)
  <2>1. server' = [server EXCEPT ![v] = Resting] /\ Undisturbed
    BY <1>5 DEF TickFails, Restart, Step, Unwritten, Undisturbed
  <2> QED BY <2>1, ServerMoves
<1> QED BY <1>3, <1>4, <1>5

-----------------------------------------------------------------------------
\* What the tick reads: copies of the rows that are due, at least one.
LEMMA TickBegins ==
  ASSUME ScheduleInv, NEW v \in Servers, StartTick(v)
  PROVE  ScheduleInv'
<1>1. PICK order \in SetToAllKPermutations(Due(now)) :
        /\ Len(order) = Cardinality(Due(now))
        /\ Step(v, [pc |-> "claim", at |-> now,
                    due |-> [i \in DOMAIN order |->
                               LET t == order[i] IN [task |-> t, rule |-> rows[t].rule, next |-> rows[t].next]]])
  BY DEF StartTick
<1>2. Undisturbed /\ Due(now) # {} /\ ~Ticking(v)
  BY DEF StartTick, Unwritten, Undisturbed
<1>3. IsFiniteSet(Due(now)) /\ Due(now) \subseteq DOMAIN rows /\ Due(now) \subseteq Tasks
  <2>1. Due(now) \in SUBSET DOMAIN rows BY DEF Due
  <2> QED BY <2>1, FS_Subset DEF ScheduleInv, ScheduleTypes
<1>4. order \in Seq(Due(now)) /\ order # <<>>
  <2>1. PICK s \in SUBSET Due(now) : order \in SetToSeqs(s) BY <1>1 DEF SetToAllKPermutations
  <2>2. Cardinality(s) \in Nat BY <1>3, <2>1, FS_Subset, FS_CardinalityType
  <2>3. order \in [1..Cardinality(s) -> s] BY <2>1 DEF SetToSeqs
  <2>4. order \in Seq(Due(now)) BY <2>1, <2>2, <2>3
  <2>5. Cardinality(Due(now)) # 0 BY <1>2, <1>3, FS_EmptySet
  <2> QED BY <1>1, <2>4, <2>5
<1> DEFINE copy(i) == [task |-> order[i], rule |-> rows[order[i]].rule, next |-> rows[order[i]].next]
           due == [i \in DOMAIN order |-> copy(i)]
           s == [pc |-> "claim", at |-> now, due |-> due]
<1>5. \A i \in DOMAIN order : order[i] \in Due(now) /\ copy(i) \in DueRow
  <2>1. \A i \in DOMAIN order : order[i] \in Due(now) BY <1>4
  <2>2. \A t \in Due(now) : t \in Tasks /\ rows[t].rule \in Rules /\ rows[t].next \in Nat
    BY <1>3 DEF ScheduleInv, ScheduleTypes, RuleRow
  <2> QED BY <2>1, <2>2 DEF DueRow
<1>6. due \in Seq(DueRow) /\ due # <<>>
  <2> HIDE DEF copy
  <2>1. DOMAIN order = 1..Len(order) /\ Len(order) \in Nat BY <1>4
  <2>2. due \in [1..Len(order) -> DueRow] BY <1>5, <2>1
  <2>3. due \in Seq(DueRow) BY <2>1, <2>2
  <2>4. Len(order) # 0 BY <1>4
  <2> QED BY <2>1, <2>2, <2>3, <2>4
<1>7. s \in TickState /\ s.pc = "claim" /\ s.at = now /\ s.due = due
  <2> HIDE DEF due
  <2> QED BY <1>6 DEF TickState, ScheduleInv, ScheduleTypes
<1>8. server' = [server EXCEPT ![v] = s] BY <1>1 DEF Step
<1>9. \A i \in DOMAIN due : due[i].next <= now
  <2>1. \A t \in Due(now) : rows[t].next <= now BY DEF Due
  <2> QED BY <1>5, <2>1
<1> HIDE DEF s, due, copy
<1>10. \A u \in Servers : server'[u] = IF u = v THEN s ELSE server[u]
  BY <1>8 DEF ScheduleInv, ScheduleTypes
<1> USE DEF Undisturbed
<1>11. ScheduleTypes' BY <1>2, <1>7, <1>8 DEF ScheduleInv, ScheduleTypes
<1>12. TicksArePast'
  <2>1. now \in Int BY TimesRun DEF ScheduleInv, ScheduleTypes
  <2> QED BY <1>2, <1>7, <1>9, <1>10, <2>1 DEF ScheduleInv, TicksArePast, Ticking
<1>14. SlotsArePast' /\ LatestSlot' /\ CardsAreOwn' /\ KeysRun'
  BY <1>2 DEF ScheduleInv, SlotsArePast, LatestSlot, SlotsOf, CardsAreOwn, KeysRun, KeysIn
<1>15. \A u \in Servers : Holding(u)' => Holding(u) /\ Held(u)' = Held(u)
  BY <1>7, <1>10 DEF Holding, Held
<1>16. ClaimsAreOwn' BY <1>2, <1>15 DEF ScheduleInv, ClaimsAreOwn
<1> QED BY <1>11, <1>12, <1>14, <1>16 DEF ScheduleInv

\* What the claim that takes its row writes.  It takes a slot later than all the
\* card has had, unless the card goes astray or has gone.
LEMMA ClaimTakes ==
  ASSUME ScheduleInv, NEW v \in Servers, Claim(v), Head(server[v].due).task \in Due(server[v].at)
  PROVE  LET d == Head(server[v].due) IN
         /\ d \in DueRow /\ d.task \in DOMAIN rows
         /\ d.next <= server[v].at /\ server[v].at <= now /\ server[v].at \in Times
         /\ rows' = [rows EXCEPT ![d.task].next = Later(d.rule, d.next, server[v].at)]
         /\ Later(d.rule, d.next, server[v].at) \in Nat
         /\ Later(d.rule, d.next, server[v].at) > server[v].at
         /\ consumed' = consumed \cup {<<d.task, d.next>>}
         /\ server' = [server EXCEPT ![v] = [server[v] EXCEPT !.pc = "template"]]
         /\ server[v] \in TickState /\ server[v].pc = "claim"
         /\ astray \subseteq astray' /\ astray' \subseteq astray \cup {d.task}
         /\ d.task \notin astray' => \A c \in consumed : c[1] = d.task => c[2] < d.next
         /\ UNCHANGED <<now, templates, cards, editor>>
<1> DEFINE r == server[v]
           d == Head(r.due)
<1>1. r \in TickState /\ r.pc = "claim" /\ Ticking(v)
  BY DEF Claim, Claims, ScheduleInv, ScheduleTypes, Resting, Ticking
<1>2. r.due \in Seq(DueRow) /\ r.due # <<>> /\ r.at \in Times BY <1>1 DEF TickState
<1>3. d \in DueRow /\ 1 \in DOMAIN r.due /\ d = r.due[1]
  <2> HIDE DEF r
  <2>1. d \in DueRow BY <1>2, HeadTailProperties
  <2>2. Len(r.due) \in Nat /\ Len(r.due) # 0 /\ DOMAIN r.due = 1..Len(r.due) BY <1>2
  <2> QED BY <1>2, <2>1, <2>2
<1>4. d.task \in DOMAIN rows /\ rows[d.task].next <= r.at BY DEF Due
<1>5. r.at <= now /\ d.next <= r.at BY <1>1, <1>3 DEF ScheduleInv, TicksArePast
<1>6. d.next \in Nat /\ r.at \in Nat /\ d.next \in Times
  <2>1. d.next \in Nat BY <1>3 DEF DueRow
  <2>2. r.at \in Nat /\ 0..r.at \subseteq Times BY <1>2, TimesRun
  <2>3. d.next \in 0..r.at BY <1>5, <2>1, <2>2
  <2> QED BY <2>1, <2>2, <2>3
<1>7. Later(d.rule, d.next, r.at) \in Int /\ Later(d.rule, d.next, r.at) > r.at
  <2>1. d.rule \in Rules BY <1>3 DEF DueRow
  <2> QED BY <1>2, <1>6, <2>1, CalendarMovesOn
<1>8. Later(d.rule, d.next, r.at) \in Nat BY <1>6, <1>7
<1>9. /\ rows' = [rows EXCEPT ![d.task].next = Later(d.rule, d.next, r.at)]
      /\ consumed' = consumed \cup {<<d.task, d.next>>}
      /\ astray' = astray \cup {t \in {d.task} : DueAgain(d, r.at)}
      /\ server' = [server EXCEPT ![v] = [server[v] EXCEPT !.pc = "template"]]
      /\ UNCHANGED <<now, templates, cards, editor>>
  BY DEF Claim, Claims, Step
<1>10. d.task \notin astray' => \A c \in consumed : c[1] = d.task => c[2] < d.next
  <2> SUFFICES ASSUME d.task \notin astray', NEW c \in consumed, c[1] = d.task PROVE c[2] < d.next
    OBVIOUS
  <2>1. d.task \notin astray /\ rows[d.task].next = d.next BY <1>4, <1>9 DEF DueAgain
  <2>2. d.next > c[2] BY <1>4, <2>1 DEF ScheduleInv, SlotsArePast
  <2>3. c[2] \in Nat BY DEF ScheduleInv, ScheduleTypes
  <2> QED BY <1>6, <2>2, <2>3
<1> HIDE DEF r, d
<1> SUFFICES /\ d \in DueRow /\ d.task \in DOMAIN rows
             /\ d.next <= r.at /\ r.at <= now /\ r.at \in Times
             /\ rows' = [rows EXCEPT ![d.task].next = Later(d.rule, d.next, r.at)]
             /\ Later(d.rule, d.next, r.at) \in Nat /\ Later(d.rule, d.next, r.at) > r.at
             /\ consumed' = consumed \cup {<<d.task, d.next>>}
             /\ server' = [server EXCEPT ![v] = [server[v] EXCEPT !.pc = "template"]]
             /\ r \in TickState /\ r.pc = "claim"
             /\ astray \subseteq astray' /\ astray' \subseteq astray \cup {d.task}
             /\ d.task \notin astray' => \A c \in consumed : c[1] = d.task => c[2] < d.next
             /\ UNCHANGED <<now, templates, cards, editor>>
  BY DEF r, d
<1> QED BY <1>1, <1>2, <1>3, <1>4, <1>5, <1>7, <1>8, <1>9, <1>10

LEMMA ClaimKeeps ==
  ASSUME ScheduleInv, NEW v \in Servers, Claim(v), Head(server[v].due).task \in Due(server[v].at)
  PROVE  ScheduleInv'
<1> DEFINE d == Head(server[v].due)
           slot == <<d.task, d.next>>
           later == Later(d.rule, d.next, server[v].at)
           s == [server[v] EXCEPT !.pc = "template"]
<1>1. /\ d \in DueRow /\ d.task \in DOMAIN rows
      /\ d.next <= server[v].at /\ server[v].at <= now /\ server[v].at \in Times
      /\ rows' = [rows EXCEPT ![d.task].next = later]
      /\ later \in Nat /\ later > server[v].at
      /\ consumed' = consumed \cup {slot}
      /\ server' = [server EXCEPT ![v] = s]
      /\ server[v] \in TickState /\ server[v].pc = "claim"
      /\ astray \subseteq astray' /\ astray' \subseteq astray \cup {d.task}
      /\ d.task \notin astray' => \A c \in consumed : c[1] = d.task => c[2] < d.next
      /\ UNCHANGED <<now, templates, cards, editor>>
  BY ClaimTakes
<1>2. s \in TickState /\ s.pc = "template" /\ s.at = server[v].at /\ s.due = server[v].due
  BY <1>1 DEF TickState
<1>3. slot[1] = d.task /\ slot[2] = d.next /\ slot \in Tasks \X Nat BY <1>1 DEF DueRow
<1>4. now \in Nat /\ server[v].at \in Nat /\ d.next \in Nat
  BY <1>1, TimesRun DEF ScheduleInv, ScheduleTypes, DueRow
<1>5. Held(v) = slot /\ Held(v)' = slot
  BY <1>1, <1>2 DEF ScheduleInv, ScheduleTypes, Held
<1>6. d.task \notin astray' => slot \notin consumed
  <2> SUFFICES ASSUME d.task \notin astray', slot \in consumed PROVE FALSE OBVIOUS
  <2> HIDE DEF slot, d
  <2>1. d.next < d.next BY <1>1, <1>3
  <2> QED BY <1>4, <2>1
<1> HIDE DEF d, slot, later, s
<1>7. \A u \in Servers : server'[u] = IF u = v THEN s ELSE server[u]
  BY <1>1 DEF ScheduleInv, ScheduleTypes
<1>8. /\ DOMAIN rows' = DOMAIN rows
      /\ \A t \in DOMAIN rows : rows'[t] = IF t = d.task THEN [rows[t] EXCEPT !.next = later] ELSE rows[t]
  BY <1>1 DEF ScheduleInv, ScheduleTypes
<1>9. \A t \in DOMAIN rows : /\ rows'[t] \in RuleRow
                             /\ rows'[t].next = IF t = d.task THEN later ELSE rows[t].next
  <2>1. \A t \in DOMAIN rows : rows[t] \in RuleRow BY DEF ScheduleInv, ScheduleTypes
  <2> QED BY <1>1, <1>8, <2>1 DEF RuleRow
<1>10. ScheduleTypes'
  <2>1. rows' \in [DOMAIN rows' -> RuleRow] BY <1>1, <1>8, <1>9 DEF ScheduleInv, ScheduleTypes
  <2>2. astray' \subseteq Tasks BY <1>1 DEF ScheduleInv, ScheduleTypes, DueRow
  <2> QED BY <1>1, <1>2, <1>3, <1>8, <2>1, <2>2 DEF ScheduleInv, ScheduleTypes
<1>11. TicksArePast'
  <2>1. \A u \in Servers : Ticking(u)' =>
          Ticking(u) /\ server'[u].at = server[u].at /\ server'[u].due = server[u].due
    BY <1>1, <1>2, <1>7 DEF Ticking
  <2> QED BY <1>1, <2>1 DEF ScheduleInv, TicksArePast
<1>12. SlotsArePast'
  <2> SUFFICES ASSUME NEW c \in consumed'
               PROVE  c[2] <= now /\ (c[1] \in DOMAIN rows \ astray' => rows'[c[1]].next > c[2])
    BY <1>1, <1>8 DEF SlotsArePast
  <2>1. CASE c = slot BY <1>1, <1>3, <1>4, <1>9, <2>1
  <2>2. CASE c \in consumed
    <3>1. c[2] <= now /\ (c[1] \in DOMAIN rows \ astray' => rows[c[1]].next > c[2]) /\ c[2] \in Nat
      BY <1>1, <2>2 DEF ScheduleInv, SlotsArePast, ScheduleTypes
    <3>2. d.task \notin astray' /\ c[1] = d.task => c[2] < later BY <1>1, <1>4, <2>2, <3>1
    <3> QED BY <1>1, <1>9, <3>1, <3>2
  <2> QED BY <1>1, <2>1, <2>2
<1>13. LatestSlot'
  <2> SUFFICES ASSUME NEW t \in Tasks \ astray' PROVE \E m \in SlotsOf(t)' : \A n \in SlotsOf(t)' : m >= n
    BY DEF LatestSlot
  <2>1. CASE t = d.task
    <3>1. d.next \in SlotsOf(t)' BY <1>1, <1>3, <2>1 DEF SlotsOf
    <3>2. \A n \in SlotsOf(t)' : d.next >= n
      <4>1. \A c \in consumed : c[2] \in Nat BY DEF ScheduleInv, ScheduleTypes
      <4> QED BY <1>1, <1>3, <1>4, <2>1, <4>1 DEF SlotsOf
    <3> QED BY <3>1, <3>2
  <2>2. CASE t # d.task
    <3>1. SlotsOf(t)' = SlotsOf(t) BY <1>1, <1>3, <2>2 DEF SlotsOf
    <3>2. t \notin astray BY <1>1
    <3> QED BY <3>1, <3>2 DEF ScheduleInv, LatestSlot
  <2> QED BY <2>1, <2>2
<1>14. ClaimsAreOwn'
  <2>1. \A u \in Servers : u # v /\ Holding(u)' => Holding(u) /\ Held(u)' = Held(u) /\ Held(u) \in consumed
    BY <1>7 DEF Holding, Held, ScheduleInv, ClaimsAreOwn
  <2>2. d.task \notin astray' => \A c \in cards : <<c.task, c.slot>> # slot
    BY <1>6 DEF ScheduleInv, CardsAreOwn
  <2> SUFFICES ASSUME NEW u \in Servers, Holding(u)'
               PROVE  /\ Held(u)' \in consumed'
                      /\ Held(u)'[1] \notin astray' =>
                           /\ \A w \in Servers : Holding(w)' /\ Held(w)' = Held(u)' => w = u
                           /\ \A c \in cards : <<c.task, c.slot>> # Held(u)'
    BY <1>1 DEF ClaimsAreOwn
  <2>3. CASE u = v BY <1>1, <1>3, <1>5, <1>6, <2>1, <2>2, <2>3
  <2>4. CASE u # v
    <3>1. Holding(u) /\ Held(u)' = Held(u) /\ Held(u) \in consumed BY <2>1, <2>4
    <3>2. Held(u)[1] \notin astray' => Held(u) # slot BY <1>3, <1>6, <3>1
    <3> QED BY <1>1, <1>5, <2>1, <3>1, <3>2 DEF ScheduleInv, ClaimsAreOwn
  <2> QED BY <2>3, <2>4
<1>15. CardsAreOwn' BY <1>1 DEF ScheduleInv, CardsAreOwn
<1>16. KeysRun' BY <1>1 DEF ScheduleInv, KeysRun, KeysIn
<1> QED BY <1>10, <1>11, <1>12, <1>13, <1>14, <1>15, <1>16 DEF ScheduleInv

\* freeKey returns the number after the last of the template and day.
LEMMA FreeKeyIsNext ==
  ASSUME ScheduleInv, NEW t \in Tasks, NEW slot \in Nat
  PROVE  \E k \in Nat : k <= Cardinality(cards) /\ KeysIn(t, slot) = 1..k /\ FreeKey(t, slot) = k + 1
<1>1. PICK k \in Nat : k <= Cardinality(cards) /\ KeysIn(t, slot) = 1..k
  BY DEF ScheduleInv, KeysRun
<1>2. Cardinality(cards) \in Nat BY FS_CardinalityType DEF ScheduleInv, ScheduleTypes
<1> DEFINE free == (1..(Cardinality(cards) + 1)) \ KeysIn(t, slot)
<1>3. k + 1 \in free /\ \A n \in free : n \in Int /\ k + 1 <= n BY <1>1, <1>2
<1>4. FreeKey(t, slot) = Min(free) BY DEF FreeKey, KeysIn
<1> HIDE DEF free
<1>5. Min(free) = k + 1
  <2>1. \A m \in free : (\A n \in free : m <= n) => m = k + 1 BY <1>3
  <2> QED BY <1>3, <2>1 DEF Min
<1> QED BY <1>1, <1>4, <1>5

LEMMA CardKeeps ==
  ASSUME ScheduleInv, NEW v \in Servers, InsertCard(v)
  PROVE  /\ ScheduleInv'
         /\ Holding(v) /\ ~Holding(v)'
         /\ \E key \in Nat : cards' = cards \cup {[task |-> Head(server[v].due).task,
                                                  slot |-> Head(server[v].due).next, key |-> key]}
<1> DEFINE d == Head(server[v].due)
           c == [task |-> d.task, slot |-> d.next, key |-> FreeKey(d.task, d.next)]
<1>1. /\ server[v].pc = "insert" /\ cards' = cards \cup {c}
      /\ server' = [server EXCEPT ![v] = NextRow(server[v])]
      /\ UNCHANGED <<now, templates, rows, editor, consumed, astray>>
  BY DEF InsertCard, Step
<1>2. server[v] \in TickState BY <1>1 DEF ScheduleInv, ScheduleTypes, Resting
<1>3. d.task \in Tasks /\ d.next \in Nat
  <2>1. server[v].due \in Seq(DueRow) /\ server[v].due # <<>> BY <1>2 DEF TickState
  <2>2. d \in DueRow BY <2>1, HeadTailProperties
  <2> QED BY <2>2 DEF DueRow
<1>4. PICK k \in Nat : /\ k <= Cardinality(cards) /\ KeysIn(d.task, d.next) = 1..k
                       /\ FreeKey(d.task, d.next) = k + 1
  BY <1>3, FreeKeyIsNext
<1>5. Holding(v) /\ Held(v) = <<d.task, d.next>> BY <1>1 DEF Holding, Held
<1>6. d.task \notin astray => \A b \in cards : <<b.task, b.slot>> # <<d.task, d.next>>
  BY <1>5 DEF ScheduleInv, ClaimsAreOwn
<1>7. c \in CardRow /\ c.task = d.task /\ c.slot = d.next /\ c.key = k + 1 /\ c \notin cards
  <2>1. c \in cards => k + 1 \in KeysIn(d.task, d.next) BY <1>4 DEF KeysIn
  <2> QED BY <1>3, <1>4, <2>1 DEF CardRow
<1> HIDE DEF d, c
<1>8. /\ NextRow(server[v]) \in {Resting} \cup TickState
      /\ NextRow(server[v]).pc \in {"rest", "claim"}
      /\ NextRow(server[v]).pc # "rest" =>
           /\ NextRow(server[v]).at = server[v].at
           /\ \A i \in DOMAIN NextRow(server[v]).due :
                \E j \in DOMAIN server[v].due : NextRow(server[v]).due[i] = server[v].due[j]
  BY <1>2, NextRowMoves DEF Resting
<1>9. \A u \in Servers : server'[u] = IF u = v THEN NextRow(server[v]) ELSE server[u]
  BY <1>1 DEF ScheduleInv, ScheduleTypes
<1>10. ~Holding(v)' /\ \A u \in Servers : Holding(u)' => u # v /\ Holding(u) /\ Held(u)' = Held(u)
  BY <1>8, <1>9 DEF Holding, Held
<1>11. IsFiniteSet(cards') /\ Cardinality(cards') = Cardinality(cards) + 1 /\ Cardinality(cards) \in Nat
  BY <1>1, <1>7, FS_AddElement, FS_CardinalityType DEF ScheduleInv, ScheduleTypes
<1>12. ScheduleTypes' BY <1>1, <1>7, <1>8, <1>11 DEF ScheduleInv, ScheduleTypes
<1>13. \A u \in Servers : Ticking(u)' => Ticking(u) /\ server'[u].at = server[u].at
  BY <1>1, <1>8, <1>9 DEF Ticking
<1>14. TicksArePast'
  <2> SUFFICES ASSUME NEW u \in Servers, Ticking(u)', NEW i \in DOMAIN server'[u].due
               PROVE  server'[u].due[i].next <= server'[u].at
    BY <1>1, <1>13 DEF ScheduleInv, TicksArePast
  <2>1. PICK j \in DOMAIN server[u].due : server'[u].due[i] = server[u].due[j]
    BY <1>8, <1>9 DEF Ticking
  <2> QED BY <1>13, <2>1 DEF ScheduleInv, TicksArePast
<1>16. SlotsArePast' /\ LatestSlot'
  BY <1>1 DEF ScheduleInv, SlotsArePast, LatestSlot, SlotsOf
<1>17. ClaimsAreOwn'
  <2> SUFFICES ASSUME NEW u \in Servers, Holding(u)'
               PROVE  /\ Held(u)' \in consumed
                      /\ Held(u)'[1] \notin astray =>
                           /\ \A w \in Servers : Holding(w)' /\ Held(w)' = Held(u)' => w = u
                           /\ \A b \in cards' : <<b.task, b.slot>> # Held(u)'
    BY <1>1 DEF ClaimsAreOwn
  <2>1. Held(u)[1] \notin astray => Held(u) # Held(v) BY <1>5, <1>10 DEF ScheduleInv, ClaimsAreOwn
  <2> QED BY <1>1, <1>5, <1>7, <1>10, <2>1 DEF ScheduleInv, ClaimsAreOwn
<1>18. CardsAreOwn'
  <2>1. Held(v) \in consumed BY <1>5 DEF ScheduleInv, ClaimsAreOwn
  <2>2. c.task \notin astray => \A b \in cards : ~(b.task = c.task /\ b.slot = c.slot) BY <1>6, <1>7
  <2> QED BY <1>1, <1>5, <1>7, <2>1, <2>2 DEF ScheduleInv, CardsAreOwn
<1>19. KeysRun'
  <2> SUFFICES ASSUME NEW t \in Tasks, NEW slot \in Nat
               PROVE  \E n \in Nat : n <= Cardinality(cards') /\ KeysIn(t, slot)' = 1..n
    BY DEF KeysRun
  <2>1. CASE t = d.task /\ DayOf(slot) = DayOf(d.next)
    <3>1. KeysIn(t, slot) = KeysIn(d.task, d.next) BY <2>1 DEF KeysIn
    <3>2. KeysIn(t, slot)' = KeysIn(t, slot) \cup {k + 1} BY <1>1, <1>7, <2>1 DEF KeysIn
    <3>3. KeysIn(t, slot)' = 1..(k + 1) BY <1>4, <3>1, <3>2
    <3> QED BY <1>4, <1>11, <3>3
  <2>2. CASE ~(t = d.task /\ DayOf(slot) = DayOf(d.next))
    <3>1. KeysIn(t, slot)' = KeysIn(t, slot) BY <1>1, <1>7, <2>2 DEF KeysIn
    <3>2. PICK n \in Nat : n <= Cardinality(cards) /\ KeysIn(t, slot) = 1..n
      BY DEF ScheduleInv, KeysRun
    <3> QED BY <1>11, <3>1, <3>2
  <2> QED BY <2>1, <2>2
<1>20. ScheduleInv'
  BY <1>12, <1>14, <1>16, <1>17, <1>18, <1>19 DEF ScheduleInv
<1>21. \E key \in Nat : cards' = cards \cup {[task |-> d.task, slot |-> d.next, key |-> key]}
  BY <1>1, <1>4 DEF c
<1> QED BY <1>5, <1>10, <1>20, <1>21 DEF d

-----------------------------------------------------------------------------
\* An edit leaves a row's slot alone or moves it past the present, or its card
\* goes astray.
LEMMA RowsChange ==
  ASSUME ScheduleInv, ScheduleTypes', UNCHANGED <<now, cards, server, consumed>>, astray \subseteq astray',
         \A t \in DOMAIN rows' \ astray' : rows'[t].next > now \/ (t \in DOMAIN rows /\ rows'[t].next = rows[t].next)
  PROVE  ScheduleInv'
<1>1. TicksArePast' BY DEF ScheduleInv, TicksArePast, Ticking
<1>2. SlotsArePast'
  <2> SUFFICES ASSUME NEW c \in consumed, c[1] \in DOMAIN rows' \ astray' PROVE rows'[c[1]].next > c[2]
    BY DEF ScheduleInv, SlotsArePast
  <2>1. c[2] <= now /\ (c[1] \in DOMAIN rows => rows[c[1]].next > c[2])
    BY DEF ScheduleInv, SlotsArePast
  <2>2. now \in Nat /\ c[2] \in Nat /\ rows'[c[1]].next \in Nat
    BY TimesRun DEF ScheduleInv, ScheduleTypes, RuleRow
  <2> QED BY <2>1, <2>2
<1>3. LatestSlot' /\ CardsAreOwn' /\ KeysRun'
  BY DEF ScheduleInv, LatestSlot, SlotsOf, CardsAreOwn, KeysRun, KeysIn
<1>4. ClaimsAreOwn' BY DEF ScheduleInv, ClaimsAreOwn, Holding, Held
<1> QED BY <1>1, <1>2, <1>3, <1>4 DEF ScheduleInv

LEMMA EditSteps ==
  ASSUME ScheduleInv, NEW e \in Editors,
         \/ \E t \in Tasks, rule \in Rules : SetRecurrence(e, t, rule)
         \/ \E t \in Tasks : ClearRecurrence(e, t)
         \/ StoreRule(e) \/ Deactivate(e) \/ Abandon(e)
  PROVE  ScheduleInv'
<1>0. now \in Nat BY TimesRun DEF ScheduleInv, ScheduleTypes
<1>1. ASSUME NEW t \in Tasks, NEW rule \in Rules, SetRecurrence(e, t, rule) PROVE ScheduleInv'
  <2> DEFINE r == [pc |-> "set", task |-> t, rule |-> rule, next |-> After(rule, now)]
  <2>1. /\ editor' = [editor EXCEPT ![e] = r]
        /\ UNCHANGED <<now, templates, rows, cards, server, consumed, astray>>
    BY <1>1 DEF SetRecurrence, Edit, Unwritten
  <2>2. After(rule, now) \in Nat
    <3>1. now \in Times BY DEF ScheduleInv, ScheduleTypes
    <3>2. After(rule, now) \in Int /\ After(rule, now) > now BY <3>1, CalendarMovesOn
    <3> QED BY <1>0, <3>2
  <2>3. r \in EditState BY <2>2 DEF EditState
  <2> HIDE DEF r
  <2>4. ScheduleTypes' BY <2>1, <2>3 DEF ScheduleInv, ScheduleTypes
  <2> QED BY <2>1, <2>4, RowsChange
<1>2. ASSUME NEW t \in Tasks, ClearRecurrence(e, t) PROVE ScheduleInv'
  <2> DEFINE r == [pc |-> "clear", task |-> t]
  <2>1. /\ editor' = [editor EXCEPT ![e] = r]
        /\ UNCHANGED <<now, templates, rows, cards, server, consumed, astray>>
    BY <1>2 DEF ClearRecurrence, Edit, Unwritten
  <2>2. r \in EditState BY DEF EditState
  <2> HIDE DEF r
  <2>3. ScheduleTypes' BY <2>1, <2>2 DEF ScheduleInv, ScheduleTypes
  <2> QED BY <2>1, <2>3, RowsChange
<1>3. CASE Abandon(e)
  <2>1. /\ editor' = [editor EXCEPT ![e] = Resting]
        /\ UNCHANGED <<now, templates, rows, cards, server, consumed, astray>>
    BY <1>3 DEF Abandon, Edit, Unwritten
  <2>2. ScheduleTypes' BY <2>1 DEF ScheduleInv, ScheduleTypes
  <2> QED BY <2>1, <2>2, RowsChange
<1>4. CASE Deactivate(e)
  <2> DEFINE t == editor[e].task
  <2>1. /\ editor' = [editor EXCEPT ![e] = Resting]
        /\ rows' = IF t \in DOMAIN rows THEN [rows EXCEPT ![t].active = FALSE] ELSE rows
        /\ UNCHANGED <<now, templates, cards, server, consumed, astray>>
    BY <1>4 DEF Deactivate, Edit
  <2> HIDE DEF t
  <2>2. DOMAIN rows' = DOMAIN rows /\ rows' \in [DOMAIN rows -> RuleRow]
    BY <2>1 DEF ScheduleInv, ScheduleTypes, RuleRow
  <2>3. \A u \in DOMAIN rows : rows'[u].next = rows[u].next
    BY <2>1 DEF ScheduleInv, ScheduleTypes, RuleRow
  <2>4. ScheduleTypes' BY <2>1, <2>2 DEF ScheduleInv, ScheduleTypes
  <2> QED BY <2>1, <2>2, <2>3, <2>4, RowsChange
<1>5. CASE StoreRule(e)
  <2> DEFINE r == editor[e]
             row == [rule |-> r.rule, next |-> r.next, active |-> TRUE]
  <2>1. /\ editor' = [editor EXCEPT ![e] = Resting] /\ r.pc = "set"
        /\ rows' = IF r.task \in templates THEN WithRow(r.task, row) ELSE rows
        /\ astray' = astray \cup {t \in {r.task} : r.next <= now}
        /\ UNCHANGED <<now, templates, cards, server, consumed>>
    BY <1>5 DEF StoreRule, Passed, Edit
  <2>2. r \in EditState /\ r.task \in Tasks /\ r.rule \in Rules /\ r.next \in Nat
    BY <2>1 DEF ScheduleInv, ScheduleTypes, EditState, Resting
  <2>3. astray \subseteq astray' /\ astray' \subseteq Tasks /\ (r.task \notin astray' => r.next > now)
    BY <1>0, <2>1, <2>2 DEF ScheduleInv, ScheduleTypes
  <2>4. row \in RuleRow /\ row.next = r.next BY <2>2 DEF RuleRow
  <2>5. CASE r.task \notin templates
    <3>1. ScheduleTypes' BY <2>1, <2>3, <2>5 DEF ScheduleInv, ScheduleTypes
    <3> QED BY <2>1, <2>3, <2>5, <3>1, RowsChange
  <2>6. CASE r.task \in templates
    <3> DEFINE t == r.task
    <3> HIDE DEF row, r
    <3>1. rows' = [u \in DOMAIN rows \cup {t} |-> IF u = t THEN row ELSE rows[u]]
      BY <2>1, <2>6 DEF WithRow
    <3> HIDE DEF t
    <3>2. /\ DOMAIN rows' = DOMAIN rows \cup {t} /\ rows' \in [DOMAIN rows' -> RuleRow]
          /\ \A u \in DOMAIN rows' : rows'[u] = IF u = t THEN row ELSE rows[u]
      BY <2>4, <3>1 DEF ScheduleInv, ScheduleTypes
    <3>3. IsFiniteSet(DOMAIN rows') BY <3>2, FS_AddElement DEF ScheduleInv, ScheduleTypes
    <3>4. ScheduleTypes'
      <4>1. t \in templates BY <2>6 DEF t
      <4> QED BY <2>1, <2>3, <3>2, <3>3, <4>1 DEF ScheduleInv, ScheduleTypes
    <3>5. t \notin astray' => row.next > now BY <2>3, <2>4 DEF t
    <3> QED BY <2>1, <2>3, <3>2, <3>4, <3>5, RowsChange
  <2> QED BY <2>5, <2>6
<1> QED BY <1>1, <1>2, <1>3, <1>4, <1>5

LEMMA OtherSteps ==
  ASSUME ScheduleInv, ClockMoves \/ \E t \in Tasks : DeleteTemplate(t)
  PROVE  ScheduleInv'
<1>1. CASE ClockMoves
  <2>1. /\ now + 1 \in Times /\ now' = now + 1 /\ now \in Nat
        /\ UNCHANGED <<templates, rows, cards, server, editor, consumed, astray>>
    BY <1>1, TimesRun DEF ClockMoves, ScheduleInv, ScheduleTypes
  <2>2. ScheduleTypes' BY <2>1 DEF ScheduleInv, ScheduleTypes
  <2>3. TicksArePast'
    <3>1. \A v \in Servers : Ticking(v) => server[v].at \in Nat
      BY TimesRun DEF ScheduleInv, ScheduleTypes, TickState, Ticking, Resting
    <3> QED BY <2>1, <3>1 DEF ScheduleInv, TicksArePast, Ticking
  <2>4. SlotsArePast'
    <3>1. \A c \in consumed : c[2] \in Nat BY DEF ScheduleInv, ScheduleTypes
    <3> QED BY <2>1, <3>1 DEF ScheduleInv, SlotsArePast
  <2>5. LatestSlot' /\ CardsAreOwn' /\ KeysRun'
    BY <2>1 DEF ScheduleInv, LatestSlot, SlotsOf, CardsAreOwn, KeysRun, KeysIn
  <2>6. ClaimsAreOwn' BY <2>1 DEF ScheduleInv, ClaimsAreOwn, Holding, Held
  <2> QED BY <2>2, <2>3, <2>4, <2>5, <2>6 DEF ScheduleInv
<1>2. ASSUME NEW t \in Tasks, DeleteTemplate(t) PROVE ScheduleInv'
  <2>1. /\ templates' = templates \ {t} /\ rows' = [u \in DOMAIN rows \ {t} |-> rows[u]]
        /\ UNCHANGED <<now, cards, server, editor, consumed, astray>>
    BY <1>2 DEF DeleteTemplate
  <2>2. /\ DOMAIN rows' = DOMAIN rows \ {t} /\ rows' \in [DOMAIN rows' -> RuleRow]
        /\ \A u \in DOMAIN rows' : u \in DOMAIN rows /\ rows'[u] = rows[u]
    BY <2>1 DEF ScheduleInv, ScheduleTypes
  <2>3. IsFiniteSet(DOMAIN rows') BY <2>2, FS_Subset DEF ScheduleInv, ScheduleTypes
  <2>4. ScheduleTypes' BY <2>1, <2>2, <2>3 DEF ScheduleInv, ScheduleTypes
  <2> QED BY <2>1, <2>2, <2>4, RowsChange
<1> QED BY <1>1, <1>2

-----------------------------------------------------------------------------
LEMMA ScheduleBegins == RecurrenceInit => ScheduleInv
<1> SUFFICES ASSUME RecurrenceInit PROVE ScheduleInv OBVIOUS
<1>1. DOMAIN rows = {} BY DEF RecurrenceInit
<1>2. ScheduleTypes
  <2>1. rows \in [DOMAIN rows -> RuleRow] BY <1>1 DEF RecurrenceInit
  <2> QED BY <1>1, <2>1, TimesRun, FS_EmptySet DEF RecurrenceInit, ScheduleTypes
<1>3. TicksArePast /\ ClaimsAreOwn
  BY DEF RecurrenceInit, TicksArePast, ClaimsAreOwn, Ticking, Holding, Resting
<1>4. SlotsArePast /\ CardsAreOwn BY DEF RecurrenceInit, SlotsArePast, CardsAreOwn
<1>5. LatestSlot
  <2>1. \A t \in Tasks : SlotsOf(t) = {-1} BY DEF RecurrenceInit, SlotsOf
  <2> QED BY <2>1 DEF LatestSlot
<1>6. KeysRun
  <2>1. Cardinality(cards) = 0 BY FS_EmptySet DEF RecurrenceInit
  <2>2. \A t \in Tasks, slot \in Nat : KeysIn(t, slot) = 1..0 BY DEF RecurrenceInit, KeysIn
  <2> QED BY <2>1, <2>2 DEF KeysRun
<1> QED BY <1>2, <1>3, <1>4, <1>5, <1>6 DEF ScheduleInv

LEMMA ScheduleSteps == ScheduleInv /\ [RecurrenceNext]_recurrenceVars => ScheduleInv'
<1> SUFFICES ASSUME ScheduleInv, [RecurrenceNext]_recurrenceVars PROVE ScheduleInv' OBVIOUS
<1>1. CASE UNCHANGED recurrenceVars
  <2>1. UNCHANGED <<now, templates, rows, cards, server, editor, consumed, astray>> BY <1>1 DEF recurrenceVars
  <2>2. ScheduleTypes' BY <2>1 DEF ScheduleInv, ScheduleTypes
  <2> QED BY <2>1, <2>2, RowsChange
<1>2. ASSUME NEW v \in Servers, Tick(v) \/ CloneFails(v) \/ TickFails(v) \/ Restart(v) PROVE ScheduleInv'
  BY <1>2, TickBegins, ClaimKeeps, CardKeeps, IdleSteps DEF Tick
<1> QED BY <1>1, <1>2, EditSteps, OtherSteps DEF RecurrenceNext

LEMMA ScheduleInvHolds == RecurrenceInit /\ [][RecurrenceNext]_recurrenceVars => []ScheduleInv
BY ScheduleBegins, ScheduleSteps, PTL

LEMMA RowsFollow == ScheduleInv => RecurrenceTypeOK
<1> SUFFICES ASSUME ScheduleInv PROVE RecurrenceTypeOK OBVIOUS
<1>1. now \in Times /\ templates \subseteq Tasks /\ astray \subseteq Tasks /\ DOMAIN rows \subseteq templates
  BY DEF ScheduleInv, ScheduleTypes
<1>2. \A t \in DOMAIN rows : rows[t] \in Row BY DEF ScheduleInv, ScheduleTypes, RuleRow, Row
<1>3. \A c \in cards : <<c.task, c.slot>> \in consumed /\ c.key \in Nat
  BY DEF ScheduleInv, ScheduleTypes, CardsAreOwn, CardRow
<1> QED BY <1>1, <1>2, <1>3 DEF RecurrenceTypeOK

\* Every row is a card's, every card the schedule made is for a slot it consumed:
\* the schedule's part of the invariant TypeOK of the run services.
THEOREM RowsStand == RecurrenceSpec => []RecurrenceTypeOK
BY RowsFollow, ScheduleInvHolds, PTL DEF RecurrenceSpec

-----------------------------------------------------------------------------
\* What AtMostOnce sees of the schedule: the cards that have not gone astray.
LastSlots  == [t \in Tasks |-> IF t \in astray THEN -1 ELSE Max(SlotsOf(t))]
Claimed    == {p \in {Held(v) : v \in {v \in Servers : Holding(v)}} : p[1] \notin astray}
OnSlot       == {c \in cards : c.task \notin astray}
Deliveries == {<<c.task, c.slot, Copies(c)>> : c \in OnSlot}

LEMMA TheMaxIs ==
  ASSUME NEW S \in SUBSET Int, NEW m \in S, \A n \in S : m >= n
  PROVE  Max(S) = m
<1>1. \A k \in S : (\A n \in S : k >= n) => k = m OBVIOUS
<1> QED BY <1>1 DEF Max

LEMMA LastIs ==
  ASSUME ScheduleInv, NEW t \in Tasks \ astray
  PROVE  SlotsOf(t) \subseteq Int /\ Max(SlotsOf(t)) \in SlotsOf(t) /\ \A n \in SlotsOf(t) : Max(SlotsOf(t)) >= n
<1>1. SlotsOf(t) \subseteq Int BY DEF ScheduleInv, ScheduleTypes, SlotsOf
<1>2. PICK m \in SlotsOf(t) : \A n \in SlotsOf(t) : m >= n BY DEF ScheduleInv, LatestSlot
<1>3. Max(SlotsOf(t)) = m BY <1>1, <1>2, TheMaxIs
<1> QED BY <1>1, <1>2, <1>3

LEMMA OneCopy == ASSUME ScheduleInv, NEW c \in OnSlot PROVE Copies(c) = 1
<1>1. c \in cards /\ c.task \notin astray /\ c.key \in Nat BY DEF ScheduleInv, ScheduleTypes, CardRow, OnSlot
<1>2. {d \in cards : d.task = c.task /\ d.slot = c.slot /\ d.key <= c.key} = {c}
  <2>1. \A d \in cards : d.task = c.task /\ d.slot = c.slot => d = c BY <1>1 DEF ScheduleInv, CardsAreOwn
  <2> QED BY <1>1, <2>1
<1> QED BY <1>2, FS_Singleton DEF Copies

LEMMA SameDeliveries == ASSUME ScheduleInv PROVE Deliveries = {<<c.task, c.slot, 1>> : c \in OnSlot}
BY OneCopy DEF Deliveries

LEMMA FiringsBegin == RecurrenceInit => Firings!Init
<1> SUFFICES ASSUME RecurrenceInit PROVE Firings!Init OBVIOUS
<1>1. \A t \in Tasks : Max(SlotsOf(t)) = -1
  <2>1. \A t \in Tasks : SlotsOf(t) = {-1} BY DEF RecurrenceInit, SlotsOf
  <2>2. Max({-1}) = -1 BY TheMaxIs
  <2> QED BY <2>1, <2>2
<1>2. Claimed = {} BY DEF RecurrenceInit, Claimed, Holding, Resting
<1>3. Deliveries = {} BY DEF RecurrenceInit, Deliveries, OnSlot
<1>4. LastSlots = [t \in Tasks |-> -1] BY <1>1 DEF LastSlots, RecurrenceInit
<1>5. astray = {} BY DEF RecurrenceInit
<1> USE <1>2, <1>3, <1>4, <1>5
<1> QED BY DEF Firings!Init, LastSlots, SlotsOf, Claimed, Held, Holding, Deliveries, OnSlot

\* Unless it claims or clones, a step changes none of it but to give a claim up.
LEMMA SlotLost ==
  ASSUME ScheduleInv, NEW v \in Servers, UNCHANGED <<consumed, cards, astray>>,
         ~Holding(v)', \A u \in Servers : u # v => server'[u] = server[u]
  PROVE  [Firings!Next]_(Firings!vars)
<1>1. LastSlots' = LastSlots /\ Deliveries' = Deliveries
  BY DEF LastSlots, SlotsOf, Deliveries, OnSlot, Copies
<1>2. Claimed' = {p \in {Held(u) : u \in {u \in Servers : Holding(u) /\ u # v}} : p[1] \notin astray}
  BY DEF Claimed, Held, Holding
<1>3. CASE Holding(v) /\ Held(v)[1] \notin astray
  <2>1. PICK p \in Claimed : p = Held(v) BY <1>3 DEF Claimed
  <2>2. \A u \in Servers : Holding(u) /\ u # v => Held(u) # p
    BY <1>3, <2>1 DEF ScheduleInv, ClaimsAreOwn
  <2>3. Claimed' = Claimed \ {p} BY <1>2, <2>1, <2>2 DEF Claimed
  <2>4. Firings!Lose(p)
    BY <1>1, <2>3 DEF Firings!Lose, LastSlots, SlotsOf, Claimed, Held, Holding, Deliveries, OnSlot
  <2>5. Firings!Next BY <2>1, <2>4 DEF Firings!Next, Claimed, Held, Holding
  <2> QED BY <2>5
<1>4. CASE ~(Holding(v) /\ Held(v)[1] \notin astray)
  <2>1. Claimed' = Claimed BY <1>2, <1>4 DEF Claimed
  <2> QED BY <1>1, <2>1 DEF Firings!vars, LastSlots, SlotsOf, Claimed, Held, Holding, Deliveries, OnSlot
<1> QED BY <1>3, <1>4

LEMMA SlotsKept ==
  ASSUME UNCHANGED <<consumed, cards, astray>>,
         \A v \in Servers : (Holding(v)' <=> Holding(v)) /\ (Holding(v) => Held(v)' = Held(v))
  PROVE  UNCHANGED Firings!vars
<1>1. LastSlots' = LastSlots /\ Deliveries' = Deliveries
  BY DEF LastSlots, SlotsOf, Deliveries, OnSlot, Copies
<1>2. Claimed' = Claimed BY DEF Claimed
<1> QED BY <1>1, <1>2 DEF Firings!vars, LastSlots, SlotsOf, Claimed, Held, Holding, Deliveries, OnSlot

\* A step that is about card t, which it sends astray, or which has gone before.
LEMMA GoesAstray ==
  ASSUME NEW t \in Tasks, astray' = astray \cup {t},
         \A s \in Tasks : s # t => SlotsOf(s)' = SlotsOf(s),
         {c \in cards' : c.task # t} = {c \in cards : c.task # t},
         {p \in {Held(v) : v \in {v \in Servers : Holding(v)}} : p[1] # t}' =
           {p \in {Held(v) : v \in {v \in Servers : Holding(v)}} : p[1] # t}
  PROVE  [Firings!Next]_(Firings!vars)
<1>1. LastSlots' = [s \in Tasks |-> IF s = t THEN -1 ELSE LastSlots[s]] BY DEF LastSlots
<1>2. Claimed' = {p \in Claimed : p[1] # t} BY DEF Claimed
<1>3. OnSlot' = {c \in OnSlot : c.task # t} BY DEF OnSlot
<1>4. \A c \in OnSlot' : Copies(c)' = Copies(c)
  <2> SUFFICES ASSUME NEW c \in OnSlot' PROVE Copies(c)' = Copies(c) OBVIOUS
  <2>1. c.task # t BY <1>3
  <2>2. {d \in cards' : d.task = c.task /\ d.slot = c.slot /\ d.key <= c.key} =
          {d \in cards : d.task = c.task /\ d.slot = c.slot /\ d.key <= c.key}
    BY <2>1
  <2> QED BY <2>2 DEF Copies
<1>5. Deliveries' = {d \in Deliveries : d[1] # t}
  <2>1. Deliveries' = {<<c.task, c.slot, Copies(c)>> : c \in OnSlot'} BY <1>4 DEF Deliveries
  <2> QED BY <1>3, <2>1 DEF Deliveries
<1>6. CASE t \notin astray
  <2>1. LastSlots' = [LastSlots EXCEPT ![t] = -1] BY <1>1 DEF LastSlots
  <2>2. Firings!Forsake(t)
    BY <1>2, <1>5, <1>6, <2>1 DEF Firings!Forsake, LastSlots, SlotsOf, Claimed, Held, Holding, Deliveries, OnSlot
  <2> QED BY <2>2 DEF Firings!Next
<1>7. CASE t \in astray
  <2>1. astray' = astray BY <1>7
  <2>2. LastSlots' = LastSlots BY <1>1, <1>7 DEF LastSlots
  <2>3. Claimed' = Claimed BY <1>2, <1>7 DEF Claimed
  <2>4. Deliveries' = Deliveries BY <1>5, <1>7 DEF Deliveries, OnSlot
  <2> QED BY <2>1, <2>2, <2>3, <2>4 DEF Firings!vars, LastSlots, SlotsOf, Claimed, Held, Holding, Deliveries, OnSlot
<1> QED BY <1>6, <1>7

\* What the claim does to what AtMostOnce sees.
LEMMA SlotTaken ==
  ASSUME ScheduleInv, NEW v \in Servers, Claim(v), Head(server[v].due).task \in Due(server[v].at)
  PROVE  [Firings!Next]_(Firings!vars)
<1> DEFINE d == Head(server[v].due)
<1>1. /\ d \in DueRow
      /\ astray \subseteq astray' /\ astray' \subseteq astray \cup {d.task}
      /\ d.task \notin astray' => \A c \in consumed : c[1] = d.task => c[2] < d.next
      /\ consumed' = consumed \cup {<<d.task, d.next>>}
      /\ server' = [server EXCEPT ![v] = [server[v] EXCEPT !.pc = "template"]]
      /\ server[v] \in TickState /\ server[v].pc = "claim" /\ cards' = cards
  BY ClaimTakes
<1>2. PICK t \in Tasks, n \in Nat : t = d.task /\ n = d.next BY <1>1 DEF DueRow
<1>3. Holding(v)' /\ Held(v)' = <<t, n>> /\ ~Holding(v)
  BY <1>1, <1>2 DEF Holding, Held, ScheduleInv, ScheduleTypes, TickState
<1>4. \A u \in Servers : u # v => (Holding(u)' <=> Holding(u)) /\ Held(u)' = Held(u)
  BY <1>1 DEF Holding, Held, ScheduleInv, ScheduleTypes
<1>5. /\ consumed' = consumed \cup {<<t, n>>} /\ astray \subseteq astray' /\ astray' \subseteq astray \cup {t}
      /\ t \notin astray' => \A c \in consumed : c[1] = t => c[2] < n
      /\ cards' = cards
  BY <1>1, <1>2
<1> HIDE DEF d
<1>6. {Held(u) : u \in {u \in Servers : Holding(u)}}' = {Held(u) : u \in {u \in Servers : Holding(u)}} \cup {<<t, n>>}
  BY <1>3, <1>4
<1>7. \A s \in Tasks : SlotsOf(s)' = IF s = t THEN SlotsOf(s) \cup {n} ELSE SlotsOf(s)
  <2> TAKE s \in Tasks
  <2> DEFINE p == <<t, n>>
  <2>1. p[1] = t /\ p[2] = n /\ consumed' = consumed \cup {p} BY <1>5
  <2> HIDE DEF p
  <2>2. \A m : m \in SlotsOf(s)' <=> m \in SlotsOf(s) \/ (s = t /\ m = n)
    <3>1. \A m : m \in SlotsOf(s) <=> m = -1 \/ \E c \in consumed : c[1] = s /\ c[2] = m BY DEF SlotsOf
    <3>2. \A m : m \in SlotsOf(s)' <=> m = -1 \/ \E c \in consumed' : c[1] = s /\ c[2] = m BY DEF SlotsOf
    <3> QED BY <2>1, <3>1, <3>2
  <2> QED BY <2>2
<1>8. CASE t \in astray'
  <2>1. astray' = astray \cup {t} BY <1>5, <1>8
  <2>2. {p \in {Held(u) : u \in {u \in Servers : Holding(u)}} : p[1] # t}' =
          {p \in {Held(u) : u \in {u \in Servers : Holding(u)}} : p[1] # t}
    BY <1>6
  <2> QED BY <1>5, <1>7, <2>1, <2>2, GoesAstray
<1>9. CASE t \notin astray'
  <2>1. astray' = astray /\ t \notin astray BY <1>5, <1>9
  <2>2. Claimed' = Claimed \cup {<<t, n>>} BY <1>6, <2>1 DEF Claimed
  <2>3. Max(SlotsOf(t) \cup {n}) = n /\ n > Max(SlotsOf(t))
    <3>1. \A m \in SlotsOf(t) : n > m
      <4>1. \A c \in consumed : c[2] \in Nat BY DEF ScheduleInv, ScheduleTypes
      <4> QED BY <1>5, <1>9, <4>1 DEF SlotsOf
    <3>2. SlotsOf(t) \subseteq Int /\ Max(SlotsOf(t)) \in SlotsOf(t) BY <2>1, LastIs
    <3> DEFINE S == SlotsOf(t) \cup {n}
    <3>3. S \in SUBSET Int /\ n \in S /\ \A m \in S : n >= m BY <3>1, <3>2
    <3> HIDE DEF S
    <3>4. Max(S) = n BY <3>3, TheMaxIs
    <3> QED BY <3>1, <3>2, <3>4 DEF S
  <2>4. LastSlots' = [s \in Tasks |-> IF s = t THEN n ELSE LastSlots[s]]
    <3>1. LastSlots' = [s \in Tasks |-> IF s \in astray THEN -1 ELSE Max(SlotsOf(s)')] BY <2>1 DEF LastSlots
    <3>2. \A s \in Tasks : Max(SlotsOf(s)') = IF s = t THEN n ELSE Max(SlotsOf(s)) BY <1>7, <2>3
    <3> QED BY <2>1, <3>1, <3>2 DEF LastSlots
  <2>5. LastSlots[t] = Max(SlotsOf(t)) BY <2>1 DEF LastSlots
  <2>6. /\ LastSlots'[t] > LastSlots[t]
        /\ LastSlots' = [LastSlots EXCEPT ![t] = LastSlots'[t]]
        /\ Claimed' = Claimed \cup {<<t, LastSlots'[t]>>}
    BY <2>2, <2>3, <2>4, <2>5 DEF LastSlots
  <2>7. Deliveries' = Deliveries BY <1>5, <2>1 DEF Deliveries, OnSlot, Copies
  <2>8. Firings!Take(t)
    BY <2>1, <2>6, <2>7 DEF Firings!Take, LastSlots, SlotsOf, Claimed, Held, Holding, Deliveries, OnSlot
  <2> QED BY <2>8 DEF Firings!Next
<1> QED BY <1>8, <1>9

LEMMA SlotDelivered ==
  ASSUME ScheduleInv, NEW v \in Servers, InsertCard(v)
  PROVE  [Firings!Next]_(Firings!vars)
<1> DEFINE d == Head(server[v].due)
<1>1. ScheduleInv' /\ Holding(v) /\ ~Holding(v)' BY CardKeeps
<1>2. PICK key \in Nat : cards' = cards \cup {[task |-> d.task, slot |-> d.next, key |-> key]}
  BY CardKeeps
<1>3. consumed' = consumed /\ astray' = astray /\ \A u \in Servers : u # v => server'[u] = server[u]
  BY DEF InsertCard, Step, ScheduleInv, ScheduleTypes
<1>4. PICK p : p = Held(v) OBVIOUS
<1>5. p[1] = d.task /\ p[2] = d.next BY <1>4 DEF Held
<1> DEFINE new == [task |-> d.task, slot |-> d.next, key |-> key]
<1>6. cards' = cards \cup {new} /\ new.task = p[1] /\ new.slot = p[2] BY <1>2, <1>5
<1> HIDE DEF d, new
<1>7. LastSlots' = LastSlots BY <1>3 DEF LastSlots, SlotsOf
<1>8. \A u \in Servers : Holding(u)' <=> u # v /\ Holding(u) BY <1>1, <1>3 DEF Holding
<1>9. \A u \in Servers : u # v => Held(u)' = Held(u) BY <1>3 DEF Held
<1>10. CASE p[1] \notin astray
  <2>1. p \in Claimed BY <1>1, <1>4, <1>10 DEF Claimed
  <2>2. Claimed' = Claimed \ {p}
    <3>1. \A u \in Servers : Holding(u) /\ u # v => Held(u) # p
      BY <1>1, <1>4, <1>10 DEF ScheduleInv, ClaimsAreOwn
    <3> QED BY <1>3, <1>4, <1>8, <1>9, <3>1 DEF Claimed
  <2>3. Deliveries' = Deliveries \cup {<<p[1], p[2], 1>>}
    <3>1. Deliveries = {<<c.task, c.slot, 1>> : c \in OnSlot} BY SameDeliveries
    <3>2. Deliveries' = {<<c.task, c.slot, 1>> : c \in OnSlot'}
      <4>1. (ScheduleInv => Deliveries = {<<c.task, c.slot, 1>> : c \in OnSlot})' BY SameDeliveries, PTL
      <4> QED BY <1>1, <4>1
    <3>3. OnSlot' = OnSlot \cup {new} BY <1>3, <1>6, <1>10 DEF OnSlot
    <3> QED BY <1>6, <3>1, <3>2, <3>3
  <2>4. Firings!Deliver(p)
    BY <1>3, <1>7, <2>2, <2>3 DEF Firings!Deliver, LastSlots, SlotsOf, Claimed, Held, Holding, Deliveries, OnSlot
  <2> QED BY <2>1, <2>4 DEF Firings!Next, Claimed, Held, Holding
<1>11. CASE p[1] \in astray
  <2>1. p[1] \in Tasks /\ astray' = astray \cup {p[1]}
    BY <1>3, <1>11 DEF ScheduleInv, ScheduleTypes
  <2>2. {c \in cards' : c.task # p[1]} = {c \in cards : c.task # p[1]} BY <1>6
  <2>3. {q \in {Held(u) : u \in {u \in Servers : Holding(u)}} : q[1] # p[1]}' =
          {q \in {Held(u) : u \in {u \in Servers : Holding(u)}} : q[1] # p[1]}
    BY <1>1, <1>4, <1>8, <1>9
  <2>4. \A s \in Tasks : SlotsOf(s)' = SlotsOf(s) BY <1>3 DEF SlotsOf
  <2> QED BY <2>1, <2>2, <2>3, <2>4, GoesAstray
<1> QED BY <1>10, <1>11

LEMMA FiringsStep == ScheduleInv /\ [RecurrenceNext]_recurrenceVars => [Firings!Next]_(Firings!vars)
<1> SUFFICES ASSUME ScheduleInv, [RecurrenceNext]_recurrenceVars PROVE [Firings!Next]_(Firings!vars)
  OBVIOUS
<1>1. UNCHANGED <<consumed, cards, astray, server>> => UNCHANGED Firings!vars
  BY SlotsKept DEF Holding, Held
<1>2. ASSUME NEW v \in Servers, Claim(v) PROVE [Firings!Next]_(Firings!vars)
  <2>1. CASE Head(server[v].due).task \in Due(server[v].at) BY <1>2, <2>1, SlotTaken
  <2>2. CASE Head(server[v].due).task \notin Due(server[v].at)
    <3>1. server[v].pc = "claim" /\ UNCHANGED <<consumed, cards, astray>>
          /\ server' = [server EXCEPT ![v] = NextRow(server[v])]
      BY <1>2, <2>2 DEF Claim, Claims, Step
    <3>2. server'[v].pc \in {"rest", "claim"} /\ \A u \in Servers : u # v => server'[u] = server[u]
      BY <3>1, NextRowMoves DEF ScheduleInv, ScheduleTypes, Resting
    <3> QED BY <3>1, <3>2, SlotLost DEF Holding
  <2> QED BY <2>1, <2>2
<1>3. ASSUME NEW v \in Servers, CloneFails(v) \/ TickFails(v) \/ Restart(v) PROVE [Firings!Next]_(Firings!vars)
  <2>1. \E s \in {NextRow(server[v]), Resting} : server' = [server EXCEPT ![v] = s]
    BY <1>3 DEF CloneFails, TickFails, Restart, Step
  <2>2. server[v] \in TickState /\ UNCHANGED <<consumed, cards, astray>>
    BY <1>3 DEF CloneFails, TickFails, Restart, Unwritten, Ticking, ScheduleInv, ScheduleTypes, Resting
  <2>3. server'[v].pc \in {"rest", "claim"} /\ \A u \in Servers : u # v => server'[u] = server[u]
    BY <2>1, <2>2, NextRowMoves DEF ScheduleInv, ScheduleTypes, Resting
  <2> QED BY <2>2, <2>3, SlotLost DEF Holding
<1>4. ASSUME NEW v \in Servers, ReadTemplate(v) PROVE [Firings!Next]_(Firings!vars)
  <2>1. server[v].pc = "template" /\ UNCHANGED <<consumed, cards, astray>> /\ server[v] \in TickState
    BY <1>4 DEF ReadTemplate, Unwritten, ScheduleInv, ScheduleTypes, Resting
  <2>2. CASE Head(server[v].due).task \in templates
    <3>1. server' = [server EXCEPT ![v] = [server[v] EXCEPT !.pc = "insert"]]
      BY <1>4, <2>2 DEF ReadTemplate, Step
    <3>2. \A u \in Servers : (Holding(u)' <=> Holding(u)) /\ (Holding(u) => Held(u)' = Held(u))
      BY <2>1, <3>1 DEF Holding, Held, ScheduleInv, ScheduleTypes, TickState
    <3> QED BY <2>1, <3>2, SlotsKept
  <2>3. CASE Head(server[v].due).task \notin templates
    <3>1. server' = [server EXCEPT ![v] = NextRow(server[v])] BY <1>4, <2>3 DEF ReadTemplate, Step
    <3>2. server'[v].pc \in {"rest", "claim"} /\ \A u \in Servers : u # v => server'[u] = server[u]
      BY <2>1, <3>1, NextRowMoves DEF ScheduleInv, ScheduleTypes, Resting
    <3> QED BY <2>1, <3>2, SlotLost DEF Holding
  <2> QED BY <2>2, <2>3
<1>5. ASSUME NEW v \in Servers, StartTick(v) PROVE [Firings!Next]_(Firings!vars)
  <2>1. PICK order \in SetToAllKPermutations(Due(now)) :
          Step(v, [pc |-> "claim", at |-> now,
                   due |-> [i \in DOMAIN order |->
                              LET t == order[i] IN [task |-> t, rule |-> rows[t].rule, next |-> rows[t].next]]])
    BY <1>5 DEF StartTick
  <2>2. UNCHANGED <<consumed, cards, astray>> BY <1>5 DEF StartTick, Unwritten
  <2>3. server'[v].pc = "claim" /\ \A u \in Servers : u # v => server'[u] = server[u]
    BY <2>1 DEF Step, ScheduleInv, ScheduleTypes
  <2> QED BY <2>2, <2>3, SlotLost DEF Holding
<1>6. ASSUME NEW v \in Servers, Tick(v) PROVE [Firings!Next]_(Firings!vars)
  BY <1>2, <1>4, <1>5, <1>6, SlotDelivered DEF Tick
<1>7. ASSUME NEW e \in Editors,
             \/ \E t \in Tasks, rule \in Rules : SetRecurrence(e, t, rule)
             \/ \E t \in Tasks : ClearRecurrence(e, t)
             \/ Deactivate(e) \/ Abandon(e)
      PROVE  UNCHANGED <<consumed, cards, astray, server>>
  BY <1>7 DEF SetRecurrence, ClearRecurrence, Deactivate, Abandon, Unwritten
<1>8. ASSUME NEW e \in Editors, StoreRule(e) PROVE [Firings!Next]_(Firings!vars)
  <2>1. /\ editor[e].task \in Tasks /\ UNCHANGED <<consumed, cards, server>>
        /\ astray' = astray \cup {t \in {editor[e].task} : editor[e].next <= now}
    BY <1>8 DEF StoreRule, Passed, ScheduleInv, ScheduleTypes, EditState, Resting
  <2>2. CASE editor[e].next <= now
    <3>1. astray' = astray \cup {editor[e].task} BY <2>1, <2>2
    <3> QED BY <2>1, <3>1, GoesAstray DEF SlotsOf, Held, Holding
  <2>3. CASE ~(editor[e].next <= now) BY <1>1, <2>1, <2>3
  <2> QED BY <2>2, <2>3
<1>9. ClockMoves \/ (\E t \in Tasks : DeleteTemplate(t)) \/ UNCHANGED recurrenceVars
        => UNCHANGED <<consumed, cards, astray, server>>
  BY DEF ClockMoves, DeleteTemplate, recurrenceVars
<1>10. CASE RecurrenceNext
  <2>1. \/ \E v \in Servers : Tick(v) \/ CloneFails(v) \/ TickFails(v) \/ Restart(v)
        \/ \E e \in Editors : StoreRule(e)
        \/ UNCHANGED <<consumed, cards, astray, server>>
    BY <1>7, <1>9, <1>10 DEF RecurrenceNext
  <2> QED BY <1>1, <1>3, <1>6, <1>8, <2>1
<1> QED BY <1>1, <1>9, <1>10

LEMMA ScheduleFires == RecurrenceInit /\ [][RecurrenceNext]_recurrenceVars => FiresAtMostOnce
<1> USE DEF FiresAtMostOnce, Firings!Spec
<1> QED BY FiringsBegin, FiringsStep, ScheduleInvHolds, PTL

\* However many servers tick, at whatever moments, and restart or fail, the schedule
\* delivers a rule's slots in order and each at most once (scheduler.ts:14-20) until
\* its card goes astray (a row due again while a tick holds it, or a rule written
\* after its first slot): it implements AtMostOnce, which forsakes that card.
THEOREM SlotsFireOnce == RecurrenceSpec => FiresAtMostOnce
BY ScheduleFires, PTL DEF RecurrenceSpec
=============================================================================
