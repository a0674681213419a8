---------------------------- MODULE Attachments ----------------------------
(* Files on cards: the upload route (server/plan/routes.ts), the delete action  *)
(* (server/actions/workflow.ts) and the content-addressed store they share      *)
(* (server/plan/attachments.ts).  The rows are in the database and the bytes on *)
(* the disk, and nothing makes one change of the two: the order of the steps    *)
(* does.  A content stands for its sha256 and for the path made from it.        *)
EXTENDS Integers, FiniteSets

CONSTANTS
  Holders,     \* cards files are attached to
  Contents,
  FileSlots,   \* requests in flight
  MaxFiles     \* bound: rows ever inserted

VARIABLES
  holders,     \* the cards that exist
  files,       \* task_attachments
  nextFile,    \* the next serial id
  blobs,       \* the contents stored under their final path
  filing,      \* the handler in flight in each slot
  stranded,    \* history: contents a restart or a deleted card may have left behind
  raced,       \* history: the rows whose upload overlapped a delete of the same bytes,
  doubled      \* or an upload of the same bytes to the same card

attachmentVars == <<holders, files, nextFile, blobs, filing, stranded, raced, doubled>>

Unasked == [pc |-> "none"]

AttachmentInit ==
  /\ holders = Holders /\ files = {} /\ nextFile = 1
  /\ blobs = {} /\ stranded = {} /\ raced = {} /\ doubled = {}
  /\ filing = [s \in FileSlots |-> Unasked]

Filing(s, r) == filing' = [filing EXCEPT ![s] = r]
Idling(s) == filing[s].pc = "none"
Uploading(s) == filing[s].pc \in {"stat", "rename", "duplicate", "insert"}

Dropping(s) == filing[s].pc \in {"delete", "count", "unlink"}

\* A request begins: an upload remembers the deletes of its bytes and the uploads
\* of them to its card that were ever in flight beside it.
Twins(s, card, content) ==
  {o \in FileSlots \ {s} : Uploading(o) /\ filing[o].card = card /\ filing[o].content = content}
Beside(s, card, content) ==
  (IF Twins(s, card, content) # {} THEN {"upload"} ELSE {})
    \cup {"delete" : o \in {o \in FileSlots \ {s} : Dropping(o) /\ filing[o].content = content}}
Meets(s, o, r) ==
  IF ~Uploading(o) \/ filing[o].content # r.content THEN {}
  ELSE IF r.pc = "delete" THEN {"delete"}
  ELSE IF filing[o].card = r.card THEN {"upload"} ELSE {}
Begins(s, r) ==
  filing' = [o \in FileSlots |->
               CASE o = s -> r
                 [] o # s /\ Meets(s, o, r) # {} -> [filing[o] EXCEPT !.met = @ \cup Meets(s, o, r)]
                 [] OTHER -> filing[o]]
-----------------------------------------------------------------------------
\* PUT /api/plan/tasks/:id/attachments
Upload(s, card, content) ==
  /\ Idling(s) /\ card \in holders /\ nextFile <= MaxFiles
  /\ Begins(s, [pc |-> "stat", card |-> card, content |-> content, met |-> Beside(s, card, content)])
  /\ UNCHANGED <<holders, files, nextFile, blobs, stranded, raced, doubled>>

\* writeBlob hashes the bytes into a temporary file and looks for a stored copy;
StatBlob(s) ==
  /\ filing[s].pc = "stat"
  /\ Filing(s, [filing[s] EXCEPT !.pc = IF filing[s].content \in blobs THEN "duplicate" ELSE "rename"])
  /\ UNCHANGED <<holders, files, nextFile, blobs, stranded, raced, doubled>>

\* without one the temporary file takes its place.
RenameBlob(s) ==
  /\ filing[s].pc = "rename"
  /\ blobs' = blobs \cup {filing[s].content}
  /\ Filing(s, [filing[s] EXCEPT !.pc = "duplicate"])
  /\ UNCHANGED <<holders, files, nextFile, stranded, raced, doubled>>

\* Same bytes, same card: the row that is there is the answer.
\* Mutant: every upload inserts a row.
FindDuplicate_Bug(s) ==
  /\ filing[s].pc = "duplicate"
  /\ Filing(s, [filing[s] EXCEPT !.pc = "insert"])
  /\ UNCHANGED <<holders, files, nextFile, blobs, stranded, raced, doubled>>

FindDuplicate(s) ==
  /\ filing[s].pc = "duplicate"
  /\ Filing(s, IF \E f \in files : f.card = filing[s].card /\ f.content = filing[s].content
               THEN Unasked ELSE [filing[s] EXCEPT !.pc = "insert"])
  /\ UNCHANGED <<holders, files, nextFile, blobs, stranded, raced, doubled>>

\* A card deleted meanwhile refuses the row.
InsertFile(s) ==
  LET r == filing[s] IN
  /\ r.pc = "insert"
  /\ IF r.card \in holders
     THEN /\ files' = files \cup {[id |-> nextFile, card |-> r.card, content |-> r.content]}
          /\ nextFile' = nextFile + 1
          /\ raced' = raced \cup {nextFile : w \in r.met \cap {"delete"}}
          /\ doubled' = doubled \cup {nextFile : w \in r.met \cap {"upload"}}
          /\ UNCHANGED stranded
     ELSE stranded' = stranded \cup {r.content} /\ UNCHANGED <<files, nextFile, raced, doubled>>
  /\ Filing(s, Unasked)
  /\ UNCHANGED <<holders, blobs>>

\* task.attachment_delete
DeleteFile(s, file) ==
  /\ Idling(s)
  /\ Begins(s, [pc |-> "delete", file |-> file, content |-> file.content])
  /\ UNCHANGED <<holders, files, nextFile, blobs, stranded, raced, doubled>>

DeleteRow(s) ==
  /\ filing[s].pc = "delete"
  /\ files' = files \ {filing[s].file}
  /\ Filing(s, [pc |-> "count", content |-> filing[s].content])
  /\ UNCHANGED <<holders, nextFile, blobs, stranded, raced, doubled>>

\* dropBlobIfUnreferenced asks whether any row of the organization is left,
\* Mutant: the bytes go with any row.
CountRows_Bug(s) ==
  /\ filing[s].pc = "count"
  /\ Filing(s, [filing[s] EXCEPT !.pc = "unlink"])
  /\ UNCHANGED <<holders, files, nextFile, blobs, stranded, raced, doubled>>

\* Mutant: the last row is taken for another one.
CountRows_Keeps(s) ==
  /\ filing[s].pc = "count"
  /\ Filing(s, Unasked)
  /\ UNCHANGED <<holders, files, nextFile, blobs, stranded, raced, doubled>>

CountRows(s) ==
  /\ filing[s].pc = "count"
  /\ Filing(s, IF \E f \in files : f.content = filing[s].content
               THEN Unasked ELSE [filing[s] EXCEPT !.pc = "unlink"])
  /\ UNCHANGED <<holders, files, nextFile, blobs, stranded, raced, doubled>>

\* and unlinks the bytes after the last one.
UnlinkBlob(s) ==
  /\ filing[s].pc = "unlink"
  /\ blobs' = blobs \ {filing[s].content}
  /\ Filing(s, Unasked)
  /\ UNCHANGED <<holders, files, nextFile, stranded, raced, doubled>>

\* task.delete: the foreign key takes the rows, and nothing asks about the bytes.
DeleteHolder(card) ==
  /\ card \in holders
  /\ holders' = holders \ {card}
  /\ files' = {f \in files : f.card # card}
  /\ stranded' = stranded \cup {f.content : f \in {f \in files : f.card = card}}
  /\ UNCHANGED <<nextFile, blobs, filing, raced, doubled>>

\* The process is replaced, and with it every handler in flight.
StopFiling ==
  /\ \E s \in FileSlots : ~Idling(s)
  /\ filing' = [s \in FileSlots |-> Unasked]
  /\ stranded' = stranded \cup {filing[s].content : s \in {s \in FileSlots : ~Idling(s)}}
  /\ UNCHANGED <<holders, files, nextFile, blobs, raced, doubled>>

AttachmentNext ==
  \/ \E s \in FileSlots :
       \/ \E card \in Holders, content \in Contents : Upload(s, card, content)
       \/ StatBlob(s) \/ RenameBlob(s) \/ FindDuplicate(s) \/ InsertFile(s)
       \/ \E file \in files : DeleteFile(s, file)
       \/ DeleteRow(s) \/ CountRows(s) \/ UnlinkBlob(s)
  \/ \E card \in Holders : DeleteHolder(card)
  \/ StopFiling

AttachmentSpec == AttachmentInit /\ [][AttachmentNext]_attachmentVars
-----------------------------------------------------------------------------
\* A row always has its bytes, through restarts at any point and with other
\* uploads and deletes in flight: the bytes are written before the row and
\* unlinked after it (attachments.ts, rules 2 and 3).  Left out is a row whose
\* upload overlapped a delete of the same bytes, which may have counted before
\* the row and unlink after it.
RowHasBlob == \A f \in files : f.id \in raced \/ f.content \in blobs

\* The same bytes are attached to a card once, so an upload repeated after a
\* restart or a lost answer changes nothing (routes.ts:124).  Left out are two rows
\* each of whose uploads overlapped another of the same bytes to the same card.
OneRowPerContent ==
  \A f, g \in files :
    f.card = g.card /\ f.content = g.content => f = g \/ {f.id, g.id} \subseteq doubled

\* The bytes go with their last row, whichever of several deletes takes it and
\* whatever uploads overlap it, except for what a restart or a deleted card may
\* have left behind.
BytesGoWithLastRow ==
  (\A s \in FileSlots : Idling(s)) =>
    \A content \in blobs \ stranded : \E f \in files : f.content = content

\* All three: rows and bytes match.
AttachmentsHold == RowHasBlob /\ OneRowPerContent /\ BytesGoWithLastRow
=============================================================================
