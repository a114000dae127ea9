------------------------- MODULE PublicationProofs --------------------------
(***************************************************************************)
(* Proofs about Publication for any reports, documents, group sizes and    *)
(* dates: the rows of the groups keep the contract of every single report, *)
(* above all that its body is never written twice, and a settled report is *)
(* delivered.                                                              *)
(***************************************************************************)
EXTENDS Publication, FiniteSetTheorems, TLAPS

\* The row may have led to a write.
Written(q) == q.state # "intent" \/ q.inFlight

Readable == viewable \union {UserDocument}

(***************************************************************************)
(* The inductive invariant.  A row with a receipt has its document, and    *)
(* rows that create none or have succeeded name one the chat may read      *)
(* (RowsFit).  A report is in one written row at most (OneWritten), its    *)
(* text was written once if there is a receipt and at most once else       *)
(* (CopiesFit), and a call that may still land belongs to a row in flight  *)
(* none of whose reports was written (CallsFit).  PhaseFit says what the   *)
(* process knows of its row.                                               *)
(***************************************************************************)
RowsFit == UserDocument \in used /\ \A q \in rows :
  /\ q.state # "intent" => ~q.inFlight /\ q.reference = q.document /\ q.document # NoDocument
  /\ q.document \in used \union {NoDocument}
  /\ ~q.created \/ q.state = "success" => q.document \in Readable
  /\ q.state = "intent" => q.document \in Readable \union {NoDocument}

OneWritten == \A p, q \in rows :
  Written(p) /\ Written(q) /\ p.group.members \intersect q.group.members # {} => p = q

CopiesFit == \A r \in Reports :
  /\ copies[r] \in {0, 1}
  /\ \A d \in Documents : r \in body[d] => copies[r] = 1
  /\ copies[r] = 1 => \E q \in rows : Written(q) /\ r \in q.group.members
  /\ \A q \in rows : q.state # "intent" /\ r \in q.group.members =>
       copies[r] = 1 /\ r \in body[q.reference]

CallsFit == \A c \in calls : \A r \in c.members :
  /\ copies[r] = 0
  /\ \E q \in rows : q.inFlight /\ q.group.members = c.members
  /\ \A e \in calls : r \in e.members => e = c

Sent == [members |-> Current.members, document |-> sent]

PhaseFit ==
  /\ phase \in {"intent", "marked", "sent"} => row.state = "intent"
  /\ phase \in {"verify", "granted"} => row.state = "remote_written"
  /\ phase \in {"notice", "archive", "settle"} => row.state = "success"
  /\ phase \in {"marked", "sent"} => row.inFlight
  /\ phase = "marked" => \A r \in Current.members : copies[r] = 0 /\ \A c \in calls : r \notin c.members
  /\ phase = "sent" =>
       /\ sent \in used
       /\ \A r \in Current.members : \A c \in calls : r \in c.members => c = Sent
       /\ IF row.document = NoDocument
          THEN sent # UserDocument /\ \A q \in rows : q.document # sent
          ELSE sent = row.document
  /\ phase = "granted" => row.document \in Readable
  /\ phase \in {"archive", "settle"} => Current.members \subseteq noticed
  /\ phase = "settle" => Current.members \subseteq archived

IInv ==
  /\ TypeOK /\ RowsFit /\ OneWritten /\ CopiesFit /\ CallsFit /\ PhaseFit
  /\ SettledIsDelivered

-----------------------------------------------------------------------------
(* Rows, groups and their types.                                           *)

\* No document is numbered zero.
LEMMA NoDocumentIsNone == NoDocument \notin Documents /\ UserDocument \in Documents
BY DocumentsAreNumbers DEF NoDocument

\* The fields of a row.
LEMMA RowIs ==
  ASSUME NEW q \in Row
  PROVE  /\ q.group \in Groups /\ q.group.members \subseteq Reports
         /\ q.document \in Places /\ q.reference \in Places
         /\ q.state \in RowStates /\ q.created \in BOOLEAN /\ q.inFlight \in BOOLEAN
BY DEF Row, Groups

\* A new row.
LEMMA IntentIs ==
  ASSUME NEW g \in Groups, NEW d \in Places
  PROVE  /\ Intent(g, d) \in Row
         /\ Intent(g, d).group = g /\ Intent(g, d).document = d /\ Intent(g, d).state = "intent"
         /\ ~Intent(g, d).inFlight /\ (Intent(g, d).created <=> d = NoDocument)
BY DEF Intent, Row, Places, RowStates

\* The group of nobody.
LEMMA NobodyIs == Nobody \in Groups
BY DEF Nobody, Groups

\* The marker changes nothing else.
LEMMA MarkedIs ==
  ASSUME NEW q \in Row, NEW flag \in BOOLEAN
  PROVE  /\ Marked(q, flag) \in Row
         /\ Marked(q, flag).group = q.group /\ Marked(q, flag).document = q.document
         /\ Marked(q, flag).state = q.state /\ Marked(q, flag).reference = q.reference
         /\ Marked(q, flag).created = q.created /\ Marked(q, flag).inFlight = flag
BY DEF Marked, Row

\* A receipt names its document.
LEMMA ReceiptIs ==
  ASSUME NEW q \in Row, NEW d \in Documents
  PROVE  /\ Receipt(q, d) \in Row
         /\ Receipt(q, d).group = q.group /\ Receipt(q, d).document = d
         /\ Receipt(q, d).reference = d /\ Receipt(q, d).state = "remote_written"
         /\ (Receipt(q, d).created <=> q.document = NoDocument) /\ ~Receipt(q, d).inFlight
BY DEF Receipt, Row, Places, RowStates

\* A verified row.
Succeeded(q) == [q EXCEPT !.state = "success"]

\* Verifying a row changes its state and nothing else of it.
LEMMA SucceededIs ==
  ASSUME NEW q \in Row
  PROVE  /\ Succeeded(q) \in Row
         /\ Succeeded(q).group = q.group /\ Succeeded(q).document = q.document
         /\ Succeeded(q).state = "success" /\ Succeeded(q).reference = q.reference
         /\ Succeeded(q).created = q.created /\ Succeeded(q).inFlight = q.inFlight
BY DEF Succeeded, Row, RowStates

\* A row is replaced by one for the same group and document, or for a document
\* no row has.
LEMMA ReplacedIs ==
  ASSUME TypeOK, NEW new \in Row, rows' = (rows \ {row}) \union {new},
         row \in rows, new.group = row.group,
         new.document = row.document \/ \A q \in rows : q.document # new.document
  PROVE  rows' \subseteq Row /\ Unique'
<1>1. \A q \in rows : q.group = row.group /\ q.document = row.document => q = row
  BY DEF TypeOK, Unique
<1>2. \A q \in rows \ {row} : ~(q.group = new.group /\ q.document = new.document)
  BY <1>1
<1>3. Unique'
  BY <1>2 DEF TypeOK, Unique
<1> QED BY <1>3 DEF TypeOK

\* Rows that are left alone.
LEMMA SameRows ==
  ASSUME TypeOK, UNCHANGED rows
  PROVE  rows' \subseteq Row /\ Unique'
BY DEF TypeOK, Unique

\* The chunks of a batch are groups.
LEMMA ChunksAreGroups ==
  ASSUME NEW batch \in SUBSET Reports
  PROVE  Chunks(batch) \subseteq Groups
<1> SUFFICES ASSUME NEW g \in Chunks(batch) PROVE g \in Groups
  OBVIOUS
<1> DEFINE rank(r) == Cardinality({s \in batch : s < r})
           size    == IF Cardinality(batch) > GroupThreshold
                      THEN GroupSize ELSE Cardinality(batch)
<1>1. PICK r \in batch :
        g = [members |-> {s \in batch : rank(s) \div size = rank(r) \div size},
             index |-> rank(r) \div size + 1, day |-> DateOf[r]]
  BY DEF Chunks
<1>2. IsFiniteSet(batch)
  BY ReportsAreNumbers, FS_Subset
<1>3. rank(r) \in Nat
  <2>1. IsFiniteSet({s \in batch : s < r})
    BY <1>2, FS_Subset
  <2> QED BY <2>1, FS_CardinalityType
<1>4. Cardinality(batch) \in Nat /\ Cardinality(batch) # 0
  BY <1>2, FS_CardinalityType, FS_EmptySet
<1>5. size \in Nat \ {0}
  BY <1>4, SizesArePositive
<1>6. rank(r) \div size + 1 \in Nat
  <2> HIDE DEF rank, size
  <2> QED BY <1>3, <1>5
<1> QED BY <1>1, <1>6, DatesAreOrdered DEF Groups

\* The claims of a group that failed.
LEMMA FailTypes ==
  ASSUME TypeOK, NEW g, NEW outcome, NEW reason \in {"lark_publish_failed", "local_projection_failed"},
         FailClaims(g, outcome, reason)
  PROVE  /\ stage' \in [Reports -> StageStates]
         /\ code' \in [Reports -> {"", "lark_publish_failed", "local_projection_failed"}]
         /\ cooling' \in SUBSET Reports /\ claims' \in SUBSET Reports /\ groups' \subseteq Groups
         /\ phase' = "groups" /\ row' \in Row /\ sent' \in Places
         /\ \A r \in Reports : stage'[r] = "succeeded" => stage[r] = "succeeded"
<1>1. outcome \in {"retry_wait", "blocked"}
  BY DEF FailClaims
<1>2. stage' \in [Reports -> StageStates]
  BY <1>1 DEF FailClaims, TypeOK, StageStates
<1>3. code' \in [Reports -> {"", "lark_publish_failed", "local_projection_failed"}]
  BY DEF FailClaims, TypeOK
<1>4. cooling' \in SUBSET Reports /\ claims' \in SUBSET Reports /\ groups' \subseteq Groups
  BY DEF FailClaims, TypeOK, Owned
<1>5. row' \in Row /\ sent' \in Places
  BY NobodyIs, IntentIs DEF FailClaims, Blank, Places
<1>6. \A r \in Reports : stage'[r] = "succeeded" => stage[r] = "succeeded"
  BY <1>1 DEF FailClaims
<1> QED BY <1>2, <1>3, <1>4, <1>5, <1>6 DEF FailClaims

-----------------------------------------------------------------------------
(* Every step keeps the types.                                             *)

\* A run that begins, or dies while it claims, or is over; time; the operator.
LEMMA BesidesTypes ==
  ASSUME TypeOK, NEW new \in SUBSET Reports, NEW S \in SUBSET Reports,
         \/ StartRun(new, S) \/ DieWhileClaiming(new, S) \/ EndRun \/ Crash
         \/ (\E r \in Reports : Ripen(r) \/ CompleteStage(r))
         \/ (\E reason \in {"lark_publish_failed", "local_projection_failed"} : ApplyRetryPlan(reason))
  PROVE  TypeOK'
<1>1. CASE StartRun(new, S)
  <2> DEFINE batch == Due \union new \union S
  <2>1. Due \subseteq Reports
    BY DEF Due
  <2>2. groups' \subseteq Groups
    <3>1. Chunks(batch) \subseteq Groups
      BY <2>1, ChunksAreGroups DEF TypeOK
    <3> QED BY <1>1, <3>1 DEF StartRun
  <2>3. stage' \in [Reports -> StageStates] /\ cooling' \in SUBSET Reports /\ UNCHANGED code
    BY <1>1, <2>1 DEF StartRun, Claimed, TypeOK, StageStates
  <2> QED BY <1>1, <2>1, <2>2, <2>3 DEF StartRun, TypeOK, Unique, lark, Phases
<1>2. CASE DieWhileClaiming(new, S)
  <2>1. stage' \in [Reports -> StageStates] /\ cooling' \in SUBSET Reports
    BY <1>2 DEF DieWhileClaiming, TypeOK, StageStates
  <2> QED BY <1>2, <2>1 DEF DieWhileClaiming, TypeOK, Unique, lark, process
<1>3. CASE EndRun \/ Crash
  <2>1. NoProcess /\ row' \in Row /\ sent' \in Places
    BY <1>3, NobodyIs, IntentIs DEF EndRun, Crash, NoProcess, Blank, Places
  <2> QED BY <2>1 DEF NoProcess, TypeOK, Unique, stages, lark, Phases
<1>4. ASSUME NEW r \in Reports, Ripen(r)
      PROVE  TypeOK'
  BY <1>4 DEF Ripen, TypeOK, Unique, lark, process
<1>5. ASSUME NEW r \in Reports, CompleteStage(r)
      PROVE  TypeOK'
  <2>1. stage' \in [Reports -> StageStates]
    BY <1>5 DEF CompleteStage, TypeOK, StageStates
  <2> QED BY <1>5, <2>1 DEF CompleteStage, TypeOK, Unique, lark
<1>6. ASSUME NEW reason \in {"lark_publish_failed", "local_projection_failed"}, ApplyRetryPlan(reason)
      PROVE  TypeOK'
  <2>1. /\ stage' \in [Reports -> StageStates]
        /\ code' \in [Reports -> {"", "lark_publish_failed", "local_projection_failed"}]
    BY <1>6 DEF ApplyRetryPlan, TypeOK, StageStates
  <2> QED BY <1>6, <2>1 DEF ApplyRetryPlan, TypeOK, Unique, lark, process
<1> QED BY <1>1, <1>2, <1>3, <1>4, <1>5, <1>6

\* The rows a group goes on with.
LEMMA ExistingIs ==
  ASSUME NEW g, NEW d
  PROVE  Existing(g, d) \subseteq rows /\ \A q \in Existing(g, d) : q.group = g
BY DEF Existing, Receipts, Exact, Variants

\* Documents a group may go to exist, and the chat may read them.
LEMMA DestinationIs ==
  ASSUME TypeOK, RowsFit, NEW g, NEW d \in Destinations(g)
  PROVE  d \in Places /\ (d # NoDocument => d \in used /\ d \in Readable)
<1>1. CASE target # NoDocument
  BY <1>1, NoDocumentIsNone DEF Destinations, TypeOK, RowsFit, Readable, Places
<1>2. CASE target = NoDocument /\ d \in Continuable(g)
  <2>1. d \in Documents /\ EntriesOf(d, g.day) # {}
    BY <1>2 DEF Continuable
  <2>2. PICK q \in rows : q.state = "success" /\ q.document = d
    BY <2>1 DEF EntriesOf
  <2> QED BY <2>1, <2>2 DEF RowsFit, Places
<1>3. CASE target = NoDocument /\ d \notin Continuable(g)
  BY <1>3 DEF Destinations, Places
<1> QED BY <1>1, <1>2, <1>3

\* A group is skipped, resumed, or gets its row.
LEMMA GroupTypes ==
  ASSUME TypeOK, RowsFit, NEW g \in groups, SkipGroup(g) \/ ResumeReceipt(g) \/ RecordIntent(g)
  PROVE  TypeOK'
<1>1. CASE SkipGroup(g)
  BY <1>1 DEF SkipGroup, TypeOK, Unique, stages, lark
<1>2. CASE ResumeReceipt(g)
  <2>1. row' \in rows /\ UNCHANGED rows /\ attempted' \in BOOLEAN /\ phase' \in Phases
    BY <1>2, ExistingIs DEF ResumeReceipt, Attempted, Phases, TypeOK
  <2> QED BY <1>2, <2>1 DEF ResumeReceipt, TypeOK, Unique, stages, lark
<1>3. CASE RecordIntent(g)
  <2>0. PICK d \in Destinations(g) : \E q \in Fresh(g, d) : rows' = rows \union {q} /\ row' = q
    BY <1>3 DEF RecordIntent
  <2>1. PICK q \in Fresh(g, d) : rows' = rows \union {q} /\ row' = q
    BY <2>0
  <2>2. g \in Groups /\ d \in Places
    BY DestinationIs DEF TypeOK
  <2>3. CASE q \in rows
    <3>1. rows' = rows
      BY <2>1, <2>3
    <3> QED BY <1>3, <2>1, <2>3, <3>1 DEF RecordIntent, Attempted, Phases, TypeOK, Unique, stages, lark
  <2>4. CASE q \notin rows
    <3>1. Existing(g, d) = {} /\ q = Intent(g, d)
      BY <2>4, ExistingIs DEF Fresh
    <3>2. Exact(g, d) = {}
      BY <3>1 DEF Existing
    <3>3. q \in Row /\ q.group = g /\ q.document = d
      BY <2>2, <3>1, IntentIs
    <3>4. \A p \in rows : ~(p.group = q.group /\ p.document = q.document)
      BY <3>2, <3>3 DEF Exact, Variants
    <3>5. rows' \subseteq Row /\ Unique' /\ row' \in rows'
      BY <2>1, <3>3, <3>4 DEF TypeOK, Unique
    <3> QED BY <1>3, <2>1, <3>3, <3>5 DEF RecordIntent, Attempted, Phases, TypeOK, stages, lark
  <2> QED BY <2>3, <2>4
<1> QED BY <1>1, <1>2, <1>3

\* A group fails.
LEMMA FailureTypes ==
  ASSUME TypeOK, RefuseWrite \/ WithoutReceipt \/ VerifyFails \/ ArchiveFails
  PROVE  TypeOK'
<1>1. \E outcome \in {"retry_wait", "blocked"},
         reason \in {"lark_publish_failed", "local_projection_failed"} : FailClaims(Current, outcome, reason)
  BY DEF RefuseWrite, WithoutReceipt, VerifyFails, ArchiveFails
<1>2. UNCHANGED <<target, rows, lark, noticed, archived, attempted>>
  BY DEF RefuseWrite, WithoutReceipt, VerifyFails, ArchiveFails
<1>3. PICK outcome \in {"retry_wait", "blocked"},
           reason \in {"lark_publish_failed", "local_projection_failed"} : FailClaims(Current, outcome, reason)
  BY <1>1
<1>4. /\ stage' \in [Reports -> StageStates]
      /\ code' \in [Reports -> {"", "lark_publish_failed", "local_projection_failed"}]
      /\ cooling' \in SUBSET Reports /\ claims' \in SUBSET Reports /\ groups' \subseteq Groups
      /\ phase' = "groups" /\ row' \in Row /\ sent' \in Places
  BY <1>3, FailTypes
<1> QED BY <1>2, <1>4, SameRows DEF TypeOK, lark, Phases

\* The transaction of one group.
LEMMA WriteTypes ==
  ASSUME TypeOK, RowsFit, PhaseFit,
         \/ MarkInFlight \/ SendBody \/ Rejected \/ RecordRemoteWrite \/ VerifyRemote
         \/ CompletePublication
  PROVE  TypeOK'
<1>0. row \in rows /\ row \in Row /\ row.group.members \subseteq Reports
  BY RowIs DEF TypeOK, MarkInFlight, SendBody, Rejected, RecordRemoteWrite, VerifyRemote,
               CompletePublication
<1>1. CASE MarkInFlight
  <2>1. row' = Marked(row, TRUE) /\ rows' = (rows \ {row}) \union {row'}
    BY <1>1 DEF MarkInFlight, Replace, Store
  <2>2. rows' \subseteq Row /\ Unique' /\ row' \in Row /\ row' \in rows'
    BY <1>0, <2>1, MarkedIs, ReplacedIs
  <2> QED BY <1>1, <2>2 DEF MarkInFlight, TypeOK, stages, lark, Phases
<1>2. CASE SendBody
  <2>1. PICK d \in IF row.document # NoDocument THEN {row.document} ELSE Documents \ used :
          /\ calls' = calls \union {[members |-> Current.members, document |-> d]}
          /\ used' = used \union {d} /\ sent' = d
    BY <1>2 DEF SendBody
  <2>2. d \in Documents
    BY <1>0, <2>1, RowIs DEF Places
  <2>3. calls' \subseteq Call /\ used' \in SUBSET Documents /\ sent' \in Places
    <3>1. calls \subseteq Call /\ used \subseteq Documents
      BY DEF TypeOK
    <3>2. [members |-> Current.members, document |-> d] \in Call
      BY <1>0, <2>2 DEF Call, Current
    <3> QED BY <2>1, <2>2, <3>1, <3>2 DEF Places
  <2>4. /\ UNCHANGED <<target, stage, code, cooling, rows, body, copies, viewable, noticed,
                       archived, claims, groups, attempted, row>>
        /\ phase' \in Phases
    BY <1>2 DEF SendBody, stages, Phases
  <2> QED BY <1>0, <2>3, <2>4, SameRows DEF TypeOK
<1>3. CASE Rejected
  <2>1. /\ calls' \subseteq calls /\ used' \subseteq used
        /\ rows' = (rows \ {row}) \union {Marked(row, FALSE)}
        /\ \E outcome \in {"retry_wait", "blocked"} : FailClaims(Current, outcome, "lark_publish_failed")
    BY <1>3 DEF Rejected, Store
  <2>2. rows' \subseteq Row /\ Unique'
    BY <1>0, <2>1, MarkedIs, ReplacedIs
  <2> QED BY <1>3, <2>1, <2>2, FailTypes DEF Rejected, TypeOK, Phases
<1>4. CASE RecordRemoteWrite
  <2>1. row' = Receipt(row, sent) /\ rows' = (rows \ {row}) \union {row'}
    BY <1>4 DEF RecordRemoteWrite, Replace, Store
  <2>2. sent \in Documents /\ (sent = row.document \/ \A q \in rows : q.document # sent)
    BY <1>4 DEF RecordRemoteWrite, PhaseFit, TypeOK
  <2>3. rows' \subseteq Row /\ Unique' /\ row' \in Row /\ row' \in rows'
    BY <1>0, <2>1, <2>2, ReceiptIs, ReplacedIs
  <2> QED BY <1>4, <2>3 DEF RecordRemoteWrite, TypeOK, stages, lark, Phases
<1>5. CASE VerifyRemote
  <2>1. row.reference \in Documents
    BY <1>0, <1>5, RowIs DEF VerifyRemote, PhaseFit, RowsFit, Places
  <2>2. viewable' \in SUBSET Documents
    BY <1>5, <2>1 DEF VerifyRemote, TypeOK
  <2> QED BY <1>0, <1>5, <2>2 DEF VerifyRemote, TypeOK, Unique, stages, Phases
<1>6. CASE CompletePublication
  <2>1. row' = Succeeded(row) /\ rows' = (rows \ {row}) \union {row'}
    BY <1>6 DEF CompletePublication, Replace, Store, Succeeded
  <2>2. rows' \subseteq Row /\ Unique' /\ row' \in Row /\ row' \in rows'
    BY <1>0, <2>1, SucceededIs, ReplacedIs
  <2> QED BY <1>6, <2>2 DEF CompletePublication, TypeOK, stages, lark, Phases
<1> QED BY <1>1, <1>2, <1>3, <1>4, <1>5, <1>6

\* Lark writes, and the steps after a publication.
LEMMA SettleTypes ==
  ASSUME TypeOK, QueueDocumentNotice \/ ArchiveSidecar \/ GroupDone \/ (\E c \in calls : Land(c))
  PROVE  TypeOK'
<1>1. CASE QueueDocumentNotice \/ ArchiveSidecar
  <2>1. row \in rows /\ Current.members \subseteq Reports
    BY <1>1, RowIs DEF QueueDocumentNotice, ArchiveSidecar, TypeOK, Current
  <2> QED BY <1>1, <2>1 DEF QueueDocumentNotice, ArchiveSidecar, TypeOK, Unique, stages, lark, Phases
<1>2. CASE GroupDone
  <2>1. row' \in Row /\ sent' \in Places
    BY <1>2, NobodyIs, IntentIs DEF GroupDone, Blank, Places
  <2> QED BY <1>2, <2>1 DEF GroupDone, TypeOK, Unique, stages, lark, Phases
<1>3. ASSUME NEW c \in calls, Land(c)
      PROVE  TypeOK'
  <2>1. c.members \in SUBSET Reports /\ c.document \in Documents
    BY DEF TypeOK, Call
  <2>2. body' \in [Documents -> SUBSET Reports]
    BY <1>3, <2>1 DEF Land, TypeOK
  <2>3. copies' \in [Reports -> Nat]
    <3>1. copies \in [Reports -> Nat]
      BY DEF TypeOK
    <3> QED BY <1>3, <3>1 DEF Land
  <2>4. /\ UNCHANGED <<target, stage, code, cooling, rows, used, viewable, noticed,
                       archived, phase, claims, groups, attempted, row, sent>>
        /\ calls' \subseteq Call
    BY <1>3 DEF Land, stages, process, TypeOK
  <2> QED BY <2>2, <2>3, <2>4, SameRows DEF TypeOK
<1> QED BY <1>1, <1>2, <1>3

\* Every step keeps the types.
LEMMA Types ==
  ASSUME IInv, Next
  PROVE  TypeOK'
<1>0. TypeOK /\ RowsFit /\ PhaseFit
  BY DEF IInv
<1>1. ASSUME NEW new \in SUBSET Reports, NEW S \in SUBSET Reports,
             StartRun(new, S) \/ DieWhileClaiming(new, S)
      PROVE  TypeOK'
  BY <1>0, <1>1, BesidesTypes
<1>2. CASE PublishGroup
  BY <1>0, <1>2, GroupTypes, FailureTypes, WriteTypes DEF PublishGroup
<1>3. CASE EndRun \/ Crash \/ (\E r \in Reports : Ripen(r) \/ CompleteStage(r))
           \/ (\E reason \in {"lark_publish_failed", "local_projection_failed"} : ApplyRetryPlan(reason))
  <2>1. {} \in SUBSET Reports
    OBVIOUS
  <2> QED BY <1>0, <1>3, <2>1, BesidesTypes
<1>4. CASE \/ QueueDocumentNotice \/ ArchiveSidecar \/ GroupDone \/ ArchiveFails
           \/ (\E c \in calls : Land(c))
  BY <1>0, <1>4, SettleTypes, FailureTypes
<1> QED BY <1>1, <1>2, <1>3, <1>4 DEF Next, Settle

-----------------------------------------------------------------------------
(* Every step keeps what the rows, the calls and the documents say.        *)

Records == RowsFit /\ OneWritten /\ CopiesFit /\ CallsFit

\* A step that writes neither a row nor to Lark.
LEMMA RecordsKeep ==
  ASSUME Records, UNCHANGED <<rows, lark>>
  PROVE  Records'
BY DEF Records, RowsFit, OneWritten, CopiesFit, CallsFit, Readable, lark

\* What is delivered stays delivered.
LEMMA DeliveredKeeps ==
  ASSUME SettledIsDelivered, RowsFit, rows \subseteq Row,
         \A q \in rows : q.state = "success" => q \in rows',
         \A d \in Documents : body[d] \subseteq body'[d],
         viewable \subseteq viewable', noticed \subseteq noticed', archived \subseteq archived',
         \A r \in Reports : stage'[r] = "succeeded" => stage[r] = "succeeded"
  PROVE  SettledIsDelivered'
<1> SUFFICES ASSUME NEW r \in Reports, stage'[r] = "succeeded"
             PROVE  /\ r \in archived' /\ r \in noticed'
                    /\ \E q \in rows' :
                         /\ q.state = "success" /\ r \in q.group.members
                         /\ r \in body'[q.reference]
                         /\ q.reference \in viewable' \union {UserDocument}
  BY DEF SettledIsDelivered
<1>1. /\ r \in archived /\ r \in noticed
      /\ \E q \in rows :
           /\ q.state = "success" /\ r \in q.group.members
           /\ r \in body[q.reference]
           /\ q.reference \in viewable \union {UserDocument}
  BY DEF SettledIsDelivered
<1>2. PICK q \in rows :
           /\ q.state = "success" /\ r \in q.group.members
           /\ r \in body[q.reference]
           /\ q.reference \in viewable \union {UserDocument}
  BY <1>1
<1>3. q \in rows' /\ q.reference \in Documents
  BY <1>2, RowIs, NoDocumentIsNone DEF RowsFit, Places
<1> QED BY <1>1, <1>2, <1>3

\* A step of the process, of time or of the operator that leaves the records alone.
LEMMA AsideKeeps ==
  ASSUME IInv, UNCHANGED <<rows, lark>>, noticed \subseteq noticed', archived \subseteq archived',
         \A r \in Reports : stage'[r] = "succeeded" => stage[r] = "succeeded"
  PROVE  Records' /\ SettledIsDelivered'
<1>1. Records'
  BY RecordsKeep DEF IInv, Records
<1>2. SettledIsDelivered'
  BY DeliveredKeeps DEF IInv, TypeOK, lark
<1> QED BY <1>1, <1>2

\* A process that has no row knows nothing.
LEMMA NothingInHand ==
  ASSUME phase' \in {"idle", "groups"}
  PROVE  PhaseFit'
BY DEF PhaseFit

Rest == Records /\ PhaseFit /\ SettledIsDelivered

\* A write that fails, or whose check or archiving fails, keeps the invariant.
LEMMA FailureKeeps ==
  ASSUME IInv, RefuseWrite \/ WithoutReceipt \/ VerifyFails \/ ArchiveFails
  PROVE  Rest'
<1>1. PICK outcome \in {"retry_wait", "blocked"},
           reason \in {"lark_publish_failed", "local_projection_failed"} : FailClaims(Current, outcome, reason)
  BY DEF RefuseWrite, WithoutReceipt, VerifyFails, ArchiveFails
<1>2. UNCHANGED <<rows, lark, noticed, archived>>
  BY DEF RefuseWrite, WithoutReceipt, VerifyFails, ArchiveFails
<1>3. phase' = "groups" /\ \A r \in Reports : stage'[r] = "succeeded" => stage[r] = "succeeded"
  BY <1>1, FailTypes DEF IInv
<1> QED BY <1>2, <1>3, AsideKeeps, NothingInHand DEF Rest

\* A run begins, ends or goes on to another group; time; the operator.
LEMMA BesidesKeep ==
  ASSUME IInv,
         \/ \E new \in SUBSET Reports, S \in SUBSET Reports : StartRun(new, S) \/ DieWhileClaiming(new, S)
         \/ EndRun \/ Crash \/ GroupDone
         \/ (\E r \in Reports : Ripen(r))
         \/ (\E g \in groups : SkipGroup(g))
         \/ (\E reason \in {"lark_publish_failed", "local_projection_failed"} : ApplyRetryPlan(reason))
  PROVE  Rest'
<1>1. UNCHANGED <<rows, lark, noticed, archived>>
  BY DEF StartRun, DieWhileClaiming, EndRun, Crash, NoProcess, GroupDone, Ripen, SkipGroup,
         ApplyRetryPlan
<1>2. \A r \in Reports : stage'[r] = "succeeded" => stage[r] = "succeeded"
  BY DEF StartRun, Claimed, DieWhileClaiming, EndRun, Crash, NoProcess, GroupDone, Ripen,
         SkipGroup, ApplyRetryPlan, stages
<1>3. \/ phase' \in {"idle", "groups"}
      \/ UNCHANGED <<phase, row, sent>>
  BY DEF StartRun, DieWhileClaiming, EndRun, Crash, NoProcess, GroupDone, Ripen, SkipGroup,
         ApplyRetryPlan, process
<1>4. PhaseFit'
  <2>1. CASE phase' \in {"idle", "groups"}
    BY <2>1, NothingInHand
  <2>2. CASE UNCHANGED <<phase, row, sent>>
    BY <1>1, <2>2 DEF IInv, PhaseFit, Current, Sent, Readable, lark
  <2> QED BY <1>3, <2>1, <2>2
<1> QED BY <1>1, <1>2, <1>4, AsideKeeps DEF Rest

\* A receipt is found.
LEMMA ResumeKeeps ==
  ASSUME IInv, NEW g \in groups, ResumeReceipt(g)
  PROVE  Rest'
<1>1. /\ row' \in rows /\ row'.state # "intent"
      /\ phase' = IF row'.state = "success" THEN "notice" ELSE "verify"
  BY ExistingIs DEF ResumeReceipt
<1>2. UNCHANGED <<rows, lark, noticed, archived, stage>>
  BY DEF ResumeReceipt, stages
<1>3. row'.state \in {"remote_written", "success"}
  BY <1>1, RowIs DEF IInv, TypeOK, RowStates
<1>4. PhaseFit'
  BY <1>1, <1>3 DEF PhaseFit
<1> QED BY <1>2, <1>4, AsideKeeps DEF Rest

\* A row that nothing was written for is added.
LEMMA IntentKeeps ==
  ASSUME IInv, NEW g \in groups, RecordIntent(g)
  PROVE  Rest'
<1>1. PICK d \in Destinations(g) : \E q \in Fresh(g, d) : rows' = rows \union {q} /\ row' = q
  BY DEF RecordIntent
<1>2. PICK q \in Fresh(g, d) : rows' = rows \union {q} /\ row' = q
  BY <1>1
<1>3. UNCHANGED <<lark, noticed, archived, stage>> /\ phase' = "intent"
  BY DEF RecordIntent, stages
<1>4. RowsFit /\ TypeOK /\ Records /\ SettledIsDelivered
  BY DEF IInv, Records
<1>5. q.state = "intent"
  <2>1. g \in Groups
    BY <1>4 DEF TypeOK
  <2>2. d \in Places
    BY <1>4, DestinationIs
  <2>3. Intent(g, d).state = "intent"
    BY <2>1, <2>2, IntentIs
  <2> QED BY <2>3 DEF Fresh
<1>6. PhaseFit'
  BY <1>2, <1>3, <1>5 DEF PhaseFit
<1>7. CASE q \in rows
  <2>1. UNCHANGED rows
    BY <1>2, <1>7
  <2> QED BY <1>3, <1>6, <2>1, AsideKeeps DEF Rest
<1>8. CASE q \notin rows
  <2>1. q = Intent(g, d)
    BY <1>8, ExistingIs DEF Fresh
  <2>2. /\ q.document = d /\ ~q.inFlight /\ (q.created <=> d = NoDocument) /\ ~Written(q)
        /\ d \in Places /\ (d # NoDocument => d \in used /\ d \in Readable)
    <3>1. g \in Groups
      BY <1>4 DEF TypeOK
    <3>2. d \in Places /\ (d # NoDocument => d \in used /\ d \in Readable)
      BY <1>4, DestinationIs
    <3>3. q.document = d /\ ~q.inFlight /\ (q.created <=> d = NoDocument)
      BY <2>1, <3>1, <3>2, IntentIs
    <3> QED BY <1>5, <3>2, <3>3 DEF Written
  <2>3. RowsFit'
    BY <1>2, <1>3, <1>4, <1>5, <2>2 DEF RowsFit, Readable, lark
  <2>4. OneWritten'
    BY <1>2, <1>4, <2>2 DEF Records, OneWritten
  <2>5. CopiesFit'
    BY <1>2, <1>3, <1>4, <1>5 DEF Records, CopiesFit, lark
  <2>6. CallsFit'
    BY <1>2, <1>3, <1>4 DEF Records, CallsFit, lark
  <2>7. SettledIsDelivered'
    BY <1>2, <1>3, <1>4, DeliveredKeeps DEF lark, TypeOK
  <2> QED BY <1>6, <2>3, <2>4, <2>5, <2>6, <2>7 DEF Rest, Records
<1> QED BY <1>7, <1>8

\* The row is replaced by one for the same members.
LEMMA StoredIs ==
  ASSUME NEW new, rows' = (rows \ {row}) \union {new}
  PROVE  /\ new \in rows' /\ \A q \in rows : q # row => q \in rows'
         /\ \A q \in rows' : q = new \/ (q \in rows /\ q # row)
OBVIOUS

\* The marker is set: no row that may have led to a write has a report of the group.
LEMMA MarkKeeps ==
  ASSUME IInv, MarkInFlight
  PROVE  Rest'
<1> DEFINE new == Marked(row, TRUE)
<1>1. /\ TypeOK /\ RowsFit /\ OneWritten /\ CopiesFit /\ CallsFit /\ PhaseFit /\ SettledIsDelivered
      /\ row \in rows /\ row \in Row
  BY DEF IInv, MarkInFlight, TypeOK
<1>2. /\ new.group = row.group /\ new.document = row.document /\ new.state = row.state
      /\ new.created = row.created /\ new.inFlight
  BY <1>1, MarkedIs
<1>3. rows' = (rows \ {row}) \union {new} /\ row' = new /\ phase' = "marked"
  BY DEF MarkInFlight, Replace, Store
<1>4. UNCHANGED <<stage, noticed, archived, calls, used, body, copies, viewable>>
  BY DEF MarkInFlight, stages, lark
<1>5. row.state = "intent" /\ ~row.inFlight
  BY <1>1 DEF MarkInFlight, PhaseFit
<1>6. \A q \in rows : Written(q) => q.group.members \intersect row.group.members = {}
  BY DEF MarkInFlight, Touched, Current, Written
<1>7. new \in rows' /\ (\A q \in rows : q # row => q \in rows')
      /\ \A q \in rows' : q = new \/ (q \in rows /\ q # row)
  BY <1>3, StoredIs
<1> HIDE DEF new
<1>8. RowsFit'
  BY <1>1, <1>2, <1>4, <1>5, <1>7 DEF RowsFit, Readable
<1>9. OneWritten'
  BY <1>1, <1>2, <1>6, <1>7 DEF OneWritten
<1>10. CopiesFit'
  BY <1>1, <1>2, <1>4, <1>5, <1>7 DEF CopiesFit, Written
<1>11. CallsFit'
  BY <1>1, <1>4, <1>5, <1>7 DEF CallsFit
<1>12. PhaseFit'
  <2>1. row.group.members \subseteq Reports
    BY <1>1, RowIs
  <2>2. \A r \in row.group.members : copies[r] = 0
    BY <1>1, <1>6, <2>1 DEF CopiesFit
  <2>3. \A r \in row.group.members : \A c \in calls : r \notin c.members
    BY <1>1, <1>6 DEF CallsFit, Written
  <2> QED BY <1>2, <1>3, <1>4, <1>5, <2>2, <2>3 DEF PhaseFit, Current
<1>13. SettledIsDelivered'
  BY <1>1, <1>4, <1>5, <1>7, DeliveredKeeps DEF TypeOK
<1> QED BY <1>8, <1>9, <1>10, <1>11, <1>12, <1>13 DEF Rest, Records

\* The body is sent: no other call has a report of the group.
LEMMA SendKeeps ==
  ASSUME IInv, SendBody
  PROVE  Rest'
<1>1. /\ TypeOK /\ RowsFit /\ OneWritten /\ CopiesFit /\ CallsFit /\ PhaseFit /\ SettledIsDelivered
      /\ row \in rows /\ row \in Row /\ phase = "marked"
  BY DEF IInv, SendBody, TypeOK
<1>2. PICK d \in IF row.document # NoDocument THEN {row.document} ELSE Documents \ used :
          /\ calls' = calls \union {[members |-> Current.members, document |-> d]}
          /\ used' = used \union {d} /\ sent' = d
  BY DEF SendBody
<1>3. UNCHANGED <<stage, rows, row, noticed, archived, body, copies, viewable>> /\ phase' = "sent"
  BY DEF SendBody, stages
<1>4. /\ row.state = "intent" /\ row.inFlight
      /\ \A r \in Current.members : copies[r] = 0 /\ \A c \in calls : r \notin c.members
  BY <1>1 DEF PhaseFit
<1>5. RowsFit'
  BY <1>1, <1>2, <1>3 DEF RowsFit, Readable
<1>6. OneWritten' /\ CopiesFit'
  BY <1>1, <1>3 DEF OneWritten, CopiesFit
<1>7. CallsFit'
  <2> DEFINE new == [members |-> Current.members, document |-> d]
  <2>1. new.members = row.group.members /\ calls' = calls \union {new}
    BY <1>2 DEF Current
  <2>2. \A r \in new.members : copies[r] = 0 /\ \A c \in calls : r \notin c.members
    BY <1>4
  <2> HIDE DEF new
  <2> QED BY <1>1, <1>3, <1>4, <2>1, <2>2 DEF CallsFit
<1>8. PhaseFit'
  <2>1. Sent' = [members |-> Current.members, document |-> d]
    BY <1>2, <1>3 DEF Sent, Current
  <2>2. \A r \in Current'.members : \A c \in calls' : r \in c.members => c = Sent'
    BY <1>2, <1>3, <1>4, <2>1 DEF Current
  <2>3. IF row.document = NoDocument
        THEN d # UserDocument /\ \A q \in rows : q.document # d
        ELSE d = row.document
    BY <1>1, <1>2, NoDocumentIsNone DEF RowsFit
  <2>4. sent' \in used'
    BY <1>2
  <2> QED BY <1>2, <1>3, <1>4, <2>2, <2>3, <2>4 DEF PhaseFit
<1>9. SettledIsDelivered'
  BY <1>1, <1>3, DeliveredKeeps DEF TypeOK
<1> QED BY <1>5, <1>6, <1>7, <1>8, <1>9 DEF Rest, Records

\* Lark writes what was sent: the only write of these reports.
LEMMA LandKeeps ==
  ASSUME IInv, NEW c \in calls, Land(c)
  PROVE  Rest'
<1>1. /\ TypeOK /\ RowsFit /\ OneWritten /\ CopiesFit /\ CallsFit /\ PhaseFit /\ SettledIsDelivered
      /\ c.members \subseteq Reports /\ c.document \in Documents
  BY DEF IInv, TypeOK, Call
<1>2. /\ calls' = calls \ {c}
      /\ body' = [body EXCEPT ![c.document] = @ \union c.members]
      /\ copies' = [r \in Reports |-> IF r \in c.members THEN copies[r] + 1 ELSE copies[r]]
  BY DEF Land
<1>3. UNCHANGED <<stage, rows, row, sent, phase, noticed, archived, used, viewable>>
  BY DEF Land, stages, process
<1>4. \A d \in Documents : body[d] \subseteq body'[d] /\ body'[d] \subseteq body[d] \union c.members
  BY <1>1, <1>2 DEF TypeOK
<1>5. /\ \A r \in c.members : copies[r] = 0 /\ copies'[r] = 1
      /\ \A r \in Reports \ c.members : copies'[r] = copies[r]
  BY <1>1, <1>2 DEF CallsFit
<1>6. \A q \in rows : q.state # "intent" => q.reference \in Documents
  BY <1>1, RowIs, NoDocumentIsNone DEF RowsFit, TypeOK, Places
<1>7. RowsFit' /\ OneWritten'
  BY <1>1, <1>3 DEF RowsFit, OneWritten, Readable
<1>8. CopiesFit'
  <2> SUFFICES ASSUME NEW r \in Reports
               PROVE  /\ copies'[r] \in {0, 1}
                      /\ \A d \in Documents : r \in body'[d] => copies'[r] = 1
                      /\ copies'[r] = 1 => \E q \in rows : Written(q) /\ r \in q.group.members
                      /\ \A q \in rows : q.state # "intent" /\ r \in q.group.members =>
                           copies'[r] = 1 /\ r \in body'[q.reference]
    BY <1>3 DEF CopiesFit, Written
  <2>1. CASE r \in c.members
    <3>1. \E q \in rows : q.inFlight /\ q.group.members = c.members
      BY <1>1, <2>1 DEF CallsFit
    <3>2. \E q \in rows : Written(q) /\ r \in q.group.members
      BY <2>1, <3>1 DEF Written
    <3>3. \A q \in rows : ~(q.state # "intent" /\ r \in q.group.members)
      BY <1>1, <1>5, <2>1 DEF CopiesFit
    <3> QED BY <1>5, <2>1, <3>2, <3>3
  <2>2. CASE r \notin c.members
    <3>1. copies'[r] = copies[r] /\ \A d \in Documents : r \in body'[d] <=> r \in body[d]
      BY <1>4, <1>5, <2>2
    <3> QED BY <1>1, <1>6, <3>1 DEF CopiesFit
  <2> QED BY <2>1, <2>2
<1>9. CallsFit'
  <2> SUFFICES ASSUME NEW e \in calls', NEW r \in e.members
               PROVE  /\ copies'[r] = 0
                      /\ \E q \in rows : q.inFlight /\ q.group.members = e.members
                      /\ \A f \in calls' : r \in f.members => f = e
    BY <1>3 DEF CallsFit
  <2>1. e \in calls /\ e # c /\ r \in Reports
    BY <1>1, <1>2 DEF TypeOK, Call
  <2>2. r \notin c.members
    BY <1>1, <2>1 DEF CallsFit
  <2>3. copies'[r] = copies[r]
    BY <1>5, <2>1, <2>2
  <2> QED BY <1>1, <1>2, <2>1, <2>3 DEF CallsFit
<1>10. PhaseFit'
  <2>1. phase = "marked" => \A r \in Current.members : copies'[r] = 0
    <3> SUFFICES ASSUME phase = "marked", NEW r \in Current.members
                 PROVE  copies'[r] = 0
      OBVIOUS
    <3>1. r \in Reports \ c.members /\ copies[r] = 0
      BY <1>1, RowIs DEF PhaseFit, TypeOK, Current
    <3> QED BY <1>5, <3>1
  <2>2. Current' = Current /\ Sent' = Sent /\ calls' \subseteq calls
    BY <1>2, <1>3 DEF Current, Sent
  <2> QED BY <1>1, <1>3, <2>1, <2>2 DEF PhaseFit, Readable
<1>11. SettledIsDelivered'
  BY <1>1, <1>3, <1>4, DeliveredKeeps DEF TypeOK
<1> QED BY <1>7, <1>8, <1>9, <1>10, <1>11 DEF Rest, Records

\* Lark refuses: nothing was written, and no row has the document that was asked for.
LEMMA RejectedKeeps ==
  ASSUME IInv, Rejected
  PROVE  Rest'
<1> DEFINE new == Marked(row, FALSE)
<1>1. /\ TypeOK /\ RowsFit /\ OneWritten /\ CopiesFit /\ CallsFit /\ PhaseFit /\ SettledIsDelivered
      /\ row \in rows /\ row \in Row /\ phase = "sent"
  BY DEF IInv, Rejected, TypeOK
<1>2. /\ new.group = row.group /\ new.document = row.document /\ new.state = row.state
      /\ new.created = row.created /\ ~new.inFlight
  BY <1>1, MarkedIs
<1>3. /\ rows' = (rows \ {row}) \union {new}
      /\ Sent \in calls /\ calls' = calls \ {Sent}
      /\ used' = IF row.document = NoDocument THEN used \ {sent} ELSE used
      /\ UNCHANGED <<body, copies, viewable, noticed, archived>>
  BY DEF Rejected, Store, Sent
<1>4. PICK outcome \in {"retry_wait", "blocked"} : FailClaims(Current, outcome, "lark_publish_failed")
  BY DEF Rejected
<1>5. phase' = "groups" /\ \A r \in Reports : stage'[r] = "succeeded" => stage[r] = "succeeded"
  BY <1>1, <1>4, FailTypes
<1>6. row.state = "intent" /\ row.inFlight
  BY <1>1 DEF PhaseFit
<1>7. new \in rows' /\ (\A q \in rows : q # row => q \in rows')
      /\ \A q \in rows' : q = new \/ (q \in rows /\ q # row)
  BY <1>3, StoredIs
<1> HIDE DEF new
<1>8. RowsFit'
  <2>1. UserDocument \in used' /\ \A q \in rows : q.document \in used' \union {NoDocument}
    BY <1>1, <1>3 DEF RowsFit, PhaseFit
  <2> QED BY <1>1, <1>2, <1>3, <1>6, <1>7, <2>1 DEF RowsFit, Readable
<1>9. OneWritten'
  BY <1>1, <1>2, <1>6, <1>7 DEF OneWritten, Written
<1>10. CopiesFit'
  <2>1. \A r \in row.group.members : copies[r] = 0
    BY <1>1, <1>3 DEF CallsFit, Sent, Current
  <2>2. \A r \in Reports : copies[r] = 1 => \E q \in rows' : Written(q) /\ r \in q.group.members
    BY <1>1, <1>7, <2>1 DEF CopiesFit
  <2> QED BY <1>1, <1>2, <1>3, <1>6, <1>7, <2>2 DEF CopiesFit, Written
<1>11. CallsFit'
  <2> SUFFICES ASSUME NEW e \in calls', NEW r \in e.members
               PROVE  /\ copies[r] = 0
                      /\ \E q \in rows' : q.inFlight /\ q.group.members = e.members
                      /\ \A f \in calls' : r \in f.members => f = e
    BY <1>3 DEF CallsFit
  <2>1. e \in calls /\ e # Sent
    BY <1>3
  <2>2. r \notin row.group.members
    BY <1>1, <2>1 DEF PhaseFit, Current
  <2>3. PICK q \in rows : q.inFlight /\ q.group.members = e.members
    BY <1>1, <2>1 DEF CallsFit
  <2>4. q \in rows'
    BY <1>7, <2>2, <2>3
  <2> QED BY <1>1, <1>3, <2>1, <2>3, <2>4 DEF CallsFit
<1>12. SettledIsDelivered'
  BY <1>1, <1>3, <1>5, <1>6, <1>7, DeliveredKeeps DEF TypeOK
<1> QED BY <1>5, <1>8, <1>9, <1>10, <1>11, <1>12, NothingInHand DEF Rest, Records

\* Lark answered with the document in which the text of the group stands.
LEMMA ReceiptKeeps ==
  ASSUME IInv, RecordRemoteWrite
  PROVE  Rest'
<1> DEFINE new == Receipt(row, sent)
<1>1. /\ TypeOK /\ RowsFit /\ OneWritten /\ CopiesFit /\ CallsFit /\ PhaseFit /\ SettledIsDelivered
      /\ row \in rows /\ row \in Row /\ phase = "sent"
  BY DEF IInv, RecordRemoteWrite, TypeOK
<1>2. sent \in Documents /\ sent \in used
  BY <1>1 DEF PhaseFit, TypeOK
<1>3. /\ new.group = row.group /\ new.document = sent /\ new.reference = sent
      /\ new.state = "remote_written" /\ (new.created <=> row.document = NoDocument) /\ ~new.inFlight
  BY <1>1, <1>2, ReceiptIs
<1>4. rows' = (rows \ {row}) \union {new} /\ row' = new /\ phase' = "verify"
  BY DEF RecordRemoteWrite, Replace, Store
<1>5. UNCHANGED <<stage, noticed, archived, calls, used, body, copies, viewable>>
  BY DEF RecordRemoteWrite, stages, lark
<1>6. row.state = "intent" /\ row.inFlight /\ Written(row)
  BY <1>1 DEF PhaseFit, Written
<1>7. new \in rows' /\ (\A q \in rows : q # row => q \in rows')
      /\ \A q \in rows' : q = new \/ (q \in rows /\ q # row)
  BY <1>4, StoredIs
<1> HIDE DEF new
<1>8. row.group.members \subseteq Reports
  BY <1>1, RowIs
<1>9. \A r \in row.group.members : r \in body[sent] /\ copies[r] = 1
  BY <1>1, <1>2, <1>8 DEF RecordRemoteWrite, CopiesFit, Current
<1>10. RowsFit'
  <2>1. new.created \/ new.document \in Readable
    BY <1>1, <1>3, <1>6 DEF RowsFit, PhaseFit
  <2> QED BY <1>1, <1>2, <1>3, <1>5, <1>7, <2>1, NoDocumentIsNone DEF RowsFit, Readable
<1>11. OneWritten'
  BY <1>1, <1>3, <1>6, <1>7 DEF OneWritten
<1>12. CopiesFit'
  <2>1. Written(new)
    BY <1>3 DEF Written
  <2>2. \A r \in Reports : copies[r] = 1 => \E q \in rows' : Written(q) /\ r \in q.group.members
    BY <1>1, <1>3, <1>7, <2>1 DEF CopiesFit
  <2> QED BY <1>1, <1>3, <1>5, <1>7, <1>9, <2>2 DEF CopiesFit, Written
<1>13. CallsFit'
  <2> SUFFICES ASSUME NEW e \in calls, NEW r \in e.members
               PROVE  /\ copies[r] = 0
                      /\ \E q \in rows' : q.inFlight /\ q.group.members = e.members
                      /\ \A f \in calls : r \in f.members => f = e
    BY <1>5 DEF CallsFit
  <2>1. r \notin row.group.members
    BY <1>1, <1>9 DEF CallsFit
  <2> QED BY <1>1, <1>7, <2>1 DEF CallsFit
<1>14. PhaseFit'
  BY <1>3, <1>4 DEF PhaseFit
<1>15. SettledIsDelivered'
  BY <1>1, <1>5, <1>6, <1>7, DeliveredKeeps DEF TypeOK
<1> QED BY <1>10, <1>11, <1>12, <1>13, <1>14, <1>15 DEF Rest, Records

\* The chat may read the document of a verified row.
LEMMA VerifyKeeps ==
  ASSUME IInv, VerifyRemote
  PROVE  Rest'
<1>1. /\ TypeOK /\ RowsFit /\ OneWritten /\ CopiesFit /\ CallsFit /\ PhaseFit /\ SettledIsDelivered
      /\ row \in rows /\ row.state = "remote_written"
  BY DEF IInv, VerifyRemote, PhaseFit, TypeOK
<1>2. viewable' = (IF row.created THEN viewable \union {row.reference} ELSE viewable) /\ phase' = "granted"
  BY DEF VerifyRemote
<1>3. UNCHANGED <<stage, rows, row, noticed, archived, calls, used, body, copies>>
  BY DEF VerifyRemote, stages
<1>4. Readable \subseteq Readable' /\ viewable \subseteq viewable'
  BY <1>2 DEF Readable
<1>5. row.document \in Readable'
  BY <1>1, <1>2, <1>4 DEF RowsFit, Readable
<1>6. RowsFit'
  BY <1>1, <1>3, <1>4 DEF RowsFit
<1>7. OneWritten' /\ CopiesFit' /\ CallsFit'
  BY <1>1, <1>3 DEF OneWritten, CopiesFit, CallsFit
<1>8. PhaseFit'
  BY <1>1, <1>2, <1>3, <1>5 DEF PhaseFit
<1>9. SettledIsDelivered'
  BY <1>1, <1>3, <1>4, DeliveredKeeps DEF TypeOK
<1> QED BY <1>6, <1>7, <1>8, <1>9 DEF Rest, Records

\* The verified row becomes a success.
LEMMA CompleteKeeps ==
  ASSUME IInv, CompletePublication
  PROVE  Rest'
<1> DEFINE new == Succeeded(row)
<1>1. /\ TypeOK /\ RowsFit /\ OneWritten /\ CopiesFit /\ CallsFit /\ PhaseFit /\ SettledIsDelivered
      /\ row \in rows /\ row \in Row
      /\ row.state = "remote_written" /\ row.document \in Readable
  BY DEF IInv, CompletePublication, PhaseFit, TypeOK
<1>2. /\ new.group = row.group /\ new.document = row.document /\ new.reference = row.reference
      /\ new.state = "success" /\ new.created = row.created /\ new.inFlight = row.inFlight
  BY <1>1, SucceededIs
<1>3. rows' = (rows \ {row}) \union {new} /\ row' = new /\ phase' = "notice"
  BY DEF CompletePublication, Replace, Store, Succeeded
<1>4. UNCHANGED <<stage, noticed, archived, calls, used, body, copies, viewable>>
  BY DEF CompletePublication, stages, lark
<1>5. new \in rows' /\ (\A q \in rows : q # row => q \in rows')
      /\ \A q \in rows' : q = new \/ (q \in rows /\ q # row)
  BY <1>3, StoredIs
<1> HIDE DEF new
<1>6. RowsFit'
  BY <1>1, <1>2, <1>4, <1>5 DEF RowsFit, Readable
<1>7. OneWritten'
  BY <1>1, <1>2, <1>5 DEF OneWritten, Written
<1>8. CopiesFit'
  <2>1. \A r \in Reports : copies[r] = 1 => \E q \in rows' : Written(q) /\ r \in q.group.members
    BY <1>1, <1>2, <1>5 DEF CopiesFit, Written
  <2> QED BY <1>1, <1>2, <1>4, <1>5, <2>1 DEF CopiesFit, Written
<1>9. CallsFit'
  BY <1>1, <1>2, <1>4, <1>5 DEF CallsFit
<1>10. PhaseFit'
  BY <1>2, <1>3 DEF PhaseFit
<1>11. SettledIsDelivered'
  BY <1>1, <1>4, <1>5, DeliveredKeeps DEF TypeOK
<1> QED BY <1>6, <1>7, <1>8, <1>9, <1>10, <1>11 DEF Rest, Records

\* The notice is queued, the local projection is made.
LEMMA ProjectionKeeps ==
  ASSUME IInv, QueueDocumentNotice \/ ArchiveSidecar
  PROVE  Rest'
<1>1. PhaseFit /\ UNCHANGED <<rows, lark, stage, row>>
  BY DEF QueueDocumentNotice, ArchiveSidecar, stages, IInv
<1>2. noticed \subseteq noticed' /\ archived \subseteq archived'
  BY DEF QueueDocumentNotice, ArchiveSidecar
<1>3. PhaseFit'
  BY <1>1 DEF QueueDocumentNotice, ArchiveSidecar, PhaseFit, Current
<1> QED BY <1>1, <1>2, <1>3, AsideKeeps DEF Rest

\* A stage is settled: its report is in the success row of the group.
LEMMA CompleteStageKeeps ==
  ASSUME IInv, NEW r \in Reports, CompleteStage(r)
  PROVE  Rest'
<1>1. /\ TypeOK /\ RowsFit /\ CopiesFit /\ PhaseFit /\ SettledIsDelivered /\ Records
      /\ row \in rows /\ row.state = "success"
  BY DEF IInv, Records, CompleteStage, PhaseFit, TypeOK
<1>2. UNCHANGED <<rows, lark, noticed, archived, phase, row, sent>>
  BY DEF CompleteStage
<1>3. r \in row.group.members /\ r \in noticed /\ r \in archived
  BY <1>1 DEF CompleteStage, Owned, Current, PhaseFit
<1>4. r \in body[row.reference] /\ row.reference \in viewable \union {UserDocument}
  BY <1>1, <1>3 DEF CopiesFit, RowsFit, Readable
<1>5. SettledIsDelivered'
  <2> SUFFICES ASSUME NEW s \in Reports, stage'[s] = "succeeded"
               PROVE  /\ s \in archived /\ s \in noticed
                      /\ \E q \in rows :
                           /\ q.state = "success" /\ s \in q.group.members
                           /\ s \in body[q.reference]
                           /\ q.reference \in viewable \union {UserDocument}
    BY <1>2 DEF SettledIsDelivered, lark
  <2>1. CASE s = r
    BY <1>1, <1>3, <1>4, <2>1
  <2>2. CASE s # r
    <3>1. stage[s] = "succeeded"
      BY <2>2 DEF CompleteStage, TypeOK, IInv
    <3> QED BY <1>1, <3>1 DEF SettledIsDelivered
  <2> QED BY <2>1, <2>2
<1>6. PhaseFit'
  BY <1>1, <1>2 DEF PhaseFit, Current, Sent, Readable, lark
<1>7. Records'
  BY <1>1, <1>2, RecordsKeep
<1> QED BY <1>5, <1>6, <1>7 DEF Rest

-----------------------------------------------------------------------------
(* The theorems.                                                           *)

\* The invariant holds at first: nothing was summarised.
THEOREM Initial == Init => IInv
<1> SUFFICES ASSUME Init PROVE IInv
  OBVIOUS
<1>1. TypeOK
  <2>1. row \in Row /\ sent \in Places
    BY NobodyIs, IntentIs DEF Init, Places
  <2>2. rows \subseteq Row /\ Unique /\ phase = "idle" /\ phase \in Phases
    BY DEF Init, Unique, Phases
  <2>3. /\ target \in {NoDocument, UserDocument}
        /\ stage \in [Reports -> StageStates]
        /\ code \in [Reports -> {"", "lark_publish_failed", "local_projection_failed"}]
    BY DEF Init, StageStates
  <2>4. /\ calls \subseteq Call /\ used \in SUBSET Documents
        /\ body \in [Documents -> SUBSET Reports] /\ copies \in [Reports -> Nat]
    BY NoDocumentIsNone DEF Init
  <2>5. /\ cooling \in SUBSET Reports /\ viewable \in SUBSET Documents /\ noticed \in SUBSET Reports
        /\ archived \in SUBSET Reports /\ claims \in SUBSET Reports /\ groups \subseteq Groups
    BY DEF Init
  <2>6. attempted \in BOOLEAN
    BY DEF Init
  <2> QED BY <2>1, <2>2, <2>3, <2>4, <2>5, <2>6 DEF TypeOK
<1>2. Rest
  <2>1. RowsFit /\ OneWritten /\ CallsFit
    BY DEF Init, RowsFit, OneWritten, CallsFit
  <2>2. CopiesFit
    <3>1. (\A r \in Reports : copies[r] = 0) /\ (\A d \in Documents : body[d] = {}) /\ rows = {}
      BY DEF Init
    <3> QED BY <3>1 DEF CopiesFit
  <2>3. PhaseFit
    BY DEF Init, PhaseFit
  <2>4. SettledIsDelivered
    BY DEF Init, SettledIsDelivered
  <2> QED BY <2>1, <2>2, <2>3, <2>4 DEF Rest, Records
<1> QED BY <1>1, <1>2 DEF IInv, Rest, Records

\* Every step of the run, of Lark, of time and of the operator keeps it.
THEOREM Inductive == IInv /\ [Next]_vars => IInv'
<1> SUFFICES ASSUME IInv, [Next]_vars PROVE IInv'
  OBVIOUS
<1>1. CASE Next
  <2>1. TypeOK'
    BY <1>1, Types
  <2>2. Rest'
    <3>1. ASSUME NEW new \in SUBSET Reports, NEW S \in SUBSET Reports,
                 StartRun(new, S) \/ DieWhileClaiming(new, S)
          PROVE  Rest'
      BY <3>1, BesidesKeep
    <3>2. CASE PublishGroup
      BY <3>2, BesidesKeep, ResumeKeeps, IntentKeeps, FailureKeeps, MarkKeeps, SendKeeps, RejectedKeeps,
         ReceiptKeeps, VerifyKeeps, CompleteKeeps DEF PublishGroup
    <3>3. CASE Settle
      BY <3>3, BesidesKeep, FailureKeeps, ProjectionKeeps, CompleteStageKeeps DEF Settle
    <3>4. CASE \E c \in calls : Land(c)
      BY <3>4, LandKeeps
    <3>5. CASE Crash \/ (\E r \in Reports : Ripen(r))
               \/ (\E reason \in {"lark_publish_failed", "local_projection_failed"} : ApplyRetryPlan(reason))
      BY <3>5, BesidesKeep
    <3> QED BY <1>1, <3>1, <3>2, <3>3, <3>4, <3>5 DEF Next
  <2> QED BY <2>1, <2>2 DEF IInv, Rest, Records
<1>2. CASE UNCHANGED vars
  <2>1. UNCHANGED <<rows, lark, noticed, archived, stage, phase, row, sent>>
    BY <1>2 DEF vars, stages, process
  <2>2. TypeOK'
    BY <1>2, SameRows DEF IInv, TypeOK, vars, stages, lark, process
  <2>3. PhaseFit'
    BY <2>1 DEF IInv, PhaseFit, Current, Sent, Readable, lark
  <2>4. Records' /\ SettledIsDelivered'
    BY <2>1, AsideKeeps
  <2> QED BY <2>2, <2>3, <2>4 DEF IInv, Records
<1> QED BY <1>1, <1>2

\* In every run the invariant holds.
THEOREM InvariantHolds == Spec => []IInv
<1>1. Init => IInv
  BY Initial
<1>2. IInv /\ [Next]_vars => IInv'
  BY Inductive
<1> QED BY <1>1, <1>2, PTL DEF Spec

\* The rows of publications stay unique for a group and a target document, and
\* every variable keeps its type.
THEOREM TypeCorrect == Spec => []TypeOK
<1>1. IInv => TypeOK
  BY DEF IInv
<1> QED BY <1>1, InvariantHolds, PTL

\* Whenever a PUBLISH stage is settled the text of its report stands in a document
\* the chat may read, and its notice and local projection were made before
\* (process._publish, publish_group).
THEOREM SettledAreDelivered == Spec => []SettledIsDelivered
<1>1. IInv => SettledIsDelivered
  BY DEF IInv
<1> QED BY <1>1, InvariantHolds, PTL

-----------------------------------------------------------------------------
(* The rows implement the contract of every single report.                 *)

\* The rows of a report that may have led to a write decide what is known of it.
WrittenOf(R, r) == {q \in R : Written(q) /\ r \in q.group.members}

\* What is known of a report is what the written rows that hold it say.
LEMMA KnowledgeIs ==
  ASSUME TypeOK, NEW r
  PROVE  Knowledge(r) = IF \E q \in WrittenOf(rows, r) : q.state = "success" THEN "published"
                        ELSE IF \E q \in WrittenOf(rows, r) : q.state = "remote_written" THEN "written"
                        ELSE IF WrittenOf(rows, r) # {} THEN "uncertain" ELSE "unsent"
<1>1. \A q \in rows : q.state \in RowStates
  BY RowIs DEF TypeOK
<1> QED BY <1>1 DEF Knowledge, WrittenOf, Written, RowStates

\* The same after a step.
LEMMA KnowledgeIsNext ==
  ASSUME TypeOK', NEW r
  PROVE  Knowledge(r)' = IF \E q \in WrittenOf(rows', r) : q.state = "success" THEN "published"
                         ELSE IF \E q \in WrittenOf(rows', r) : q.state = "remote_written" THEN "written"
                         ELSE IF WrittenOf(rows', r) # {} THEN "uncertain" ELSE "unsent"
<1>1. \A q \in rows' : q.state \in RowStates
  BY RowIs DEF TypeOK
<1> QED BY <1>1 DEF Knowledge, WrittenOf, Written, RowStates

\* A step that changes no row that may have led to a write shows only in the copies.
LEMMA SameKnowledge ==
  ASSUME TypeOK, TypeOK', \A r \in Reports : WrittenOf(rows', r) = WrittenOf(rows, r)
  PROVE  [r \in Reports |-> Knowledge(r)]' = [r \in Reports |-> Knowledge(r)]
<1>1. \A r \in Reports : Knowledge(r)' = Knowledge(r)
  BY KnowledgeIs, KnowledgeIsNext
<1> QED BY <1>1

\* A step that replaces the row by one of the same group shows for its members only.
LEMMA GroupBecomes ==
  ASSUME TypeOK, TypeOK', row \in rows, NEW new, new.group = row.group,
         rows' = (rows \ {row}) \union {new}, NEW from, NEW to,
         \A r \in row.group.members : Knowledge(r) = from /\ Knowledge(r)' = to
  PROVE  Delivery!Becomes(row.group.members, from, to)
<1>1. \A r \in Reports \ row.group.members : WrittenOf(rows', r) = WrittenOf(rows, r)
  BY DEF WrittenOf
<1>2. \A r \in Reports \ row.group.members : Knowledge(r)' = Knowledge(r)
  BY <1>1, KnowledgeIs, KnowledgeIsNext
<1>3. row.group.members \subseteq Reports
  BY RowIs DEF TypeOK
<1> QED BY <1>2, <1>3 DEF Delivery!Becomes

\* Every step of the runs, of Lark, of time and of the operator is a step of the
\* contract of the reports it touches, or does not show there: in particular a
\* body is never written twice, whatever regrouping, crash or late call.
THEOREM RefinesDelivery == Spec => ImplementsDelivery
<1>1. Init => Delivery!Init
  <2> SUFFICES ASSUME Init PROVE Delivery!Init
    OBVIOUS
  <2>1. \A r \in Reports : Knowledge(r) = "unsent"
    BY DEF Init, Knowledge
  <2> QED BY <2>1 DEF Init, Delivery!Init
<1>2. IInv /\ IInv' /\ [Next]_vars => [Delivery!Next]_(Delivery!vars)
  <2> SUFFICES ASSUME IInv, IInv', [Next]_vars PROVE [Delivery!Next]_(Delivery!vars)
    OBVIOUS
  <2>0. /\ TypeOK /\ RowsFit /\ OneWritten /\ CopiesFit /\ CallsFit /\ PhaseFit /\ TypeOK'
        /\ row \in Row /\ row.group.members \subseteq Reports
    BY RowIs DEF IInv, TypeOK
  <2>1. ASSUME UNCHANGED <<rows, copies>>
        PROVE  UNCHANGED Delivery!vars
    BY <2>0, <2>1, SameKnowledge DEF Delivery!vars
  <2>2. ASSUME NEW g \in groups, RecordIntent(g)
        PROVE  UNCHANGED Delivery!vars
    <3>1. PICK d \in Destinations(g) : \E q \in Fresh(g, d) : rows' = rows \union {q}
      BY <2>2 DEF RecordIntent
    <3>2. PICK q \in Fresh(g, d) : rows' = rows \union {q}
      BY <3>1
    <3>3. q \in rows \/ ~Written(q)
      <4>1. g \in Groups
        BY <2>0 DEF TypeOK
      <4>2. d \in Places
        BY <2>0, DestinationIs
      <4>3. ~Written(Intent(g, d))
        BY <4>1, <4>2, IntentIs DEF Written
      <4> QED BY <4>3, ExistingIs DEF Fresh
    <3>4. \A r \in Reports : WrittenOf(rows', r) = WrittenOf(rows, r)
      BY <3>2, <3>3 DEF WrittenOf
    <3>5. copies' = copies
      BY <2>2 DEF RecordIntent, lark
    <3> QED BY <2>0, <3>4, <3>5, SameKnowledge DEF Delivery!vars
  <2>3. ASSUME row \in rows, Written(row), NEW r \in row.group.members
        PROVE  WrittenOf(rows, r) = {row}
    BY <2>0, <2>3 DEF WrittenOf, OneWritten
  <2>4. ASSUME row \in rows, NEW new, new.group = row.group, rows' = (rows \ {row}) \union {new},
               NEW r \in row.group.members, WrittenOf(rows, r) \subseteq {row}
        PROVE  WrittenOf(rows', r) = IF Written(new) THEN {new} ELSE {}
    BY <2>4 DEF WrittenOf
  <2>5. CASE MarkInFlight
    <3> DEFINE new == Marked(row, TRUE)
    <3>1. row \in rows /\ rows' = (rows \ {row}) \union {new} /\ copies' = copies
      BY <2>0, <2>5 DEF MarkInFlight, Replace, Store, TypeOK, lark
    <3>2. row.state = "intent"
      BY <2>0, <2>5 DEF MarkInFlight, PhaseFit
    <3>3. new.group = row.group /\ Written(new) /\ new.state = "intent"
      BY <2>0, <3>2, MarkedIs DEF Written
    <3> HIDE DEF new
    <3>4. \A r \in row.group.members : WrittenOf(rows, r) = {}
      BY <2>5 DEF MarkInFlight, Touched, Current, Written, WrittenOf
    <3>5. \A r \in row.group.members : WrittenOf(rows', r) = {new}
      BY <2>4, <3>1, <3>3, <3>4
    <3>6. \A r \in row.group.members : Knowledge(r) = "unsent" /\ Knowledge(r)' = "uncertain"
      BY <2>0, <3>3, <3>4, <3>5, KnowledgeIs, KnowledgeIsNext
    <3>7. Delivery!Announce(row.group.members)
      BY <2>0, <3>1, <3>3, <3>6, GroupBecomes DEF Delivery!Announce
    <3> QED BY <2>0, <3>7 DEF Delivery!Next
  <2>6. ASSUME NEW c \in calls, Land(c)
        PROVE  Delivery!Next
    <3>1. c.members \subseteq Reports
      BY <2>0 DEF TypeOK, Call
    <3>2. UNCHANGED rows
      BY <2>6 DEF Land
    <3>3. \A r \in c.members : Knowledge(r) = "uncertain" /\ copies[r] = 0
      <4> SUFFICES ASSUME NEW r \in c.members
                   PROVE  Knowledge(r) = "uncertain" /\ copies[r] = 0
        OBVIOUS
      <4>1. copies[r] = 0 /\ \E q \in rows : q.inFlight /\ q.group.members = c.members
        BY <2>0 DEF CallsFit
      <4>2. WrittenOf(rows, r) # {}
        BY <4>1 DEF WrittenOf, Written
      <4>3. \A q \in WrittenOf(rows, r) : q.state = "intent"
        BY <2>0, <3>1, <4>1 DEF WrittenOf, CopiesFit
      <4> QED BY <2>0, <4>1, <4>2, <4>3, KnowledgeIs
    <3>4. copies' = [r \in Reports |-> IF r \in c.members THEN 1 ELSE copies[r]]
      BY <2>6, <3>3 DEF Land
    <3>5. [r \in Reports |-> Knowledge(r)]' = [r \in Reports |-> Knowledge(r)]
      BY <2>0, <3>2, SameKnowledge
    <3>6. Delivery!Write(c.members)
      BY <3>1, <3>3, <3>4, <3>5 DEF Delivery!Write
    <3> QED BY <3>1, <3>6 DEF Delivery!Next
  <2>7. CASE Rejected
    <3> DEFINE new == Marked(row, FALSE)
    <3>1. /\ row \in rows /\ rows' = (rows \ {row}) \union {new} /\ copies' = copies
          /\ Sent \in calls
      BY <2>0, <2>7 DEF Rejected, Store, TypeOK, Sent
    <3>2. row.state = "intent" /\ Written(row)
      BY <2>0, <2>7 DEF Rejected, PhaseFit, Written
    <3>3. new.group = row.group /\ ~Written(new)
      BY <2>0, <3>2, MarkedIs DEF Written
    <3> HIDE DEF new
    <3>4. \A r \in row.group.members : WrittenOf(rows, r) = {row} /\ WrittenOf(rows', r) = {}
      BY <2>3, <2>4, <3>1, <3>2, <3>3
    <3>5. \A r \in row.group.members : Knowledge(r) = "uncertain" /\ Knowledge(r)' = "unsent"
      BY <2>0, <3>2, <3>4, KnowledgeIs, KnowledgeIsNext
    <3>6. \A r \in row.group.members : copies[r] = 0
      BY <2>0, <3>1 DEF CallsFit, Sent, Current
    <3>7. Delivery!Withdraw(row.group.members)
      BY <2>0, <3>1, <3>3, <3>5, <3>6, GroupBecomes DEF Delivery!Withdraw
    <3> QED BY <2>0, <3>7 DEF Delivery!Next
  <2>8. CASE RecordRemoteWrite
    <3> DEFINE new == Receipt(row, sent)
    <3>1. /\ row \in rows /\ rows' = (rows \ {row}) \union {new} /\ copies' = copies
          /\ sent \in Documents /\ row.group.members \subseteq body[sent]
      BY <2>0, <2>8 DEF RecordRemoteWrite, Replace, Store, TypeOK, lark, PhaseFit, Current
    <3>2. row.state = "intent" /\ Written(row)
      BY <2>0, <2>8 DEF RecordRemoteWrite, PhaseFit, Written
    <3>3. new.group = row.group /\ new.state = "remote_written" /\ Written(new)
      BY <2>0, <3>1, ReceiptIs DEF Written
    <3> HIDE DEF new
    <3>4. \A r \in row.group.members : WrittenOf(rows, r) = {row} /\ WrittenOf(rows', r) = {new}
      BY <2>3, <2>4, <3>1, <3>2, <3>3
    <3>5. \A r \in row.group.members : Knowledge(r) = "uncertain" /\ Knowledge(r)' = "written"
      BY <2>0, <3>2, <3>3, <3>4, KnowledgeIs, KnowledgeIsNext
    <3>6. \A r \in row.group.members : copies[r] = 1
      BY <2>0, <3>1 DEF CopiesFit
    <3>7. Delivery!Acknowledge(row.group.members)
      BY <2>0, <3>1, <3>3, <3>5, <3>6, GroupBecomes DEF Delivery!Acknowledge
    <3> QED BY <2>0, <3>7 DEF Delivery!Next
  <2>9. CASE CompletePublication
    <3> DEFINE new == Succeeded(row)
    <3>1. row \in rows /\ rows' = (rows \ {row}) \union {new} /\ copies' = copies
      BY <2>0, <2>9 DEF CompletePublication, Replace, Store, Succeeded, TypeOK, lark
    <3>2. row.state = "remote_written" /\ Written(row)
      BY <2>0, <2>9 DEF CompletePublication, PhaseFit, Written
    <3>3. new.group = row.group /\ new.state = "success" /\ Written(new)
      BY <2>0, SucceededIs DEF Written
    <3> HIDE DEF new
    <3>4. \A r \in row.group.members : WrittenOf(rows, r) = {row} /\ WrittenOf(rows', r) = {new}
      BY <2>3, <2>4, <3>1, <3>2, <3>3
    <3>5. \A r \in row.group.members : Knowledge(r) = "written" /\ Knowledge(r)' = "published"
      BY <2>0, <3>2, <3>3, <3>4, KnowledgeIs, KnowledgeIsNext
    <3>6. Delivery!Publish(row.group.members)
      BY <2>0, <3>1, <3>3, <3>5, GroupBecomes DEF Delivery!Publish
    <3> QED BY <2>0, <3>6 DEF Delivery!Next
  <2>10. ASSUME NEW g \in groups, SkipGroup(g) \/ ResumeReceipt(g)
         PROVE  UNCHANGED <<rows, copies>>
    BY <2>10 DEF SkipGroup, ResumeReceipt, lark
  <2>11. CASE RefuseWrite \/ SendBody \/ WithoutReceipt \/ VerifyRemote \/ VerifyFails
    <3>1. UNCHANGED <<rows, copies>>
      BY <2>11 DEF RefuseWrite, SendBody, WithoutReceipt, VerifyRemote, VerifyFails, lark
    <3> QED BY <2>1, <3>1
  <2>12. CASE Settle \/ Crash
    <3>1. UNCHANGED <<rows, copies>>
      BY <2>12 DEF Settle, QueueDocumentNotice, ArchiveSidecar, ArchiveFails, CompleteStage, GroupDone,
                   EndRun, Crash, NoProcess, lark
    <3> QED BY <2>1, <3>1
  <2>13. CASE \/ \E new \in SUBSET Reports, S \in SUBSET Reports :
                   StartRun(new, S) \/ DieWhileClaiming(new, S)
              \/ \E r \in Reports : Ripen(r)
              \/ \E reason \in {"lark_publish_failed", "local_projection_failed"} : ApplyRetryPlan(reason)
    <3>1. UNCHANGED <<rows, copies>>
      BY <2>13 DEF StartRun, DieWhileClaiming, Ripen, ApplyRetryPlan, lark
    <3> QED BY <2>1, <3>1
  <2>14. CASE UNCHANGED vars
    <3>1. UNCHANGED <<rows, copies>>
      BY <2>14 DEF vars, lark
    <3> QED BY <2>1, <3>1
  <2>15. CASE PublishGroup
    BY <2>1, <2>2, <2>5, <2>7, <2>8, <2>9, <2>10, <2>11, <2>15 DEF PublishGroup
  <2> QED BY <2>6, <2>12, <2>13, <2>14, <2>15 DEF Next
<1> QED BY <1>1, <1>2, InvariantHolds, PTL DEF Spec, ImplementsDelivery, Delivery!Spec
=============================================================================
