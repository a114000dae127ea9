---------------------------- MODULE Publication -----------------------------
(***************************************************************************)
(* Publication of summarised reports to Lark documents: the publications   *)
(* table (state.py), the transaction of one group (publish.publish_group)  *)
(* and the run that forms groups, claims the PUBLISH stages and settles    *)
(* them (process._publish).  One target, one logical source.               *)
(*                                                                         *)
(* One process publishes at a time: a tick holds the runtime lock.  It may *)
(* die between any two steps.  A call to Lark may land late, be refused,   *)
(* or be cut off without anybody knowing whether it will still land.       *)
(*                                                                         *)
(* A report stands for its summary; Reports are numbered in the order of   *)
(* _entry_sort_key, which begins with the date: that of the PDF file, not  *)
(* of the run.  The digest of a group is the set of its members, its       *)
(* partition key that set with the date of the first and the index of the  *)
(* group in its batch.                                                     *)
(***************************************************************************)
EXTENDS Naturals, FiniteSets

CONSTANTS
  Reports,        \* summarised reports, numbered in publication order
  Documents,      \* Lark documents there may ever be, numbered
  UserDocument,   \* the document a configuration may name as target
  GroupSize,      \* doc_group_size
  GroupThreshold, \* doc_group_threshold
  MaxFiles,       \* max_files_per_document
  DateOf          \* the date of each, that its PDF was last modified

ASSUME ReportsAreNumbers   == Reports \subseteq Nat /\ IsFiniteSet(Reports)
ASSUME DocumentsAreNumbers == Documents \subseteq Nat \ {0} /\ UserDocument \in Documents
ASSUME SizesArePositive    == GroupSize \in Nat \ {0} /\ GroupThreshold \in Nat /\ MaxFiles \in Nat
ASSUME DatesAreOrdered     == /\ DateOf \in [Reports -> Nat]
                              /\ \A r, s \in Reports : r < s => DateOf[r] <= DateOf[s]

NoDocument == 0
Places     == Documents \union {NoDocument}
Groups     == [members : SUBSET Reports, index : Nat, day : Nat]

VARIABLES
  target,     \* the configured target_document, or NoDocument
  stage,      \* state of every report's PUBLISH stage; "none": not summarised
  code,       \* error_code of a blocked stage
  cooling,    \* reports whose retry time or lease end has not come
  rows,       \* the publications table
  calls,      \* body writes sent to Lark that have not landed
  used,       \* documents that exist or have been asked for
  body,       \* body[d]: reports whose text stands in document d
  copies,     \* how often each report's text was written
  viewable,   \* created documents with the chat's view permission
  noticed,    \* reports whose document notice a run has tried to enqueue
  archived,   \* reports with a current local projection
  phase,      \* where the publishing process is; "idle": no process
  claims,     \* reports whose stage lease it holds
  groups,     \* groups it has still to handle, the present one included
  attempted,  \* same_day_capacity_attempted
  row,        \* the publications row it works on
  sent        \* the document its present write goes to

stages  == <<stage, code, cooling>>
lark    == <<calls, used, body, copies, viewable>>
process == <<phase, claims, groups, attempted, row, sent>>
vars    == <<target, stages, rows, lark, noticed, archived, process>>

-----------------------------------------------------------------------------
StageStates == {"none", "queued", "running", "retry_wait", "succeeded", "blocked"}
RowStates   == {"intent", "remote_written", "success"}
Phases      == {"idle", "groups", "intent", "marked", "sent", "verify",
                "granted", "notice", "archive", "settle"}

\* A row: its group, target_document, remote_reference, and the details
\* created_document and write_in_flight.
Row == [group : Groups, document : Places, state : RowStates,
        reference : Places, created : BOOLEAN, inFlight : BOOLEAN]

Intent(g, d) ==
  [group |-> g, document |-> d, state |-> "intent", reference |-> NoDocument,
   created |-> d = NoDocument, inFlight |-> FALSE]

Call == [members : SUBSET Reports, document : Documents]

\* UNIQUE(summary_sha256, target, target_document, partition_key).
Unique == \A p, q \in rows : p.group = q.group /\ p.document = q.document => p = q

TypeOK ==
  /\ target \in {NoDocument, UserDocument}
  /\ stage \in [Reports -> StageStates]
  /\ code \in [Reports -> {"", "lark_publish_failed", "local_projection_failed"}]
  /\ cooling \in SUBSET Reports
  /\ rows \subseteq Row /\ Unique
  /\ calls \subseteq Call
  /\ used \in SUBSET Documents
  /\ body \in [Documents -> SUBSET Reports]
  /\ copies \in [Reports -> Nat]
  /\ viewable \in SUBSET Documents
  /\ noticed \in SUBSET Reports
  /\ archived \in SUBSET Reports
  /\ phase \in Phases
  /\ claims \in SUBSET Reports
  /\ groups \subseteq Groups
  /\ attempted \in BOOLEAN
  /\ row \in Row
  /\ row \in rows \/ phase \in {"idle", "groups"}
  /\ sent \in Places

Nobody == [members |-> {}, index |-> 0, day |-> 0]

Init ==
  /\ target \in {NoDocument, UserDocument}
  /\ stage = [r \in Reports |-> "none"]
  /\ code = [r \in Reports |-> ""]
  /\ cooling = {}
  /\ rows = {}
  /\ calls = {}
  /\ used = {UserDocument}
  /\ body = [d \in Documents |-> {}]
  /\ copies = [r \in Reports |-> 0]
  /\ viewable = {}
  /\ noticed = {}
  /\ archived = {}
  /\ phase = "idle"
  /\ claims = {}
  /\ groups = {}
  /\ attempted = FALSE
  /\ row = Intent(Nobody, NoDocument)
  /\ sent = NoDocument

-----------------------------------------------------------------------------
(* Groups and documents *)

\* The batch in publication order, cut into chunks of GroupSize once it is
\* larger than the threshold.
Chunks(batch) ==
  LET rank(r) == Cardinality({s \in batch : s < r})
      size    == IF Cardinality(batch) > GroupThreshold
                 THEN GroupSize ELSE Cardinality(batch)
      chunk(r) == rank(r) \div size
  IN  {[members |-> {s \in batch : chunk(s) = chunk(first)},
        index |-> chunk(first) + 1, day |-> DateOf[first]] :
          first \in {r \in batch : rank(r) % size = 0}}

Variants(g) == {q \in rows : q.group = g}

\* entry_count over the successful same-day records that created document d.
EntriesOf(d, date) ==
  UNION {q.group.members : q \in {p \in rows : /\ p.state = "success"
                                               /\ p.created
                                               /\ p.document = d
                                               /\ p.group.day = date}}

\* The documents resolve_same_day_capacity_target may continue with group g
\* (it takes the most recently updated one; age is not modelled).
Continuable(g) ==
  {d \in Documents : /\ EntriesOf(d, g.day) # {}
                     /\ Cardinality(EntriesOf(d, g.day)) + Cardinality(g.members) <= MaxFiles}

\* The target_document with which publish_group is called.
Destinations(g) ==
  IF target # NoDocument THEN {target}
  ELSE IF attempted \/ Variants(g) # {} \/ Continuable(g) = {} THEN {NoDocument}
  ELSE Continuable(g)

-----------------------------------------------------------------------------
(* The run: batch, claims, settling *)

Due == {r \in Reports : stage[r] \in {"queued", "running", "retry_wait"}} \ cooling

Claimed(S) ==
  /\ stage' = [r \in Reports |-> IF r \in S THEN "running" ELSE stage[r]]
  /\ cooling' = cooling \union S
  /\ UNCHANGED code

\* A run takes the due reports, the ones summarised just now, and reports it
\* visits again because the extractor version changed; every due stage is
\* claimed, the others in the batch are not.
StartRun(new, again) ==
  /\ phase = "idle"
  /\ \A r \in new : stage[r] = "none"
  /\ \A r \in again : stage[r] # "none" /\ r \notin Due
  /\ Due \union new \union again # {}
  /\ Claimed(Due \union new)
  /\ claims' = Due \union new
  /\ groups' = Chunks(Due \union new \union again)
  /\ phase' = "groups"
  /\ attempted' = FALSE
  /\ UNCHANGED <<target, rows, lark, noticed, archived, row, sent>>

\* The process dies after some of the claims: all stages exist.
DieWhileClaiming(new, S) ==
  /\ phase = "idle"
  /\ new \union S # {}
  /\ \A r \in new : stage[r] = "none"
  /\ S \subseteq Due \union new
  /\ stage' = [r \in Reports |-> IF r \in S THEN "running"
                                 ELSE IF r \in new THEN "queued" ELSE stage[r]]
  /\ cooling' = cooling \union S
  /\ UNCHANGED <<target, code, rows, lark, noticed, archived, process>>

Present(g) == g \in groups /\ \A h \in groups : g.index <= h.index
Owned(g)   == g.members \intersect claims

Published(g) == \E q \in Variants(g) : q.state = "success"

\* No claim is left for the group, or a sibling is not claimed and there is no
\* success to resume.
SkipGroup(g) ==
  /\ phase = "groups" /\ Present(g)
  /\ \/ Owned(g) = {}
     \/ ~(g.members \subseteq claims) /\ ~Published(g)
  /\ groups' = groups \ {g}
  /\ UNCHANGED <<target, stages, rows, lark, noticed, archived,
                 phase, claims, attempted, row, sent>>

Handled(g) ==
  /\ phase = "groups" /\ Present(g)
  /\ Owned(g) # {}
  /\ g.members \subseteq claims \/ Published(g)

\* The process works on no row.
Blank == row' = Intent(Nobody, NoDocument) /\ sent' = NoDocument

\* _fail_stage for every owned claim of the group.  A transient error and a
\* login error get a retry time; the others wait for the operator.
FailClaims(g, outcome, reason) ==
  /\ outcome \in {"retry_wait", "blocked"}
  /\ stage' = [r \in Reports |-> IF r \in Owned(g) THEN outcome ELSE stage[r]]
  /\ code' = [r \in Reports |->
               IF r \in Owned(g) /\ outcome = "blocked" THEN reason ELSE code[r]]
  /\ cooling' = IF outcome = "retry_wait" THEN cooling \union Owned(g)
                ELSE cooling \ Owned(g)
  /\ groups' = groups \ {g}
  /\ claims' = claims \ g.members
  /\ phase' = "groups"
  /\ Blank

-----------------------------------------------------------------------------
(* publish_group *)

\* The row publish_group goes on with: the exact one, but a receipt found
\* under another document wins over a missing or unwritten one.
Receipts(g) == {q \in Variants(g) : q.state # "intent" /\ q.reference # NoDocument}
Exact(g, d) == {q \in Variants(g) : q.document = d}
Existing(g, d) ==
  IF d = NoDocument /\ (\A q \in Exact(g, d) : q.state = "intent") /\ Receipts(g) # {}
  THEN Receipts(g)
  ELSE Exact(g, d)

Attempted(g) == attempted' = (attempted \/ target = NoDocument)

\* There is a receipt: verify it, or only settle the stages.
ResumeReceipt(g) ==
  /\ Handled(g)
  /\ Attempted(g)
  /\ \E d \in Destinations(g) : \E q \in Existing(g, d) :
       /\ q.state # "intent"
       /\ row' = q
       /\ phase' = IF q.state = "success" THEN "notice" ELSE "verify"
  /\ UNCHANGED <<target, stages, rows, lark, noticed, archived, claims, groups, sent>>

\* Mutated form: only the rows of the very same group are looked at.
TouchedByKey(g) ==
  \E q \in rows : (q.state # "intent" \/ q.inFlight) /\ q.group = g

\* _guard_prior_body_writes: a member of the group was, or may have been,
\* written by any earlier attempt.
Touched(g) ==
  \E q \in rows : /\ q.state # "intent" \/ q.inFlight
                  /\ q.group.members \intersect g.members # {}

\* Mutated form: a second intent is recorded beside the first.
FreshAlways(g, d) == {Intent(g, d)}

\* The row without a receipt; the intent is recorded if there is none.
Fresh(g, d) ==
  IF Existing(g, d) = {} THEN {Intent(g, d)}
  ELSE {q \in Existing(g, d) : q.state = "intent"}

RecordIntent(g) ==
  /\ Handled(g)
  /\ Attempted(g)
  /\ \E d \in Destinations(g) : \E q \in Fresh(g, d) :
       /\ rows' = rows \union {q}
       /\ row' = q
  /\ phase' = "intent"
  /\ UNCHANGED <<target, stages, lark, noticed, archived, claims, groups, sent>>

Current == row.group

\* PublicationReconciliationRequired before anything is sent.
RefuseWrite ==
  /\ phase = "intent"
  /\ Touched(Current) \/ row.inFlight
  /\ FailClaims(Current, "blocked", "lark_publish_failed")
  /\ UNCHANGED <<target, rows, lark, noticed, archived, attempted>>

Marked(q, flag) == [q EXCEPT !.inFlight = flag]
Store(new)   == rows' = (rows \ {row}) \union {new}
Replace(new) == Store(new) /\ row' = new

\* set_publication_write_in_flight(True).
MarkInFlight ==
  /\ phase = "intent"
  /\ ~Touched(Current) /\ ~row.inFlight
  /\ Replace(Marked(row, TRUE))
  /\ phase' = "marked"
  /\ UNCHANGED <<target, stages, lark, noticed, archived, claims, groups, attempted, sent>>

\* create_document or append_document is called.
SendBody ==
  /\ phase = "marked"
  /\ \E d \in IF row.document # NoDocument THEN {row.document} ELSE Documents \ used :
       /\ calls' = calls \union {[members |-> Current.members, document |-> d]}
       /\ used' = used \union {d}
       /\ sent' = d
  /\ phase' = "sent"
  /\ UNCHANGED <<target, stages, rows, body, copies, viewable, noticed, archived,
                 claims, groups, attempted, row>>

\* Lark writes the text.
Land(c) ==
  /\ c \in calls
  /\ calls' = calls \ {c}
  /\ body' = [body EXCEPT ![c.document] = @ \union c.members]
  /\ copies' = [r \in Reports |-> IF r \in c.members THEN copies[r] + 1 ELSE copies[r]]
  /\ UNCHANGED <<target, stages, rows, used, viewable, noticed, archived, process>>

\* A definite refusal: the marker is cleared, and the stages wait (login, or a
\* token exchange that broke off) or are blocked (permission).  Here nothing was
\* written; the code has only the error to tell it from a call that may still land.
Rejected ==
  /\ phase = "sent"
  /\ LET c == [members |-> Current.members, document |-> sent]
     IN  c \in calls /\ calls' = calls \ {c}
  /\ used' = IF row.document = NoDocument THEN used \ {sent} ELSE used
  /\ Store(Marked(row, FALSE))
  /\ \E outcome \in {"retry_wait", "blocked"} :
       FailClaims(Current, outcome, "lark_publish_failed")
  /\ UNCHANGED <<target, body, copies, viewable, noticed, archived, attempted>>

\* Timeout, transport error, no reference, or the receipt could not be stored:
\* the marker stays.
WithoutReceipt ==
  /\ phase = "sent"
  /\ FailClaims(Current, "blocked", "lark_publish_failed")
  /\ UNCHANGED <<target, rows, lark, noticed, archived, attempted>>

\* Mutated form: created_document is computed after the document is bound.
ReceiptNotCreated(q, d) ==
  [group |-> q.group, document |-> d, state |-> "remote_written", reference |-> d,
   created |-> FALSE, inFlight |-> FALSE]

\* The row record_remote_write leaves: a pending create is bound to the new
\* document, and the details are replaced.
Receipt(q, d) ==
  [group |-> q.group, document |-> d, state |-> "remote_written", reference |-> d,
   created |-> q.document = NoDocument, inFlight |-> FALSE]

\* record_remote_write, after Lark answered with the document.
RecordRemoteWrite ==
  /\ phase = "sent"
  /\ Current.members \subseteq body[sent]
  /\ Replace(Receipt(row, sent))
  /\ phase' = "verify"
  /\ UNCHANGED <<target, stages, lark, noticed, archived, claims, groups, attempted, sent>>

\* _verify_remote: title, body, and for a created document the permission.
VerifyRemote ==
  /\ phase = "verify"
  /\ Current.members \subseteq body[row.reference]
  /\ viewable' = IF row.created THEN viewable \union {row.reference} ELSE viewable
  /\ phase' = "granted"
  /\ UNCHANGED <<target, stages, rows, calls, used, body, copies, noticed, archived,
                 claims, groups, attempted, row, sent>>

\* One of the calls fails; the row stays remote_written.
VerifyFails ==
  /\ phase = "verify"
  /\ \E outcome \in {"retry_wait", "blocked"} :
       FailClaims(Current, outcome, "lark_publish_failed")
  /\ UNCHANGED <<target, rows, lark, noticed, archived, attempted>>

CompletePublication ==
  /\ phase = "granted"
  /\ Replace([row EXCEPT !.state = "success"])
  /\ phase' = "notice"
  /\ UNCHANGED <<target, stages, lark, noticed, archived, claims, groups, attempted, sent>>

-----------------------------------------------------------------------------
(* After the publication *)

\* The notice is enqueued before any stage is settled; an error there is only
\* reported, so all that is certain is the attempt.
QueueDocumentNotice ==
  /\ phase = "notice"
  /\ noticed' = noticed \union Current.members
  /\ phase' = "archive"
  /\ UNCHANGED <<target, stages, rows, lark, archived, claims, groups, attempted, row, sent>>

ArchiveSidecar ==
  /\ phase = "archive"
  /\ archived' = archived \union Current.members
  /\ phase' = "settle"
  /\ UNCHANGED <<target, stages, rows, lark, noticed, claims, groups, attempted, row, sent>>

ArchiveFails ==
  /\ phase = "archive"
  /\ \E outcome \in {"retry_wait", "blocked"} :
       FailClaims(Current, outcome, "local_projection_failed")
  /\ UNCHANGED <<target, rows, lark, noticed, archived, attempted>>

\* complete_stage, one claim after the other.
CompleteStage(r) ==
  /\ phase = "settle"
  /\ r \in Owned(Current)
  /\ stage' = [stage EXCEPT ![r] = "succeeded"]
  /\ cooling' = cooling \ {r}
  /\ claims' = claims \ {r}
  /\ UNCHANGED <<target, code, rows, lark, noticed, archived, phase, groups,
                 attempted, row, sent>>

GroupDone ==
  /\ phase = "settle"
  /\ Owned(Current) = {}
  /\ groups' = groups \ {Current}
  /\ phase' = "groups"
  /\ Blank
  /\ UNCHANGED <<target, stages, rows, lark, noticed, archived, claims, attempted>>

NoProcess ==
  /\ phase' = "idle" /\ claims' = {} /\ groups' = {} /\ attempted' = FALSE
  /\ Blank
  /\ UNCHANGED <<target, stages, rows, lark, noticed, archived>>

EndRun == phase = "groups" /\ groups = {} /\ NoProcess
Crash  == phase # "idle" /\ NoProcess

-----------------------------------------------------------------------------
(* Time and the operator *)

\* A process looks at the clock only when it starts a run, so time is let pass
\* between the runs.
\* The retry time or the lease end of one stage is reached.
Ripen(r) ==
  /\ phase = "idle" /\ r \in cooling
  /\ cooling' = cooling \ {r}
  /\ UNCHANGED <<target, stage, code, rows, lark, noticed, archived, process>>

\* retry plan and retry apply, for the blocked stages of one error code.
ApplyRetryPlan(reason) ==
  LET S == {r \in Reports : stage[r] = "blocked" /\ code[r] = reason}
  IN  /\ S # {}
      /\ stage' = [r \in Reports |-> IF r \in S THEN "queued" ELSE stage[r]]
      /\ code' = [r \in Reports |-> IF r \in S THEN "" ELSE code[r]]
      /\ UNCHANGED <<target, cooling, rows, lark, noticed, archived, process>>

-----------------------------------------------------------------------------
PublishGroup ==
  \/ \E g \in groups : SkipGroup(g) \/ ResumeReceipt(g) \/ RecordIntent(g)
  \/ RefuseWrite \/ MarkInFlight \/ SendBody \/ Rejected \/ WithoutReceipt
  \/ RecordRemoteWrite \/ VerifyRemote \/ VerifyFails \/ CompletePublication

Settle ==
  \/ QueueDocumentNotice \/ ArchiveSidecar \/ ArchiveFails
  \/ \E r \in Reports : CompleteStage(r)
  \/ GroupDone \/ EndRun

Next ==
  \/ \E new \in SUBSET Reports, S \in SUBSET Reports :
        StartRun(new, S) \/ DieWhileClaiming(new, S)
  \/ PublishGroup \/ Settle \/ Crash
  \/ \E c \in calls : Land(c)
  \/ \E r \in Reports : Ripen(r)
  \/ \E reason \in {"lark_publish_failed", "local_projection_failed"} : ApplyRetryPlan(reason)

Spec == Init /\ [][Next]_vars

-----------------------------------------------------------------------------
\* A settled report is really there: its text stands in the document of a
\* success row, the chat may view that document unless it is the user's own, its
\* notice was handed to the outbox before and its local projection is current.
SettledIsDelivered ==
  \A r \in Reports : stage[r] = "succeeded" =>
    /\ r \in archived /\ r \in noticed
    /\ \E q \in rows :
         /\ q.state = "success" /\ r \in q.group.members
         /\ r \in body[q.reference]
         /\ q.reference \in viewable \union {UserDocument}

\* What the rows say of a report.
Knowledge(r) ==
  LET of == {q \in rows : r \in q.group.members}
  IN  IF \E q \in of : q.state = "success" THEN "published"
      ELSE IF \E q \in of : q.state = "remote_written" THEN "written"
      ELSE IF \E q \in of : q.inFlight THEN "uncertain"
      ELSE "unsent"

Delivery == INSTANCE ReportDelivery
              WITH knowledge <- [r \in Reports |-> Knowledge(r)]

\* The rows follow the contract of every single report, although they are kept
\* by group, day and document: in particular no report's text is ever written
\* twice, whatever regrouping, crash, late call or retry plan.
ImplementsDelivery == Delivery!Spec

\* What process._publish says of its recovery: a success that is recorded
\* settles the remaining stages of its members, none of them ends blocked.  The
\* code does not keep it (PublicationResume.cfg).
SuccessIsResumed ==
  \A r \in Reports : \A q \in rows :
    ~ /\ q.state = "success" /\ r \in q.group.members
      /\ stage[r] = "blocked" /\ code[r] = "lark_publish_failed"

\* What resolve_same_day_capacity_target promises: a document the program
\* created is continued only while max_files_per_document permits, counting the
\* members of all its successful publications.  The code does not keep it
\* (PublicationCapacity.cfg).
CapacityIsKept ==
  \A d \in Documents \ {UserDocument} :
    Cardinality(UNION {q.group.members :
                         q \in {p \in rows : p.state = "success" /\ p.reference = d}}) <= MaxFiles
=============================================================================
