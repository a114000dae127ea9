---------------------------- MODULE DailyDigest -----------------------------
(***************************************************************************)
(* The cross-report digest (daily_digest.DailyDigest): one run per day     *)
(* selects the reports not yet seen, has a model draft items from them,    *)
(* has every item verified, and publishes one document by a journal of     *)
(* writes, each preceded by an intent and followed by a receipt.           *)
(*                                                                         *)
(* Two kinds of files are written atomically but not together: state.json  *)
(* (active, completed, seen) and one run.json per day (the columns records *)
(* .. confirmed, indexed by the day).  "pc" is where the worker is between *)
(* two of its durable or remote writes; a crash forgets it.  The runtime   *)
(* lock admits one step or one reconciliation at a time, and a step reads  *)
(* the clock and the library when it begins, so both move between steps.   *)
(* An item is a paragraph, one chart and a source line: the code allows any*)
(* number of charts, all of which it writes and reads back in the same way.*)
(*                                                                         *)
(* A step that returns early or fails before it has changed anything but   *)
(* the error text and the retry time (disabled, settings changed, model or *)
(* renderer failed, proposal invalid, chart altered, read-back refused) is *)
(* a stuttering step; the quarter of an hour to the next try is not timed. *)
(***************************************************************************)
EXTENDS Integers, Sequences, FiniteSets

CONSTANTS
  Reports,       \* rows of the research library, downloaded since the start
  Pdf,           \* pdf_sha256 of each
  Seeded,        \* hashes screened before the migration (seed_state)
  SeedDay,       \* 1: the first day already has its edition; 0: not
  LastDay,       \* bound on the days
  MaxItems,      \* bound on the items of a draft
  MaxDrafts,     \* bound on the drafts of a run
  MaxFaults      \* bound on the operators' denials and the readers' deletions

Days   == 1 .. LastDay
Hashes == {Pdf[r] : r \in Reports}
None   == 0  \* no day, no document, no operation

ASSUME BoundsAreNaturals ==
  LastDay \in Nat \ {0} /\ MaxItems \in Nat /\ MaxDrafts \in Nat /\ MaxFaults \in Nat
ASSUME SeedIsHistory == Seeded \subseteq Hashes /\ SeedDay \in {None, 1}

VARIABLES
  day,         \* local date
  evening,     \* the configured time of the day has passed
  library,     \* reports ingested so far
  active,      \* state.json: day of the run in progress
  completed,   \* state.json: completed_day
  seen,        \* state.json: hashes no run looks at again
  records,     \* run.json: the day's selection
  phase,       \* run.json: phase; "none": no such file
  unreadable,  \* run.json: pending_files
  proposal,    \* run.json: the accepted draft and its number
  verified,    \* run.json: the draft each verification looked at
  receipts,    \* run.json: number of receipts
  intent,      \* run.json: the operation being written
  document,    \* run.json: the document created
  confirmed,   \* run.json: operations an operator confirmed as not applied
  titles,      \* Lark: the day in the title of each document created
  body,        \* Lark: the operations each document shows, in order
  inflight,    \* writes given up on that may still land
  edits,       \* blocks deleted by readers
  pc,          \* what the worker does next; "idle": the lock is free
  receipt      \* the document a returned write has created

clock   == <<day, evening, library>>
state   == <<active, completed, seen>>
draft   == <<records, phase, unreadable, proposal, verified>>
journal == <<receipts, intent, document, confirmed>>
lark    == <<titles, body, inflight, edits>>
memory  == <<pc, receipt>>
vars    == <<clock, state, draft, journal, lark, memory>>

(* ------------------------------ proposals ------------------------------ *)

ItemLists == UNION {[1 .. n -> SUBSET Reports \ {{}}] : n \in 0 .. MaxItems}

Proposals == [draft : 0 .. MaxDrafts, items : ItemLists, excluded : SUBSET Reports, pending : SUBSET Reports]

NoProposal == [draft |-> 0, items |-> <<>>, excluded |-> {}, pending |-> {}]

Included(p) == UNION {p.items[k] : k \in DOMAIN p.items}

(* Every input is included, excluded or pending, no two of them, and what  *)
(* is included or excluded has been read.                                  *)
Accounted(p, read, ready) ==
  /\ Included(p) \cup p.excluded \cup p.pending = ready
  /\ read \subseteq ready
  /\ Included(p) \cap p.excluded = {}
  /\ Included(p) \cap p.pending = {}
  /\ p.excluded \cap p.pending = {}
  /\ Included(p) \cup p.excluded \subseteq read

(* Mutant of LeftPending: unreadable files count as processed. *)
PendingInProposal(d) == proposal[d].pending

(* Reports of the run that stay eligible for the next one. *)
LeftPending(d) == unreadable[d] \cup proposal[d].pending

(* ------------------------ operations on the document ------------------- *)

(* Mutant of Operations: one operation too many. *)
OperationsAndOne(p) == 1 .. 2 + 3 * Len(p.items)

(* The title, then for each item its text, its chart and its source line.  *)
Operations(p) == 1 .. 1 + 3 * Len(p.items)
Create        == 1
ItemOf(op)    == (op + 1) \div 3
IsImage(op)   == op > Create /\ op % 3 = 0

(* The operations a read-back finds one after the other from the first:    *)
(* other blocks may stand between them.                                    *)
Matched(blocks) ==
  LET found[n \in 0 .. Len(blocks)] ==
        IF n = 0 THEN 0
        ELSE IF blocks[n] = found[n - 1] + 1 THEN found[n - 1] + 1 ELSE found[n - 1]
  IN  found[Len(blocks)]

(* Mutant of ReadsBack: only the title is looked at. *)
ReadsBackTitle(doc, d, upto) == doc \in DOMAIN titles /\ titles[doc] = d

(* Document "doc" carries the day's title and the first "upto" operations. *)
ReadsBack(doc, d, upto) ==
  /\ doc \in DOMAIN titles
  /\ titles[doc] = d
  /\ Matched(body[doc]) >= upto

(* The remote effect of one write. *)
Apply(op, d, doc) ==
  IF op = Create
  THEN /\ titles' = Append(titles, d)
       /\ body' = Append(body, <<Create>>)
  ELSE /\ body' = [body EXCEPT ![doc] = Append(body[doc], op)]
       /\ UNCHANGED titles

(* ------------------------------ environment ---------------------------- *)

Evening ==
  /\ pc = "idle" /\ ~evening
  /\ evening' = TRUE
  /\ UNCHANGED <<day, library, state, draft, journal, lark, memory>>

Midnight ==
  /\ pc = "idle" /\ day < LastDay
  /\ day' = day + 1 /\ evening' = FALSE
  /\ UNCHANGED <<library, state, draft, journal, lark, memory>>

Ingest(r) ==
  /\ pc = "idle" /\ r \notin library
  /\ library' = library \cup {r}
  /\ UNCHANGED <<day, evening, state, draft, journal, lark, memory>>

FaultPossible == active # None /\ Len(confirmed[active]) + edits < MaxFaults

(* A write given up on reaches the service after all. *)
Land(w) ==
  /\ w \in inflight
  /\ Apply(w.op, w.day, w.doc)
  /\ inflight' = inflight \ {w}
  /\ UNCHANGED <<clock, state, draft, journal, edits, memory>>

(* A reader deletes a block of a document; once its run is settled nothing *)
(* reads it again, so only the document of the active run is considered.   *)
Edit(doc, n) ==
  /\ FaultPossible
  /\ titles[doc] = active
  /\ n \in DOMAIN body[doc]
  /\ body' = [body EXCEPT ![doc] = SubSeq(body[doc], 1, n - 1) \o SubSeq(body[doc], n + 1, Len(body[doc]))]
  /\ edits' = edits + 1
  /\ UNCHANGED <<clock, state, draft, journal, titles, inflight, memory>>

(* ------------------------------ a new day ------------------------------ *)

(* Mutant of Unseen: reports of earlier runs are selected again. *)
UnseenOrNot == library

Unseen == {r \in library : Pdf[r] \notin seen}

Due == pc = "idle" /\ active = None /\ evening /\ completed # day

NothingNew ==
  /\ Due /\ Unseen = {}
  /\ completed' = day
  /\ UNCHANGED <<clock, active, seen, draft, journal, lark, memory>>

(* One report for each unseen hash is selected and run.json is written;    *)
(* state.json still names no active run.                                   *)
StartRun(chosen) ==
  /\ Due /\ Unseen # {}
  /\ chosen \subseteq Unseen
  /\ \A r \in Unseen : \E s \in chosen : Pdf[s] = Pdf[r]
  /\ \A r, s \in chosen : Pdf[r] = Pdf[s] => r = s
  /\ records' = [records EXCEPT ![day] = chosen]
  /\ phase' = [phase EXCEPT ![day] = "prepare"]
  /\ unreadable' = [unreadable EXCEPT ![day] = {}]
  /\ proposal' = [proposal EXCEPT ![day] = NoProposal]
  /\ verified' = [verified EXCEPT ![day] = <<>>]
  /\ receipts' = [receipts EXCEPT ![day] = 0]
  /\ intent' = [intent EXCEPT ![day] = None]
  /\ document' = [document EXCEPT ![day] = None]
  /\ confirmed' = [confirmed EXCEPT ![day] = <<>>]
  /\ pc' = "starting"
  /\ UNCHANGED <<clock, state, lark, receipt>>

Activate ==
  /\ pc = "starting"
  /\ active' = day
  /\ pc' = "idle"
  /\ UNCHANGED <<clock, completed, seen, draft, journal, lark, receipt>>

(* ---------------------------- checkpoints ------------------------------ *)

(* A step works on the active run unless a write of it is in doubt. *)
Advances(ph) == pc = "idle" /\ active # None /\ intent[active] = None /\ phase[active] = ph

(* Files that are missing or whose hash has changed stay pending. *)
Prepare(bad) ==
  /\ Advances("prepare")
  /\ bad \subseteq records[active]
  /\ unreadable' = [unreadable EXCEPT ![active] = bad]
  /\ phase' = [phase EXCEPT ![active] = "research"]
  /\ UNCHANGED <<clock, state, records, proposal, verified, journal, lark, memory>>

(* Mutant of Research: the verifications of a rejected draft are kept. *)
ResearchKeepingVerified ==
  /\ Advances("research")
  /\ \E p \in Proposals, read \in SUBSET Reports :
       /\ p.draft = proposal[active].draft + 1
       /\ Accounted(p, read, records[active] \ unreadable[active])
       /\ proposal' = [proposal EXCEPT ![active] = p]
  /\ phase' = [phase EXCEPT ![active] = "verify"]
  /\ UNCHANGED <<clock, state, records, unreadable, verified, journal, lark, memory>>

(* The model answers; the answer is kept if it accounts for every input.   *)
Research ==
  /\ Advances("research")
  /\ \E p \in Proposals, read \in SUBSET Reports :
       /\ p.draft = proposal[active].draft + 1
       /\ Accounted(p, read, records[active] \ unreadable[active])
       /\ proposal' = [proposal EXCEPT ![active] = p]
  /\ verified' = [verified EXCEPT ![active] = <<>>]
  /\ phase' = [phase EXCEPT ![active] = "verify"]
  /\ UNCHANGED <<clock, state, records, unreadable, journal, lark, memory>>

ToVerify == Len(proposal[active].items) - Len(verified[active])

AcceptItem ==
  /\ Advances("verify") /\ ToVerify > 0
  /\ verified' = [verified EXCEPT ![active] = Append(verified[active], proposal[active].draft)]
  /\ UNCHANGED <<clock, state, records, phase, unreadable, proposal, journal, lark, memory>>

RejectItem ==
  /\ Advances("verify") /\ ToVerify > 0
  /\ phase' = [phase EXCEPT ![active] = "research"]
  /\ UNCHANGED <<clock, state, records, unreadable, proposal, verified, journal, lark, memory>>

StartPublishing ==
  /\ Advances("verify") /\ ToVerify = 0 /\ proposal[active].items # <<>>
  /\ phase' = [phase EXCEPT ![active] = "publish"]
  /\ UNCHANGED <<clock, state, records, unreadable, proposal, verified, journal, lark, memory>>

(* Nothing was selected: the run is complete without a document. *)
NothingToPublish ==
  /\ Advances("verify") /\ ToVerify = 0 /\ proposal[active].items = <<>>
  /\ phase' = [phase EXCEPT ![active] = "complete"]
  /\ pc' = "closing"
  /\ UNCHANGED <<clock, state, records, unreadable, proposal, verified, journal, lark, receipt>>

(* ----------------------------- publication ----------------------------- *)

NextOperation == receipts[active] + 1

(* The chart about to be uploaded is the one that was verified, and the    *)
(* intent is durable before the call.                                      *)
Intend ==
  /\ Advances("publish") /\ NextOperation \in Operations(proposal[active])
  /\ IsImage(NextOperation) => verified[active][ItemOf(NextOperation)] = proposal[active].draft
  /\ intent' = [intent EXCEPT ![active] = NextOperation]
  /\ pc' = "writing"
  /\ UNCHANGED <<clock, state, draft, receipts, document, confirmed, lark, receipt>>

WriteReturns ==
  /\ pc = "writing"
  /\ Apply(intent[active], active, document[active])
  /\ receipt' = IF intent[active] = Create THEN Len(titles) + 1 ELSE None
  /\ pc' = "returned"
  /\ UNCHANGED <<clock, state, draft, journal, inflight, edits>>

(* Mutant of WriteRaises: a failed call is taken for "not applied". *)
WriteRaisesClearing ==
  /\ pc = "writing"
  /\ \/ Apply(intent[active], active, document[active])
     \/ UNCHANGED <<titles, body>>
  /\ intent' = [intent EXCEPT ![active] = None]
  /\ pc' = "idle"
  /\ UNCHANGED <<clock, state, draft, receipts, document, confirmed, inflight, edits, receipt>>

(* The call raises, or its receipt cannot be used: the write was applied,  *)
(* or was not, or is still on its way.                                     *)
WriteRaises ==
  /\ pc = "writing"
  /\ \/ /\ Apply(intent[active], active, document[active])
        /\ UNCHANGED inflight
     \/ UNCHANGED <<titles, body, inflight>>
     \/ /\ inflight' = inflight \cup {[op |-> intent[active], day |-> active, doc |-> document[active],
                                       try |-> Len(confirmed[active])]}
        /\ UNCHANGED <<titles, body>>
  /\ pc' = "idle"
  /\ UNCHANGED <<clock, state, draft, journal, edits, receipt>>

RecordReceipt ==
  /\ pc = "returned"
  /\ document' = [document EXCEPT ![active] = IF intent[active] = Create THEN receipt ELSE document[active]]
  /\ receipts' = [receipts EXCEPT ![active] = NextOperation]
  /\ intent' = [intent EXCEPT ![active] = None]
  /\ pc' = "idle" /\ receipt' = None
  /\ UNCHANGED <<clock, state, draft, confirmed, lark>>

(* After the last receipt the whole document is read back. *)
ReadBack ==
  /\ Advances("publish") /\ NextOperation \notin Operations(proposal[active])
  /\ ReadsBack(document[active], active, receipts[active])
  /\ pc' = "read"
  /\ UNCHANGED <<clock, state, draft, journal, lark, receipt>>

(* What was read is written down; meanwhile readers may edit the document. *)
SaveReadBack ==
  /\ pc = "read"
  /\ phase' = [phase EXCEPT ![active] = "complete"]
  /\ pc' = "closing"
  /\ UNCHANGED <<clock, state, records, unreadable, proposal, verified, journal, lark, receipt>>

(* A step that finds the run complete had died before state.json. *)
Resettle ==
  /\ Advances("complete")
  /\ pc' = "closing"
  /\ UNCHANGED <<clock, state, draft, journal, lark, receipt>>

Settle ==
  /\ pc = "closing"
  /\ seen' = seen \cup {Pdf[r] : r \in records[active] \ LeftPending(active)}
  /\ completed' = active
  /\ active' = None
  /\ pc' = "idle"
  /\ UNCHANGED <<clock, draft, journal, lark, receipt>>

Crash ==
  /\ pc # "idle"
  /\ pc' = "idle" /\ receipt' = None
  /\ UNCHANGED <<clock, state, draft, journal, lark>>

(* ---------------------------- reconciliation --------------------------- *)

InDoubt == pc = "idle" /\ active # None /\ intent[active] # None

(* The operator supplies a receipt; the prefix it completes is read back.  *)
ReconcileApplied(doc) ==
  /\ InDoubt
  /\ intent[active] # Create => doc = document[active]
  /\ ReadsBack(doc, active, intent[active])
  /\ document' = [document EXCEPT ![active] = doc]
  /\ receipts' = [receipts EXCEPT ![active] = NextOperation]
  /\ intent' = [intent EXCEPT ![active] = None]
  /\ UNCHANGED <<clock, state, draft, confirmed, lark, memory>>

(* The operator declares that the write was not applied; nothing can check *)
(* that.                                                                   *)
ReconcileNotApplied ==
  /\ InDoubt
  /\ FaultPossible
  /\ confirmed' = [confirmed EXCEPT ![active] = Append(confirmed[active], intent[active])]
  /\ intent' = [intent EXCEPT ![active] = None]
  /\ UNCHANGED <<clock, state, draft, receipts, document, lark, memory>>

(* ---------------------------- specification ---------------------------- *)

Init ==
  /\ day = 1 /\ evening = FALSE /\ library = {}
  /\ active = None /\ completed = SeedDay /\ seen = Seeded
  /\ records = [d \in Days |-> {}]
  /\ phase = [d \in Days |-> "none"]
  /\ unreadable = [d \in Days |-> {}]
  /\ proposal = [d \in Days |-> NoProposal]
  /\ verified = [d \in Days |-> <<>>]
  /\ receipts = [d \in Days |-> 0]
  /\ intent = [d \in Days |-> None]
  /\ document = [d \in Days |-> None]
  /\ confirmed = [d \in Days |-> <<>>]
  /\ titles = <<>> /\ body = <<>> /\ inflight = {} /\ edits = 0
  /\ pc = "idle" /\ receipt = None

Environment ==
  \/ Evening \/ Midnight
  \/ \E r \in Reports : Ingest(r)
  \/ \E w \in inflight : Land(w)
  \/ \E doc \in DOMAIN body : \E n \in DOMAIN body[doc] : Edit(doc, n)

Step ==
  \/ NothingNew \/ Activate
  \/ \E chosen \in SUBSET Reports : StartRun(chosen)
  \/ \E bad \in SUBSET Reports : Prepare(bad)
  \/ Research \/ AcceptItem \/ RejectItem \/ StartPublishing \/ NothingToPublish
  \/ Intend \/ WriteReturns \/ WriteRaises \/ RecordReceipt
  \/ ReadBack \/ SaveReadBack \/ Resettle \/ Settle

Operator ==
  \/ \E doc \in DOMAIN titles : ReconcileApplied(doc)
  \/ ReconcileNotApplied

Next == Environment \/ Step \/ Operator \/ Crash

Spec == Init /\ [][Next]_vars

(* ------------------------------ properties ----------------------------- *)

Phases == {"none", "prepare", "research", "verify", "publish", "complete"}

ClockOK == day \in Days /\ evening \in BOOLEAN /\ library \subseteq Reports

StateOK == active \in Days \cup {None} /\ completed \in Days \cup {None} /\ seen \subseteq Hashes

DraftOK ==
  /\ records \in [Days -> SUBSET Reports]
  /\ phase \in [Days -> Phases]
  /\ unreadable \in [Days -> SUBSET Reports]
  /\ proposal \in [Days -> Proposals]
  /\ verified \in [Days -> Seq(Nat)]

JournalOK ==
  /\ receipts \in [Days -> Nat] /\ intent \in [Days -> Nat]
  /\ document \in [Days -> Nat] /\ confirmed \in [Days -> Seq(Nat)]

LarkOK ==
  /\ titles \in Seq(Days) /\ body \in Seq(Seq(Nat)) /\ Len(body) = Len(titles)
  /\ inflight \subseteq [op : Nat, day : Days, doc : Nat, try : Nat]
  /\ edits \in Nat

MemoryOK ==
  /\ pc \in {"idle", "starting", "writing", "returned", "read", "closing"}
  /\ receipt \in 0 .. Len(titles)

(* The journal never runs ahead of its operations nor names a document     *)
(* that does not exist, and an intent is that of the next operation.       *)
JournalInRange ==
  \A d \in Days : /\ receipts[d] <= 1 + 3 * Len(proposal[d].items)
                  /\ intent[d] \in {None, receipts[d] + 1}
                  /\ document[d] <= Len(titles)

(* Every column holds what the files can hold, and the journal is in range *)
(* of the run's operations and of the documents created.                   *)
TypeOK == ClockOK /\ StateOK /\ DraftOK /\ JournalOK /\ LarkOK /\ MemoryOK /\ JournalInRange

Settled(d) == phase[d] = "complete" /\ active # d

AccountedHashes(d) == {Pdf[r] : r \in Included(proposal[d]) \cup proposal[d].excluded}

(* What no run will look at again is exactly what the settled runs have    *)
(* published or excluded (and the seed): no pending or unreadable report   *)
(* is lost, wherever the worker died (daily_digest.py, step).              *)
SeenIsAccounted == seen = Seeded \cup UNION {AccountedHashes(d) : d \in {e \in Days : Settled(e)}}

PublishedHashes(d) == IF phase[d] \in {"publish", "complete"} THEN {Pdf[r] : r \in Included(proposal[d])} ELSE {}

(* The same PDF is never in the digests of two days, nor in one of a day   *)
(* after it was screened before the migration.                             *)
NoReportTwice ==
  /\ \A d, e \in Days : d # e => PublishedHashes(d) \cap PublishedHashes(e) = {}
  /\ \A d \in Days : PublishedHashes(d) \cap Seeded = {}

Times(op, blocks)    == Cardinality({i \in DOMAIN blocks : blocks[i] = op})
ConfirmedTimes(d, op) == Times(op, confirmed[d])

(* A write reaches the document at most once, plus once for each time an   *)
(* operator has declared it not applied: no crash, lost answer or retry of *)
(* the worker repeats a write (persisted intents, "needs_reconciliation"). *)
AppliedOnce ==
  /\ \A doc \in DOMAIN body : \A n \in DOMAIN body[doc] :
       Times(body[doc][n], body[doc]) <= 1 + ConfirmedTimes(titles[doc], body[doc][n])
  /\ \A d \in Days : Times(d, titles) <= 1 + ConfirmedTimes(d, Create)

(* No block of an item is shown that was not verified in the draft that is *)
(* published: a verification of a rejected draft does not count.           *)
ShownIsVerified ==
  \A doc \in DOMAIN body : \A n \in DOMAIN body[doc] :
    LET d == titles[doc]  op == body[doc][n] IN
    op > Create => /\ ItemOf(op) \in DOMAIN verified[d]
                   /\ verified[d][ItemOf(op)] = proposal[d].draft

(* A run that has items becomes complete only after its document has been  *)
(* read and showed, at that moment, its title and all of the items in      *)
(* order, whatever was lost, repeated or deleted before (daily_digest.py,  *)
(* verify_publication): a read before a crash does not count.              *)
CompleteIsShown ==
  [][/\ pc # "read" /\ pc' = "read" =>
          /\ titles[document[active]] = active
          /\ Matched(body[document[active]]) >= 1 + 3 * Len(proposal[active].items)
     /\ \A d \in Days :
          phase[d] # "complete" /\ phase'[d] = "complete" /\ proposal[d].items # <<>> =>
            pc = "read" /\ d = active]_vars

=============================================================================
