----------------------------- MODULE Processing -----------------------------
(***************************************************************************)
(* The document processor: a tick lists due documents of one source, a     *)
(* batch extracts their text in a subprocess, summarises it in at most two *)
(* model calls at a time, and publishes.  The SQLite stage rows, the text  *)
(* files and the summary store survive a crash; the batch does not.        *)
(*   DigestProcessor          src/zsxq_pipeline/process.py                 *)
(*   SummaryStore, jobs       src/zsxq_pipeline/summary.py                 *)
(*   ExtractorAdapter         src/zsxq_pipeline/extract.py                 *)
(*   CodexSummaryProvider     src/zsxq_pipeline/providers/codex.py         *)
(* Time is left out: a row in "waiting" (retry_wait) or a claim nobody     *)
(* holds becomes "due" at some moment (Elapse).  The claims themselves are *)
(* modelled in StageAttempts, the delivery of a group in Publication.      *)
(***************************************************************************)
EXTENDS Integers, Sequences, FiniteSets, FiniteSetsExt

CONSTANTS
  Documents,  \* ids of the documents of the source, in the order of the table
  Pdf,        \* the bytes of each: the PDF digest, which is its path in a batch too
  Named,      \* the file the extractor writes a text to: the name of the PDF, sanitised
  Chars,      \* the length in characters of the text of each PDF
  Unreadable, \* documents no extractor can read
  Quota,      \* documents a tick lists
  Workers,    \* summary_max_workers
  Library,    \* is a research library configured
  Vault,      \* is an Obsidian vault configured
  MaxFaults   \* bound on crashes, failed calls and lost files

Nothing == "nothing"
Corrupt == "corrupt"
PDFs  == {Pdf[d] : d \in Documents}
Names == {Named[d] : d \in Documents}

ASSUME ProcessingAssumption ==
  /\ Documents \subseteq Nat /\ IsFiniteSet(Documents)
  /\ Unreadable \subseteq Documents
  /\ \A p \in PDFs : Chars[p] \in Nat
  /\ Quota \in Nat \ {0} /\ Workers \in {1, 2} /\ MaxFaults \in Nat
  /\ Library \in BOOLEAN /\ Vault \in BOOLEAN /\ (Vault => Library)
  /\ Nothing \notin PDFs /\ Corrupt \notin PDFs

VARIABLES
  extract,   \* state of the TEXT_EXTRACT row of a document
  summary,   \* state of its SUMMARY row
  publish,   \* state of its PUBLISH row
  artifact,  \* the file its extracted-text artifact names: "named", "cached" or none
  named,     \* whose text is in each file of the extractor's output directory
  cached,    \* PDFs whose text is in the extractor's cache, under their digest
  entry,     \* the summary store: whose text the committed summary was made of
  recorded,  \* the summary artifact of a PDF: none, or of the same answer as its entry, or of another
  delivered  \* groups whose publication is a success

VARIABLES
  phase,     \* where the batch is
  batch,     \* its documents, in the order of the list
  at,        \* position of the loop that runs over them
  mine,      \* the claims it holds, as <<stage, document>>
  seen,      \* the text of each extracted document as it was last read
  outcome,   \* what the extractor or the model returned for a document
  ready,     \* documents whose summary is in memory
  failed,    \* has the batch a failure to report
  refused,   \* has it put a document in quarantine
  last       \* the result of the last batch

VARIABLES
  faults,    \* faults so far
  paid,      \* PDFs for which a model call returned a valid summary (history)
  lost,      \* PDFs whose last valid answer was lost before it was stored (history)
  damaged    \* PDFs whose committed summary was lost or altered (history)

rows == <<extract, summary, publish>>
files == <<artifact, named, cached, entry, recorded>>
loop == <<phase, at>>
memory == <<seen, outcome, ready, failed, refused>>
history == <<paid, lost, damaged>>
vars == <<rows, files, delivered, loop, batch, mine, memory, last, faults, history>>

RowState == {"none", "due", "waiting", "running", "succeeded", "quarantined", "blocked"}
Runnable == {"none", "due"}
Stages == {"extract", "summary", "publish"}
Phases == {"idle", "extract", "summary", "jobs", "commit", "publish", "archive", "complete"}
Outcomes == {"none", "named", "cached", "content", "transient", "terminal",
             "queued", "calling", "answered", "valid"}
Statuses == {"none", "success", "partial", "failed"}
NoBatch == [files |-> {}, status |-> "none"]

RowsOK ==
  /\ extract \in [Documents -> RowState]
  /\ summary \in [Documents -> RowState]
  /\ publish \in [Documents -> RowState]

FilesOK ==
  /\ artifact \in [Documents -> {"none", "named", "cached"}]
  /\ named \in [Names -> PDFs \union {Nothing}]
  /\ cached \subseteq PDFs
  /\ entry \in [PDFs -> PDFs \union {Nothing, Corrupt}]
  /\ recorded \in [PDFs -> {"none", "same", "other"}]
  /\ delivered \subseteq SUBSET Documents

BatchOK ==
  /\ phase \in Phases
  /\ batch \in Seq(Documents) /\ at \in 1 .. Len(batch) + 1
  /\ mine \subseteq Stages \X Documents
  /\ last \in [files : SUBSET Documents, status : Statuses]

MemoryOK ==
  /\ seen \in [Documents -> PDFs \union {Nothing}]
  /\ outcome \in [Documents -> Outcomes]
  /\ ready \subseteq Documents
  /\ failed \in BOOLEAN /\ refused \in BOOLEAN

CountsOK ==
  faults \in 0 .. MaxFaults /\ paid \subseteq PDFs /\ lost \subseteq PDFs /\ damaged \subseteq PDFs

TypeOK == RowsOK /\ FilesOK /\ BatchOK /\ MemoryOK /\ CountsOK

Init ==
  /\ extract = [d \in Documents |-> "none"]
  /\ summary = [d \in Documents |-> "none"]
  /\ publish = [d \in Documents |-> "none"]
  /\ artifact = [d \in Documents |-> "none"]
  /\ named = [n \in Names |-> Nothing]
  /\ cached = {} /\ delivered = {}
  /\ entry = [p \in PDFs |-> Nothing] /\ recorded = [p \in PDFs |-> "none"]
  /\ phase = "idle" /\ batch = <<>> /\ at = 1 /\ mine = {}
  /\ seen = [d \in Documents |-> Nothing]
  /\ outcome = [d \in Documents |-> "none"]
  /\ ready = {} /\ failed = FALSE /\ refused = FALSE /\ last = NoBatch
  /\ faults = 0 /\ paid = {} /\ lost = {} /\ damaged = {}

Fault == faults < MaxFaults /\ faults' = faults + 1

-----------------------------------------------------------------------------
(* The list of a tick and the batch made of it.                            *)

IsDue(d) ==
  \/ extract[d] \in Runnable
  \/ /\ extract[d] = "succeeded"
     /\ \/ summary[d] \in Runnable
        \/ summary[d] = "succeeded" /\ publish[d] \in Runnable

\* Downstream work comes first.
Rank(d) == CASE extract[d] # "succeeded" -> 2
             [] summary[d] # "succeeded" -> 1
             [] OTHER -> 0

Before(d, e) == Rank(d) < Rank(e) \/ (Rank(d) = Rank(e) /\ d < e)

InOrder(S) ==
  CHOOSE list \in [1 .. Cardinality(S) -> S] :
    \A i, j \in DOMAIN list : i < j => Before(list[i], list[j])

Listed ==
  LET due == InOrder({d \in Documents : IsDue(d)})
  IN  SubSeq(due, 1, Min({Quota, Len(due)}))

\* Documents of the same bytes share their artifact, hence their path.
Repeats(list) == \E i, j \in DOMAIN list : i # j /\ Pdf[list[i]] = Pdf[list[j]]

\* What the file of a document's extracted-text artifact holds now.
TextAt(d) == CASE artifact[d] = "named" -> named[Named[d]]
               [] artifact[d] = "cached" /\ Pdf[d] \in cached -> Pdf[d]
               [] OTHER -> Nothing

Rehydrated(d) == extract[d] = "succeeded" /\ TextAt(d) # Nothing

\* Mutant: a text that is gone is not extracted again.
ClaimableOnce(d) == extract[d] \in Runnable

\* A succeeded extraction whose text is gone is queued again and claimed.
Claimable(d) == extract[d] \in Runnable \/ (extract[d] = "succeeded" /\ TextAt(d) = Nothing)

In(list) == {list[i] : i \in DOMAIN list}
Holds(stage, d) == <<stage, d>> \in mine
Held(stage) == {d \in Documents : Holds(stage, d)}
Move(row, S, state) == [d \in Documents |-> IF d \in S THEN state ELSE row[d]]

\* A manifest that repeats a path is refused before anything is claimed.
RejectBatch ==
  /\ phase = "idle" /\ Repeats(Listed)
  /\ last' = [files |-> In(Listed), status |-> "failed"]
  /\ UNCHANGED <<rows, files, delivered, loop, batch, mine, memory, faults, history>>

StartBatch ==
  /\ phase = "idle" /\ Listed # <<>> /\ ~Repeats(Listed)
  /\ LET claims == {d \in In(Listed) : Claimable(d)}
     IN  /\ extract' = Move(extract, claims, "running")
         /\ mine' = {"extract"} \X claims
         /\ phase' = IF claims = {} THEN "summary" ELSE "extract"
  /\ seen' = [d \in Documents |-> IF d \in In(Listed) /\ Rehydrated(d) THEN TextAt(d) ELSE Nothing]
  /\ batch' = Listed /\ at' = 1
  /\ UNCHANGED <<summary, publish, files, delivered, outcome, ready, failed, refused,
                 last, faults, history>>

Here == batch[at]
InLoop(p) == phase = p /\ at <= Len(batch)
LoopEnds(p) == phase = p /\ at > Len(batch)
Goto(p) == phase' = p /\ at' = 1
Step == at' = at + 1 /\ UNCHANGED phase
Returned(x) == outcome' = [outcome EXCEPT ![Here] = x]

-----------------------------------------------------------------------------
(* The extractor: a subprocess that takes the claimed files one by one.    *)

Extracting(d) == InLoop("extract") /\ d = Here /\ Holds("extract", d)

\* A text in the cache is found by the digest of the PDF.
ExtractCached(d) ==
  /\ Extracting(d) /\ Pdf[d] \in cached
  /\ Returned("cached") /\ UNCHANGED <<named, cached, faults>>

\* A new text goes to the file of the PDF's name, then into the cache.
ExtractNew(d) ==
  /\ Extracting(d) /\ Pdf[d] \notin cached /\ d \notin Unreadable
  /\ named' = [named EXCEPT ![Named[d]] = Pdf[d]]
  /\ cached' = cached \union {Pdf[d]}
  /\ Returned("named") /\ UNCHANGED faults

ExtractNoText(d) ==
  /\ Extracting(d) /\ d \in Unreadable
  /\ Returned("content") /\ UNCHANGED <<named, cached, faults>>

\* OCR was interrupted, or a tool is missing.
ExtractBreaks(d) ==
  /\ Extracting(d) /\ Pdf[d] \notin cached /\ Fault
  /\ Returned("transient") \/ Returned("terminal")
  /\ UNCHANGED <<named, cached>>

ExtractFile ==
  /\ \E d \in Documents :
       ExtractCached(d) \/ ExtractNew(d) \/ ExtractNoText(d) \/ ExtractBreaks(d)
  /\ Step
  /\ UNCHANGED <<rows, artifact, entry, recorded, delivered, batch, mine, seen, ready,
                 failed, refused, last, history>>

SkipFile ==
  /\ InLoop("extract") /\ ~Holds("extract", Here) /\ Step
  /\ UNCHANGED <<rows, files, delivered, batch, mine, memory, last, faults, history>>

FailExtraction(state) ==
  /\ extract' = Move(extract, Held("extract"), state)
  /\ failed' = TRUE
  /\ UNCHANGED <<artifact, seen, refused>>

\* A text is checked by the number of its characters only.
AsLong(text, counted) == text # Nothing /\ Chars[text] = Chars[counted]

\* One text that is not as long as the worker counted spoils the whole manifest.
TextReturned(d) == IF outcome[d] = "named" THEN named[Named[d]] ELSE Pdf[d]
Overwritten(d) == outcome[d] = "named" /\ ~AsLong(TextReturned(d), Pdf[d])

Read(d) == Holds("extract", d) /\ outcome[d] \in {"named", "cached"}

\* Mutant: the category of the failure is stored as the state.
VerdictRaw(d) == IF Read(d) THEN "succeeded" ELSE outcome[d]

Verdict(d) == CASE outcome[d] \in {"named", "cached"} -> "succeeded"
                [] outcome[d] = "content" -> "quarantined"
                [] outcome[d] = "transient" -> "waiting"
                [] OTHER -> "blocked"

AcceptExtraction ==
  /\ extract' = [d \in Documents |-> IF Holds("extract", d) THEN Verdict(d) ELSE extract[d]]
  /\ artifact' = [d \in Documents |-> IF Read(d) THEN outcome[d] ELSE artifact[d]]
  /\ seen' = [d \in Documents |-> IF Read(d) THEN TextReturned(d) ELSE seen[d]]
  /\ failed' = \E d \in Held("extract") : ~Read(d)
  /\ refused' = \E d \in Held("extract") : outcome[d] = "content"

FinishExtract ==
  /\ LoopEnds("extract")
  /\ IF \E d \in Held("extract") : Overwritten(d)
     THEN FailExtraction("waiting")
     ELSE AcceptExtraction
  /\ Goto("summary") /\ mine' = {}
  /\ outcome' = [d \in Documents |-> "none"]
  /\ UNCHANGED <<summary, publish, named, cached, entry, recorded, delivered, batch, ready,
                 last, faults, history>>

\* The subprocess runs out of time, or exits with an error.
ExtractorDies ==
  /\ phase = "extract" /\ Fault
  /\ FailExtraction("waiting") \/ FailExtraction("blocked")
  /\ Goto("summary") /\ mine' = {}
  /\ outcome' = [d \in Documents |-> "none"]
  /\ UNCHANGED <<summary, publish, named, cached, entry, recorded, delivered, batch, ready,
                 last, history>>

-----------------------------------------------------------------------------
(* Summaries: each document is claimed, looked up and, on a miss, queued.  *)

Preparing(d) == InLoop("summary") /\ d = Here /\ seen[d] # Nothing
Cached(d) == entry[Pdf[d]] \in PDFs
ClaimsSummary(d) == summary[d] \in Runnable

\* The readable copy in the research library may fail; the summary stands.
ProjectSummary ==
  \/ failed' = failed /\ UNCHANGED faults
  \/ Library /\ Fault /\ failed' = TRUE

\* A claimed summary is recorded as an artifact, which never changes its content.
Recordable(d) == ClaimsSummary(d) => recorded[Pdf[d]] # "other"

UseCached(d) ==
  /\ Preparing(d) /\ Cached(d) /\ Recordable(d)
  /\ IF ClaimsSummary(d)
     THEN /\ summary' = [summary EXCEPT ![d] = "succeeded"]
          /\ recorded' = [recorded EXCEPT ![Pdf[d]] = "same"]
     ELSE UNCHANGED <<summary, recorded>>
  /\ ready' = ready \union {d}
  /\ ProjectSummary
  /\ UNCHANGED <<outcome, mine>>

QueueJob(d) ==
  /\ Preparing(d) /\ entry[Pdf[d]] = Nothing /\ ClaimsSummary(d)
  /\ summary' = [summary EXCEPT ![d] = "running"]
  /\ mine' = mine \union {<<"summary", d>>}
  /\ Returned("queued")
  /\ UNCHANGED <<recorded, ready, failed, faults>>

\* No summary, and none to claim: the loop goes on.
NoJob(d) ==
  /\ Preparing(d) /\ entry[Pdf[d]] = Nothing /\ ~ClaimsSummary(d)
  /\ UNCHANGED <<summary, recorded, mine, outcome, ready, failed, faults>>

PrepareSummary ==
  /\ \E d \in Documents : UseCached(d) \/ QueueJob(d) \/ NoJob(d)
  /\ Step
  /\ UNCHANGED <<extract, publish, artifact, named, cached, entry, delivered, batch, seen,
                 refused, last, history>>

SkipSummary ==
  /\ InLoop("summary") /\ seen[Here] = Nothing /\ Step
  /\ UNCHANGED <<rows, files, delivered, batch, mine, memory, last, faults, history>>

Forget ==
  /\ Goto("idle") /\ batch' = <<>> /\ mine' = {}
  /\ seen' = [d \in Documents |-> Nothing]
  /\ outcome' = [d \in Documents |-> "none"]
  /\ ready' = {} /\ failed' = FALSE /\ refused' = FALSE

\* An entry that is corrupt, or not what is on record, raises out of the loop:
\* the batch fails, its claims stay.
CorruptEntry(d) ==
  /\ Preparing(d)
  /\ entry[Pdf[d]] = Corrupt \/ (Cached(d) /\ ~Recordable(d))
  /\ summary' = IF ClaimsSummary(d) THEN [summary EXCEPT ![d] = "running"] ELSE summary
  /\ last' = [files |-> In(batch), status |-> "failed"]
  /\ Forget
  /\ UNCHANGED <<extract, publish, files, delivered, faults, history>>

StartJobs ==
  /\ LoopEnds("summary") /\ Goto("jobs")
  /\ UNCHANGED <<rows, files, delivered, batch, mine, memory, last, faults, history>>

Calling  == {d \in Documents : outcome[d] = "calling"}
Answered == {d \in Documents : outcome[d] = "answered"}
Queued   == {i \in DOMAIN batch : outcome[batch[i]] = "queued"}

\* A worker thread reads the text again: it must be as long as it was.
StartCall ==
  /\ phase = "jobs" /\ Queued # {} /\ Cardinality(Calling \union Answered) < Workers
  /\ LET d == batch[Min(Queued)]
     IN  IF AsLong(TextAt(d), seen[d])
         THEN /\ outcome' = [outcome EXCEPT ![d] = "calling"]
              /\ seen' = [seen EXCEPT ![d] = TextAt(d)]
         ELSE outcome' = [outcome EXCEPT ![d] = "transient"] /\ UNCHANGED seen
  /\ UNCHANGED <<rows, files, delivered, loop, batch, mine, ready, failed, refused,
                 last, faults, history>>

\* The model has answered; so far only the thread knows.
ReceiveAnswer(d) ==
  /\ outcome[d] = "calling"
  /\ outcome' = [outcome EXCEPT ![d] = "answered"]
  /\ paid' = paid \union {Pdf[d]}
  /\ UNCHANGED <<rows, files, delivered, loop, batch, mine, seen, ready, failed, refused,
                 last, faults, lost, damaged>>

\* The entry of a new answer; it need not read as the artifact on record does.
Enter(d) ==
  /\ entry' = [entry EXCEPT ![Pdf[d]] = seen[d]]
  /\ \E x \in IF recorded[Pdf[d]] = "none" THEN {"none"} ELSE {"same", "other"} :
       recorded' = [recorded EXCEPT ![Pdf[d]] = x]
  /\ lost' = lost \ {Pdf[d]}

\* Mutant: the answer is stored by the main thread only.
StoreAnswerUncommitted(d) ==
  /\ outcome[d] = "answered"
  /\ outcome' = [outcome EXCEPT ![d] = "valid"]
  /\ UNCHANGED <<rows, files, delivered, loop, batch, mine, seen, ready,
                 failed, refused, last, faults, history>>

\* The thread stores a valid answer before its siblings have finished.
StoreAnswer(d) ==
  /\ outcome[d] = "answered"
  /\ outcome' = [outcome EXCEPT ![d] = "valid"]
  /\ Enter(d)
  /\ UNCHANGED <<rows, artifact, named, cached, delivered, loop, batch, mine, seen, ready,
                 failed, refused, last, faults, paid, damaged>>

\* Writing fails before the entry is committed, and the answer is gone, or
\* after it, at the files of the batch: the job has an error either way.
StoreFails(d) ==
  /\ outcome[d] = "answered" /\ Fault
  /\ outcome' = [outcome EXCEPT ![d] = "terminal"]
  /\ \/ lost' = lost \union {Pdf[d]} /\ UNCHANGED <<entry, recorded>>
     \/ Enter(d)
  /\ UNCHANGED <<rows, artifact, named, cached, delivered, loop, batch, mine, seen, ready,
                 failed, refused, last, paid, damaged>>

CallEnds(d, x) ==
  /\ outcome[d] = "calling" /\ Fault
  /\ outcome' = [outcome EXCEPT ![d] = x]
  /\ UNCHANGED <<rows, files, delivered, loop, batch, mine, seen, ready, failed, refused,
                 last, history>>

\* The process group is killed at the time limit.
CallTimesOut(d) == CallEnds(d, "transient")

\* A non-zero exit: an unknown model or a logged-out client waits for a person.
CallErrors(d) == CallEnds(d, "transient") \/ CallEnds(d, "terminal")

\* An answer outside the schema, or for another input.
AnswerRejected(d) == CallEnds(d, "terminal")

CallFails(d) == CallTimesOut(d) \/ CallErrors(d) \/ AnswerRejected(d)

JobsDone ==
  /\ phase = "jobs" /\ Queued = {} /\ Calling \union Answered = {} /\ Goto("commit")
  /\ UNCHANGED <<rows, files, delivered, batch, mine, memory, last, faults, history>>

\* The main thread stores the answer again, which finds the same entry, and
\* completes the stage.
StoreAgain(d) ==
  /\ outcome[d] = "valid" /\ entry[Pdf[d]] # Corrupt
  /\ entry' = [entry EXCEPT ![Pdf[d]] = IF @ = Nothing THEN seen[d] ELSE @]

CommitSummary(d) ==
  /\ StoreAgain(d) /\ recorded[Pdf[d]] # "other"
  /\ recorded' = [recorded EXCEPT ![Pdf[d]] = "same"]
  /\ summary' = [summary EXCEPT ![d] = "succeeded"]
  /\ ready' = ready \union {d}
  /\ ProjectSummary

\* An entry altered meanwhile, an answer that is not what is on record, or a
\* write that fails blocks the stage.
BlockSummary(d) ==
  /\ \/ /\ outcome[d] = "terminal" \/ (outcome[d] = "valid" /\ entry[Pdf[d]] = Corrupt)
        /\ UNCHANGED <<entry, faults>>
     \/ /\ StoreAgain(d)
        /\ (recorded[Pdf[d]] = "other" /\ UNCHANGED faults) \/ Fault
  /\ summary' = [summary EXCEPT ![d] = "blocked"]

RetrySummary(d) ==
  /\ outcome[d] = "transient"
  /\ summary' = [summary EXCEPT ![d] = "waiting"]
  /\ UNCHANGED <<entry, faults>>

FailSummary(d) ==
  /\ RetrySummary(d) \/ BlockSummary(d)
  /\ failed' = TRUE
  /\ UNCHANGED <<recorded, ready>>

CommitOutcome ==
  /\ InLoop("commit")
  /\ CommitSummary(Here) \/ FailSummary(Here)
  /\ mine' = mine \ {<<"summary", Here>>}
  /\ Step
  /\ UNCHANGED <<extract, publish, artifact, named, cached, delivered, batch, seen, outcome,
                 refused, last, history>>

SkipOutcome ==
  /\ InLoop("commit") /\ outcome[Here] = "none" /\ Step
  /\ UNCHANGED <<rows, files, delivered, batch, mine, memory, last, faults, history>>

-----------------------------------------------------------------------------
(* Publication of the summaries in memory, as one group.                   *)

ClaimPublish ==
  /\ LoopEnds("commit") /\ Goto("publish")
  /\ LET claims == {d \in ready : publish[d] \in Runnable}
     IN  /\ publish' = Move(publish, claims, "running")
         /\ mine' = {"publish"} \X claims
  /\ UNCHANGED <<extract, summary, files, delivered, batch, memory, last, faults, history>>

\* A group with a member that is not claimed goes on only after a success.
Publishable ==
  /\ Held("publish") # {}
  /\ Held("publish") = ready \/ ready \in delivered

\* Mutant: the failure is not reported.
FailPublishSilently(state) ==
  /\ publish' = Move(publish, Held("publish"), state)
  /\ mine' = {} /\ UNCHANGED failed /\ Goto("complete")

FailPublish(state) ==
  /\ publish' = Move(publish, Held("publish"), state)
  /\ mine' = {} /\ failed' = TRUE /\ Goto("complete")

PublishGroup ==
  /\ phase = "publish" /\ Publishable
  /\ delivered' = delivered \union {ready} /\ Goto("archive")
  /\ UNCHANGED <<rows, files, batch, mine, memory, last, faults, history>>

PublishFails ==
  /\ phase = "publish" /\ Publishable /\ Fault
  /\ FailPublish("waiting") \/ FailPublish("blocked")
  /\ UNCHANGED <<extract, summary, files, delivered, batch, seen, outcome, ready, refused,
                 last, history>>

SkipPublish ==
  /\ phase = "publish" /\ ~Publishable /\ Goto("complete") /\ mine' = {}
  /\ UNCHANGED <<rows, files, delivered, batch, memory, last, faults, history>>

\* The notes of the group in the library and in the vault: without a vault the
\* adapter archives none, and the processor expects one for each entry.
Archives == ~Library \/ Vault

ArchiveSidecar ==
  /\ phase = "archive" /\ Archives /\ Goto("complete")
  /\ UNCHANGED <<rows, files, delivered, batch, mine, memory, last, faults, history>>

ArchiveFails ==
  /\ phase = "archive"
  /\ \/ ~Archives /\ FailPublish("waiting") /\ UNCHANGED faults
     \/ Library /\ Archives /\ Fault /\ (FailPublish("waiting") \/ FailPublish("blocked"))
  /\ UNCHANGED <<extract, summary, files, delivered, batch, seen, outcome, ready, refused,
                 last, history>>

CompletePublish ==
  /\ InLoop("complete") /\ Step
  /\ IF Holds("publish", Here)
     THEN /\ publish' = [publish EXCEPT ![Here] = "succeeded"]
          /\ mine' = mine \ {<<"publish", Here>>}
     ELSE UNCHANGED <<publish, mine>>
  /\ UNCHANGED <<extract, summary, files, delivered, batch, memory, last, faults, history>>

Status == CASE ~failed -> "success"
            [] ready # {} \/ refused -> "partial"
            [] OTHER -> "failed"

FinishBatch ==
  /\ LoopEnds("complete")
  /\ last' = [files |-> In(batch), status |-> Status]
  /\ Forget
  /\ UNCHANGED <<rows, files, delivered, faults, history>>

-----------------------------------------------------------------------------
(* The environment: time, crashes, and files that get lost.                *)

Ripe(stage, row, d) == row[d] = "waiting" \/ (row[d] = "running" /\ ~Holds(stage, d))

Elapse(d) ==
  /\ \/ /\ Ripe("extract", extract, d)
        /\ extract' = [extract EXCEPT ![d] = "due"] /\ UNCHANGED <<summary, publish>>
     \/ /\ Ripe("summary", summary, d)
        /\ summary' = [summary EXCEPT ![d] = "due"] /\ UNCHANGED <<extract, publish>>
     \/ /\ Ripe("publish", publish, d)
        /\ publish' = [publish EXCEPT ![d] = "due"] /\ UNCHANGED <<extract, summary>>
  /\ UNCHANGED <<files, delivered, loop, batch, mine, memory, last, faults, history>>

\* An answer a thread has received and not yet stored dies with the process.
Crash ==
  /\ phase # "idle" /\ Fault /\ Forget
  /\ lost' = lost \union {Pdf[d] : d \in Answered}
  /\ UNCHANGED <<rows, files, delivered, last, paid, damaged>>

LoseText(n) ==
  /\ named[n] # Nothing /\ Fault
  /\ named' = [named EXCEPT ![n] = Nothing]
  /\ UNCHANGED <<rows, artifact, cached, entry, recorded, delivered, loop, batch, mine, memory,
                 last, history>>

DamageEntry(p) ==
  /\ entry[p] \in PDFs /\ Fault
  /\ \E x \in {Nothing, Corrupt} : entry' = [entry EXCEPT ![p] = x]
  /\ damaged' = damaged \union {p}
  /\ UNCHANGED <<rows, artifact, named, cached, recorded, delivered, loop, batch, mine, memory,
                 last, paid, lost>>

BatchStep ==
  \/ StartBatch \/ RejectBatch
  \/ ExtractFile \/ SkipFile \/ FinishExtract
  \/ PrepareSummary \/ SkipSummary \/ StartJobs
  \/ \E d \in Documents : CorruptEntry(d) \/ ReceiveAnswer(d) \/ StoreAnswer(d)
  \/ StartCall \/ JobsDone \/ CommitOutcome \/ SkipOutcome
  \/ ClaimPublish \/ PublishGroup \/ SkipPublish \/ ArchiveSidecar \/ ArchiveFails
  \/ CompletePublish \/ FinishBatch

Environment ==
  \/ \E d \in Documents : Elapse(d) \/ CallFails(d) \/ StoreFails(d)
  \/ ExtractorDies \/ PublishFails \/ Crash
  \/ \E n \in Names : LoseText(n)
  \/ \E p \in PDFs : DamageEntry(p)

Next == BatchStep \/ Environment

Spec == Init /\ [][Next]_vars

\* launchd wakes the tick again and again, and time passes; faults are free.
FairSpec ==
  /\ Spec /\ WF_vars(BatchStep)
  /\ \A d \in Documents : WF_vars(Elapse(d))

-----------------------------------------------------------------------------
\* No model call is made for a PDF whose valid answer was stored, unless its
\* committed summary was lost or altered on disk since: a restart reuses what a
\* thread stored, whatever the main thread had acknowledged.  An answer that was
\* received is paid for again only where the process died, or the disk failed,
\* before the thread had stored it.
PaidOnce == \A d \in Calling : Pdf[d] \in paid => Pdf[d] \in damaged \union lost

\* A summary that is committed for a report was made of the text of that report.  The
\* code keeps it only while no two PDFs share the name of their text
\* (ProcessingOneName.cfg).
SummaryIsOfItsReport == \A p \in PDFs : entry[p] \in PDFs => entry[p] = p

\* A batch that reports success has published every document it listed, as
\* long as no committed summary was lost under it.
SuccessIsComplete ==
  last.status = "success" /\ damaged = {} =>
    \A d \in last.files : publish[d] = "succeeded"

Finished(d) ==
  \/ publish[d] = "succeeded"
  \/ \E row \in {extract[d], summary[d], publish[d]} : row \in {"quarantined", "blocked"}

\* Every report of the source is published in the end, or rests in a state
\* that asks for a reviewed retry: neither an unreadable sibling, nor a crash,
\* a lost text, a cooldown or the quota of a tick keeps it from there.  Not
\* promised once a committed summary was damaged, or while the list holds the
\* same bytes twice.
EveryReportIsFinished ==
  \/ <>(damaged # {} \/ Repeats(Listed))
  \/ \A d \in Documents : <>Finished(d)
=============================================================================
