----------------------------- MODULE Extractor ------------------------------
(***************************************************************************)
(* The extraction of a batch of PDFs, by a subprocess with a time limit:   *)
(*   extractor_worker                  src/zsxq_pipeline/extractor_worker.py*)
(*   ExtractorAdapter.extract_batch    src/zsxq_pipeline/extract.py        *)
(*   DigestProcessor._extract          src/zsxq_pipeline/process.py        *)
(* A PDF goes through the cache, pdftotext, ocrmypdf and the plan of       *)
(* OcrPlan until a text is good enough.  What the subprocess found is      *)
(* reported for all PDFs when it is done with the last one; only the cache *)
(* outlives a run that is killed.                                          *)
(***************************************************************************)
EXTENDS OcrPlan, FiniteSets

CONSTANTS
  PDFs,       \* digests of the PDFs, in the order of the batch
  PagesOf,    \* the pages of each
  DirectText, \* what pdftotext makes of it: "good", "degraded" or "poor"
  OcrText,    \* is its text good after OCR
  Garbled,    \* PDFs pdftotext reports a syntax error for
  BatchTime,  \* images the time limit of a run leaves room for
  MaxVersion, \* bound on releases with another extractor version
  MaxFaults   \* bound on tools that fail and on crashes

Kinds == {"missing", "geometry", "environment", "interrupted"}
Nothing == "nothing"

ASSUME ExtractorAssumption ==
  /\ PDFs \subseteq Nat /\ IsFiniteSet(PDFs) /\ Garbled \subseteq PDFs
  /\ PagesOf \in [PDFs -> Seq(Pages)]
  /\ DirectText \in [PDFs -> {"good", "degraded", "poor"}]
  /\ OcrText \in [PDFs -> BOOLEAN]
  /\ BatchTime \in Nat \ {0} /\ MaxVersion \in Nat \ {0} /\ MaxFaults \in Nat

VARIABLES
  row,     \* stage_attempts: the TEXT_EXTRACT row of a PDF
  meta,    \* the cache: what the meta file of a PDF says, and of which version
  text,    \* and what its text file holds
  version  \* CACHE_VERSION and EXTRACTOR_PROFILE of the release

VARIABLES
  phase,   \* where the subprocess is
  batch,   \* the claimed PDFs
  at,      \* position of the loop over them
  result,  \* what it found so far
  clock,   \* images drawn since it began
  errors,  \* kinds of the errors that decide how the current PDF fails
  earlier, \* kinds that count only when a size limit is met as well
  usable,  \* may the direct text stand in when OCR fails
  plans,   \* the plan of the current PDF's pages
  forced,  \* is it the plan of tiles after an image was too large
  image,   \* page and number of the next image
  drawn,   \* rows read and pixels drawn by this plan
  copy     \* the text that is being written, and is it new

VARIABLES
  faults,  \* faults so far
  limited, \* PDFs for which a size limit was met (history)
  spoiled  \* PDFs whose text was cut off while it was written again (history)

disk == <<row, meta, text, version>>
loop == <<phase, batch, at>>
work == <<errors, earlier, usable, plans, forced, image, drawn, copy>>
history == <<limited, spoiled>>
vars == <<disk, loop, result, clock, work, faults, history>>

RowStates == {"due", "succeeded", "quarantined", "blocked"}
Results == {"none", "success", "blank", "content", "env", "transient"}
Texts == {"none", "empty", "cut", "whole"}
Phases == {"idle", "look", "direct", "probe", "ocrmypdf", "plan", "draw", "judge",
           "conclude", "write", "meta", "report"}
Strategies == {"standard", "adaptive", "tiled"}
NoPlan == <<>>
NoRows == [rows |-> {}, pixels |-> 0]
NoCopy == [text |-> "none", new |-> FALSE]
NoMeta == [status |-> "none", version |-> 0]

DiskOK ==
  /\ row \in [PDFs -> RowStates]
  /\ meta \in [PDFs -> [status : {"none", "success", "failed"}, version : 0 .. MaxVersion]]
  /\ text \in [PDFs -> Texts]
  /\ version \in 1 .. MaxVersion

LoopOK ==
  /\ phase \in Phases
  /\ batch \in Seq(PDFs) /\ at \in 1 .. Len(batch) + 1
  /\ result \in [PDFs -> Results]
  /\ clock \in 0 .. BatchTime

WorkOK ==
  /\ errors \subseteq Kinds \union {"parse"} /\ earlier \subseteq Kinds
  /\ usable \in BOOLEAN /\ forced \in BOOLEAN
  /\ copy \in [text : Texts, new : BOOLEAN]

DrawnOK ==
  /\ plans \in Seq([strategy : Strategies, width : Nat, height : Nat, tile : Nat, count : Nat])
  /\ image \in [page : Nat, number : Nat]
  /\ drawn.pixels \in Nat /\ drawn.rows \subseteq Nat \X Nat

CountsOK == faults \in 0 .. MaxFaults /\ limited \subseteq PDFs /\ spoiled \subseteq PDFs

TypeOK == DiskOK /\ LoopOK /\ WorkOK /\ DrawnOK /\ CountsOK

First == [page |-> 1, number |-> 0]

Init ==
  /\ row = [p \in PDFs |-> "due"]
  /\ meta = [p \in PDFs |-> NoMeta]
  /\ text = [p \in PDFs |-> "none"]
  /\ version = 1
  /\ phase = "idle" /\ batch = <<>> /\ at = 1
  /\ result = [p \in PDFs |-> "none"] /\ clock = 0
  /\ errors = {} /\ earlier = {} /\ usable = FALSE /\ plans = NoPlan /\ forced = FALSE
  /\ image = First /\ drawn = NoRows /\ copy = NoCopy
  /\ faults = 0 /\ limited = {} /\ spoiled = {}

Fault == faults < MaxFaults /\ faults' = faults + 1

Here(ph, p) == phase = ph /\ at <= Len(batch) /\ p = batch[at]
Goto(ph) == phase' = ph /\ UNCHANGED <<batch, at>>
Fresh == /\ errors' = {} /\ earlier' = {} /\ usable' = FALSE
         /\ plans' = NoPlan /\ forced' = FALSE /\ image' = First /\ drawn' = NoRows /\ copy' = NoCopy

\* The next PDF of the batch, or the end of it.
NextItem ==
  /\ phase' = IF at = Len(batch) THEN "report" ELSE "look"
  /\ at' = at + 1 /\ Fresh /\ UNCHANGED batch

Conclude(p, found) == result' = [result EXCEPT ![p] = found] /\ NextItem

-----------------------------------------------------------------------------
(* A batch, and the cache                                                  *)

Claimed == {p \in PDFs : row[p] = "due"}

InOrder(S) ==
  CHOOSE list \in [1 .. Cardinality(S) -> S] : \A i, j \in DOMAIN list : i < j => list[i] < list[j]

StartBatch ==
  /\ phase = "idle" /\ Claimed # {}
  /\ batch' = InOrder(Claimed) /\ at' = 1 /\ phase' = "look"
  /\ result' = [p \in PDFs |-> "none"] /\ clock' = 0
  /\ UNCHANGED <<disk, work, faults, history>>

Says(p, status) == meta[p] = [status |-> status, version |-> version]
CachedText(p) == Says(p, "success") /\ text[p] # "none"
CachedFailure(p) == Says(p, "failed")

\* The file is cut to nothing and then written; finalize_text does so on a hit too.
BeginWrite(p, what, new) ==
  /\ text' = [text EXCEPT ![p] = "empty"]
  /\ copy' = [text |-> what, new |-> new]
  /\ Goto("write")

LookUp(p) ==
  /\ Here("look", p)
  /\ \/ /\ CachedText(p)
        /\ BeginWrite(p, text[p], FALSE)
        /\ UNCHANGED <<row, meta, version, result, errors, earlier, usable, plans, forced, image,
                        drawn>>
     \/ /\ ~CachedText(p) /\ CachedFailure(p)
        /\ Conclude(p, "content") /\ UNCHANGED disk
     \/ /\ ~CachedText(p) /\ ~CachedFailure(p)
        /\ Goto("direct") /\ UNCHANGED <<disk, result, work>>
  /\ UNCHANGED <<clock, faults, history>>

\* The PDF is not there, or cannot be read for its digest.
Unreachable(p) ==
  /\ Here("look", p) /\ Fault
  /\ Conclude(p, "env")
  /\ UNCHANGED <<disk, clock, history>>

-----------------------------------------------------------------------------
(* pdftotext                                                               *)

DirectGood(p) ==
  /\ Here("direct", p) /\ p \notin Garbled /\ DirectText[p] = "good"
  /\ BeginWrite(p, "whole", TRUE)
  /\ UNCHANGED <<row, meta, version, result, clock, errors, earlier, usable, plans,
                 forced, image, drawn, faults, history>>

\* A text that is not good may still stand in; a text with an error is none.
DirectPoor(p) ==
  /\ Here("direct", p)
  /\ \/ p \in Garbled /\ errors' = {"parse"} /\ UNCHANGED usable
     \/ /\ p \notin Garbled /\ DirectText[p] # "good"
        /\ usable' = (DirectText[p] = "degraded") /\ UNCHANGED errors
  /\ Goto("probe")
  /\ UNCHANGED <<disk, result, clock, earlier, plans, forced, image, drawn, copy, faults, history>>

DirectFails(p) ==
  /\ Here("direct", p) /\ Fault
  /\ \E kind \in Kinds \ {"geometry"} : errors' = {kind}
  /\ Goto("probe")
  /\ UNCHANGED <<disk, result, clock, earlier, usable, plans, forced, image, drawn, copy, history>>

-----------------------------------------------------------------------------
(* OCR: pdfinfo, ocrmypdf for standard pages, and the plan                 *)

Meets(p, kinds) ==
  IF "geometry" \in kinds
  THEN errors' = errors \union kinds \union earlier /\ limited' = limited \union {p}
  ELSE errors' = errors \union kinds /\ UNCHANGED limited

Standard(plan) == \A i \in DOMAIN plan : plan[i].strategy = "standard"

Probe(p) ==
  /\ Here("probe", p)
  /\ IF Supported(PagesOf[p], FALSE)
     THEN /\ plans' = DocumentPlan(PagesOf[p], FALSE)
          /\ Goto(IF Standard(plans') THEN "ocrmypdf" ELSE "draw")
          /\ UNCHANGED <<errors, limited>>
     ELSE Meets(p, {"geometry"}) /\ Goto("conclude") /\ UNCHANGED plans
  /\ UNCHANGED <<disk, result, clock, earlier, usable, forced, image, drawn, copy, faults, spoiled>>

\* Without page sizes ocrmypdf is tried all the same, and then pdfinfo again.
ProbeFails(p) ==
  /\ Here("probe", p) /\ Fault
  /\ \E kind \in Kinds \ {"geometry"} : earlier' = {kind}
  /\ Goto("ocrmypdf")
  /\ UNCHANGED <<disk, result, clock, errors, usable, plans, forced, image, drawn, copy, history>>

Ocrmypdf(p) ==
  /\ Here("ocrmypdf", p) /\ clock < BatchTime
  /\ clock' = clock + 1
  /\ Goto("judge")
  /\ UNCHANGED <<disk, result, work, faults, history>>

\* A call that fails may do so at once or after its time.
OcrmypdfFails(p) ==
  /\ Here("ocrmypdf", p) /\ Fault
  /\ clock' \in {clock, clock + 1} /\ clock' <= BatchTime
  /\ \E kind \in Kinds : earlier' = earlier \union {kind}
  /\ Goto(IF plans = NoPlan THEN "plan" ELSE "draw")
  /\ UNCHANGED <<disk, result, errors, usable, plans, forced, image, drawn, copy, history>>

Replan(p) ==
  /\ Here("plan", p)
  /\ IF Supported(PagesOf[p], FALSE)
     THEN plans' = DocumentPlan(PagesOf[p], FALSE) /\ Goto("draw") /\ UNCHANGED <<errors, limited>>
     ELSE Meets(p, {"geometry"}) /\ Goto("conclude") /\ UNCHANGED plans
  /\ UNCHANGED <<disk, result, clock, earlier, usable, forced, image, drawn, copy, faults, spoiled>>

Page == plans[image.page]
LastImage == image.page = Len(plans) /\ image.number = Page.count - 1

Following == IF image.number + 1 < Page.count
             THEN [image EXCEPT !.number = @ + 1]
             ELSE [page |-> image.page + 1, number |-> 0]

\* pdftoppm draws an image, tesseract reads it.
Draw(p) ==
  /\ Here("draw", p) /\ clock < BatchTime
  /\ clock' = clock + 1
  /\ drawn' = [rows |-> drawn.rows \union ({image.page} \X Rows(Page, image.number)),
               pixels |-> drawn.pixels + Page.width * Cardinality(Rows(Page, image.number))]
  /\ IF LastImage THEN Goto("judge") /\ UNCHANGED image
                  ELSE image' = Following /\ UNCHANGED loop
  /\ UNCHANGED <<disk, result, errors, earlier, usable, plans, forced, copy, faults, history>>

\* An image that is too large leads to the plan of tiles, once; whatever stops
\* that plan is reported as a page that is too large.
DrawTooLarge(p) ==
  /\ Here("draw", p) /\ ~forced /\ Fault
  /\ limited' = limited \union {p}
  /\ IF Supported(PagesOf[p], TRUE)
     THEN /\ plans' = DocumentPlan(PagesOf[p], TRUE) /\ forced' = TRUE
          /\ image' = First /\ drawn' = NoRows /\ UNCHANGED <<loop, errors>>
     ELSE /\ errors' = errors \union {"geometry"} \union earlier /\ Goto("conclude")
          /\ UNCHANGED <<plans, forced, image, drawn>>
  /\ UNCHANGED <<disk, result, clock, earlier, usable, copy, spoiled>>

\* pdfinfo, pdftoppm or tesseract fails, or the time limit of the document ends it.
DrawFails(p) ==
  /\ Here("draw", p) \/ Here("plan", p)
  /\ Fault
  /\ \E kind \in Kinds :
       /\ kind = "geometry" => forced
       /\ Meets(p, IF forced THEN {"geometry", kind} ELSE {kind})
  /\ Goto("conclude")
  /\ UNCHANGED <<disk, result, clock, earlier, usable, plans, forced, image, drawn, copy, spoiled>>

Judge(p) ==
  /\ Here("judge", p)
  /\ IF OcrText[p]
     THEN BeginWrite(p, "whole", TRUE)
     ELSE Goto("conclude") /\ UNCHANGED <<text, copy>>
  /\ UNCHANGED <<row, meta, version, result, clock, errors, earlier, usable, plans, forced,
                 image, drawn, faults, history>>

-----------------------------------------------------------------------------
(* What it comes to                                                        *)

\* Mutant: an interruption counts as a property of the PDF.
CategoryHasty(kinds) ==
  CASE "missing" \in kinds -> "env" [] OTHER -> "content"

\* classify_runtime_failure: the first kind that applies.
Category(kinds) ==
  CASE kinds = {} -> "content"
    [] "missing" \in kinds -> "env"
    [] "geometry" \in kinds -> "content"
    [] "environment" \in kinds -> "env"
    [] "parse" \in kinds -> "content"
    [] OTHER -> "transient"

StandIn(p) ==
  /\ Here("conclude", p) /\ usable
  /\ BeginWrite(p, "whole", TRUE)
  /\ UNCHANGED <<row, meta, version, result, clock, errors, earlier, usable, plans, forced,
                 image, drawn, faults, history>>

\* Only a failure of the content is kept.
SetFailure(p) ==
  /\ Here("conclude", p) /\ ~usable
  /\ meta' = IF Category(errors) = "content"
             THEN [meta EXCEPT ![p] = [status |-> "failed", version |-> version]]
             ELSE meta
  /\ Conclude(p, Category(errors))
  /\ UNCHANGED <<row, text, version, clock, faults, history>>

FinishWrite(p) ==
  /\ Here("write", p)
  /\ text' = [text EXCEPT ![p] = copy.text]
  /\ IF copy.new
     THEN Goto("meta") /\ UNCHANGED <<result, work>>
     ELSE Conclude(p, IF copy.text = "empty" THEN "blank" ELSE "success")
  /\ UNCHANGED <<row, meta, version, clock, faults, history>>

\* Mutant: the entry names the version the cache was made for, not the current one.
SaveMetaUnversioned(p) ==
  /\ Here("meta", p)
  /\ meta' = [meta EXCEPT ![p] = [status |-> "success", version |-> 0]]
  /\ Conclude(p, "success")
  /\ UNCHANGED <<row, text, version, clock, faults, history>>

SaveMeta(p) ==
  /\ Here("meta", p)
  /\ meta' = [meta EXCEPT ![p] = [status |-> "success", version |-> version]]
  /\ Conclude(p, "success")
  /\ UNCHANGED <<row, text, version, clock, faults, history>>

-----------------------------------------------------------------------------
(* The adapter and the stage ledger                                        *)

\* Mutant: the category is stored as the state.
RowOfRaw(found) ==
  CASE found = "success" -> "succeeded" [] found = "content" -> "quarantined" [] OTHER -> found

\* A transient failure is due again; a blocked row waits for a release.
RowOf(found) ==
  CASE found = "success" -> "succeeded"
    [] found = "content" -> "quarantined"
    [] found = "env" -> "blocked"
    [] OTHER -> "due"

Stop == /\ phase' = "idle" /\ batch' = <<>> /\ at' = 1 /\ clock' = 0
        /\ result' = [p \in PDFs |-> "none"] /\ Fresh

\* A success without text makes the whole report invalid.
Report ==
  /\ phase = "report"
  /\ row' = IF \E p \in PDFs : result[p] = "blank"
            THEN row
            ELSE [p \in PDFs |-> IF result[p] = "none" THEN row[p] ELSE RowOf(result[p])]
  /\ Stop
  /\ UNCHANGED <<meta, text, version, faults, history>>

\* A file that is being written may keep a part of its text, or nothing; a meta
\* file may be left unreadable.
Cut ==
  IF phase \in {"write", "meta"}
  THEN LET p == batch[at]
       IN  /\ text' \in IF phase = "write"
                        THEN {[text EXCEPT ![p] = part] : part \in {"empty", "cut"}}
                        ELSE {text}
           /\ meta' \in {meta} \union
                (IF phase = "meta" THEN {[meta EXCEPT ![p] = NoMeta]} ELSE {})
           /\ spoiled' = IF phase = "write" THEN spoiled \union {p} ELSE spoiled
  ELSE UNCHANGED <<meta, text, spoiled>>

\* TEXT_EXTRACT_TIMEOUT_SECONDS: the adapter kills the subprocess; every claim
\* of the batch is due again. Only OCR is timed here: a kill in another phase does
\* what Crash does, and is one of its bounded faults.
TimeUp ==
  /\ phase \in {"ocrmypdf", "draw"} /\ clock = BatchTime
  /\ Stop /\ UNCHANGED <<disk, faults, history>>

Crash ==
  /\ phase # "idle" /\ Fault
  /\ Cut /\ Stop
  /\ UNCHANGED <<row, version, limited>>

\* The subprocess alone dies, for instance of a full disk: a broken contract,
\* and every claim of the batch is blocked.
SubprocessDies ==
  /\ phase # "idle" /\ Fault
  /\ row' = [p \in PDFs |-> IF p \in ToSet(batch) THEN "blocked" ELSE row[p]]
  /\ Cut /\ Stop
  /\ UNCHANGED <<version, limited>>

\* A release with another version: other rows, and a cache that does not count.
Upgrade ==
  /\ phase = "idle" /\ version < MaxVersion
  /\ version' = version + 1
  /\ row' = [p \in PDFs |-> "due"]
  /\ UNCHANGED <<meta, text, loop, result, clock, work, faults, history>>

Step(p) ==
  \/ LookUp(p) \/ DirectGood(p) \/ DirectPoor(p) \/ Probe(p) \/ Ocrmypdf(p) \/ Replan(p)
  \/ Draw(p) \/ Judge(p) \/ StandIn(p) \/ SetFailure(p) \/ FinishWrite(p) \/ SaveMeta(p)

WorkerStep == StartBatch \/ Report \/ TimeUp \/ \E p \in PDFs : Step(p)

Environment ==
  \/ Crash \/ SubprocessDies \/ Upgrade
  \/ \E p \in PDFs : \/ Unreachable(p) \/ DirectFails(p) \/ ProbeFails(p) \/ OcrmypdfFails(p)
                     \/ DrawTooLarge(p) \/ DrawFails(p)

Next == WorkerStep \/ Environment

Spec == Init /\ [][Next]_vars

\* Ticks come again and again; nothing has to fail.
FairSpec == Spec /\ WF_vars(WorkerStep)

-----------------------------------------------------------------------------
\* When the images of a plan have been read, every row of every page was in one
\* of them, no image was over the limits, and no more was drawn than the plan
\* had projected against the limit of the document.
EveryRowIsRead == phase = "judge" /\ drawn # NoRows =>
  /\ drawn.rows = UNION {{i} \X (0 .. plans[i].height - 1) : i \in DOMAIN plans}
  /\ \A i \in DOMAIN plans :
       /\ plans[i].width <= MaxImageDimension /\ plans[i].tile <= MaxImageDimension
       /\ plans[i].width * plans[i].tile <= MaxPagePixels
  /\ drawn.pixels = DocumentPixels(plans) /\ drawn.pixels <= MaxDocumentPixels

Readable(p) == DirectText[p] # "poor" \/ OcrText[p]

\* What the cache says of a PDF is true, whatever runs were killed or tools
\* failed: a text is whole unless a crash cut it while it was written, and a PDF
\* is given up for good only if nothing can be read from it, pdftotext found it
\* malformed, or a size limit was met; never for an interruption or a missing tool.
CacheTellsTheTruth == \A p \in PDFs :
  /\ CachedText(p) => text[p] = "whole" \/ p \in spoiled \/ Here("write", p)
  /\ CachedFailure(p) => ~Readable(p) \/ p \in Garbled \/ p \in limited

\* Every PDF is concluded although a run has no time for the whole batch: the
\* cache keeps what runs that were killed had found.
EveryPdfIsConcluded == <>(spoiled # {}) \/ \A p \in PDFs : <>[](row[p] # "due")
=============================================================================
