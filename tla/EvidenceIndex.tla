--------------------------- MODULE EvidenceIndex ----------------------------
(***************************************************************************)
(* The full-text index of the research library, kept beside the catalogue  *)
(* of reports and the notes of the Obsidian vault:                         *)
(*   refresh_catalog_source, reconcile_catalog                             *)
(*                                    scripts/research_evidence_index.py   *)
(*   upsert_report                    scripts/research_library_index.py    *)
(*   upsert_metadata, upsert_search_note, rebuild_search_index             *)
(*                                    scripts/kb_common.py                 *)
(*   archive_batch                    scripts/archive_to_obsidian.py       *)
(*   reconcile                        scripts/kb_reconcile_search.py       *)
(*   ArtifactSidecars                 src/zsxq_pipeline/sidecars.py        *)
(*   _maybe_reconcile_search          src/zsxq_pipeline/worker.py          *)
(* One table holds rows that belong to the catalogue and rows that belong  *)
(* to notes; a row of the catalogue may show only a text the writer of the *)
(* summaries has vouched for.  Files change under the feet of the worker,  *)
(* and a person may rebuild the table or relabel reports meanwhile.        *)
(***************************************************************************)
EXTENDS Integers, Sequences, FiniteSets, FiniteSetsExt

CONSTANTS
  Reports,     \* catalogue entries, each with one summary and one note
  Texts,       \* what a summary may say
  Unsafe,      \* texts that must not be indexed
  LabelOf,     \* what the note of a text is labelled: companies and tickers
  Legacy,      \* reports with a summary and a note from before this index
  LegacyText,  \* what their summaries say
  Nothing,
  MaxEvents    \* bound on summaries and publications, edits, rebuilds, failed
               \* reads and crashes together

Labels == {LabelOf[t] : t \in Texts \union Unsafe}

ASSUME EvidenceAssumption ==
  /\ Reports \subseteq Nat /\ IsFiniteSet(Reports) /\ Legacy \subseteq Reports
  /\ Nothing \notin Texts \union Unsafe \union Labels /\ Texts \intersect Unsafe = {}
  /\ LegacyText \in Texts
  /\ MaxEvents \in Nat

VARIABLES
  summary,  \* summary files: the text, and a stamp for stat's times and size
  note,     \* notes: the labels, and a stamp
  row,      \* table reports
  evidence, \* table report_evidence_state
  search,   \* table report_search: row ids and rows
  index     \* table report_search_state: the stamps a note was indexed with

VARIABLES
  job,      \* what the worker is at
  rebuild,  \* what a rebuild has read, and is the old table gone?
  done,     \* last_completed_date is today
  written,  \* the text the writer generated last (history)
  stamp, events

files == <<summary, note>>
tables == <<row, evidence, search, index>>
indexVars == <<files, tables, job, rebuild, done, written, stamp, events>>

Absent == [text |-> Nothing, stamp |-> 0]
NoNote == [labels |-> Nothing, stamp |-> 0]
NoStamps == <<0, 0>>
NoSignature == <<0, 0, Nothing, FALSE>>
Idle == [step |-> "idle", report |-> 0, expected |-> Nothing, labels |-> Nothing, lines |-> <<>>,
         sig |-> NoSignature, pending |-> <<>>, todo |-> {}, seen |-> {}, known |-> <<>>, listed |-> {}, failed |-> FALSE]

Steps == {"idle", "persist", "persisting", "publish", "publishing", "note", "enrich", "relabel", "enriching",
          "archive", "archiving", "load", "indexing", "notes", "noting", "entries", "catalog", "reading"}
EvidenceStatuses == {"none", "ready", "pdf_only", "source_changed", "error"}
Stamps == 0 .. stamp
Signatures == Stamps \X Stamps \X (Labels \union {Nothing}) \X BOOLEAN
Lines == [path : BOOLEAN, noted : BOOLEAN, labels : Labels \union {Nothing}, url : BOOLEAN]
States == [status : EvidenceStatuses, retry : BOOLEAN, text : Texts \union {Nothing},
           labels : Labels \union {Nothing}, signature : Signatures, rowid : Nat]
SearchRows == [report : Reports, owned : BOOLEAN, text : Texts \union {Nothing},
               labels : Labels \union {Nothing}]
Jobs(pending) == [step : Steps, report : Reports \union {0}, expected : Texts \union {Nothing},
                  labels : Labels \union {Nothing}, lines : [Reports -> Lines] \union {<<>>},
                  sig : Signatures, pending : {pending}, todo : SUBSET Reports, seen : SUBSET Reports,
                  known : [Reports -> Stamps \X Stamps] \union {<<>>}, listed : SUBSET Reports,
                  failed : BOOLEAN]
Rebuilds == [dropped : BOOLEAN,
             notes : [Reports -> [labels : Labels \union {Nothing}, stamps : Stamps \X Stamps]]]

IsTable(found) ==
  IsFiniteSet(DOMAIN found) /\ \A id \in DOMAIN found : id \in Nat \ {0} /\ found[id] \in SearchRows

FilesOK ==
  /\ stamp \in Nat
  /\ summary \in [Reports -> [text : Texts \union Unsafe \union {Nothing}, stamp : Stamps]]
  /\ note \in [Reports -> [labels : Labels \union {Nothing}, stamp : Stamps]]

TablesOK ==
  /\ row \in [Reports -> Lines]
  /\ evidence \in [Reports -> States]
  /\ IsTable(search)
  /\ index \in [Reports -> Stamps \X Stamps]

JobOK ==
  /\ job \in Jobs(job.pending)
  /\ job.pending # <<>> => job.pending[1] \in [Reports -> States] /\ IsTable(job.pending[2])

RestOK ==
  /\ rebuild \in Rebuilds \union {Nothing}
  /\ done \in BOOLEAN
  /\ written \in [Reports -> Texts \union {Nothing}]
  /\ events \in 0 .. MaxEvents

IndexTypeOK == FilesOK /\ TablesOK /\ JobOK /\ RestOK

\* Rows of the search table get the id after the largest there is.
NextRow(found) == IF DOMAIN found = {} THEN 1 ELSE 1 + Max(DOMAIN found)
Without(found, ids) == [id \in DOMAIN found \ ids |-> found[id]]
With(found, record) == [id \in DOMAIN found \union {NextRow(found)} |->
                          IF id \in DOMAIN found THEN found[id] ELSE record]

NoteRow(r, labels) == [report |-> r, owned |-> FALSE, text |-> Nothing, labels |-> labels]

\* One row for each of some notes, in their order, behind those there are.
Filled(found, labels) ==
  LET place(r) == NextRow(found) + Cardinality({q \in DOMAIN labels : q < r})
      owner(id) == CHOOSE r \in DOMAIN labels : place(r) = id
  IN  [id \in DOMAIN found \union {place(r) : r \in DOMAIN labels} |->
         IF id \in DOMAIN found THEN found[id] ELSE NoteRow(owner(id), labels[owner(id)])]

\* Every report has been downloaded; of a legacy one there is a summary, a note
\* and its row in the index as well.
IndexInit ==
  /\ summary = [r \in Reports |-> IF r \in Legacy THEN [text |-> LegacyText, stamp |-> 1] ELSE Absent]
  /\ note = [r \in Reports |->
       IF r \in Legacy THEN [labels |-> LabelOf[LegacyText], stamp |-> 1] ELSE NoNote]
  /\ row = [r \in Reports |->
       [path |-> r \in Legacy, noted |-> r \in Legacy, url |-> r \in Legacy,
        labels |-> IF r \in Legacy THEN LabelOf[LegacyText] ELSE Nothing]]
  /\ evidence = [r \in Reports |->
       [status |-> IF r \in Legacy THEN "none" ELSE "pdf_only", retry |-> FALSE, text |-> Nothing,
        labels |-> Nothing, signature |-> NoSignature, rowid |-> 0]]
  /\ search = Filled(<<>>, [r \in Legacy |-> LabelOf[LegacyText]])
  /\ index = [r \in Reports |-> IF r \in Legacy THEN <<1, 1>> ELSE NoStamps]
  /\ job = Idle /\ rebuild = Nothing /\ done = FALSE
  /\ written = [r \in Reports |-> IF r \in Legacy THEN LegacyText ELSE Nothing]
  /\ stamp = 1 /\ events = 0

Disturbance == events < MaxEvents /\ events' = events + 1
MayFail(fails) == IF fails THEN Disturbance ELSE UNCHANGED events
NewStamp == stamp' = stamp + 1

-----------------------------------------------------------------------------
(* The tables                                                              *)

NoteRows(found, r) == {id \in DOMAIN found : found[id].report = r /\ ~found[id].owned}

\* The row of the catalogue, if it is still where the state says.
OwnedRow(found, r) ==
  {id \in {evidence[r].rowid} \intersect DOMAIN found : found[id].report = r /\ found[id].owned}

\* Mutant: what people write into the catalogue leaves no trace.
SignatureOfFiles(r, line) ==
  <<IF line.path THEN summary[r].stamp ELSE 0, IF line.noted THEN note[r].stamp ELSE 0, Nothing, FALSE>>

\* _signature: what stat says of the files an entry names, and its metadata.
Signature(r, line) ==
  <<IF line.path THEN summary[r].stamp ELSE 0, IF line.noted THEN note[r].stamp ELSE 0,
    line.labels, line.url>>

\* Mutant: a row that has gone is not missed.
NeedsRefreshUnlessReady(r, sig) ==
  \/ evidence[r].status = "none" \/ evidence[r].signature # sig
  \/ evidence[r].status = "error" /\ evidence[r].retry

\* _needs_refresh
NeedsRefresh(r, sig) ==
  \/ evidence[r].status = "none" \/ evidence[r].signature # sig
  \/ evidence[r].status = "error" /\ evidence[r].retry
  \/ evidence[r].status = "ready" /\ OwnedRow(search, r) = {}

\* Mutant: only another report counts as a change, not another text.
DiffersInLabels(old, text, labels) == old.text # Nothing /\ old.labels # labels

\* Is it not what was accepted?
Differs(old, text, labels) == old.text # Nothing /\ (old.labels # labels \/ old.text # text)

\* Mutant: what must not be indexed is not screened.
SourceUnscreened(r, line, unread) == IF line.path /\ ~unread THEN summary[r].text ELSE Nothing

\* _source, for entries with a summary: its text; Nothing if it cannot be read or must
\* not be used.
Source(r, line, unread) ==
  IF line.path /\ ~unread /\ summary[r].text \in Texts THEN summary[r].text ELSE Nothing

\* refresh_catalog_source, for an entry that names its broker and date.  Only a
\* writer that names the text it means can have another one accepted; without it
\* the accepted one is kept.
Refreshed(r, line, sig, expected, unread, found) ==
  LET old      == evidence[r]
      text     == Source(r, line, unread)
      attested == expected # Nothing /\ expected = text
      changed  == text # Nothing /\ ~attested /\ (expected # Nothing \/ Differs(old, text, line.labels))
      status   == CASE changed -> "source_changed"
                    [] text # Nothing /\ ~changed -> "ready"
                    [] ~line.path -> "pdf_only"
                    [] OTHER -> "error"
      kept     == status # "ready" /\ old.text # Nothing
      rest     == Without(found, OwnedRow(found, r))
      shown    == [report |-> r, owned |-> TRUE, text |-> text, labels |-> line.labels]
  IN  [state |-> [status |-> status,
                  retry |-> status = "error" /\ (unread \/ summary[r].text = Nothing),
                  text |-> IF kept THEN old.text ELSE text,
                  labels |-> IF kept THEN old.labels ELSE line.labels,
                  signature |-> sig,
                  rowid |-> IF status = "ready" THEN NextRow(rest) ELSE 0],
       found |-> IF status = "ready" THEN With(rest, shown) ELSE rest]

-----------------------------------------------------------------------------
(* Summaries and publications, as the worker reports them to the catalogue *)

\* persist_summary: the file first.
Persist(r) ==
  /\ job.step = "idle" /\ Disturbance
  /\ \E t \in Texts :
       /\ summary' = [summary EXCEPT ![r] = [text |-> t, stamp |-> stamp + 1]]
       /\ written' = [written EXCEPT ![r] = t]
       /\ job' = [Idle EXCEPT !.step = "persist", !.report = r, !.expected = t]
  /\ NewStamp
  /\ UNCHANGED <<note, tables, rebuild, done>>

\* archive_published_group, for one report.
ArchivePublished(r) ==
  /\ job.step = "idle" /\ row[r].path /\ Disturbance
  /\ job' = [Idle EXCEPT !.step = "publish", !.report = r]
  /\ UNCHANGED <<files, tables, rebuild, done, written, stamp>>

Merged(line, step) ==
  CASE step = "persist" -> [line EXCEPT !.path = TRUE]
    [] step = "publish" -> [line EXCEPT !.url = TRUE]
    [] step = "archive" -> [line EXCEPT !.noted = TRUE]

\* upsert_report: the entry, and a look at the files; the transaction is open.
Upsert ==
  /\ job.step \in {"persist", "publish", "archive"}
  /\ LET r == job.report  line == Merged(row[r], job.step) IN
     job' = [job EXCEPT !.lines = [row EXCEPT ![r] = line], !.sig = Signature(r, line),
               !.step = CASE job.step = "persist" -> "persisting"
                          [] job.step = "publish" -> "publishing"
                          [] job.step = "archive" -> "archiving"]
  /\ UNCHANGED <<files, tables, rebuild, done, written, stamp, events>>

Settling == {"persisting", "publishing", "enriching", "archiving"}

\* The text is read and everything is committed.
SettleEntry ==
  /\ job.step \in Settling
  /\ LET r == job.report IN
     /\ row' = [row EXCEPT ![r] = job.lines[r]]
     /\ IF job.expected # Nothing \/ NeedsRefresh(r, job.sig)
        THEN \E unread \in BOOLEAN :
               LET new == Refreshed(r, job.lines[r], job.sig, job.expected, unread, search)
               IN  /\ MayFail(unread)
                   /\ evidence' = [evidence EXCEPT ![r] = new.state]
                   /\ search' = new.found
        ELSE UNCHANGED <<evidence, search, events>>
     /\ job' = CASE job.step = "persisting" -> Idle
                 [] job.step = "publishing" -> [Idle EXCEPT !.step = "note", !.report = r]
                 [] job.step = "enriching" -> [Idle EXCEPT !.step = "archive", !.report = r]
                 [] job.step = "archiving" -> [Idle EXCEPT !.step = "load", !.report = r]
  /\ UNCHANGED <<files, index, rebuild, done, written, stamp>>

\* render_note, unless the summary has gone.
WriteNote ==
  /\ job.step = "note"
  /\ LET r == job.report IN
     IF summary[r].text = Nothing
     THEN job' = Idle /\ UNCHANGED <<note, stamp>>
     ELSE /\ note' = [note EXCEPT ![r] = [labels |-> LabelOf[summary[r].text], stamp |-> stamp + 1]]
          /\ NewStamp
          /\ job' = [job EXCEPT !.step = "enrich"]
  /\ UNCHANGED <<summary, tables, rebuild, done, written, events>>

\* enrich_note_metadata: the note is read and written again with its labels. An
\* error leads to the same entry.
Enrich ==
  /\ job.step = "enrich"
  /\ LET r == job.report IN
     IF note[r] = NoNote
     THEN job' = [job EXCEPT !.step = "archive"] /\ UNCHANGED <<note, stamp>>
     ELSE /\ note' = [note EXCEPT ![r].stamp = stamp + 1] /\ NewStamp
          /\ job' = [job EXCEPT !.step = "relabel", !.labels = note[r].labels]
  /\ UNCHANGED <<summary, tables, rebuild, done, written, events>>

\* upsert_metadata: the entry takes the labels over, and what was accepted stays so if
\* nothing else changed; the files are looked at and the transaction is open.
Relabel ==
  /\ job.step = "relabel"
  /\ LET r    == job.report
         line == [row[r] EXCEPT !.labels = job.labels, !.noted = TRUE]
         mine == evidence[r].status = "ready" /\ evidence[r].labels = row[r].labels
     IN  job' = [job EXCEPT !.step = "enriching",
                   !.expected = IF mine THEN evidence[r].text ELSE Nothing,
                   !.lines = [row EXCEPT ![r] = line], !.sig = Signature(r, line)]
  /\ UNCHANGED <<files, tables, rebuild, done, written, stamp, events>>

\* The note is read for its row in the index.
Load ==
  /\ job.step = "load"
  /\ job' = IF note[job.report] = NoNote
            THEN Idle
            ELSE [job EXCEPT !.step = "indexing", !.labels = note[job.report].labels]
  /\ UNCHANGED <<files, tables, rebuild, done, written, stamp, events>>

\* upsert_search_note: what was read is stored under the stamps of now.
IndexNote ==
  /\ job.step \in {"indexing", "noting"}
  /\ LET r == job.report
         next == IF job.step = "indexing" THEN Idle
                 ELSE [job EXCEPT !.step = "notes", !.report = 0, !.labels = Nothing]
     IN  IF note[r] = NoNote
         THEN /\ job' = IF job.step = "noting" THEN [next EXCEPT !.failed = TRUE] ELSE next
              /\ UNCHANGED <<search, index>>
         ELSE /\ search' = With(Without(search, NoteRows(search, r)), NoteRow(r, job.labels))
              /\ index' = [index EXCEPT ![r] = <<note[r].stamp, summary[r].stamp>>]
              /\ job' = next
  /\ UNCHANGED <<files, row, evidence, rebuild, done, written, stamp, events>>

-----------------------------------------------------------------------------
(* The daily reconciliation                                                *)

Noted(found) == {r \in Reports : NoteRows(found, r) # {}}

StartReconcile ==
  /\ job.step = "idle" /\ ~done
  /\ LET present == {r \in Reports : note[r] # NoNote} IN
     job' = [Idle EXCEPT !.step = "notes", !.todo = present, !.seen = present,
               !.known = index, !.listed = Noted(search)]
  /\ UNCHANGED <<files, tables, rebuild, done, written, stamp, events>>

\* One note: skipped if nothing changed since it was indexed; otherwise its labels
\* go to the catalogue first, unless its row was there without a state.
NoteTurn(r) ==
  /\ job.step = "notes" /\ r \in job.todo
  /\ LET left == [job EXCEPT !.todo = @ \ {r}] IN
     IF note[r] = NoNote
     THEN job' = [left EXCEPT !.failed = TRUE] /\ UNCHANGED row
     ELSE IF r \in job.listed /\ job.known[r] = <<note[r].stamp, summary[r].stamp>>
     THEN job' = left /\ UNCHANGED row
     ELSE /\ row' = IF r \notin job.listed \/ job.known[r] # NoStamps
                    THEN [row EXCEPT ![r].labels = note[r].labels, ![r].noted = TRUE]
                    ELSE row
          /\ job' = [left EXCEPT !.step = "noting", !.report = r, !.labels = note[r].labels]
  /\ UNCHANGED <<files, evidence, search, index, rebuild, done, written, stamp, events>>

\* Rows of notes that have gone.
DropStale ==
  /\ job.step = "notes" /\ job.todo = {}
  /\ LET stale == {r \in Reports : \/ job.known[r] # NoStamps /\ r \notin job.seen
                                   \/ r \in job.listed /\ note[r] = NoNote}
     IN  /\ search' = Without(search, UNION {NoteRows(search, r) : r \in stale})
         /\ index' = [r \in Reports |-> IF r \in stale THEN NoStamps ELSE index[r]]
  /\ job' = [Idle EXCEPT !.step = "entries", !.failed = job.failed]
  /\ UNCHANGED <<files, row, evidence, rebuild, done, written, stamp, events>>

\* reconcile_catalog, one transaction: the entries are read;
StartCatalog ==
  /\ job.step = "entries"
  /\ job' = [job EXCEPT !.step = "catalog", !.lines = row, !.todo = Reports]
  /\ UNCHANGED <<files, tables, rebuild, done, written, stamp, events>>

\* the files an entry names are looked at,
LookAtSource(r) ==
  /\ job.step = "catalog" /\ r \in job.todo
  /\ LET sig  == Signature(r, job.lines[r])
         left == [job EXCEPT !.todo = @ \ {r}]
     IN  job' = IF NeedsRefresh(r, sig)
                THEN [left EXCEPT !.step = "reading", !.report = r, !.sig = sig]
                ELSE left
  /\ UNCHANGED <<files, tables, rebuild, done, written, stamp, events>>

\* and, if they changed, read again.
ReadSource ==
  /\ job.step = "reading"
  /\ \E unread \in BOOLEAN :
       LET r      == job.report
           states == IF job.pending = <<>> THEN evidence ELSE job.pending[1]
           found  == IF job.pending = <<>> THEN search ELSE job.pending[2]
           new    == Refreshed(r, job.lines[r], job.sig, Nothing, unread, found)
       IN  /\ MayFail(unread)
           /\ job' = [job EXCEPT !.step = "catalog", !.report = 0, !.sig = NoSignature,
                        !.pending = <<[states EXCEPT ![r] = new.state], new.found>>]
  /\ UNCHANGED <<files, tables, rebuild, done, written, stamp>>

\* The day is done if nothing is wrong.
FinishCatalog ==
  /\ job.step = "catalog" /\ job.todo = {}
  /\ IF job.pending = <<>> THEN UNCHANGED <<evidence, search>>
     ELSE evidence' = job.pending[1] /\ search' = job.pending[2]
  /\ done' = (~job.failed /\ \A r \in Reports : evidence'[r].status \notin {"error", "source_changed"})
  /\ job' = Idle
  /\ UNCHANGED <<files, row, index, rebuild, written, stamp, events>>

NewDay ==
  /\ job.step = "idle" /\ done /\ done' = FALSE
  /\ UNCHANGED <<files, tables, job, rebuild, written, stamp, events>>

-----------------------------------------------------------------------------
(* People: a rebuild, a backfill of labels, and an editor                  *)

Unlocked == job.step \notin Settling /\ job.pending = <<>>

\* rebuild_search_index reads the notes; the labels it finds go to the catalogue
\* (Backfill).
BeginRebuild ==
  /\ rebuild = Nothing /\ Disturbance
  /\ rebuild' = [dropped |-> FALSE,
                 notes |-> [r \in Reports |-> [labels |-> note[r].labels,
                                               stamps |-> <<note[r].stamp, summary[r].stamp>>]]]
  /\ UNCHANGED <<files, tables, job, done, written, stamp>>

\* The table is thrown away, the rows of the catalogue too, outside any transaction,
DropTable ==
  /\ rebuild # Nothing /\ ~rebuild.dropped /\ Unlocked
  /\ search' = <<>>
  /\ rebuild' = [rebuild EXCEPT !.dropped = TRUE]
  /\ UNCHANGED <<files, row, evidence, index, job, done, written, stamp, events>>

\* and filled with the notes that were read, beside what others put there since.
FillTable ==
  /\ rebuild # Nothing /\ rebuild.dropped /\ Unlocked
  /\ LET read  == {r \in Reports : rebuild.notes[r].labels # Nothing}
     IN  /\ search' = Filled(search, [r \in read |-> rebuild.notes[r].labels])
         /\ index' = [r \in Reports |-> IF r \in read THEN rebuild.notes[r].stamps ELSE NoStamps]
  /\ rebuild' = Nothing
  /\ UNCHANGED <<files, row, evidence, job, done, written, stamp, events>>

RebuildDies ==
  /\ rebuild # Nothing /\ Disturbance /\ rebuild' = Nothing
  /\ UNCHANGED <<files, tables, job, done, written, stamp>>

\* upsert_metadata by one of the maintenance tools, without a word on the text.
Backfill(r) ==
  /\ Unlocked /\ note[r] # NoNote /\ row[r].labels # note[r].labels
  /\ row' = [row EXCEPT ![r].labels = note[r].labels, ![r].noted = TRUE]
  /\ UNCHANGED <<files, evidence, search, index, job, rebuild, done, written, stamp, events>>

Edit == Disturbance /\ NewStamp

EditSummary(r) ==
  /\ summary[r].text # Nothing /\ Edit
  /\ \E t \in (Texts \union Unsafe \union {Nothing}) \ {summary[r].text} :
       summary' = [summary EXCEPT ![r] =
                     IF t = Nothing THEN Absent ELSE [text |-> t, stamp |-> stamp + 1]]
  /\ UNCHANGED <<note, tables, job, rebuild, done, written>>

EditNote(r) ==
  /\ note[r] # NoNote /\ Edit
  /\ \E l \in (Labels \union {Nothing}) \ {note[r].labels} :
       note' = [note EXCEPT ![r] =
                  IF l = Nothing THEN NoNote ELSE [labels |-> l, stamp |-> stamp + 1]]
  /\ UNCHANGED <<summary, tables, job, rebuild, done, written>>

\* The worker or its subprocess dies; an open transaction is lost.
WorkerDies ==
  /\ job.step # "idle" /\ Disturbance /\ job' = Idle
  /\ UNCHANGED <<files, tables, rebuild, done, written, stamp>>

-----------------------------------------------------------------------------
Reconcile == StartReconcile \/ DropStale \/ StartCatalog \/ ReadSource \/ FinishCatalog
             \/ \E r \in Reports : NoteTurn(r) \/ LookAtSource(r)

Archive == Upsert \/ SettleEntry \/ WriteNote \/ Enrich \/ Relabel \/ Load \/ IndexNote

WorkerStep == Reconcile \/ Archive \/ NewDay

IndexNext ==
  \/ WorkerStep \/ BeginRebuild \/ DropTable \/ FillTable \/ RebuildDies \/ WorkerDies
  \/ \E r \in Reports : Persist(r) \/ ArchivePublished(r) \/ Backfill(r) \/ EditSummary(r) \/ EditNote(r)

IndexSpec == IndexInit /\ [][IndexNext]_indexVars

\* Ticks go on day after day, and a rebuild that goes on comes to its end.
FairIndexSpec == IndexSpec /\ WF_indexVars(WorkerStep) /\ WF_indexVars(DropTable \/ FillTable)

-----------------------------------------------------------------------------
Findable(r) == OwnedRow(search, r) # {}

\* A row of the catalogue is the row of its report's state and shows the text and
\* labels that were accepted for it, whatever rebuilds gave its row id to another;
\* and what a reconciliation would skip is what the files and the catalogue say.
SearchShowsTheAccepted ==
  /\ \A id \in DOMAIN search : search[id].owned =>
       LET state == evidence[search[id].report]
       IN  /\ state.status = "ready" /\ state.rowid = id
           /\ search[id].text = state.text /\ search[id].labels = state.labels
  /\ \A r \in Reports :
       evidence[r].status = "ready" /\ ~NeedsRefresh(r, Signature(r, row[r])) =>
         summary[r].text = evidence[r].text /\ row[r].labels = evidence[r].labels

\* What was accepted for a report is replaced only by the writer: by a text it
\* names itself, and which is there when the file is read.
AcceptedIsKept ==
  [][\A r \in Reports :
       (/\ evidence[r].text # Nothing
        /\ <<evidence'[r].text, evidence'[r].labels>> # <<evidence[r].text, evidence[r].labels>>)
       => /\ job.report = r
          /\ evidence'[r].text = job.expected /\ summary[r].text = job.expected]_indexVars

\* What the writer wrote and had accepted is found again, whatever was rebuilt,
\* misread or edited and restored; and so is every note.
EverySourceIsFound ==
  <>[](\A r \in Reports :
         /\ (/\ written[r] # Nothing /\ summary[r].text = written[r]
             /\ evidence[r].text = written[r] /\ row[r].labels = evidence[r].labels) => Findable(r)
         /\ note[r] # NoNote => NoteRows(search, r) # {})
=============================================================================
