------------------------- MODULE DailyDigestProofs --------------------------
(***************************************************************************)
(* Proofs about DailyDigest for any reports, days, items and faults: type  *)
(* correctness, that the hashes a digest never looks at again are exactly  *)
(* those its settled runs have accounted for, that no PDF is published on  *)
(* two days, that a document shows only what was checked and a completed   *)
(* day all of it, and that no operation is applied twice.                  *)
(***************************************************************************)
EXTENDS DailyDigest, FiniteSetTheorems, FunctionTheorems, SequenceTheorems, TLAPS

(***************************************************************************)
(* The inductive invariant.  A step between two writes stands where its    *)
(* files say; only the active run is past its preparation and unfinished;  *)
(* runs follow each other in time; nothing is written before publication;  *)
(* a checked draft divides its inputs; and a run holds unseen hashes only. *)
(***************************************************************************)
StepsFit ==
  /\ pc = "starting" => active = None /\ phase[day] = "prepare" /\ completed < day
  /\ pc = "closing" => active # None /\ phase[active] = "complete"
  /\ pc \in {"writing", "returned"} => active # None /\ intent[active] # None
  /\ pc = "read" => active # None /\ phase[active] = "publish" /\ intent[active] = None

RunsInOrder ==
  /\ active <= day /\ completed <= day
  /\ active # None => completed < active /\ phase[active] # "none"
  /\ \A d \in Days : phase[d] \in {"research", "verify", "publish"} => d = active
  /\ \A d \in Days : phase[d] = "complete" => d = active \/ d <= completed

JournalFits ==
  \A d \in Days :
    /\ phase[d] \in {"none", "prepare", "research", "verify"} => receipts[d] = 0
    /\ intent[d] # None => phase[d] = "publish" /\ intent[d] <= 1 + 3 * Len(proposal[d].items)

DraftsDivide ==
  \A d \in Days :
    phase[d] \in {"verify", "publish", "complete"} =>
      Included(proposal[d]) \cup proposal[d].excluded = records[d] \ LeftPending(d)

RunsAreNew ==
  /\ active # None => \A r \in records[active] : Pdf[r] \notin seen
  /\ pc = "starting" => \A r \in records[day] : Pdf[r] \notin seen

FilesFit == TypeOK /\ StepsFit /\ RunsInOrder /\ JournalFits

Accounts == DraftsDivide /\ RunsAreNew /\ SeenIsAccounted /\ NoReportTwice

IInv == FilesFit /\ Accounts

-----------------------------------------------------------------------------
\* What a proposal holds, the empty one included.
LEMMA ProposalFields ==
  /\ NoProposal \in Proposals
  /\ Len(NoProposal.items) = 0
  /\ \A p \in Proposals :
       /\ p.draft \in Nat /\ Len(p.items) \in Nat
       /\ p.excluded \subseteq Reports /\ p.pending \subseteq Reports
       /\ Included(p) \subseteq Reports
<1>1. <<>> \in ItemLists
  <2>1. <<>> \in [1 .. 0 -> SUBSET Reports \ {{}}]
    OBVIOUS
  <2> QED BY <2>1, BoundsAreNaturals DEF ItemLists
<1>2. NoProposal \in Proposals
  BY <1>1, BoundsAreNaturals DEF NoProposal, Proposals
<1>3. ASSUME NEW p \in Proposals
      PROVE  /\ p.draft \in Nat /\ Len(p.items) \in Nat
             /\ p.excluded \subseteq Reports /\ p.pending \subseteq Reports
             /\ Included(p) \subseteq Reports
  <2>1. PICK n \in 0 .. MaxItems : p.items \in [1 .. n -> SUBSET Reports \ {{}}]
    BY DEF Proposals, ItemLists
  <2>2. Len(p.items) = n
    BY <2>1, BoundsAreNaturals
  <2> QED BY <2>1, <2>2, BoundsAreNaturals DEF Proposals, Included
<1> QED BY <1>2, <1>3 DEF NoProposal

\* One write keeps the shape of the documents.
LEMMA ApplyType ==
  ASSUME titles \in Seq(Days), body \in Seq(Seq(Nat)), Len(body) = Len(titles),
         NEW op \in Nat, NEW d \in Days, NEW doc \in Nat, Apply(op, d, doc)
  PROVE  /\ titles' \in Seq(Days) /\ body' \in Seq(Seq(Nat)) /\ Len(body') = Len(titles')
         /\ Len(titles') = IF op = Create THEN Len(titles) + 1 ELSE Len(titles)
<1>0. DOMAIN body = 1 .. Len(body) /\ Len(body) \in Nat
  BY LenProperties
<1>1. CASE op = Create
  <2>1. titles' = Append(titles, d) /\ body' = Append(body, <<1>>)
    BY <1>1 DEF Apply, Create
  <2>2. <<1>> \in Seq(Nat)
    OBVIOUS
  <2>3. titles' \in Seq(Days) /\ Len(titles') = Len(titles) + 1
    BY <2>1, AppendProperties
  <2>4. body' \in Seq(Seq(Nat)) /\ Len(body') = Len(body) + 1
    BY <2>1, <2>2, AppendProperties
  <2> QED BY <1>1, <2>3, <2>4
<1>2. CASE op # Create /\ doc \in 1 .. Len(body)
  <2>1. titles' = titles /\ body' = [body EXCEPT ![doc] = Append(body[doc], op)]
    BY <1>2 DEF Apply
  <2>2. Append(body[doc], op) \in Seq(Nat)
    BY <1>2, ElementOfSeq, AppendProperties
  <2>3. body' \in Seq(Seq(Nat)) /\ Len(body') = Len(body)
    BY <1>2, <2>1, <2>2, ExceptSeq
  <2> QED BY <1>2, <2>1, <2>3
<1>3. CASE op # Create /\ doc \notin 1 .. Len(body)
  <2>1. titles' = titles /\ body' = [body EXCEPT ![doc] = Append(body[doc], op)]
    BY <1>3 DEF Apply
  <2>2. body' = body
    BY <1>0, <1>3, <2>1
  <2> QED BY <1>3, <2>1, <2>2
<1> QED BY <1>1, <1>2, <1>3

\* Deleting a block keeps the shape of the documents.
LEMMA EditType ==
  ASSUME body \in Seq(Seq(Nat)), NEW doc \in DOMAIN body, NEW n \in DOMAIN body[doc], Edit(doc, n)
  PROVE  body' \in Seq(Seq(Nat)) /\ Len(body') = Len(body) /\ titles' = titles
<1>0. doc \in 1 .. Len(body) /\ body[doc] \in Seq(Nat)
  BY LenProperties, ElementOfSeq
<1>1. n \in 1 .. Len(body[doc]) /\ Len(body[doc]) \in Nat
  BY <1>0, LenProperties
<1>2. \A i \in 1 .. Len(body[doc]) : body[doc][i] \in Nat
  BY <1>0, ElementOfSeq
<1>3. SubSeq(body[doc], 1, n - 1) \in Seq(Nat)
  BY <1>1, <1>2, SubSeqProperties
<1>4. SubSeq(body[doc], n + 1, Len(body[doc])) \in Seq(Nat)
  BY <1>1, <1>2, SubSeqProperties
<1>5. SubSeq(body[doc], 1, n - 1) \o SubSeq(body[doc], n + 1, Len(body[doc])) \in Seq(Nat)
  BY <1>3, <1>4, ConcatProperties
<1> QED BY <1>0, <1>5, ExceptSeq DEF Edit

\* The files fit together initially.
LEMMA FilesFitInit == Init => FilesFit
<1> SUFFICES ASSUME Init PROVE FilesFit
  OBVIOUS
<1>1. <<>> \in Seq(Nat) /\ <<>> \in Seq(Days) /\ <<>> \in Seq(Seq(Nat)) /\ Len(<<>>) = 0
  OBVIOUS
<1>2. ClockOK
  <2>1. day \in Days /\ library \subseteq Reports
    BY BoundsAreNaturals DEF Init, Days
  <2>2. evening \in BOOLEAN
    BY DEF Init
  <2> QED BY <2>1, <2>2 DEF ClockOK
<1>3. StateOK
  BY BoundsAreNaturals, SeedIsHistory DEF Init, StateOK, Days
<1>4. DraftOK
  BY <1>1, ProposalFields DEF Init, DraftOK, Phases
<1>5. JournalOK /\ LarkOK /\ MemoryOK
  BY <1>1 DEF Init, JournalOK, LarkOK, MemoryOK, None
<1>6. JournalInRange
  BY <1>1, ProposalFields DEF Init, JournalInRange, None
<1>7. StepsFit
  BY DEF Init, StepsFit
<1>8. RunsInOrder
  BY SeedIsHistory DEF Init, RunsInOrder, None
<1>9. JournalFits
  BY DEF Init, JournalFits
<1> QED BY <1>2, <1>3, <1>4, <1>5, <1>6, <1>7, <1>8, <1>9 DEF FilesFit, TypeOK

\* The parts of the invariant that an action does not touch stay true.
LEMMA Kept ==
  /\ ClockOK /\ UNCHANGED clock => ClockOK'
  /\ StateOK /\ UNCHANGED state => StateOK'
  /\ DraftOK /\ UNCHANGED draft => DraftOK'
  /\ JournalOK /\ UNCHANGED journal => JournalOK'
  /\ LarkOK /\ UNCHANGED lark => LarkOK'
  /\ MemoryOK /\ UNCHANGED <<memory, lark>> => MemoryOK'
  /\ JournalInRange /\ UNCHANGED <<draft, journal, lark>> => JournalInRange'
  /\ StepsFit /\ UNCHANGED <<clock, state, draft, journal, memory>> => StepsFit'
  /\ RunsInOrder /\ UNCHANGED <<clock, state, draft>> => RunsInOrder'
  /\ JournalFits /\ UNCHANGED <<draft, journal>> => JournalFits'
<1>1. ClockOK /\ UNCHANGED clock => ClockOK'
  BY DEF ClockOK, clock
<1>2. StateOK /\ UNCHANGED state => StateOK'
  BY DEF StateOK, state
<1>3. DraftOK /\ UNCHANGED draft => DraftOK'
  BY DEF DraftOK, draft
<1>4. JournalOK /\ UNCHANGED journal => JournalOK'
  BY DEF JournalOK, journal
<1>5. LarkOK /\ UNCHANGED lark => LarkOK'
  BY DEF LarkOK, lark
<1>6. MemoryOK /\ UNCHANGED <<memory, lark>> => MemoryOK'
  BY DEF MemoryOK, memory, lark
<1>7. JournalInRange /\ UNCHANGED <<draft, journal, lark>> => JournalInRange'
  BY DEF JournalInRange, draft, journal, lark
<1>8. StepsFit /\ UNCHANGED <<clock, state, draft, journal, memory>> => StepsFit'
  BY DEF StepsFit, clock, state, draft, journal, memory
<1>9. RunsInOrder /\ UNCHANGED <<clock, state, draft>> => RunsInOrder'
  BY DEF RunsInOrder, clock, state, draft
<1>10. JournalFits /\ UNCHANGED <<draft, journal>> => JournalFits'
  BY DEF JournalFits, draft, journal
<1> QED BY <1>1, <1>2, <1>3, <1>4, <1>5, <1>6, <1>7, <1>8, <1>9, <1>10

\* Steps of the environment keep the files together.
LEMMA EnvironmentKeeps == FilesFit /\ Environment => FilesFit'
<1> SUFFICES ASSUME FilesFit, Environment PROVE FilesFit'
  OBVIOUS
<1> USE DEF FilesFit, TypeOK
<1>1. CASE Evening
  <2>1. ClockOK' /\ UNCHANGED <<day, library, state, draft, journal, lark, memory>> /\ pc = "idle"
    BY <1>1 DEF Evening, ClockOK
  <2>2. UNCHANGED <<day, pc, active, completed, phase, intent>>
    BY <2>1 DEF state, draft, journal, memory
  <2>3. StepsFit'
    BY <2>2 DEF StepsFit
  <2>4. RunsInOrder'
    BY <2>2 DEF RunsInOrder
  <2> QED BY <2>1, <2>3, <2>4, Kept
<1>2. CASE Midnight
  <2>1. day \in Nat /\ day' = day + 1 /\ day' \in Days /\ pc = "idle"
    BY <1>2, BoundsAreNaturals DEF Midnight, ClockOK, Days
  <2>2. UNCHANGED <<library, state, draft, journal, lark, memory>> /\ evening' = FALSE
    BY <1>2 DEF Midnight
  <2>3. ClockOK'
    BY <2>1, <2>2 DEF ClockOK
  <2>4. StepsFit'
    BY <2>1, <2>2 DEF StepsFit, state, draft, memory
  <2>5. active \in Nat /\ completed \in Nat
    BY DEF StateOK, Days, None
  <2>6. RunsInOrder'
    BY <2>1, <2>2, <2>5 DEF RunsInOrder, state, draft
  <2> QED BY <2>2, <2>3, <2>4, <2>6, Kept
<1>3. CASE \E r \in Reports : Ingest(r)
  <2>1. ClockOK' /\ UNCHANGED <<day, state, draft, journal, lark, memory>>
    BY <1>3 DEF Ingest, ClockOK
  <2>2. UNCHANGED <<day, pc, active, completed, phase, intent>>
    BY <2>1 DEF state, draft, journal, memory
  <2>3. StepsFit'
    BY <2>2 DEF StepsFit
  <2>4. RunsInOrder'
    BY <2>2 DEF RunsInOrder
  <2> QED BY <2>1, <2>3, <2>4, Kept
<1>4. ASSUME NEW w \in inflight, Land(w) PROVE FilesFit'
  <2>1. w.op \in Nat /\ w.day \in Days /\ w.doc \in Nat /\ Apply(w.op, w.day, w.doc)
    BY <1>4 DEF LarkOK, Land
  <2>2. UNCHANGED <<clock, state, draft, journal, edits, memory>> /\ inflight' \subseteq inflight
    BY <1>4 DEF Land
  <2>3. titles \in Seq(Days) /\ body \in Seq(Seq(Nat)) /\ Len(body) = Len(titles)
    BY DEF LarkOK
  <2>4. /\ titles' \in Seq(Days) /\ body' \in Seq(Seq(Nat)) /\ Len(body') = Len(titles')
        /\ Len(titles') = IF w.op = Create THEN Len(titles) + 1 ELSE Len(titles)
    BY <2>1, <2>3, ApplyType
  <2>5. Len(titles) \in Nat /\ Len(titles') \in Nat /\ Len(titles') >= Len(titles)
    BY <2>3, <2>4, LenProperties
  <2>6. LarkOK'
    BY <2>2, <2>4 DEF LarkOK
  <2>7. MemoryOK'
    BY <2>2, <2>5 DEF MemoryOK, memory
  <2>8. JournalInRange'
    <3>1. \A d \in Days : document[d] \in Nat
      BY DEF JournalOK
    <3> QED BY <2>2, <2>5, <3>1 DEF JournalInRange, draft, journal
  <2> QED BY <2>2, <2>6, <2>7, <2>8, Kept
<1>5. ASSUME NEW doc \in DOMAIN body, NEW n \in DOMAIN body[doc], Edit(doc, n) PROVE FilesFit'
  <2>1. body' \in Seq(Seq(Nat)) /\ Len(body') = Len(body) /\ titles' = titles
    BY <1>5, EditType DEF LarkOK
  <2>2. UNCHANGED <<clock, state, draft, journal, inflight, memory>> /\ edits' = edits + 1
    BY <1>5 DEF Edit
  <2>3. LarkOK'
    BY <2>1, <2>2 DEF LarkOK
  <2>4. MemoryOK' /\ JournalInRange'
    BY <2>1, <2>2 DEF MemoryOK, JournalInRange, draft, journal, memory
  <2> QED BY <2>2, <2>3, <2>4, Kept
<1> QED BY <1>1, <1>2, <1>3, <1>4, <1>5 DEF Environment

\* The first day is 1 and "None" is no day.
LEMMA DaysAreNumbers ==
  StateOK => /\ \A d \in Days : d \in Nat /\ d # None
             /\ active \in Nat /\ completed \in Nat /\ None = 0
             /\ active # None => active \in Days
BY DEF StateOK, Days, None

\* Opening and closing a run keeps the files together.
LEMMA SettlingKeeps ==
  FilesFit /\ (NothingNew \/ Activate \/ ReadBack \/ Resettle \/ Settle \/ Crash) => FilesFit'
<1> SUFFICES ASSUME FilesFit, NothingNew \/ Activate \/ ReadBack \/ Resettle \/ Settle \/ Crash PROVE FilesFit'
  OBVIOUS
<1> USE DEF FilesFit, TypeOK
<1>0. day \in Nat /\ day \in Days
  BY DEF ClockOK, Days
<1>1. CASE NothingNew
  <2>1. active = None /\ completed' = day /\ completed # day /\ pc = "idle"
    BY <1>1 DEF NothingNew, Due
  <2>2. UNCHANGED <<clock, active, seen, draft, journal, lark, memory>>
    BY <1>1 DEF NothingNew
  <2>3. StateOK'
    BY <1>0, <2>1, <2>2 DEF StateOK
  <2>4. StepsFit'
    BY <2>1, <2>2 DEF StepsFit, memory
  <2>5. RunsInOrder'
    BY <1>0, <2>1, <2>2, DaysAreNumbers DEF RunsInOrder, clock, draft
  <2> QED BY <2>2, <2>3, <2>4, <2>5, Kept
<1>2. CASE Activate
  <2>1. pc = "starting" /\ active' = day /\ pc' = "idle"
    BY <1>2 DEF Activate
  <2>2. UNCHANGED <<clock, completed, seen, draft, journal, lark, receipt>>
    BY <1>2 DEF Activate
  <2>3. StateOK' /\ MemoryOK' /\ StepsFit'
    BY <1>0, <2>1, <2>2 DEF StateOK, MemoryOK, StepsFit, lark
  <2>4. RunsInOrder'
    BY <1>0, <2>1, <2>2, DaysAreNumbers DEF RunsInOrder, StepsFit, clock, draft
  <2> QED BY <2>2, <2>3, <2>4, Kept
<1>3. CASE Resettle
  <2>1. pc' = "closing" /\ active # None /\ phase[active] = "complete"
    BY <1>3 DEF Resettle, Advances
  <2>2. UNCHANGED <<clock, state, draft, journal, lark, receipt>>
    BY <1>3 DEF Resettle
  <2>3. MemoryOK' /\ StepsFit'
    BY <2>1, <2>2 DEF MemoryOK, StepsFit, state, draft, lark
  <2> QED BY <2>2, <2>3, Kept
<1>4. CASE Settle
  <2>1. pc = "closing" /\ completed' = active /\ active' = None /\ pc' = "idle"
    BY <1>4 DEF Settle
  <2>2. UNCHANGED <<clock, draft, journal, lark, receipt>>
    BY <1>4 DEF Settle
  <2>3. active \in Days /\ phase[active] = "complete"
    BY <2>1, DaysAreNumbers DEF StepsFit
  <2>4. seen' \subseteq Hashes
    BY <1>4, <2>3 DEF Settle, StateOK, DraftOK, Hashes
  <2>5. StateOK' /\ MemoryOK' /\ StepsFit'
    BY <2>1, <2>2, <2>3, <2>4 DEF StateOK, MemoryOK, StepsFit, lark
  <2>6. RunsInOrder'
    BY <1>0, <2>1, <2>2, <2>3, DaysAreNumbers DEF RunsInOrder, clock, draft
  <2> QED BY <2>2, <2>5, <2>6, Kept
<1>5. CASE Crash
  <2>1. pc' = "idle" /\ receipt' = None /\ UNCHANGED <<clock, state, draft, journal, lark>>
    BY <1>5 DEF Crash
  <2>2. Len(titles) \in Nat
    BY LenProperties DEF LarkOK
  <2>3. MemoryOK' /\ StepsFit'
    BY <2>1, <2>2 DEF MemoryOK, StepsFit, None, lark
  <2> QED BY <2>1, <2>3, Kept
<1>6. CASE ReadBack
  <2>1. pc' = "read" /\ active # None /\ phase[active] = "publish" /\ intent[active] = None
    BY <1>6 DEF ReadBack, Advances
  <2>2. UNCHANGED <<clock, state, draft, journal, lark, receipt>>
    BY <1>6 DEF ReadBack
  <2>3. MemoryOK' /\ StepsFit'
    BY <2>1, <2>2 DEF MemoryOK, StepsFit, state, draft, journal, lark
  <2> QED BY <2>2, <2>3, Kept
<1> QED BY <1>1, <1>2, <1>3, <1>4, <1>5, <1>6

\* A new run.json is consistent.
LEMMA StartKeeps ==
  ASSUME NEW chosen \in SUBSET Reports, FilesFit, StartRun(chosen)
  PROVE  FilesFit'
<1> USE DEF FilesFit, TypeOK
<1>1. day \in Nat /\ day \in Days /\ Len(titles) \in Nat
  BY LenProperties DEF ClockOK, LarkOK, Days
<1>2. active = None /\ completed < day /\ UNCHANGED <<clock, state, lark, receipt>> /\ pc' = "starting"
  BY <1>1, DaysAreNumbers DEF StartRun, Due, RunsInOrder
<1>3. phase' = [phase EXCEPT ![day] = "prepare"] /\ proposal' = [proposal EXCEPT ![day] = NoProposal]
  BY DEF StartRun
<1>4. /\ receipts' = [receipts EXCEPT ![day] = 0] /\ intent' = [intent EXCEPT ![day] = None]
      /\ document' = [document EXCEPT ![day] = None]
  BY DEF StartRun
<1>5. <<>> \in Seq(Nat)
  OBVIOUS
<1>6. DraftOK'
  BY <1>1, <1>3, <1>5, ProposalFields DEF StartRun, DraftOK, Phases
<1>7. JournalOK'
  BY <1>1, <1>4, <1>5 DEF StartRun, JournalOK, None
<1>8. MemoryOK'
  BY <1>2 DEF MemoryOK, lark
<1>9. JournalInRange'
  BY <1>1, <1>2, <1>3, <1>4, ProposalFields DEF JournalInRange, DraftOK, JournalOK, lark, None
<1>10. StepsFit'
  BY <1>1, <1>2, <1>3 DEF StepsFit, DraftOK, clock, state
<1>11. RunsInOrder'
  BY <1>1, <1>2, <1>3, DaysAreNumbers DEF RunsInOrder, DraftOK, clock, state
<1>12. JournalFits'
  BY <1>1, <1>3, <1>4 DEF JournalFits, DraftOK, JournalOK
<1> QED BY <1>2, <1>6, <1>7, <1>8, <1>9, <1>10, <1>11, <1>12, Kept

\* Preparing, drafting and verifying keep the files together.
LEMMA DraftingKeeps ==
  FilesFit /\ (\/ \E bad \in SUBSET Reports : Prepare(bad)
               \/ Research \/ AcceptItem \/ RejectItem
               \/ StartPublishing \/ NothingToPublish \/ SaveReadBack) => FilesFit'
<1> SUFFICES ASSUME FilesFit,
                    \/ \E bad \in SUBSET Reports : Prepare(bad)
                    \/ Research \/ AcceptItem \/ RejectItem
                    \/ StartPublishing \/ NothingToPublish \/ SaveReadBack
             PROVE  FilesFit'
  OBVIOUS
<1> USE DEF FilesFit, TypeOK
<1>0. /\ active \in Days /\ active # None /\ pc \in {"idle", "read"} /\ intent[active] = None
      /\ pc = "idle" \/ SaveReadBack
      /\ UNCHANGED <<clock, state, journal, lark, receipt>>
  BY DaysAreNumbers DEF StepsFit, Prepare, Research, AcceptItem, RejectItem, StartPublishing, NothingToPublish, SaveReadBack,
     Advances, memory
\* A phase of the active run that leads to phase "next".
<1>1. ASSUME NEW next, next \in Phases \ {"none", "prepare"}, phase' = [phase EXCEPT ![active] = next],
             pc' = IF next = "complete" THEN "closing" ELSE "idle"
      PROVE  MemoryOK' /\ StepsFit' /\ RunsInOrder'
  <2>1. MemoryOK'
    BY <1>0, <1>1 DEF MemoryOK, lark
  <2>2. StepsFit'
    BY <1>0, <1>1 DEF StepsFit, DraftOK, clock, state, journal
  <2>3. RunsInOrder'
    BY <1>0, <1>1 DEF RunsInOrder, DraftOK, Phases, clock, state
  <2> QED BY <2>1, <2>2, <2>3
<1>2. CASE \E bad \in SUBSET Reports : Prepare(bad)
  <2>1. PICK bad \in SUBSET Reports : Prepare(bad)
    BY <1>2
  <2>2. /\ phase' = [phase EXCEPT ![active] = "research"] /\ phase[active] = "prepare"
        /\ unreadable' = [unreadable EXCEPT ![active] = bad] /\ pc' = "idle"
        /\ UNCHANGED <<records, proposal, verified>>
    BY <2>1 DEF Prepare, Advances, memory
  <2>3. DraftOK'
    BY <1>0, <2>2 DEF DraftOK, Phases
  <2>4. JournalInRange' /\ JournalFits'
    BY <1>0, <2>2 DEF JournalInRange, JournalFits, DraftOK, journal, lark
  <2>5. MemoryOK' /\ StepsFit' /\ RunsInOrder'
    BY <1>0, <1>1, <2>2 DEF Phases
  <2> QED BY <1>0, <2>3, <2>4, <2>5, Kept
<1>3. CASE Research
  <2>1. PICK p \in Proposals : proposal' = [proposal EXCEPT ![active] = p]
    BY <1>3 DEF Research
  <2>2. /\ phase' = [phase EXCEPT ![active] = "verify"] /\ phase[active] = "research"
        /\ verified' = [verified EXCEPT ![active] = <<>>] /\ pc' = "idle"
        /\ UNCHANGED <<records, unreadable>>
    BY <1>3 DEF Research, Advances, memory
  <2>3. <<>> \in Seq(Nat)
    OBVIOUS
  <2>4. DraftOK'
    BY <1>0, <2>1, <2>2, <2>3 DEF DraftOK, Phases
  <2>5. receipts[active] = 0 /\ Len(p.items) \in Nat
    BY <1>0, <2>2, ProposalFields DEF JournalFits
  <2>6. JournalInRange' /\ JournalFits'
    BY <1>0, <2>1, <2>2, <2>5 DEF JournalInRange, JournalFits, DraftOK, journal, lark
  <2>7. MemoryOK' /\ StepsFit' /\ RunsInOrder'
    BY <1>0, <1>1, <2>2 DEF Phases
  <2> QED BY <1>0, <2>4, <2>6, <2>7, Kept
<1>4. CASE AcceptItem
  <2>1. proposal[active].draft \in Nat
    BY <1>0, ProposalFields DEF DraftOK
  <2>2. Append(verified[active], proposal[active].draft) \in Seq(Nat)
    BY <1>0, <2>1, AppendProperties DEF DraftOK
  <2>3. UNCHANGED <<records, phase, unreadable, proposal, memory>>
    BY <1>4 DEF AcceptItem
  <2>4. DraftOK'
    BY <1>0, <1>4, <2>2, <2>3 DEF AcceptItem, DraftOK
  <2>5. JournalInRange' /\ JournalFits' /\ RunsInOrder'
    BY <1>0, <2>3 DEF JournalInRange, JournalFits, RunsInOrder, clock, state, journal, lark
  <2>6. StepsFit'
    BY <1>0, <2>3 DEF StepsFit, clock, state, journal, memory
  <2> QED BY <1>0, <2>3, <2>4, <2>5, <2>6, Kept
<1>5. CASE RejectItem \/ StartPublishing \/ NothingToPublish \/ SaveReadBack
  <2>1. PICK next \in {"research", "publish", "complete"} :
          /\ phase' = [phase EXCEPT ![active] = next]
          /\ next = "research" => phase[active] = "verify"
          /\ pc' = IF next = "complete" THEN "closing" ELSE "idle"
    BY <1>0, <1>5 DEF RejectItem, StartPublishing, NothingToPublish, SaveReadBack, Advances, memory
  <2>2. UNCHANGED <<records, unreadable, proposal, verified>>
    BY <1>5 DEF RejectItem, StartPublishing, NothingToPublish, SaveReadBack
  <2>3. DraftOK'
    BY <1>0, <2>1, <2>2 DEF DraftOK, Phases
  <2>4. JournalInRange'
    BY <1>0, <2>2 DEF JournalInRange, journal, lark
  <2>5. JournalFits'
    BY <1>0, <2>1, <2>2 DEF JournalFits, DraftOK, journal
  <2>6. MemoryOK' /\ StepsFit' /\ RunsInOrder'
    BY <1>0, <1>1, <2>1 DEF Phases
  <2> QED BY <1>0, <2>3, <2>4, <2>5, <2>6, Kept
<1> QED BY <1>2, <1>3, <1>4, <1>5

\* Intents, writes and receipts keep the files together.
LEMMA PublishingKeeps ==
  FilesFit /\ (Intend \/ WriteReturns \/ WriteRaises \/ RecordReceipt) => FilesFit'
<1> SUFFICES ASSUME FilesFit, Intend \/ WriteReturns \/ WriteRaises \/ RecordReceipt PROVE FilesFit'
  OBVIOUS
<1> USE DEF FilesFit, TypeOK
<1>0. /\ active \in Days /\ active # None
      /\ receipts[active] \in Nat /\ intent[active] \in Nat /\ document[active] \in Nat
      /\ Len(proposal[active].items) \in Nat
      /\ Len(titles) \in Nat /\ Len(confirmed[active]) \in Nat
  <2>1. active \in Days /\ active # None
    BY DaysAreNumbers DEF Intend, WriteReturns, WriteRaises, RecordReceipt, Advances, StepsFit
  <2> QED BY <2>1, ProposalFields, LenProperties DEF DraftOK, JournalOK, LarkOK
<1>1. CASE Intend
  <2>1. /\ pc' = "writing" /\ phase[active] = "publish"
        /\ intent' = [intent EXCEPT ![active] = receipts[active] + 1]
        /\ UNCHANGED <<clock, state, draft, receipts, document, confirmed, lark, receipt>>
    BY <1>1 DEF Intend, Advances, NextOperation
  <2>2. receipts[active] + 1 <= 1 + 3 * Len(proposal[active].items)
    BY <1>0, <1>1 DEF Intend, Operations, NextOperation
  <2>3. JournalOK'
    BY <1>0, <2>1 DEF JournalOK
  <2>4. MemoryOK'
    BY <2>1 DEF MemoryOK, lark
  <2>5. JournalInRange' /\ JournalFits'
    BY <1>0, <2>1, <2>2 DEF JournalInRange, JournalFits, JournalOK, draft, lark
  <2>6. StepsFit'
    BY <1>0, <2>1 DEF StepsFit, JournalOK, None, state
  <2> QED BY <2>1, <2>3, <2>4, <2>5, <2>6, Kept
\* A write that was made, with or without an answer.
<1>2. ASSUME Apply(intent[active], active, document[active]) \/ UNCHANGED <<titles, body>>,
             UNCHANGED <<clock, state, draft, journal, edits>>,
             inflight' \subseteq [op : Nat, day : Days, doc : Nat, try : Nat]
      PROVE  /\ LarkOK' /\ JournalInRange' /\ Len(titles') \in Nat /\ Len(titles') >= Len(titles)
             /\ Apply(intent[active], active, document[active]) /\ intent[active] = Create =>
                  Len(titles') = Len(titles) + 1
  <2>1. titles \in Seq(Days) /\ body \in Seq(Seq(Nat)) /\ Len(body) = Len(titles)
    BY DEF LarkOK
  <2>2. CASE Apply(intent[active], active, document[active])
    <3>1. /\ titles' \in Seq(Days) /\ body' \in Seq(Seq(Nat)) /\ Len(body') = Len(titles')
          /\ Len(titles') = IF intent[active] = Create THEN Len(titles) + 1 ELSE Len(titles)
      BY <1>0, <2>1, <2>2, ApplyType
    <3>2. LarkOK'
      BY <1>2, <3>1 DEF LarkOK
    <3>3. Len(titles') \in Nat /\ Len(titles') >= Len(titles)
      BY <1>0, <3>1
    <3>4. JournalInRange'
      BY <1>0, <1>2, <3>3 DEF JournalInRange, JournalOK, draft, journal
    <3> QED BY <3>1, <3>2, <3>3, <3>4
  <2>3. CASE ~Apply(intent[active], active, document[active])
    <3>1. UNCHANGED <<titles, body>>
      BY <1>2, <2>3
    <3>2. LarkOK' /\ JournalInRange'
      BY <1>2, <3>1 DEF LarkOK, JournalInRange, draft, journal
    <3> QED BY <1>0, <2>3, <3>1, <3>2
  <2> QED BY <2>2, <2>3
<1>3. CASE WriteReturns
  <2>1. /\ Apply(intent[active], active, document[active])
        /\ UNCHANGED <<clock, state, draft, journal, inflight, edits>>
        /\ receipt' = (IF intent[active] = Create THEN Len(titles) + 1 ELSE None)
        /\ pc' = "returned" /\ pc = "writing"
    BY <1>3 DEF WriteReturns
  <2>2. inflight' \subseteq [op : Nat, day : Days, doc : Nat, try : Nat]
    BY <2>1 DEF LarkOK
  <2>3. /\ LarkOK' /\ JournalInRange' /\ Len(titles') \in Nat /\ Len(titles') >= Len(titles)
        /\ intent[active] = Create => Len(titles') = Len(titles) + 1
    BY <1>2, <2>1, <2>2
  <2>4. MemoryOK'
    BY <1>0, <2>1, <2>3 DEF MemoryOK, None
  <2>5. StepsFit'
    BY <2>1 DEF StepsFit, clock, state, draft, journal
  <2> QED BY <2>1, <2>3, <2>4, <2>5, Kept
<1>4. CASE WriteRaises
  <2>1. /\ Apply(intent[active], active, document[active]) \/ UNCHANGED <<titles, body>>
        /\ UNCHANGED <<clock, state, draft, journal, edits, receipt>> /\ pc' = "idle"
    BY <1>4 DEF WriteRaises
  <2>2. inflight' \subseteq [op : Nat, day : Days, doc : Nat, try : Nat]
    BY <1>0, <1>4 DEF WriteRaises, LarkOK
  <2>3. LarkOK' /\ JournalInRange' /\ Len(titles') \in Nat /\ Len(titles') >= Len(titles)
    BY <1>2, <2>1, <2>2
  <2>4. MemoryOK'
    BY <1>0, <2>1, <2>3 DEF MemoryOK
  <2>5. StepsFit'
    BY <2>1 DEF StepsFit
  <2> QED BY <2>1, <2>3, <2>4, <2>5, Kept
<1>5. CASE RecordReceipt
  <2>1. /\ pc = "returned" /\ pc' = "idle" /\ receipt' = None
        /\ receipts' = [receipts EXCEPT ![active] = receipts[active] + 1]
        /\ intent' = [intent EXCEPT ![active] = None]
        /\ document' = [document EXCEPT ![active] = IF intent[active] = Create THEN receipt ELSE document[active]]
        /\ UNCHANGED <<clock, state, draft, confirmed, lark>>
    BY <1>5 DEF RecordReceipt, NextOperation
  <2>2. receipts[active] + 1 <= 1 + 3 * Len(proposal[active].items) /\ phase[active] = "publish"
    BY <1>0, <2>1 DEF StepsFit, JournalInRange, JournalFits
  <2>3. receipt \in Nat /\ receipt <= Len(titles)
    BY <1>0 DEF MemoryOK
  <2>4. JournalOK'
    BY <1>0, <2>1, <2>3 DEF JournalOK, None
  <2>5. JournalInRange' /\ JournalFits'
    BY <1>0, <2>1, <2>2, <2>3 DEF JournalInRange, JournalFits, JournalOK, None, draft, lark
  <2>6. MemoryOK' /\ StepsFit'
    BY <1>0, <2>1 DEF MemoryOK, StepsFit, None, lark
  <2> QED BY <2>1, <2>4, <2>5, <2>6, Kept
<1> QED BY <1>1, <1>3, <1>4, <1>5

\* Reconciliations keep the files together.
LEMMA OperatorKeeps == FilesFit /\ Operator => FilesFit'
<1> SUFFICES ASSUME FilesFit, Operator PROVE FilesFit'
  OBVIOUS
<1> USE DEF FilesFit, TypeOK
<1>0. /\ active \in Days /\ active # None /\ pc = "idle" /\ intent[active] # None
      /\ receipts[active] \in Nat /\ intent[active] \in Nat
      /\ intent[active] = receipts[active] + 1 /\ phase[active] = "publish"
      /\ intent[active] <= 1 + 3 * Len(proposal[active].items)
      /\ Len(proposal[active].items) \in Nat /\ Len(titles) \in Nat
  <2>1. active \in Days /\ active # None /\ pc = "idle" /\ intent[active] # None
    BY DaysAreNumbers DEF Operator, ReconcileApplied, ReconcileNotApplied, InDoubt
  <2> QED BY <2>1, ProposalFields, LenProperties DEF DraftOK, JournalOK, JournalInRange, JournalFits, LarkOK
<1>1. ASSUME NEW doc \in DOMAIN titles, ReconcileApplied(doc) PROVE FilesFit'
  <2>1. /\ document' = [document EXCEPT ![active] = doc]
        /\ receipts' = [receipts EXCEPT ![active] = receipts[active] + 1]
        /\ intent' = [intent EXCEPT ![active] = None]
        /\ UNCHANGED <<clock, state, draft, confirmed, lark, memory>>
    BY <1>1 DEF ReconcileApplied, NextOperation
  <2>2. doc \in 1 .. Len(titles)
    BY LenProperties DEF LarkOK
  <2>3. JournalOK'
    BY <1>0, <2>1, <2>2 DEF JournalOK, None
  <2>4. JournalInRange' /\ JournalFits'
    BY <1>0, <2>1, <2>2 DEF JournalInRange, JournalFits, JournalOK, None, draft, lark
  <2>5. StepsFit'
    BY <1>0, <2>1 DEF StepsFit, memory
  <2> QED BY <2>1, <2>3, <2>4, <2>5, Kept
<1>2. CASE ReconcileNotApplied
  <2>1. /\ confirmed' = [confirmed EXCEPT ![active] = Append(confirmed[active], intent[active])]
        /\ intent' = [intent EXCEPT ![active] = None]
        /\ UNCHANGED <<clock, state, draft, receipts, document, lark, memory>>
    BY <1>2 DEF ReconcileNotApplied
  <2>2. Append(confirmed[active], intent[active]) \in Seq(Nat)
    BY <1>0, AppendProperties DEF JournalOK
  <2>3. JournalOK'
    BY <1>0, <2>1, <2>2 DEF JournalOK, None
  <2>4. JournalInRange' /\ JournalFits'
    BY <1>0, <2>1 DEF JournalInRange, JournalFits, JournalOK, draft, lark
  <2>5. StepsFit'
    BY <1>0, <2>1 DEF StepsFit, memory
  <2> QED BY <2>1, <2>3, <2>4, <2>5, Kept
<1> QED BY <1>1, <1>2 DEF Operator

\* Together: FilesFit is inductive.
LEMMA FilesFitStep == FilesFit /\ [Next]_vars => FilesFit'
<1>1. FilesFit /\ UNCHANGED vars => FilesFit'
  BY Kept DEF vars, FilesFit, TypeOK
<1> QED
  BY <1>1, EnvironmentKeeps, SettlingKeeps, StartKeeps, DraftingKeeps, PublishingKeeps, OperatorKeeps
  DEF Next, Step

\* The files always have their types and fit together, for any reports,
\* days, drafts and faults (daily_digest.py, step and reconcile).
THEOREM TypeCorrect == Spec => []TypeOK
<1>1. FilesFit => TypeOK
  BY DEF FilesFit
<1> QED BY <1>1, FilesFitInit, FilesFitStep, PTL DEF Spec

-----------------------------------------------------------------------------
\* A checked proposal divides what could be read: what is not pending is
\* included or excluded.
LEMMA AccountedDivides ==
  ASSUME NEW p, NEW read, NEW ready, Accounted(p, read, ready)
  PROVE  Included(p) \cup p.excluded = ready \ p.pending
BY DEF Accounted

\* Steps that touch neither state.json nor the drafts keep the accounts.
LEMMA AccountsKept ==
  ASSUME Accounts, UNCHANGED <<state, draft>>, pc' = "starting" => pc = "starting" /\ day' = day
  PROVE  Accounts'
<1>1. UNCHANGED <<active, seen, records, phase, unreadable, proposal>>
  BY DEF state, draft
<1>2. DraftsDivide'
  BY <1>1 DEF Accounts, DraftsDivide, LeftPending
<1>3. RunsAreNew'
  BY <1>1 DEF Accounts, RunsAreNew
<1>4. SeenIsAccounted'
  BY <1>1 DEF Accounts, SeenIsAccounted, Settled, AccountedHashes
<1>5. NoReportTwice'
  BY <1>1 DEF Accounts, NoReportTwice, PublishedHashes
<1> QED BY <1>2, <1>3, <1>4, <1>5 DEF Accounts

\* What the runs other than the active one have published is seen.
LEMMA PublishedIsSeen ==
  ASSUME FilesFit, Accounts, NEW d \in Days, d # active
  PROVE  PublishedHashes(d) \subseteq seen
<1>1. phase[d] # "publish"
  BY DEF FilesFit, RunsInOrder
<1>2. phase[d] = "complete" => AccountedHashes(d) \subseteq seen
  BY DEF Accounts, SeenIsAccounted, Settled
<1> QED BY <1>1, <1>2 DEF PublishedHashes, AccountedHashes

\* A checkpoint of the active run keeps the accounts if the draft it leaves
\* divides the inputs whenever the run is past its research.
LEMMA CheckpointAccounts ==
  ASSUME FilesFit, Accounts, active \in Days, UNCHANGED <<state, records>>, pc' # "starting",
         \A d \in Days \ {active} :
            phase'[d] = phase[d] /\ unreadable'[d] = unreadable[d] /\ proposal'[d] = proposal[d],
         phase'[active] \in {"verify", "publish", "complete"} =>
            Included(proposal'[active]) \cup proposal'[active].excluded
              = records[active] \ (unreadable'[active] \cup proposal'[active].pending)
  PROVE  Accounts'
<1>1. UNCHANGED <<active, seen, records>>
  BY DEF state
<1>2. DraftsDivide'
  BY <1>1 DEF Accounts, DraftsDivide, LeftPending
<1>3. RunsAreNew'
  BY <1>1 DEF Accounts, RunsAreNew
<1>. PICK a \in Days : a = active
  OBVIOUS
<1>4. \A d \in Days \ {a} :
        /\ (Settled(d)' <=> Settled(d)) /\ AccountedHashes(d)' = AccountedHashes(d)
        /\ PublishedHashes(d)' = PublishedHashes(d)
  BY <1>1 DEF Settled, AccountedHashes, PublishedHashes
<1>5. ~Settled(a) /\ ~Settled(a)'
  BY <1>1 DEF Settled
<1>6. \A d \in Days : (Settled(d)' <=> Settled(d)) /\ (Settled(d) => AccountedHashes(d)' = AccountedHashes(d))
  BY <1>4, <1>5
<1>7. SeenIsAccounted'
  <2>1. {d \in Days : Settled(d)}' = {d \in Days : Settled(d)}
    BY <1>6
  <2>2. UNION {AccountedHashes(d)' : d \in {e \in Days : Settled(e)}}
          = UNION {AccountedHashes(d) : d \in {e \in Days : Settled(e)}}
    BY <1>6
  <2> QED BY <1>1, <2>1, <2>2 DEF Accounts, SeenIsAccounted
<1>8. PublishedHashes(a)' \cap seen = {}
  <2>1. phase'[a] \in {"publish", "complete"} => Included(proposal'[a]) \subseteq records[a]
    OBVIOUS
  <2>2. \A r \in records[a] : Pdf[r] \notin seen
    BY DaysAreNumbers DEF Accounts, RunsAreNew, FilesFit, TypeOK
  <2> QED BY <1>1, <2>1, <2>2 DEF PublishedHashes
<1>9. NoReportTwice'
  <2>1. Seeded \subseteq seen
    BY DEF Accounts, SeenIsAccounted
  <2>2. \A d \in Days \ {a} : PublishedHashes(d) \subseteq seen
    BY PublishedIsSeen
  <2>3. \A d, e \in Days : d # e => PublishedHashes(d)' \cap PublishedHashes(e)' = {}
    BY <1>4, <1>8, <2>2 DEF Accounts, NoReportTwice
  <2>4. \A d \in Days : PublishedHashes(d)' \cap Seeded = {}
    BY <1>4, <1>8, <2>1 DEF Accounts, NoReportTwice
  <2> QED BY <2>3, <2>4 DEF NoReportTwice
<1> QED BY <1>2, <1>3, <1>7, <1>9 DEF Accounts

\* A new run takes unseen hashes and hides no earlier one.
LEMMA StartAccounts ==
  ASSUME NEW chosen \in SUBSET Reports, FilesFit, Accounts, StartRun(chosen)
  PROVE  Accounts'
<1>1. day \in Days /\ day \in Nat /\ active = None /\ completed < day
  BY DaysAreNumbers DEF StartRun, Due, FilesFit, TypeOK, ClockOK, RunsInOrder, Days
<1>2. phase[day] \in {"none", "prepare"}
  BY <1>1, DaysAreNumbers DEF FilesFit, TypeOK, DraftOK, Phases, RunsInOrder
<1>3. /\ UNCHANGED <<day, active, seen>> /\ pc' = "starting"
      /\ records' = [records EXCEPT ![day] = chosen] /\ phase' = [phase EXCEPT ![day] = "prepare"]
      /\ unreadable' = [unreadable EXCEPT ![day] = {}] /\ proposal' = [proposal EXCEPT ![day] = NoProposal]
      /\ \A r \in chosen : Pdf[r] \notin seen
  BY DEF StartRun, Unseen, clock, state
<1>4. \A d \in Days \ {day} : /\ records'[d] = records[d] /\ phase'[d] = phase[d]
                              /\ unreadable'[d] = unreadable[d] /\ proposal'[d] = proposal[d]
  BY <1>3 DEF FilesFit, TypeOK, DraftOK
<1>5. phase'[day] = "prepare" /\ records'[day] = chosen
  BY <1>1, <1>3 DEF FilesFit, TypeOK, DraftOK
<1>. PICK b \in Days : b = day
  BY <1>1
<1>6. DraftsDivide'
  BY <1>4, <1>5 DEF Accounts, DraftsDivide, LeftPending
<1>7. RunsAreNew'
  BY <1>1, <1>3, <1>5 DEF RunsAreNew
<1>8. \A d \in Days : /\ (Settled(d)' <=> Settled(d))
                      /\ (Settled(d) => AccountedHashes(d)' = AccountedHashes(d))
                      /\ PublishedHashes(d)' = PublishedHashes(d)
  BY <1>2, <1>3, <1>4, <1>5 DEF Settled, AccountedHashes, PublishedHashes
<1>9. SeenIsAccounted'
  <2>1. {d \in Days : Settled(d)}' = {d \in Days : Settled(d)}
    BY <1>8
  <2>2. UNION {AccountedHashes(d)' : d \in {e \in Days : Settled(e)}}
          = UNION {AccountedHashes(d) : d \in {e \in Days : Settled(e)}}
    BY <1>8
  <2> QED BY <1>3, <2>1, <2>2 DEF Accounts, SeenIsAccounted
<1>10. NoReportTwice'
  BY <1>8 DEF Accounts, NoReportTwice
<1> QED BY <1>6, <1>7, <1>9, <1>10 DEF Accounts

\* Naming the new run active settles nothing.
LEMMA ActivateAccounts ==
  ASSUME FilesFit, Accounts, Activate
  PROVE  Accounts'
<1>1. /\ active = None /\ active' = day /\ pc' = "idle" /\ phase[day] = "prepare"
      /\ UNCHANGED <<seen, records, phase, unreadable, proposal>>
      /\ \A r \in records[day] : Pdf[r] \notin seen
  BY DEF Activate, FilesFit, StepsFit, Accounts, RunsAreNew, draft
<1>2. day # None
  BY DaysAreNumbers DEF FilesFit, TypeOK, ClockOK
<1>3. DraftsDivide' /\ RunsAreNew'
  BY <1>1 DEF Accounts, DraftsDivide, RunsAreNew, LeftPending
<1>4. \A d \in Days : (Settled(d)' <=> Settled(d)) /\ AccountedHashes(d)' = AccountedHashes(d)
  BY <1>1, DaysAreNumbers DEF Settled, AccountedHashes, FilesFit, TypeOK
<1>5. SeenIsAccounted'
  <2>1. {d \in Days : Settled(d)}' = {d \in Days : Settled(d)}
    BY <1>4
  <2>2. UNION {AccountedHashes(d)' : d \in {e \in Days : Settled(e)}}
          = UNION {AccountedHashes(d) : d \in {e \in Days : Settled(e)}}
    BY <1>4
  <2> QED BY <1>1, <2>1, <2>2 DEF Accounts, SeenIsAccounted
<1>6. NoReportTwice'
  BY <1>1 DEF Accounts, NoReportTwice, PublishedHashes
<1> QED BY <1>3, <1>5, <1>6 DEF Accounts

\* Settling adds exactly what the run has accounted for.
LEMMA SettleAccounts ==
  ASSUME FilesFit, Accounts, Settle
  PROVE  Accounts'
<1>1. active \in Days /\ active # None /\ phase[active] = "complete"
  BY DaysAreNumbers DEF Settle, FilesFit, TypeOK, StepsFit
<1>. PICK a \in Days : a = active
  BY <1>1
<1>2. /\ seen' = seen \cup {Pdf[r] : r \in records[a] \ LeftPending(a)}
      /\ active' = None /\ pc' = "idle"
      /\ UNCHANGED <<records, phase, unreadable, proposal>>
  BY DEF Settle, draft
<1>3. DraftsDivide' /\ RunsAreNew'
  BY <1>2 DEF Accounts, DraftsDivide, RunsAreNew, LeftPending
<1>4. seen' = seen \cup AccountedHashes(a)
  BY <1>1, <1>2 DEF Accounts, DraftsDivide, AccountedHashes
<1>5. \A d \in Days : /\ (Settled(d)' <=> Settled(d) \/ d = a)
                      /\ AccountedHashes(d)' = AccountedHashes(d)
  BY <1>1, <1>2, DaysAreNumbers DEF Settled, AccountedHashes, FilesFit, TypeOK
<1>6. SeenIsAccounted'
  <2>1. \A h : h \in seen <=> h \in Seeded \/ \E d \in Days : Settled(d) /\ h \in AccountedHashes(d)
    BY DEF Accounts, SeenIsAccounted
  <2>2. \A h : h \in seen' <=> h \in Seeded \/ \E d \in Days : Settled(d)' /\ h \in AccountedHashes(d)'
    BY <1>4, <1>5, <2>1
  <2>3. seen' = Seeded \cup UNION {AccountedHashes(d)' : d \in {e \in Days : Settled(e)'}}
    BY <2>2
  <2> QED BY <2>3 DEF SeenIsAccounted
<1>7. NoReportTwice'
  BY <1>2 DEF Accounts, NoReportTwice, PublishedHashes
<1> QED BY <1>3, <1>6, <1>7 DEF Accounts

\* Every checkpoint of the active run keeps the accounts.
LEMMA DraftingAccounts ==
  ASSUME FilesFit, Accounts,
         \/ \E bad \in SUBSET Reports : Prepare(bad)
         \/ Research \/ AcceptItem \/ RejectItem
         \/ StartPublishing \/ NothingToPublish \/ SaveReadBack
  PROVE  Accounts'
<1>1. active \in Days /\ UNCHANGED <<state, records>> /\ pc' # "starting"
  BY DaysAreNumbers DEF FilesFit, TypeOK, StepsFit, Prepare, Research, AcceptItem, RejectItem, StartPublishing,
     NothingToPublish, SaveReadBack, Advances, memory
<1>2. CASE \E bad \in SUBSET Reports : Prepare(bad)
  <2>1. phase'[active] = "research"
    BY <1>1, <1>2 DEF Prepare, FilesFit, TypeOK, DraftOK
  <2>2. \A d \in Days \ {active} :
          phase'[d] = phase[d] /\ unreadable'[d] = unreadable[d] /\ proposal'[d] = proposal[d]
    BY <1>2 DEF Prepare, FilesFit, TypeOK, DraftOK
  <2> QED BY <1>1, <2>1, <2>2, CheckpointAccounts
<1>3. CASE Research
  <2>1. PICK p \in Proposals, read \in SUBSET Reports :
          /\ Accounted(p, read, records[active] \ unreadable[active])
          /\ proposal' = [proposal EXCEPT ![active] = p]
    BY <1>3 DEF Research
  <2>2. unreadable' = unreadable /\ phase' = [phase EXCEPT ![active] = "verify"]
    BY <1>3 DEF Research
  <2>3. Included(p) \cup p.excluded = (records[active] \ unreadable[active]) \ p.pending
    BY <2>1, AccountedDivides
  <2>4. proposal'[active] = p
    BY <1>1, <2>1 DEF FilesFit, TypeOK, DraftOK
  <2>5. Included(proposal'[active]) \cup proposal'[active].excluded
          = records[active] \ (unreadable'[active] \cup proposal'[active].pending)
    BY <2>2, <2>3, <2>4
  <2>6. \A d \in Days \ {active} :
          phase'[d] = phase[d] /\ unreadable'[d] = unreadable[d] /\ proposal'[d] = proposal[d]
    BY <2>1, <2>2 DEF FilesFit, TypeOK, DraftOK
  <2> QED BY <1>1, <2>5, <2>6, CheckpointAccounts
<1>4. CASE AcceptItem \/ RejectItem \/ StartPublishing \/ NothingToPublish \/ SaveReadBack
  <2>1. UNCHANGED <<unreadable, proposal>> /\ phase[active] \in {"verify", "publish"}
    BY <1>4 DEF AcceptItem, RejectItem, StartPublishing, NothingToPublish, SaveReadBack, Advances, FilesFit, StepsFit
  <2>2. \A d \in Days \ {active} : phase'[d] = phase[d]
    BY <1>4 DEF AcceptItem, RejectItem, StartPublishing, NothingToPublish, SaveReadBack, FilesFit, TypeOK, DraftOK
  <2>3. Included(proposal'[active]) \cup proposal'[active].excluded
          = records[active] \ (unreadable'[active] \cup proposal'[active].pending)
    BY <1>1, <2>1 DEF Accounts, DraftsDivide, LeftPending
  <2> QED BY <1>1, <2>1, <2>2, <2>3, CheckpointAccounts
<1> QED BY <1>2, <1>3, <1>4

\* All other steps leave state.json and the drafts alone, or move completed.
LEMMA OtherAccounts ==
  ASSUME Accounts,
         \/ Environment \/ Operator \/ UNCHANGED vars \/ NothingNew \/ ReadBack \/ Resettle \/ Crash
         \/ Intend \/ WriteReturns \/ WriteRaises \/ RecordReceipt
  PROVE  Accounts'
<1>1. CASE NothingNew
  <2>1. UNCHANGED <<active, seen, records, phase, unreadable, proposal>> /\ pc' = "idle"
    BY <1>1 DEF NothingNew, Due, draft, memory
  <2>2. DraftsDivide' /\ RunsAreNew'
    BY <2>1 DEF Accounts, DraftsDivide, RunsAreNew, LeftPending
  <2>3. SeenIsAccounted' /\ NoReportTwice'
    BY <2>1 DEF Accounts, SeenIsAccounted, NoReportTwice, Settled, AccountedHashes, PublishedHashes
  <2> QED BY <2>2, <2>3 DEF Accounts
<1>2. CASE Environment
  <2>1. UNCHANGED <<state, draft>> /\ (pc' = "starting" => pc = "starting" /\ day' = day)
    BY <1>2 DEF Environment, Evening, Midnight, Ingest, Land, Edit, clock, memory
  <2> QED BY <2>1, AccountsKept
<1>3. CASE Operator \/ UNCHANGED vars
  <2>1. UNCHANGED <<state, draft>> /\ (pc' = "starting" => pc = "starting" /\ day' = day)
    BY <1>3 DEF Operator, ReconcileApplied, ReconcileNotApplied, vars, clock, memory
  <2> QED BY <2>1, AccountsKept
<1>4. CASE ReadBack \/ Resettle \/ Crash \/ Intend \/ WriteReturns \/ WriteRaises \/ RecordReceipt
  <2>1. UNCHANGED <<state, draft>> /\ pc' # "starting"
    BY <1>4 DEF ReadBack, Resettle, Crash, Intend, WriteReturns, WriteRaises, RecordReceipt
  <2> QED BY <2>1, AccountsKept
<1> QED BY <1>1, <1>2, <1>3, <1>4

\* The inductive invariant holds in every state.
THEOREM InvariantHolds == Spec => []IInv
<1>1. Init => IInv
  <2> SUFFICES ASSUME Init PROVE Accounts
    BY FilesFitInit DEF IInv
  <2>1. /\ \A d \in Days : phase[d] = "none"
        /\ active = None /\ seen = Seeded /\ pc = "idle"
    BY DEF Init
  <2>2. {d \in Days : Settled(d)} = {}
    BY <2>1 DEF Settled
  <2>3. SeenIsAccounted
    BY <2>1, <2>2 DEF SeenIsAccounted
  <2>4. DraftsDivide /\ RunsAreNew /\ NoReportTwice
    BY <2>1 DEF DraftsDivide, RunsAreNew, NoReportTwice, PublishedHashes
  <2> QED BY <2>3, <2>4 DEF Accounts
<1>2. IInv /\ [Next]_vars => IInv'
  <2> SUFFICES ASSUME FilesFit, Accounts, [Next]_vars PROVE Accounts'
    BY FilesFitStep DEF IInv
  <2> QED BY StartAccounts, ActivateAccounts, SettleAccounts, DraftingAccounts, OtherAccounts DEF Next, Step
<1> QED BY <1>1, <1>2, PTL DEF Spec

\* The hashes no run looks at again are exactly those the settled runs have
\* published or excluded, and the seed: no pending report is lost and none
\* is selected again, whatever is interrupted (daily_digest.py, step).
THEOREM SeenAccounted == Spec => []SeenIsAccounted
<1>1. IInv => SeenIsAccounted
  BY DEF IInv, Accounts
<1> QED BY <1>1, InvariantHolds, PTL

\* No PDF is in the digests of two days, nor in one after it was screened
\* before the migration (daily_digest.py, inventory and step).
THEOREM ReportsOnce == Spec => []NoReportTwice
<1>1. IInv => NoReportTwice
  BY DEF IInv, Accounts
<1> QED BY <1>1, InvariantHolds, PTL

-----------------------------------------------------------------------------
(***************************************************************************)
(* What the documents show.  A checked item carries the number of the      *)
(* draft it was checked in.  An operation is issued when its day is being  *)
(* published and it belongs to the day's draft: only such operations reach *)
(* a document or are on their way, and each goes to a document of its day. *)
(***************************************************************************)
Published(d) == phase[d] \in {"publish", "complete"}

Issued(d, op) == Published(d) /\ op \in Operations(proposal[d])

ChecksFit ==
  \A d \in Days :
    /\ phase[d] = "verify" => Len(verified[d]) <= Len(proposal[d].items)
    /\ Published(d) => Len(verified[d]) = Len(proposal[d].items)
    /\ phase[d] \in {"verify", "publish", "complete"} =>
         \A k \in 1 .. Len(verified[d]) : verified[d][k] = proposal[d].draft

OfDay(doc, d) == doc = None \/ (doc <= Len(titles) /\ titles[doc] = d)

BlocksFit ==
  \A doc \in 1 .. Len(titles) :
    /\ Published(titles[doc])
    /\ \A n \in 1 .. Len(body[doc]) : Issued(titles[doc], body[doc][n])

WritesFit ==
  /\ \A w \in inflight : Issued(w.day, w.op) /\ OfDay(w.doc, w.day)
  /\ \A d \in Days : OfDay(document[d], d)
  /\ pc = "returned" => OfDay(receipt, active)

TracesFit == ChecksFit /\ BlocksFit /\ WritesFit

Shown == FilesFit /\ TracesFit

\* A day is published by a run that has left its drafts behind: whatever
\* happens next, its draft and its checks stay as they are.
LEMMA PublishedIsFrozen ==
  ASSUME FilesFit, [Next]_vars, NEW d \in Days, Published(d)
  PROVE  Published(d)' /\ proposal'[d] = proposal[d] /\ verified'[d] = verified[d]
<1> USE DEF Published, FilesFit, TypeOK
<1>1. CASE UNCHANGED vars \/ UNCHANGED draft
  BY <1>1 DEF vars, draft
<1>2. ASSUME NEW chosen \in SUBSET Reports, StartRun(chosen)
      PROVE  d # day
  BY <1>2, DaysAreNumbers DEF StartRun, Due, RunsInOrder, ClockOK, Days
<1>3. CASE \E chosen \in SUBSET Reports : StartRun(chosen)
  BY <1>2, <1>3 DEF StartRun, DraftOK
<1>4. CASE \/ \E bad \in SUBSET Reports : Prepare(bad)
           \/ Research \/ AcceptItem \/ RejectItem \/ StartPublishing \/ NothingToPublish
  <2>1. phase[active] \notin {"publish", "complete"}
    BY <1>4 DEF Prepare, Research, AcceptItem, RejectItem, StartPublishing, NothingToPublish, Advances
  <2>2. d # active
    BY <2>1
  <2> QED BY <1>4, <2>2
      DEF Prepare, Research, AcceptItem, RejectItem, StartPublishing, NothingToPublish, DraftOK
<1>5. CASE SaveReadBack
  BY <1>5 DEF SaveReadBack, DraftOK
<1>6. CASE \/ NothingNew \/ Activate \/ Intend \/ WriteReturns \/ WriteRaises \/ RecordReceipt
           \/ ReadBack \/ Resettle \/ Settle \/ Crash \/ Operator \/ Environment
  <2>1. UNCHANGED draft
    BY <1>6 DEF NothingNew, Activate, Intend, WriteReturns, WriteRaises, RecordReceipt, ReadBack, Resettle, Settle,
       Crash, Operator, ReconcileApplied, ReconcileNotApplied, Environment, Evening, Midnight, Ingest, Land, Edit
  <2> QED BY <1>1, <2>1
<1> QED BY <1>1, <1>3, <1>4, <1>5, <1>6 DEF Next, Step

\* An issued operation stays issued.
LEMMA IssuedStays ==
  ASSUME FilesFit, [Next]_vars, NEW d \in Days, NEW op, Issued(d, op)
  PROVE  Issued(d, op)'
BY PublishedIsFrozen DEF Issued, Operations

\* A run becomes complete when nothing was selected, or after its document
\* has been read back.
LEMMA CompletedByReadBack ==
  ASSUME FilesFit, [Next]_vars, NEW d \in Days, phase[d] # "complete", phase'[d] = "complete"
  PROVE  d = active /\ (proposal[d].items = <<>> \/ pc = "read")
<1> USE DEF FilesFit, TypeOK, DraftOK
<1>1. CASE UNCHANGED vars
  BY <1>1 DEF vars, draft
<1>2. CASE \E chosen \in SUBSET Reports : StartRun(chosen)
  <2>1. phase' = [phase EXCEPT ![day] = "prepare"]
    BY <1>2 DEF StartRun
  <2> QED BY <2>1
<1>3. CASE \/ \E bad \in SUBSET Reports : Prepare(bad)
           \/ Research \/ AcceptItem \/ RejectItem \/ StartPublishing
  <2>1. phase' = phase \/ \E next \in {"research", "verify", "publish"} : phase' = [phase EXCEPT ![active] = next]
    BY <1>3 DEF Prepare, Research, AcceptItem, RejectItem, StartPublishing
  <2> QED BY <2>1
<1>4. CASE NothingToPublish
  BY <1>4 DEF NothingToPublish
<1>5. CASE SaveReadBack
  BY <1>5 DEF SaveReadBack
<1>6. CASE \/ NothingNew \/ Activate \/ Intend \/ WriteReturns \/ WriteRaises \/ RecordReceipt
           \/ ReadBack \/ Resettle \/ Settle \/ Crash \/ Operator \/ Environment
  <2>1. UNCHANGED draft
    BY <1>6 DEF NothingNew, Activate, Intend, WriteReturns, WriteRaises, RecordReceipt, ReadBack, Resettle, Settle,
       Crash, Operator, ReconcileApplied, ReconcileNotApplied, Environment, Evening, Midnight, Ingest, Land, Edit
  <2> QED BY <2>1 DEF draft
<1> QED BY <1>1, <1>2, <1>3, <1>4, <1>5, <1>6 DEF Next, Step

\* A read-back succeeds only while the document shows the day and all of the
\* operations in order.
LEMMA ReadBackShows ==
  ASSUME FilesFit, [Next]_vars, pc # "read", pc' = "read"
  PROVE  /\ titles[document[active]] = active
         /\ Matched(body[document[active]]) >= 1 + 3 * Len(proposal[active].items)
<1> USE DEF FilesFit, TypeOK
<1>1. CASE ReadBack
  <2>1. /\ active \in Days /\ receipts[active] + 1 \notin Operations(proposal[active])
        /\ titles[document[active]] = active /\ Matched(body[document[active]]) >= receipts[active]
    BY <1>1, DaysAreNumbers DEF ReadBack, Advances, NextOperation, ReadsBack
  <2>2. /\ receipts[active] \in Nat /\ Len(proposal[active].items) \in Nat
        /\ receipts[active] <= 1 + 3 * Len(proposal[active].items)
    BY <2>1, ProposalFields DEF JournalOK, JournalInRange, DraftOK
  <2>3. receipts[active] = 1 + 3 * Len(proposal[active].items)
    BY <2>1, <2>2 DEF Operations
  <2> QED BY <2>1, <2>3
<1>2. CASE ~ReadBack
  <2>1. pc' = pc \/ pc' \in {"idle", "starting", "writing", "returned", "closing"}
    BY <1>2 DEF Next, Step, Environment, Operator, Evening, Midnight, Ingest, Land, Edit, NothingNew, StartRun,
       Activate, Prepare, Research, AcceptItem, RejectItem, StartPublishing, NothingToPublish, Intend, WriteReturns,
       WriteRaises, RecordReceipt, SaveReadBack, Resettle, Settle, Crash, ReconcileApplied, ReconcileNotApplied,
       vars, memory
  <2> QED BY <2>1
<1> QED BY <1>1, <1>2

\* A run with items becomes complete only after its document was read and showed
\* all of them in order (daily_digest.py, verify_publication before "complete").
THEOREM CompletionIsShown == Spec => CompleteIsShown
<1>1. FilesFit /\ [Next]_vars =>
        /\ pc # "read" /\ pc' = "read" =>
             /\ titles[document[active]] = active
             /\ Matched(body[document[active]]) >= 1 + 3 * Len(proposal[active].items)
        /\ \A d \in Days :
             phase[d] # "complete" /\ phase'[d] = "complete" /\ proposal[d].items # <<>> =>
               pc = "read" /\ d = active
  BY ReadBackShows, CompletedByReadBack
<1> QED BY <1>1, FilesFitInit, FilesFitStep, PTL DEF Spec, CompleteIsShown

\* An operation of a checked draft is of one of its items, and its check is
\* that of the draft.
LEMMA IssuedIsVerified ==
  ASSUME FilesFit, ChecksFit, NEW d \in Days, NEW op \in Nat, Issued(d, op), op > Create
  PROVE  ItemOf(op) \in DOMAIN verified[d] /\ verified[d][ItemOf(op)] = proposal[d].draft
<1>1. Len(proposal[d].items) \in Nat /\ verified[d] \in Seq(Nat)
  BY ProposalFields DEF FilesFit, TypeOK, DraftOK
<1>2. Len(verified[d]) = Len(proposal[d].items) /\ DOMAIN verified[d] = 1 .. Len(verified[d])
  BY <1>1, LenProperties DEF ChecksFit, Issued
<1>3. op >= 2 /\ op <= 1 + 3 * Len(proposal[d].items)
  BY <1>1 DEF Issued, Operations, Create
<1>4. ItemOf(op) \in 1 .. Len(proposal[d].items)
  BY <1>1, <1>3 DEF ItemOf
<1> QED BY <1>2, <1>4 DEF ChecksFit, Issued, Published

\* Checks are of the current draft, one per item, and complete on publishing.
LEMMA ChecksFitStep ==
  ASSUME FilesFit, ChecksFit, [Next]_vars
  PROVE  ChecksFit'
<1> USE DEF FilesFit, TypeOK
<1>0. phase \in [Days -> Phases] /\ proposal \in [Days -> Proposals] /\ verified \in [Days -> Seq(Nat)]
  BY DEF DraftOK
<1>1. CASE UNCHANGED draft
  BY <1>1 DEF ChecksFit, Published, draft
<1>2. CASE \/ UNCHANGED vars
           \/ NothingNew \/ Activate \/ Intend \/ WriteReturns \/ WriteRaises \/ RecordReceipt
           \/ ReadBack \/ Resettle \/ Settle \/ Crash \/ Operator \/ Environment
  <2>1. UNCHANGED draft
    BY <1>2 DEF NothingNew, Activate, Intend, WriteReturns, WriteRaises, RecordReceipt, ReadBack, Resettle, Settle,
       Crash, Operator, ReconcileApplied, ReconcileNotApplied, Environment, Evening, Midnight, Ingest, Land, Edit,
       vars
  <2> QED BY <1>1, <2>1
\* A run that is given a phase with nothing to be checked yet.
<1>3. ASSUME NEW d \in Days, NEW next \in {"prepare", "research"}, phase' = [phase EXCEPT ![d] = next],
             \A e \in Days \ {d} : proposal'[e] = proposal[e] /\ verified'[e] = verified[e]
      PROVE  ChecksFit'
  BY <1>0, <1>3 DEF ChecksFit, Published
<1>4. CASE \E chosen \in SUBSET Reports : StartRun(chosen)
  <2>1. day \in Days /\ phase' = [phase EXCEPT ![day] = "prepare"]
    BY <1>4 DEF StartRun, ClockOK
  <2>2. \A e \in Days \ {day} : proposal'[e] = proposal[e] /\ verified'[e] = verified[e]
    BY <1>0, <1>4 DEF StartRun
  <2> QED BY <1>1, <1>3, <2>1, <2>2 DEF TracesFit
<1>5. CASE (\E bad \in SUBSET Reports : Prepare(bad)) \/ RejectItem
  <2>1. active \in Days /\ phase' = [phase EXCEPT ![active] = "research"] /\ UNCHANGED <<proposal, verified>>
    BY <1>5, DaysAreNumbers DEF Prepare, RejectItem, Advances
  <2> QED BY <1>3, <2>1
<1>6. CASE Research \/ AcceptItem \/ StartPublishing \/ NothingToPublish \/ SaveReadBack
  <2>1. active \in Days /\ proposal[active].draft \in Nat /\ Len(proposal[active].items) \in Nat
    BY <1>0, <1>6, DaysAreNumbers, ProposalFields
    DEF Research, AcceptItem, StartPublishing, NothingToPublish, SaveReadBack, Advances, StepsFit
  <2>. PICK a \in Days : a = active
    BY <2>1
  <2>2. /\ Len(verified[a]) \in Nat /\ DOMAIN verified[a] = 1 .. Len(verified[a]) /\ verified[a] \in Seq(Nat)
        /\ Len(proposal[a].items) \in Nat
    BY <1>0, <2>1, LenProperties
  <2>3. \A e \in Days \ {a} : phase'[e] = phase[e] /\ proposal'[e] = proposal[e] /\ verified'[e] = verified[e]
    BY <1>0, <1>6 DEF Research, AcceptItem, StartPublishing, NothingToPublish, SaveReadBack
\* The checks of the active run decide.
  <2>4. ASSUME phase'[a] = "verify" => Len(verified'[a]) <= Len(proposal'[a].items),
               Published(a)' => Len(verified'[a]) = Len(proposal'[a].items),
               \A k \in 1 .. Len(verified'[a]) : verified'[a][k] = proposal'[a].draft
        PROVE  ChecksFit'
    BY <2>3, <2>4 DEF ChecksFit, Published
  <2>5. CASE Research
    <3>1. PICK p \in Proposals : proposal' = [proposal EXCEPT ![a] = p]
      BY <2>5 DEF Research
    <3>2. phase'[a] = "verify" /\ verified'[a] = <<>> /\ proposal'[a] = p
      BY <1>0, <2>5, <3>1 DEF Research
    <3>3. Len(<<>>) = 0 /\ Len(p.items) \in Nat
      BY ProposalFields
    <3> QED BY <2>4, <3>2, <3>3 DEF Published
  <2>6. CASE AcceptItem
    <3>0. phase[a] = "verify" /\ phase'[a] = "verify" /\ Len(proposal[a].items) - Len(verified[a]) > 0
      BY <2>6 DEF AcceptItem, Advances, ToVerify
    <3>1. Len(verified[a]) < Len(proposal[a].items)
      <4>1. \A m, k \in Nat : k - m > 0 => m < k
        OBVIOUS
      <4> QED BY <2>2, <3>0, <4>1
    <3>2. verified'[a] = Append(verified[a], proposal[a].draft) /\ proposal'[a] = proposal[a]
      BY <1>0, <2>6 DEF AcceptItem
    <3>3. /\ Len(verified'[a]) = Len(verified[a]) + 1
          /\ \A k \in 1 .. Len(verified[a]) : verified'[a][k] = verified[a][k]
          /\ verified'[a][Len(verified[a]) + 1] = proposal[a].draft
      BY <2>1, <2>2, <3>2, AppendProperties
    <3>4. \A k \in 1 .. Len(verified[a]) : verified[a][k] = proposal[a].draft
      BY <3>0 DEF ChecksFit
    <3>5. \A k \in 1 .. Len(verified'[a]) : verified'[a][k] = proposal'[a].draft
      BY <2>2, <3>2, <3>3, <3>4
    <3>6. Len(verified'[a]) <= Len(proposal'[a].items)
      BY <2>1, <2>2, <3>1, <3>2, <3>3
    <3> QED BY <2>4, <3>0, <3>5, <3>6 DEF Published
  <2>7. CASE StartPublishing \/ NothingToPublish \/ SaveReadBack
    <3>1. UNCHANGED <<proposal, verified>> /\ phase'[a] \in {"publish", "complete"} /\ phase[a] \in {"verify", "publish"}
      BY <1>0, <2>7 DEF StartPublishing, NothingToPublish, SaveReadBack, Advances, StepsFit
    <3>2. Len(verified[a]) = Len(proposal[a].items)
      BY <2>1, <2>2, <2>7 DEF StartPublishing, NothingToPublish, SaveReadBack, Advances, StepsFit,
         ToVerify, ChecksFit, Published
    <3>3. \A k \in 1 .. Len(verified[a]) : verified[a][k] = proposal[a].draft
      BY <3>1 DEF ChecksFit
    <3> QED BY <2>4, <3>1, <3>2, <3>3
  <2> QED BY <1>6, <2>5, <2>6, <2>7
<1> QED BY <1>2, <1>4, <1>5, <1>6 DEF Next, Step

\* What each block of a document was after one write to it.
LEMMA ApplyBlocks ==
  ASSUME titles \in Seq(Days), body \in Seq(Seq(Nat)), Len(body) = Len(titles),
         NEW op \in Nat, NEW d \in Days, NEW to \in Nat, Apply(op, d, to)
  PROVE  /\ Len(titles) \in Nat
         /\ \A doc \in 1 .. Len(titles) :
              /\ doc \in 1 .. Len(titles') /\ titles'[doc] = titles[doc]
              /\ body'[doc] = IF op # Create /\ doc = to THEN Append(body[doc], op) ELSE body[doc]
         /\ \A doc \in 1 .. Len(titles') :
              doc \notin 1 .. Len(titles) =>
                op = Create /\ doc = Len(titles) + 1 /\ titles'[doc] = d /\ body'[doc] = <<Create>>
         /\ op = Create => titles' = Append(titles, d) /\ Len(titles') = Len(titles) + 1 /\ titles'[Len(titles) + 1] = d
         /\ op # Create => titles' = titles
<1>1. Len(titles) \in Nat /\ DOMAIN body = 1 .. Len(titles) /\ <<1>> \in Seq(Nat)
  BY LenProperties
<1>2. CASE op = Create
  <2>1. titles' = Append(titles, d) /\ body' = Append(body, <<1>>)
    BY <1>2 DEF Apply, Create
  <2>2. /\ Len(titles') = Len(titles) + 1 /\ titles'[Len(titles) + 1] = d
        /\ \A doc \in 1 .. Len(titles) : titles'[doc] = titles[doc]
    BY <1>1, <2>1, AppendProperties
  <2>3. /\ body'[Len(titles) + 1] = <<1>>
        /\ \A doc \in 1 .. Len(titles) : body'[doc] = body[doc]
    BY <1>1, <2>1, AppendProperties
  <2> QED BY <1>1, <1>2, <2>1, <2>2, <2>3 DEF Create
<1>3. CASE op # Create
  <2>1. titles' = titles /\ body' = [body EXCEPT ![to] = Append(body[to], op)]
    BY <1>3 DEF Apply
  <2> QED BY <1>1, <1>3, <2>1
<1> QED BY <1>2, <1>3

\* Two sequences one after the other.
LEMMA Joined ==
  ASSUME NEW u \in Seq(Nat), NEW v \in Seq(Nat), NEW k \in Nat, NEW l \in Nat, Len(u) = k, Len(v) = l
  PROVE  /\ u \o v \in Seq(Nat) /\ Len(u \o v) = k + l
         /\ \A i \in 1 .. k : (u \o v)[i] = u[i]
         /\ \A i \in 1 .. l : (u \o v)[k + i] = v[i]
<1>1. /\ u \o v \in Seq(Nat) /\ Len(u \o v) = k + l
      /\ \A i \in 1 .. k + l : (u \o v)[i] = IF i <= k THEN u[i] ELSE v[i - k]
  BY ConcatProperties
<1> DEFINE w == u \o v
<1>2. \A i \in 1 .. k + l : w[i] = IF i <= k THEN u[i] ELSE v[i - k]
  BY <1>1
<1> HIDE DEF w
<1>3. ASSUME NEW i \in 1 .. l PROVE w[k + i] = v[i]
  <2>1. k + i \in 1 .. k + l /\ ~(k + i <= k) /\ (k + i) - k = i
    OBVIOUS
  <2>2. w[k + i] = v[(k + i) - k]
    BY <1>2, <2>1
  <2> QED BY <2>1, <2>2
<1>4. ASSUME NEW i \in 1 .. k PROVE w[i] = u[i]
  BY <1>2
<1> QED BY <1>1, <1>3, <1>4 DEF w

\* Deleting a block leaves only blocks that were there.
LEMMA DeleteBlocks ==
  ASSUME NEW s \in Seq(Nat), NEW n \in 1 .. Len(s)
  PROVE  LET t == SubSeq(s, 1, n - 1) \o SubSeq(s, n + 1, Len(s)) IN
         /\ t \in Seq(Nat) /\ Len(s) \in Nat /\ Len(t) = Len(s) - 1
         /\ \A i \in 1 .. Len(t) : t[i] = IF i < n THEN s[i] ELSE s[i + 1]
<1>1. Len(s) \in Nat /\ \A i \in 1 .. Len(s) : s[i] \in Nat
  BY LenProperties, ElementOfSeq
<1>2. /\ SubSeq(s, 1, n - 1) \in Seq(Nat) /\ Len(SubSeq(s, 1, n - 1)) = n - 1
      /\ \A i \in 1 .. n - 1 : SubSeq(s, 1, n - 1)[i] = s[i]
  <2>1. n - 1 \in Int /\ 1 \in Int /\ \A i \in 1 .. n - 1 : s[i] \in Nat
    BY <1>1
  <2>2. /\ SubSeq(s, 1, n - 1) \in Seq(Nat)
        /\ Len(SubSeq(s, 1, n - 1)) = IF 1 <= n - 1 THEN n - 1 - 1 + 1 ELSE 0
        /\ \A i \in 1 .. n - 1 - 1 + 1 : SubSeq(s, 1, n - 1)[i] = s[1 + i - 1]
    BY <2>1, SubSeqProperties
  <2> QED BY <1>1, <2>2
<1>3. /\ SubSeq(s, n + 1, Len(s)) \in Seq(Nat) /\ Len(SubSeq(s, n + 1, Len(s))) = Len(s) - n
      /\ \A i \in 1 .. Len(s) - n : SubSeq(s, n + 1, Len(s))[i] = s[n + i]
  <2>1. n + 1 \in Int /\ Len(s) \in Int /\ \A i \in n + 1 .. Len(s) : s[i] \in Nat
    BY <1>1
  <2>2. /\ SubSeq(s, n + 1, Len(s)) \in Seq(Nat)
        /\ Len(SubSeq(s, n + 1, Len(s))) = IF n + 1 <= Len(s) THEN Len(s) - (n + 1) + 1 ELSE 0
        /\ \A i \in 1 .. Len(s) - (n + 1) + 1 : SubSeq(s, n + 1, Len(s))[i] = s[n + 1 + i - 1]
    BY <2>1, SubSeqProperties
  <2> QED BY <1>1, <2>2
<1> DEFINE u == SubSeq(s, 1, n - 1)
           v == SubSeq(s, n + 1, Len(s))
           t == u \o v
<1>4. n - 1 \in Nat /\ Len(s) - n \in Nat
  BY <1>1
<1>5. /\ t \in Seq(Nat) /\ Len(t) = (n - 1) + (Len(s) - n)
      /\ \A i \in 1 .. n - 1 : t[i] = u[i]
      /\ \A i \in 1 .. Len(s) - n : t[(n - 1) + i] = v[i]
  BY <1>2, <1>3, <1>4, Joined
<1>6. \A i \in 1 .. Len(s) - n : v[i] = s[n + i]
  BY <1>3
<1>7. \A i \in 1 .. n - 1 : t[i] = s[i]
  BY <1>2, <1>5
<1> HIDE DEF u, v, t
<1>8. Len(t) = Len(s) - 1
  BY <1>1, <1>5
<1>9. ASSUME NEW i \in 1 .. Len(t), ~(i < n) PROVE t[i] = s[i + 1]
  <2>1. i - (n - 1) \in 1 .. Len(s) - n /\ n + (i - (n - 1)) = i + 1 /\ (n - 1) + (i - (n - 1)) = i
    BY <1>1, <1>8, <1>9
  <2>2. t[(n - 1) + (i - (n - 1))] = v[i - (n - 1)] /\ v[i - (n - 1)] = s[n + (i - (n - 1))]
    BY <1>5, <1>6, <2>1
  <2> QED BY <2>1, <2>2
<1>10. \A i \in 1 .. Len(t) : t[i] = IF i < n THEN s[i] ELSE s[i + 1]
  BY <1>1, <1>7, <1>8, <1>9
<1> QED BY <1>1, <1>5, <1>8, <1>10 DEF t, u, v

\* Documents and titles only grow: a document of a day stays one.
LEMMA OfDayStays ==
  ASSUME NEW doc \in Nat, NEW d, OfDay(doc, d), Len(titles) \in Nat,
         \A e \in 1 .. Len(titles) : e \in 1 .. Len(titles') /\ titles'[e] = titles[e]
  PROVE  OfDay(doc, d)'
<1>1. doc # None => doc \in 1 .. Len(titles) /\ doc \in 1 .. Len(titles')
  BY DEF OfDay, None
<1>2. doc # None => doc <= Len(titles')
  BY <1>1
<1> QED BY <1>1, <1>2 DEF OfDay

\* A write of an issued operation shows issued operations only.
LEMMA ApplyTraces ==
  ASSUME FilesFit, TracesFit, [Next]_vars,
         NEW d \in Days, NEW op \in Nat, NEW to \in Nat,
         Apply(op, d, to), Issued(d, op), OfDay(to, d)
  PROVE  /\ BlocksFit'
         /\ \A doc \in Nat, e \in Days : OfDay(doc, e) => OfDay(doc, e)'
         /\ \A last : op = Create /\ last = Len(titles) + 1 => OfDay(last, d)'
<1>1. /\ titles \in Seq(Days) /\ body \in Seq(Seq(Nat)) /\ Len(body) = Len(titles)
      /\ Len(titles) \in Nat
  BY LenProperties DEF FilesFit, TypeOK, LarkOK
<1>2. /\ \A doc \in 1 .. Len(titles) :
           /\ doc \in 1 .. Len(titles') /\ titles'[doc] = titles[doc]
           /\ body'[doc] = IF op # Create /\ doc = to THEN Append(body[doc], op) ELSE body[doc]
      /\ \A doc \in 1 .. Len(titles') :
           doc \notin 1 .. Len(titles) =>
             op = Create /\ doc = Len(titles) + 1 /\ titles'[doc] = d /\ body'[doc] = <<Create>>
      /\ op = Create => Len(titles') = Len(titles) + 1 /\ titles'[Len(titles) + 1] = d
  BY <1>1, ApplyBlocks
<1>3. ASSUME NEW doc \in 1 .. Len(titles')
      PROVE  Published(titles[doc])' /\ \A n \in 1 .. Len(body'[doc]) : Issued(titles[doc], body[doc][n])'
  <2>1. CASE doc \in 1 .. Len(titles)
    <3>1. titles'[doc] = titles[doc] /\ titles[doc] \in Days /\ body[doc] \in Seq(Nat)
      BY <1>1, <1>2, <2>1, ElementOfSeq
    <3>2. Published(titles[doc]) /\ \A n \in 1 .. Len(body[doc]) : Issued(titles[doc], body[doc][n])
      BY <2>1 DEF TracesFit, BlocksFit
    <3>. PICK e \in Days : e = titles[doc] /\ e = titles'[doc]
      BY <3>1
    <3>3. Published(e)' /\ \A n \in 1 .. Len(body[doc]) : \A o : o = body[doc][n] => Issued(e, o)'
      <4>1. Published(e)'
        BY <3>2, PublishedIsFrozen
      <4>2. \A o : Issued(e, o) => Issued(e, o)'
        BY IssuedStays
      <4> QED BY <3>2, <4>1, <4>2
    <3>4. CASE op # Create /\ doc = to
      <4>1. body'[doc] = Append(body[doc], op)
        BY <1>2, <2>1, <3>4
      <4>5. e = d
        <5>1. doc # None
          BY <1>1, <2>1 DEF None
        <5> QED BY <3>4, <5>1 DEF OfDay
      <4>2. /\ Len(body'[doc]) = Len(body[doc]) + 1 /\ Len(body[doc]) \in Nat
            /\ body'[doc][Len(body[doc]) + 1] = op
            /\ \A n \in 1 .. Len(body[doc]) : body'[doc][n] = body[doc][n]
        BY <3>1, <4>1, AppendProperties, LenProperties
      <4>3. Issued(d, op)'
        BY IssuedStays
      <4>4. ASSUME NEW n \in 1 .. Len(body'[doc]) PROVE Issued(e, body[doc][n])'
        <5>1. n \in 1 .. Len(body[doc]) \/ n = Len(body[doc]) + 1
          BY <4>2
        <5>2. CASE n \in 1 .. Len(body[doc])
          <6>1. body'[doc][n] = body[doc][n]
            BY <4>2, <5>2
          <6> QED BY <3>3, <5>2, <6>1 DEF Issued, Published
        <5>3. CASE n = Len(body[doc]) + 1
          <6>1. body'[doc][n] = op
            BY <4>2, <5>3
          <6> QED BY <4>3, <4>5, <6>1 DEF Issued, Published
        <5> QED BY <5>1, <5>2, <5>3
      <4> QED BY <3>3, <4>4 DEF Published, Issued
    <3>5. CASE ~(op # Create /\ doc = to)
      <4>1. body'[doc] = body[doc]
        BY <1>2, <2>1, <3>5
      <4> QED BY <3>3, <4>1 DEF Published, Issued
    <3> QED BY <3>4, <3>5
  <2>2. CASE doc \notin 1 .. Len(titles)
    <3>1. op = 1 /\ titles'[doc] = d /\ body'[doc] = <<1>>
      BY <1>2, <2>2 DEF Create
    <3>2. Issued(d, op)'
      BY IssuedStays
    <3>3. \A n \in 1 .. Len(body'[doc]) : body'[doc][n] = op
      BY <3>1
    <3> QED BY <3>1, <3>2, <3>3 DEF Issued, Published
  <2> QED BY <2>1, <2>2
<1>4. BlocksFit'
  BY <1>3 DEF BlocksFit
<1>5. \A doc \in Nat, e \in Days : OfDay(doc, e) => OfDay(doc, e)'
  BY <1>1, <1>2, OfDayStays
<1>6. ASSUME NEW last, last = Len(titles) + 1, op = Create PROVE OfDay(last, d)'
  BY <1>1, <1>2, <1>6 DEF OfDay
<1> QED BY <1>4, <1>5, <1>6

\* Where nothing is written, what the documents show stays issued.
LEMMA BlocksStay ==
  ASSUME FilesFit, TracesFit, [Next]_vars, UNCHANGED <<titles, body>>
  PROVE  BlocksFit' /\ \A doc, d : OfDay(doc, d) => OfDay(doc, d)'
<1>1. ASSUME NEW doc \in 1 .. Len(titles)
      PROVE  Published(titles[doc])' /\ \A n \in 1 .. Len(body[doc]) : Issued(titles[doc], body[doc][n])'
  <2>. PICK d \in Days : d = titles[doc]
    BY ElementOfSeq DEF FilesFit, TypeOK, LarkOK
  <2>1. Published(d) /\ \A n \in 1 .. Len(body[doc]) : Issued(d, body[doc][n])
    BY DEF TracesFit, BlocksFit
  <2>2. Published(d)'
    BY <2>1, PublishedIsFrozen
  <2>3. ASSUME NEW n \in 1 .. Len(body[doc]) PROVE Issued(d, body[doc][n])'
    <3>1. PICK o : o = body[doc][n]
      OBVIOUS
    <3>2. Issued(d, o)'
      BY <2>1, <3>1, IssuedStays
    <3> QED BY <3>1, <3>2 DEF Issued, Published
  <2> QED BY <2>2, <2>3 DEF Issued, Published
<1>2. BlocksFit'
  BY <1>1 DEF BlocksFit
<1> QED BY <1>2 DEF OfDay

\* The writes on their way and the journal stay with their days, if each day
\* keeps its document or gets one of its own.
LEMMA WritesFitStays ==
  ASSUME FilesFit, TracesFit, [Next]_vars,
         \A doc \in Nat, d \in Days : OfDay(doc, d) => OfDay(doc, d)',
         inflight' \subseteq inflight,
         \A d \in Days : document'[d] = document[d] \/ OfDay(document[d], d)',
         pc' = "returned" => OfDay(receipt, active)'
  PROVE  WritesFit'
<1>1. ASSUME NEW w \in inflight PROVE Issued(w.day, w.op)' /\ OfDay(w.doc, w.day)'
  <2>1. w.day \in Days /\ w.doc \in Nat /\ w.op \in Nat /\ Issued(w.day, w.op) /\ OfDay(w.doc, w.day)
    BY DEF FilesFit, TypeOK, LarkOK, TracesFit, WritesFit
  <2>. PICK d \in Days, o, doc \in Nat : d = w.day /\ o = w.op /\ doc = w.doc
    BY <2>1
  <2>2. Issued(d, o)' /\ OfDay(doc, d)'
    BY <2>1, IssuedStays
  <2> QED BY <2>2 DEF Issued, Published, OfDay
<1>2. ASSUME NEW d \in Days PROVE OfDay(document[d], d)'
  <2>1. document[d] \in Nat /\ OfDay(document[d], d)
    BY DEF FilesFit, TypeOK, JournalOK, TracesFit, WritesFit
  <2>. PICK doc \in Nat : doc = document[d]
    BY <2>1
  <2>2. OfDay(doc, d)'
    BY <2>1
  <2> QED BY <2>2 DEF OfDay
<1>3. \A w \in inflight' : Issued(w.day, w.op)' /\ OfDay(w.doc, w.day)'
  BY <1>1
<1> QED BY <1>2, <1>3 DEF WritesFit

\* Only issued operations reach the documents, each at a document of its day.
LEMMA TracesFitStep ==
  ASSUME FilesFit, TracesFit, [Next]_vars
  PROVE  TracesFit'
<1>1. ChecksFit'
  BY ChecksFitStep DEF TracesFit
<1>2. FilesFit'
  BY FilesFitStep
\* Steps that leave the documents alone.
<1>3. ASSUME UNCHANGED <<titles, body>>, inflight' \subseteq inflight,
             \A d \in Days : document'[d] = document[d] \/ OfDay(document[d], d)',
             pc' = "returned" => OfDay(receipt, active)'
      PROVE  BlocksFit' /\ WritesFit'
  BY <1>3, BlocksStay, WritesFitStays
<1>4. CASE \/ UNCHANGED vars \/ (Environment /\ UNCHANGED lark)
           \/ NothingNew \/ Activate \/ Intend \/ ReadBack \/ Resettle \/ Settle \/ Crash \/ ReconcileNotApplied
           \/ \E bad \in SUBSET Reports : Prepare(bad)
           \/ Research \/ AcceptItem \/ RejectItem \/ StartPublishing \/ NothingToPublish \/ SaveReadBack
  <2>1. /\ UNCHANGED <<titles, body, inflight, document>>
        /\ pc' = "returned" => pc = "returned" /\ receipt' = receipt /\ active' = active
    BY <1>4 DEF vars, Environment, Evening, Midnight, Ingest, Land, Edit, NothingNew, Due, Activate, Intend, ReadBack, Resettle,
       Settle, Crash, ReconcileNotApplied, Prepare, Research, AcceptItem, RejectItem, StartPublishing,
       NothingToPublish, SaveReadBack, Advances, state, lark, journal, memory
  <2>2. pc' = "returned" => OfDay(receipt, active)'
    BY <2>1 DEF TracesFit, WritesFit, OfDay
  <2> QED BY <1>1, <1>3, <2>1, <2>2 DEF TracesFit
<1>5. CASE \E chosen \in SUBSET Reports : StartRun(chosen)
  <2>1. /\ UNCHANGED <<titles, body, inflight>> /\ pc' # "returned"
        /\ document' = [document EXCEPT ![day] = None] /\ document \in [Days -> Nat]
    BY <1>5 DEF StartRun, lark, FilesFit, TypeOK, JournalOK
  <2>2. \A d \in Days : document'[d] = document[d] \/ OfDay(document[d], d)'
    BY <2>1 DEF OfDay
  <2> QED BY <1>1, <1>3, <2>1, <2>2 DEF TracesFit
\* The write of the active run.
<1>6. ASSUME WriteReturns \/ WriteRaises
      PROVE  /\ active \in Days /\ document[active] \in Nat /\ intent[active] \in Nat
             /\ Issued(active, intent[active]) /\ OfDay(document[active], active)
             /\ UNCHANGED <<document, active>>
  <2>1. active \in Days /\ pc = "writing" /\ intent[active] # None /\ UNCHANGED <<document, active>>
    BY <1>6, DaysAreNumbers DEF WriteReturns, WriteRaises, FilesFit, TypeOK, StepsFit, state, journal
  <2>2. /\ document[active] \in Nat /\ intent[active] \in Nat
        /\ phase[active] = "publish" /\ intent[active] <= 1 + 3 * Len(proposal[active].items)
        /\ Len(proposal[active].items) \in Nat
    BY <2>1, ProposalFields DEF FilesFit, TypeOK, DraftOK, JournalOK, JournalFits
  <2>3. intent[active] \in Operations(proposal[active])
    BY <2>1, <2>2 DEF Operations, None
  <2> QED BY <2>1, <2>2, <2>3 DEF Issued, Published, TracesFit, WritesFit
<1>7. ASSUME WriteReturns \/ WriteRaises, Apply(intent[active], active, document[active])
      PROVE  /\ BlocksFit'
             /\ \A doc \in Nat, d \in Days : OfDay(doc, d) => OfDay(doc, d)'
             /\ \A last : intent[active] = Create /\ last = Len(titles) + 1 => OfDay(last, active)'
  <2>. PICK a \in Days, op \in Nat, to \in Nat : a = active /\ op = intent[active] /\ to = document[active]
    BY <1>6, <1>7
  <2>1. Apply(op, a, to) /\ Issued(a, op) /\ OfDay(to, a) /\ active' = a
    BY <1>6, <1>7
  <2>2. /\ BlocksFit'
        /\ \A doc \in Nat, d \in Days : OfDay(doc, d) => OfDay(doc, d)'
        /\ \A last : op = Create /\ last = Len(titles) + 1 => OfDay(last, a)'
    BY <2>1, ApplyTraces
  <2> QED BY <2>1, <2>2 DEF OfDay
<1>8. CASE WriteReturns
  <2>1. /\ Apply(intent[active], active, document[active])
        /\ UNCHANGED <<document, inflight>> /\ active' = active
        /\ receipt' = IF intent[active] = Create THEN Len(titles) + 1 ELSE None
    BY <1>8 DEF WriteReturns, state, journal
  <2>2. OfDay(receipt, active)'
    BY <1>7, <1>8, <2>1 DEF OfDay
  <2> QED BY <1>1, <1>7, <1>8, <2>1, <2>2, WritesFitStays DEF TracesFit
<1>9. CASE WriteRaises
  <2>1. UNCHANGED <<document, active>> /\ pc' = "idle"
    BY <1>9 DEF WriteRaises, state, journal
  <2>2. CASE Apply(intent[active], active, document[active]) /\ UNCHANGED inflight
    BY <1>1, <1>7, <1>9, <2>1, <2>2, WritesFitStays DEF TracesFit
  <2>3. CASE UNCHANGED <<titles, body, inflight>>
    BY <1>1, <1>3, <2>1, <2>3 DEF TracesFit
  <2>4. CASE /\ UNCHANGED <<titles, body>>
             /\ inflight' = inflight \cup {[op |-> intent[active], day |-> active, doc |-> document[active],
                                            try |-> Len(confirmed[active])]}
    <3>1. BlocksFit' /\ \A doc, d : OfDay(doc, d) => OfDay(doc, d)'
      BY <2>4, BlocksStay
    <3>2. ASSUME NEW w \in inflight PROVE Issued(w.day, w.op)' /\ OfDay(w.doc, w.day)'
      <4>1. w.day \in Days /\ w.op \in Nat /\ w.doc \in Nat /\ Issued(w.day, w.op) /\ OfDay(w.doc, w.day)
        BY DEF FilesFit, TypeOK, LarkOK, TracesFit, WritesFit
      <4>. PICK d \in Days, o \in Nat, doc \in Nat : d = w.day /\ o = w.op /\ doc = w.doc
        BY <4>1
      <4>2. Issued(d, o)' /\ OfDay(doc, d)'
        BY <3>1, <4>1, IssuedStays
      <4> QED BY <4>2 DEF Issued, Published, OfDay
    <3>3. ASSUME NEW w, w = [op |-> intent[active], day |-> active, doc |-> document[active],
                             try |-> Len(confirmed[active])]
          PROVE  Issued(w.day, w.op)' /\ OfDay(w.doc, w.day)'
      <4>1. w.op = intent[active] /\ w.day = active /\ w.doc = document[active]
        BY <3>3
      <4>. PICK d \in Days, o \in Nat, doc \in Nat : d = active /\ o = intent[active] /\ doc = document[active]
        BY <1>6, <1>9
      <4>2. Issued(d, o)' /\ OfDay(doc, d)'
        BY <1>6, <1>9, <3>1, IssuedStays
      <4> QED BY <4>1, <4>2 DEF Issued, Published, OfDay
    <3>4. \A w \in inflight' : Issued(w.day, w.op)' /\ OfDay(w.doc, w.day)'
      BY <2>4, <3>2, <3>3
    <3>5. \A d \in Days : OfDay(document[d], d)'
      BY <2>1, <3>1 DEF TracesFit, WritesFit, OfDay
    <3>6. WritesFit'
      BY <2>1, <3>4, <3>5 DEF WritesFit
    <3> QED BY <1>1, <3>1, <3>6 DEF TracesFit
  <2> QED BY <1>9, <2>2, <2>3, <2>4 DEF WriteRaises
<1>10. CASE RecordReceipt \/ \E doc \in DOMAIN titles : ReconcileApplied(doc)
  <2>1. active \in Days /\ document \in [Days -> Nat] /\ UNCHANGED <<titles, body, inflight, active>>
    BY <1>10, DaysAreNumbers
    DEF RecordReceipt, ReconcileApplied, InDoubt, FilesFit, TypeOK, JournalOK, StepsFit, lark, state
  <2>2. ASSUME RecordReceipt PROVE pc' # "returned" /\ OfDay(document[active], active)'
    <3>1. /\ document' = [document EXCEPT ![active] = IF intent[active] = Create THEN receipt ELSE document[active]]
          /\ OfDay(receipt, active) /\ pc' = "idle"
      BY <2>2 DEF RecordReceipt, TracesFit, WritesFit
    <3>2. document'[active] = document[active] \/ document'[active] = receipt
      BY <2>1, <3>1
    <3> QED BY <2>1, <3>1, <3>2 DEF TracesFit, WritesFit, OfDay
  <2>3. ASSUME NEW doc \in DOMAIN titles, ReconcileApplied(doc)
        PROVE  pc' # "returned" /\ OfDay(document[active], active)'
    <3>1. document' = [document EXCEPT ![active] = doc] /\ titles[doc] = active /\ pc = "idle" /\ pc' = pc
      BY <2>3 DEF ReconcileApplied, ReadsBack, InDoubt, memory
    <3>2. doc \in 1 .. Len(titles) /\ Len(titles) \in Nat
      BY LenProperties DEF FilesFit, TypeOK, LarkOK
    <3>3. doc <= Len(titles) /\ document'[active] = doc
      BY <2>1, <3>1, <3>2
    <3> QED BY <2>1, <3>1, <3>3 DEF OfDay
  <2>4. pc' # "returned" /\ OfDay(document[active], active)'
    BY <1>10, <2>2, <2>3
  <2>5. \A d \in Days \ {active} : document'[d] = document[d]
    BY <1>10, <2>1 DEF RecordReceipt, ReconcileApplied
  <2>6. \A d \in Days : document'[d] = document[d] \/ OfDay(document[d], d)'
    BY <2>1, <2>4, <2>5 DEF OfDay
  <2> QED BY <1>1, <1>3, <2>1, <2>4, <2>6 DEF TracesFit
<1>11. ASSUME NEW w \in inflight, Land(w) PROVE TracesFit'
  <2>1. /\ w.day \in Days /\ w.op \in Nat /\ w.doc \in Nat
        /\ Apply(w.op, w.day, w.doc) /\ Issued(w.day, w.op) /\ OfDay(w.doc, w.day)
    BY <1>11 DEF Land, FilesFit, TypeOK, LarkOK, TracesFit, WritesFit
  <2>2. /\ BlocksFit'
        /\ \A doc \in Nat, d \in Days : OfDay(doc, d) => OfDay(doc, d)'
    BY <2>1, ApplyTraces
  <2>3. UNCHANGED <<document, pc, receipt, active>> /\ inflight' \subseteq inflight
    BY <1>11 DEF Land, journal, memory, state
  <2>4. pc' = "returned" => OfDay(receipt, active)'
    <3> SUFFICES ASSUME pc = "returned" PROVE OfDay(receipt, active)'
      BY <2>3
    <3>1. active \in Days /\ receipt \in Nat /\ OfDay(receipt, active)
      BY DaysAreNumbers DEF FilesFit, TypeOK, MemoryOK, StepsFit, TracesFit, WritesFit
    <3>. PICK a \in Days, r \in Nat : a = active /\ r = receipt
      BY <3>1
    <3>2. OfDay(r, a)'
      BY <2>2, <3>1
    <3> QED BY <2>3, <3>2 DEF OfDay
  <2> QED BY <1>1, <2>2, <2>3, <2>4, WritesFitStays DEF TracesFit
<1>12. ASSUME NEW doc \in DOMAIN body, NEW n \in DOMAIN body[doc], Edit(doc, n) PROVE TracesFit'
  <2>1. /\ titles \in Seq(Days) /\ body \in Seq(Seq(Nat)) /\ Len(body) = Len(titles) /\ Len(titles) \in Nat
        /\ DOMAIN body = 1 .. Len(titles)
    BY LenProperties DEF FilesFit, TypeOK, LarkOK
  <2>2. body[doc] \in Seq(Nat) /\ n \in 1 .. Len(body[doc])
    BY <2>1, ElementOfSeq, LenProperties
  <2> DEFINE t == SubSeq(body[doc], 1, n - 1) \o SubSeq(body[doc], n + 1, Len(body[doc]))
  <2>3. /\ Len(body[doc]) \in Nat /\ Len(t) = Len(body[doc]) - 1
        /\ \A i \in 1 .. Len(t) : t[i] = IF i < n THEN body[doc][i] ELSE body[doc][i + 1]
    BY <2>2, DeleteBlocks
  <2>4. /\ body' = [body EXCEPT ![doc] = t]
        /\ UNCHANGED <<titles, inflight, document, pc, receipt, active>>
    BY <1>12 DEF Edit, journal, memory, state
  <2> HIDE DEF t
  <2>5. \A i \in 1 .. Len(t) : \E j \in 1 .. Len(body[doc]) : t[i] = body[doc][j]
    <3> TAKE i \in 1 .. Len(t)
    <3>1. CASE i < n
      <4>1. i \in 1 .. Len(body[doc]) /\ t[i] = body[doc][i]
        BY <2>2, <2>3, <3>1
      <4> QED BY <4>1
    <3>2. CASE ~(i < n)
      <4>1. i + 1 \in 1 .. Len(body[doc]) /\ t[i] = body[doc][i + 1]
        BY <2>2, <2>3, <3>2
      <4> QED BY <4>1
    <3> QED BY <3>1, <3>2
  <2>6. ASSUME NEW e \in 1 .. Len(titles)
        PROVE  Published(titles[e])' /\ \A i \in 1 .. Len(body'[e]) : Issued(titles[e], body[e][i])'
    <3>. PICK d \in Days : d = titles[e]
      BY <2>1, ElementOfSeq
    <3>1. Published(d) /\ \A i \in 1 .. Len(body[e]) : Issued(d, body[e][i])
      BY DEF TracesFit, BlocksFit
    <3>2. Published(d)' /\ \A o : Issued(d, o) => Issued(d, o)'
      BY <3>1, PublishedIsFrozen, IssuedStays
    <3>3. ASSUME NEW i \in 1 .. Len(body'[e]) PROVE \E o : o = body'[e][i] /\ Issued(d, o)
      <4>1. CASE e = doc
        <5>1. body'[e] = t
          BY <2>1, <2>4, <4>1
        <5>2. \E j \in 1 .. Len(body[e]) : body'[e][i] = body[e][j]
          BY <2>5, <4>1, <5>1
        <5> QED BY <3>1, <5>2
      <4>2. CASE e # doc
        BY <2>1, <2>4, <3>1, <4>2
      <4> QED BY <4>1, <4>2
    <3>4. \A i \in 1 .. Len(body'[e]) : \E o : o = body'[e][i] /\ Issued(d, o)'
      BY <3>2, <3>3
    <3> QED BY <2>4, <3>2, <3>4 DEF Issued, Published
  <2>7. BlocksFit'
    BY <2>4, <2>6 DEF BlocksFit
  <2>8. \A e, d : OfDay(e, d) => OfDay(e, d)'
    BY <2>4 DEF OfDay
  <2>9. pc' = "returned" => OfDay(receipt, active)'
    BY <2>4 DEF TracesFit, WritesFit, OfDay
  <2> QED BY <1>1, <2>4, <2>7, <2>8, <2>9, WritesFitStays DEF TracesFit
<1>13. CASE Environment
  <2>1. UNCHANGED lark \/ (\E w \in inflight : Land(w)) \/ \E doc \in DOMAIN body : \E n \in DOMAIN body[doc] : Edit(doc, n)
    BY <1>13 DEF Environment, Evening, Midnight, Ingest
  <2> QED BY <1>1, <1>4, <1>11, <1>12, <1>13, <2>1 DEF TracesFit
<1> QED BY <1>1, <1>4, <1>5, <1>8, <1>9, <1>10, <1>13 DEF TracesFit, Next, Step, Operator

\* The documents always show what has been issued.
THEOREM TracesHold == Spec => []Shown
<1>1. Init => TracesFit
  <2> SUFFICES ASSUME Init PROVE TracesFit
    OBVIOUS
  <2>1. ChecksFit
    BY DEF Init, ChecksFit, Published
  <2>2. Len(titles) = 0 /\ inflight = {} /\ pc = "idle"
    BY DEF Init
  <2>3. BlocksFit
    BY <2>2 DEF BlocksFit
  <2>4. WritesFit
    BY <2>2 DEF Init, WritesFit, OfDay
  <2> QED BY <2>1, <2>3, <2>4 DEF TracesFit
<1>2. Shown /\ [Next]_vars => Shown'
  BY FilesFitStep, TracesFitStep DEF Shown
<1> QED BY <1>1, <1>2, FilesFitInit, PTL DEF Spec, Shown

\* No block of an item is shown that was not verified in the draft that is
\* published: neither a rejected draft nor a late write can show one
\* (daily_digest.py, research, verification and publication).
THEOREM VerifiedOnly == Spec => []ShownIsVerified
<1>1. Shown => ShownIsVerified
  <2> SUFFICES ASSUME Shown, NEW doc \in DOMAIN body, NEW n \in DOMAIN body[doc], body[doc][n] > Create
               PROVE  /\ ItemOf(body[doc][n]) \in DOMAIN verified[titles[doc]]
                      /\ verified[titles[doc]][ItemOf(body[doc][n])] = proposal[titles[doc]].draft
    BY DEF ShownIsVerified
  <2>1. doc \in 1 .. Len(titles) /\ titles[doc] \in Days
    BY LenProperties, ElementOfSeq DEF Shown, FilesFit, TypeOK, LarkOK
  <2>2. body[doc] \in Seq(Nat)
    BY LenProperties, ElementOfSeq DEF Shown, FilesFit, TypeOK, LarkOK
  <2>3. n \in 1 .. Len(body[doc]) /\ body[doc][n] \in Nat
    BY <2>2, LenProperties, ElementOfSeq
  <2>4. Issued(titles[doc], body[doc][n])
    BY <2>1, <2>3 DEF Shown, TracesFit, BlocksFit
  <2> QED BY <2>1, <2>3, <2>4, IssuedIsVerified DEF Shown, TracesFit
<1> QED BY <1>1, TracesHold, PTL

-----------------------------------------------------------------------------
(***************************************************************************)
(* How often an operation was tried.  It may be tried once for every time  *)
(* an operator has declared it not applied, and once more while its intent *)
(* or its receipt stands.  A try that no document shows yet is spent on    *)
(* its way or is about to be made.  No block is there more often than the  *)
(* tries allow that are not spent.                                         *)
(***************************************************************************)
Flying(d, op) == {w \in inflight : w.day = d /\ w.op = op}

AboutToWrite(d, op) == pc = "writing" /\ active = d /\ intent[d] = op

Spent(d, op) == Cardinality(Flying(d, op)) + IF AboutToWrite(d, op) THEN 1 ELSE 0

Standing(d, op) == op <= receipts[d] \/ intent[d] = op

Allowed(d, op) == ConfirmedTimes(d, op) + IF Standing(d, op) THEN 1 ELSE 0

TriesFit ==
  /\ IsFiniteSet(inflight)
  /\ \A d \in Days, op \in Nat \ {None} : Spent(d, op) <= Allowed(d, op)
  /\ \A doc \in 1 .. Len(titles), op \in Nat \ {None, Create} :
       Times(op, body[doc]) + Spent(titles[doc], op) <= Allowed(titles[doc], op)
  /\ \A d \in Days : Times(d, titles) + Spent(d, Create) <= Allowed(d, Create)
  /\ \A doc \in 1 .. Len(titles) : Times(Create, body[doc]) <= 1

Tried == Shown /\ TriesFit

\* How often a value is in a sequence is a number.
LEMMA TimesType ==
  ASSUME NEW S, NEW s \in Seq(S), NEW x
  PROVE  /\ IsFiniteSet({i \in DOMAIN s : s[i] = x})
         /\ Times(x, s) \in Nat
<1>1. Len(s) \in Nat /\ DOMAIN s = 1 .. Len(s)
  BY LenProperties
<1>2. IsFiniteSet(1 .. Len(s))
  BY <1>1, FS_Interval
<1>3. IsFiniteSet({i \in DOMAIN s : s[i] = x})
  BY <1>1, <1>2, FS_Subset
<1> QED BY <1>3, FS_CardinalityType DEF Times

\* The counts of the sequences that documents start from.
LEMMA TimesStart ==
  /\ \A x : Times(x, <<>>) = 0
  /\ \A x : Times(x, <<Create>>) = IF x = Create THEN 1 ELSE 0
<1>1. ASSUME NEW x PROVE Times(x, <<>>) = 0
  <2>1. {i \in DOMAIN <<>> : <<>>[i] = x} = {}
    OBVIOUS
  <2> QED BY <2>1, FS_EmptySet DEF Times
<1>2. ASSUME NEW x PROVE Times(x, <<Create>>) = IF x = Create THEN 1 ELSE 0
  <2>1. DOMAIN <<Create>> = {1} /\ <<Create>>[1] = Create
    OBVIOUS
  <2>2. CASE x = Create
    <3>1. {i \in DOMAIN <<Create>> : <<Create>>[i] = x} = {1}
      BY <2>1, <2>2
    <3> QED BY <2>2, <3>1, FS_Singleton DEF Times
  <2>3. CASE x # Create
    <3>1. {i \in DOMAIN <<Create>> : <<Create>>[i] = x} = {}
      BY <2>1, <2>3
    <3> QED BY <2>3, <3>1, FS_EmptySet DEF Times
  <2> QED BY <2>2, <2>3
<1> QED BY <1>1, <1>2

\* Appending a value counts it once.
LEMMA TimesAppend ==
  ASSUME NEW S, NEW s \in Seq(S), NEW y \in S, NEW x
  PROVE  Times(x, Append(s, y)) = Times(x, s) + IF x = y THEN 1 ELSE 0
<1> DEFINE l == Len(s)
           t == Append(s, y)
           I == {i \in DOMAIN s : s[i] = x}
           J == {i \in DOMAIN t : t[i] = x}
<1>1. l \in Nat /\ DOMAIN s = 1 .. l
  BY LenProperties
<1>2. /\ t \in Seq(S) /\ Len(t) = l + 1
      /\ \A i \in 1 .. l : t[i] = s[i]
      /\ t[l + 1] = y
  BY <1>1, AppendProperties
<1>3. DOMAIN t = 1 .. l + 1
  BY <1>2, LenProperties
<1>4. IsFiniteSet(I) /\ Cardinality(I) = Times(x, s) /\ Times(x, s) \in Nat
  BY TimesType DEF Times
<1>5. Cardinality(J) = Times(x, t)
  BY DEF Times
<1> HIDE DEF l, t
<1>6. CASE x = y
  <2>1. J = I \cup {l + 1} /\ l + 1 \notin I
    BY <1>1, <1>2, <1>3, <1>6
  <2>2. Cardinality(J) = Cardinality(I) + 1
    BY <1>4, <2>1, FS_AddElement
  <2> QED BY <1>4, <1>5, <1>6, <2>2 DEF t
<1>7. CASE x # y
  <2>1. J = I
    BY <1>1, <1>2, <1>3, <1>7
  <2>2. Times(x, t) = Times(x, s)
    BY <1>4, <1>5, <2>1
  <2>3. Times(x, s) + 0 = Times(x, s)
    BY <1>4
  <2> QED BY <1>7, <2>2, <2>3 DEF t
<1> QED BY <1>6, <1>7

\* Deleting a block makes no value more frequent.
LEMMA TimesDelete ==
  ASSUME NEW s \in Seq(Nat), NEW n \in 1 .. Len(s), NEW x
  PROVE  Times(x, SubSeq(s, 1, n - 1) \o SubSeq(s, n + 1, Len(s))) <= Times(x, s)
<1> DEFINE t == SubSeq(s, 1, n - 1) \o SubSeq(s, n + 1, Len(s))
           I == {i \in DOMAIN s : s[i] = x}
           J == {i \in DOMAIN t : t[i] = x}
           f == [i \in J |-> IF i < n THEN i ELSE i + 1]
<1>1. /\ t \in Seq(Nat) /\ Len(s) \in Nat /\ Len(t) = Len(s) - 1
      /\ \A i \in 1 .. Len(t) : t[i] = IF i < n THEN s[i] ELSE s[i + 1]
  BY DeleteBlocks
<1>2. DOMAIN s = 1 .. Len(s) /\ DOMAIN t = 1 .. Len(t)
  BY <1>1, LenProperties
<1>3. IsFiniteSet(I) /\ Cardinality(I) = Times(x, s)
  BY TimesType DEF Times
<1>4. Cardinality(J) = Times(x, t)
  BY DEF Times
<1> HIDE DEF t
<1>5. \A i \in J : f[i] \in I /\ i \in Nat
  <2> TAKE i \in J
  <2>1. i \in 1 .. Len(t) /\ t[i] = x /\ i \in Nat
    BY <1>1, <1>2
  <2>2. CASE i < n
    BY <1>1, <1>2, <2>1, <2>2
  <2>3. CASE ~(i < n)
    <3>1. i + 1 \in DOMAIN s /\ s[i + 1] = x /\ f[i] = i + 1
      BY <1>1, <1>2, <2>1, <2>3
    <3> QED BY <2>1, <3>1
  <2> QED BY <2>2, <2>3
<1>6. \A i, j \in J : f[i] = f[j] => i = j
  <2> SUFFICES ASSUME NEW i \in J, NEW j \in J, f[i] = f[j] PROVE i = j
    OBVIOUS
  <2>1. i \in Nat /\ j \in Nat /\ n \in Nat
    BY <1>1, <1>5
  <2>2. (IF i < n THEN i ELSE i + 1) = (IF j < n THEN j ELSE j + 1)
    OBVIOUS
  <2> HIDE DEF f, J
  <2> QED BY <2>1, <2>2
<1>7. f \in Injection(J, I)
  BY <1>5, <1>6 DEF Injection, IsInjective
<1>8. Cardinality(J) <= Cardinality(I)
  BY <1>3, <1>7, FS_Injection
<1> QED BY <1>3, <1>4, <1>8 DEF t

\* Everything that is counted is a number.
Numbers ==
  \A op : /\ \A d \in Days : Spent(d, op) \in Nat /\ Allowed(d, op) \in Nat /\ Times(d, titles) \in Nat
          /\ \A doc \in 1 .. Len(titles) : titles[doc] \in Days /\ Times(op, body[doc]) \in Nat
          /\ \A d \in Days : IsFiniteSet(Flying(d, op)) /\ Cardinality(Flying(d, op)) \in Nat

\* Counts are numbers while only finitely many writes are on their way.
LEMMA CountsAreNumbers == FilesFit /\ IsFiniteSet(inflight) => Numbers
<1> SUFFICES ASSUME FilesFit, IsFiniteSet(inflight), NEW op
             PROVE  /\ \A d \in Days : Spent(d, op) \in Nat /\ Allowed(d, op) \in Nat /\ Times(d, titles) \in Nat
                    /\ \A doc \in 1 .. Len(titles) : titles[doc] \in Days /\ Times(op, body[doc]) \in Nat
                    /\ \A d \in Days : IsFiniteSet(Flying(d, op)) /\ Cardinality(Flying(d, op)) \in Nat
  BY DEF Numbers
<1>1. ASSUME NEW d \in Days PROVE IsFiniteSet(Flying(d, op)) /\ Cardinality(Flying(d, op)) \in Nat
  BY FS_Subset, FS_CardinalityType DEF Flying
<1>2. ASSUME NEW d \in Days PROVE Spent(d, op) \in Nat
  BY <1>1 DEF Spent
<1>3. ASSUME NEW d \in Days PROVE Allowed(d, op) \in Nat
  <2>1. confirmed[d] \in Seq(Nat)
    BY DEF FilesFit, TypeOK, JournalOK
  <2>2. ConfirmedTimes(d, op) \in Nat
    BY <2>1, TimesType DEF ConfirmedTimes
  <2> QED BY <2>2 DEF Allowed
<1>4. ASSUME NEW d \in Days PROVE Times(d, titles) \in Nat
  BY TimesType DEF FilesFit, TypeOK, LarkOK
<1>5. ASSUME NEW doc \in 1 .. Len(titles) PROVE titles[doc] \in Days /\ Times(op, body[doc]) \in Nat
  BY TimesType, ElementOfSeq DEF FilesFit, TypeOK, LarkOK
<1> QED BY <1>1, <1>2, <1>3, <1>4, <1>5

\* The same of the state after a step.
LEMMA NextCountsAreNumbers == FilesFit' /\ IsFiniteSet(inflight)' => Numbers'
BY CountsAreNumbers, PTL

\* What is allowed and what is spent, from the columns they depend on.
LEMMA BudgetKept ==
  ASSUME NEW d, NEW op
  PROVE  /\ receipts'[d] = receipts[d] /\ intent'[d] = intent[d] /\ confirmed'[d] = confirmed[d] =>
              Allowed(d, op)' = Allowed(d, op)
         /\ inflight' = inflight /\ (AboutToWrite(d, op)' <=> AboutToWrite(d, op)) =>
              Spent(d, op)' = Spent(d, op)
BY DEF Allowed, ConfirmedTimes, Standing, Spent, Flying

\* A step that shows nothing new, spends no more than before and takes no
\* allowance away.
LEMMA TriesStay ==
  ASSUME FilesFit, FilesFit', TriesFit, IsFiniteSet(inflight)', titles' = titles,
         \A d \in Days, op \in Nat \ {None} :
            Spent(d, op)' <= Spent(d, op) /\ Allowed(d, op) <= Allowed(d, op)',
         \A doc \in 1 .. Len(titles), op \in Nat : Times(op, body[doc])' <= Times(op, body[doc])
  PROVE  TriesFit'
<1>0. Numbers /\ Numbers'
  BY CountsAreNumbers, NextCountsAreNumbers DEF TriesFit
<1>1. \A d \in Days, op \in Nat \ {None} :
        /\ Spent(d, op) \in Nat /\ Allowed(d, op) \in Nat /\ Times(d, titles) \in Nat
        /\ Spent(d, op)' \in Nat /\ Allowed(d, op)' \in Nat
  BY <1>0 DEF Numbers
<1>2. \A doc \in 1 .. Len(titles), op \in Nat :
        titles[doc] \in Days /\ Times(op, body[doc]) \in Nat /\ Times(op, body[doc])' \in Nat
  BY <1>0 DEF Numbers
<1>3. ASSUME NEW d \in Days, NEW op \in Nat \ {None} PROVE Spent(d, op)' <= Allowed(d, op)'
  <2>1. Spent(d, op) <= Allowed(d, op)
    BY DEF TriesFit
  <2> QED BY <1>1, <2>1
<1>4. ASSUME NEW doc \in 1 .. Len(titles), NEW op \in Nat \ {None, Create}
      PROVE  Times(op, body[doc])' + Spent(titles[doc], op)' <= Allowed(titles[doc], op)'
  <2>. PICK d \in Days : d = titles[doc]
    BY <1>2
  <2>1. Times(op, body[doc]) + Spent(d, op) <= Allowed(d, op)
    BY DEF TriesFit
  <2>2. Times(op, body[doc])' + Spent(d, op)' <= Allowed(d, op)'
    <3>1. Times(op, body[doc])' <= Times(op, body[doc])
      OBVIOUS
    <3>2. Spent(d, op)' <= Spent(d, op) /\ Allowed(d, op) <= Allowed(d, op)'
      OBVIOUS
    <3>3. /\ Times(op, body[doc]) \in Nat /\ Times(op, body[doc])' \in Nat
          /\ Spent(d, op) \in Nat /\ Spent(d, op)' \in Nat /\ Allowed(d, op) \in Nat /\ Allowed(d, op)' \in Nat
      BY <1>1, <1>2
    <3>4. \A t, u, v, w, x, y \in Nat : t <= u /\ v <= w /\ x <= y /\ u + w <= x => t + v <= y
      OBVIOUS
    <3> QED BY <2>1, <3>1, <3>2, <3>3, <3>4
  <2>3. d = titles'[doc]
    OBVIOUS
  <2> QED BY <2>2, <2>3 DEF Spent, Flying, AboutToWrite, Allowed, ConfirmedTimes, Standing
<1>5. ASSUME NEW d \in Days PROVE Times(d, titles)' + Spent(d, Create)' <= Allowed(d, Create)'
  <2>1. Times(d, titles) + Spent(d, Create) <= Allowed(d, Create) /\ Create \in Nat \ {None}
    BY DEF TriesFit, Create, None
  <2>2. Times(d, titles)' = Times(d, titles)
    BY DEF Times
  <2> QED BY <1>1, <2>1, <2>2
<1>6. ASSUME NEW doc \in 1 .. Len(titles) PROVE Times(Create, body[doc])' <= 1
  <2>1. Times(Create, body[doc]) <= 1 /\ Create \in Nat
    BY DEF TriesFit, Create
  <2> QED BY <1>2, <2>1
<1> QED BY <1>3, <1>4, <1>5, <1>6 DEF TriesFit

\* A write shows its operation once more and spends one try of it.
LEMMA ApplyTries ==
  ASSUME FilesFit, FilesFit', TriesFit, IsFiniteSet(inflight)',
         NEW d \in Days, NEW op \in Nat \ {None}, NEW to \in Nat, Apply(op, d, to), OfDay(to, d),
         \A e \in Days, o \in Nat \ {None} :
            /\ Allowed(e, o)' = Allowed(e, o)
            /\ Spent(e, o)' + (IF e = d /\ o = op THEN 1 ELSE 0) <= Spent(e, o)
  PROVE  TriesFit'
<1>1. \A e \in Days, o \in Nat \ {None} :
        /\ Spent(e, o) \in Nat /\ Allowed(e, o) \in Nat /\ Times(e, titles) \in Nat
        /\ Spent(e, o)' \in Nat /\ Allowed(e, o)' \in Nat
  <2>1. Numbers /\ Numbers'
    BY CountsAreNumbers, NextCountsAreNumbers DEF TriesFit
  <2> QED BY <2>1 DEF Numbers
<1>2. /\ titles \in Seq(Days) /\ body \in Seq(Seq(Nat)) /\ Len(body) = Len(titles) /\ Len(titles) \in Nat
      /\ \A doc \in 1 .. Len(titles) : titles[doc] \in Days /\ body[doc] \in Seq(Nat)
  BY LenProperties, ElementOfSeq DEF FilesFit, TypeOK, LarkOK
<1>3. /\ \A doc \in 1 .. Len(titles) :
           /\ doc \in 1 .. Len(titles') /\ titles'[doc] = titles[doc]
           /\ body'[doc] = IF op # Create /\ doc = to THEN Append(body[doc], op) ELSE body[doc]
      /\ \A doc \in 1 .. Len(titles') :
           doc \notin 1 .. Len(titles) =>
             op = Create /\ doc = Len(titles) + 1 /\ titles'[doc] = d /\ body'[doc] = <<Create>>
      /\ op = Create => titles' = Append(titles, d)
      /\ op # Create => titles' = titles
  BY <1>2, ApplyBlocks
\* How the counts of a document that was there change.
<1>4. \A doc \in 1 .. Len(titles), o \in Nat :
        /\ Times(o, body[doc]) \in Nat
        /\ Times(o, body'[doc]) = Times(o, body[doc]) + IF op # Create /\ doc = to /\ o = op THEN 1 ELSE 0
  <2> TAKE doc \in 1 .. Len(titles), o \in Nat
  <2>1. Times(o, body[doc]) \in Nat
    BY <1>2, TimesType
  <2>2. CASE op # Create /\ doc = to
    <3>1. body'[doc] = Append(body[doc], op)
      BY <1>3, <2>2
    <3>2. \A s \in Seq(Nat) : Times(o, Append(s, op)) = Times(o, s) + IF o = op THEN 1 ELSE 0
      BY TimesAppend
    <3>3. Times(o, body'[doc]) = Times(o, body[doc]) + IF o = op THEN 1 ELSE 0
      BY <1>2, <3>1, <3>2
    <3> QED BY <2>1, <2>2, <3>3
  <2>3. CASE ~(op # Create /\ doc = to)
    <3>1. body'[doc] = body[doc]
      BY <1>3, <2>3
    <3> QED BY <2>1, <2>3, <3>1
  <2> QED BY <2>2, <2>3
<1>5. ASSUME NEW e \in Days, NEW o \in Nat \ {None} PROVE Spent(e, o)' <= Allowed(e, o)'
  <2>1. Spent(e, o) <= Allowed(e, o)
    BY DEF TriesFit
  <2> QED BY <1>1, <2>1
<1>6. ASSUME NEW doc \in 1 .. Len(titles'), NEW e \in Days, e = titles'[doc], NEW o \in Nat \ {None, Create}
      PROVE  Times(o, body'[doc]) + Spent(e, o)' <= Allowed(e, o)'
  <2>1. CASE doc \in 1 .. Len(titles)
    <3>1. e = titles[doc]
      BY <1>3, <1>6, <2>1
    <3>2. Times(o, body[doc]) + Spent(e, o) <= Allowed(e, o)
      BY <2>1, <3>1 DEF TriesFit
    <3>3. doc = to => e = d
      <4>1. doc # None
        BY <2>1 DEF None
      <4> QED BY <3>1, <4>1 DEF OfDay
    <3>4. /\ Times(o, body[doc]) \in Nat
          /\ Times(o, body'[doc]) = Times(o, body[doc]) + IF op # Create /\ doc = to /\ o = op THEN 1 ELSE 0
      BY <1>4, <2>1
    <3>5. Spent(e, o)' + (IF e = d /\ o = op THEN 1 ELSE 0) <= Spent(e, o) /\ Allowed(e, o)' = Allowed(e, o)
      OBVIOUS
    <3>6. /\ Spent(e, o) \in Nat /\ Spent(e, o)' \in Nat /\ Allowed(e, o) \in Nat /\ Allowed(e, o)' \in Nat
      BY <1>1
    <3>7. CASE doc = to /\ o = op
      <4>1. Times(o, body'[doc]) = Times(o, body[doc]) + 1 /\ Spent(e, o)' + 1 <= Spent(e, o)
        BY <3>3, <3>4, <3>5, <3>7
      <4> QED BY <3>2, <3>4, <3>5, <3>6, <4>1
    <3>8. CASE ~(doc = to /\ o = op)
      <4>1. Times(o, body'[doc]) = Times(o, body[doc]) /\ Spent(e, o)' <= Spent(e, o)
        BY <3>4, <3>5, <3>6, <3>8
      <4> QED BY <3>2, <3>4, <3>5, <3>6, <4>1
    <3> QED BY <3>7, <3>8
  <2>2. CASE doc \notin 1 .. Len(titles)
    <3>1. body'[doc] = <<Create>>
      BY <1>3, <2>2
    <3>2. Times(o, body'[doc]) = 0
      BY <3>1, TimesStart
    <3> QED BY <1>1, <1>5, <3>2
  <2> QED BY <2>1, <2>2
<1>7. ASSUME NEW e \in Days PROVE Times(e, titles') + Spent(e, Create)' <= Allowed(e, Create)'
  <2>1. Times(e, titles) + Spent(e, Create) <= Allowed(e, Create) /\ Create \in Nat \ {None}
    BY DEF TriesFit, Create, None
  <2>2. /\ Spent(e, Create) \in Nat /\ Spent(e, Create)' \in Nat /\ Times(e, titles) \in Nat
        /\ Allowed(e, Create) \in Nat /\ Allowed(e, Create)' = Allowed(e, Create)
        /\ Spent(e, Create)' + (IF e = d /\ Create = op THEN 1 ELSE 0) <= Spent(e, Create)
    BY <1>1, <2>1
  <2>3. CASE op = Create
    <3>0. \A s \in Seq(Days) : Times(e, Append(s, d)) = Times(e, s) + IF e = d THEN 1 ELSE 0
      BY TimesAppend
    <3>1. Times(e, titles') = Times(e, titles) + IF e = d THEN 1 ELSE 0
      BY <1>2, <1>3, <2>3, <3>0
    <3>2. CASE e = d
      BY <2>1, <2>2, <2>3, <3>1, <3>2
    <3>3. CASE e # d
      BY <2>1, <2>2, <2>3, <3>1, <3>3
    <3> QED BY <3>2, <3>3
  <2>4. CASE op # Create
    <3>1. titles' = titles /\ Spent(e, Create)' <= Spent(e, Create)
      BY <1>3, <2>2, <2>4
    <3>2. Times(e, titles') = Times(e, titles)
      BY <3>1
    <3> QED BY <2>1, <2>2, <3>1, <3>2
  <2> QED BY <2>3, <2>4
<1>8. ASSUME NEW doc \in 1 .. Len(titles') PROVE Times(Create, body'[doc]) <= 1
  <2>1. CASE doc \in 1 .. Len(titles)
    <3>1. Times(Create, body[doc]) <= 1 /\ Create \in Nat
      BY <2>1 DEF TriesFit, Create
    <3>2. Times(Create, body'[doc]) = Times(Create, body[doc])
      BY <1>4, <2>1, <3>1
    <3> QED BY <3>1, <3>2
  <2>2. CASE doc \notin 1 .. Len(titles)
    <3>1. body'[doc] = <<Create>>
      BY <1>3, <2>2
    <3> QED BY <3>1, TimesStart
  <2> QED BY <2>1, <2>2
<1>9. \A doc \in 1 .. Len(titles') : titles'[doc] \in Days
  BY ElementOfSeq DEF FilesFit, TypeOK, LarkOK
<1>10. \A doc \in 1 .. Len(titles'), o \in Nat \ {None, Create} :
         (Times(o, body[doc]) + Spent(titles[doc], o) <= Allowed(titles[doc], o))'
  <2> TAKE doc \in 1 .. Len(titles'), o \in Nat \ {None, Create}
  <2>. PICK e \in Days : e = titles'[doc]
    BY <1>9
  <2>1. Times(o, body'[doc]) + Spent(e, o)' <= Allowed(e, o)'
    BY <1>6
  <2> QED BY <2>1 DEF Times, Spent, Flying, AboutToWrite, Allowed, ConfirmedTimes, Standing
<1>11. \A e \in Days : (Times(e, titles) + Spent(e, Create) <= Allowed(e, Create))'
  BY <1>7 DEF Times
<1>12. \A doc \in 1 .. Len(titles') : (Times(Create, body[doc]) <= 1)'
  BY <1>8 DEF Times
<1> QED BY <1>5, <1>10, <1>11, <1>12 DEF TriesFit

\* Steps that move no block, no write and no allowance of any day.
LEMMA QuietTries ==
  ASSUME FilesFit, FilesFit', TriesFit, UNCHANGED <<titles, body, inflight>>,
         \A d \in Days, op \in Nat \ {None} :
            Allowed(d, op)' = Allowed(d, op) /\ (AboutToWrite(d, op)' => AboutToWrite(d, op))
  PROVE  TriesFit'
<1>1. Numbers
  BY CountsAreNumbers DEF TriesFit
<1>2. ASSUME NEW d \in Days, NEW op \in Nat \ {None}
      PROVE  Spent(d, op)' <= Spent(d, op) /\ Allowed(d, op) <= Allowed(d, op)'
  <2>1. Flying(d, op)' = Flying(d, op)
    BY DEF Flying
  <2>2. Cardinality(Flying(d, op)) \in Nat /\ Allowed(d, op) \in Nat
    BY <1>1 DEF Numbers
  <2>3. AboutToWrite(d, op)' => AboutToWrite(d, op)
    OBVIOUS
  <2>4. Allowed(d, op) <= Allowed(d, op)'
    BY <2>2
  <2>5. Spent(d, op)' <= Spent(d, op)
    BY <2>1, <2>2, <2>3 DEF Spent
  <2> QED BY <2>4, <2>5
<1>3. ASSUME NEW doc \in 1 .. Len(titles), NEW op \in Nat PROVE Times(op, body[doc])' <= Times(op, body[doc])
  <2>1. Times(op, body[doc]) \in Nat
    BY <1>1 DEF Numbers
  <2> QED BY <2>1 DEF Times
<1>4. IsFiniteSet(inflight)'
  BY DEF TriesFit
<1> QED BY <1>2, <1>3, <1>4, TriesStay

\* A day that starts has no document and no write on its way.
LEMMA StartTries ==
  ASSUME FilesFit, FilesFit', TracesFit, TriesFit, NEW chosen \in SUBSET Reports, StartRun(chosen)
  PROVE  TriesFit'
<1>1. /\ day \in Days /\ active = None /\ pc' = "starting" /\ pc = "idle"
      /\ UNCHANGED <<titles, body, inflight, active>>
  BY DEF StartRun, Due, FilesFit, TypeOK, ClockOK, lark, state
<1>. PICK b \in Days : b = day
  BY <1>1
<1>2. ~Published(b)
  <2>1. phase[b] # "publish" /\ (phase[b] = "complete" => b <= completed)
    BY <1>1, DaysAreNumbers DEF FilesFit, TypeOK, RunsInOrder
  <2>2. completed <= b /\ completed # b
    BY DEF StartRun, Due, FilesFit, RunsInOrder
  <2>3. b \in Nat /\ completed \in Nat
    BY DaysAreNumbers DEF FilesFit, TypeOK
  <2> QED BY <2>1, <2>2, <2>3 DEF Published
<1>3. Numbers /\ Numbers'
  BY <1>1, CountsAreNumbers, NextCountsAreNumbers DEF TriesFit
<1>4. ASSUME NEW d \in Days, NEW op \in Nat \ {None}
      PROVE  /\ Spent(d, op)' = Spent(d, op)
             /\ d # b => Allowed(d, op)' = Allowed(d, op)
             /\ d = b => Spent(d, op)' = 0
  <2>1. ~AboutToWrite(d, op) /\ ~AboutToWrite(d, op)' /\ Flying(d, op)' = Flying(d, op)
    BY <1>1 DEF AboutToWrite, Flying
  <2>2. Spent(d, op)' = Spent(d, op)
    BY <2>1 DEF Spent
  <2>3. ASSUME d # b PROVE Allowed(d, op)' = Allowed(d, op)
    <3>1. receipts'[d] = receipts[d] /\ intent'[d] = intent[d] /\ confirmed'[d] = confirmed[d]
      BY <2>3 DEF StartRun, FilesFit, TypeOK, JournalOK
    <3> QED BY <3>1, BudgetKept
  <2>4. ASSUME d = b PROVE Spent(d, op) = 0
    <3>1. Flying(d, op) = {}
      BY <1>2, <2>4 DEF Flying, TracesFit, WritesFit, Issued
    <3>2. Cardinality({}) = 0
      BY FS_EmptySet
    <3> QED BY <2>1, <3>1, <3>2 DEF Spent
  <2> QED BY <2>2, <2>3, <2>4
<1>5. \A doc \in 1 .. Len(titles) : titles[doc] \in Days /\ titles[doc] # b
  BY <1>2, <1>3 DEF TracesFit, BlocksFit, Numbers
<1>6. ASSUME NEW d \in Days, NEW op \in Nat \ {None} PROVE Spent(d, op)' <= Allowed(d, op)'
  <2>1. Spent(d, op) <= Allowed(d, op) /\ Allowed(d, op)' \in Nat
    BY <1>3 DEF TriesFit, Numbers
  <2> QED BY <1>4, <2>1
<1>7. ASSUME NEW doc \in 1 .. Len(titles), NEW op \in Nat \ {None, Create}
      PROVE  (Times(op, body[doc]) + Spent(titles[doc], op) <= Allowed(titles[doc], op))'
  <2>. PICK d \in Days : d = titles[doc] /\ d # b
    BY <1>5
  <2>1. Times(op, body[doc]) + Spent(d, op) <= Allowed(d, op)
    BY DEF TriesFit
  <2>2. Times(op, body[doc])' + Spent(d, op)' <= Allowed(d, op)'
    <3>1. Times(op, body[doc])' = Times(op, body[doc])
      BY <1>1 DEF Times
    <3> QED BY <1>4, <2>1, <3>1
  <2>3. d = titles'[doc]
    BY <1>1
  <2> QED BY <2>2, <2>3 DEF Spent, Flying, AboutToWrite, Allowed, ConfirmedTimes, Standing
<1>8. ASSUME NEW d \in Days PROVE Times(d, titles)' + Spent(d, Create)' <= Allowed(d, Create)'
  <2>1. Times(d, titles)' = Times(d, titles) /\ Create \in Nat \ {None}
    BY <1>1 DEF Times, Create, None
  <2>2. CASE d # b
    <3>1. Times(d, titles) + Spent(d, Create) <= Allowed(d, Create)
      BY DEF TriesFit
    <3> QED BY <1>4, <2>1, <2>2, <3>1
  <2>3. CASE d = b
    <3>1. {i \in DOMAIN titles : titles[i] = d} = {}
      BY <1>5, <2>3, LenProperties DEF FilesFit, TypeOK, LarkOK
    <3>2. Times(d, titles) = 0
      BY <3>1, FS_EmptySet DEF Times
    <3>3. Spent(d, Create)' = 0 /\ Allowed(d, Create)' \in Nat
      BY <1>3, <1>4, <2>1, <2>3 DEF Numbers
    <3> QED BY <2>1, <3>2, <3>3
  <2> QED BY <2>2, <2>3
<1>9. ASSUME NEW doc \in 1 .. Len(titles) PROVE Times(Create, body[doc])' <= 1
  BY <1>1 DEF Times, TriesFit
<1> QED BY <1>1, <1>6, <1>7, <1>8, <1>9 DEF TriesFit

\* An intent allows one try more and is the one about to be made.
LEMMA IntendTries ==
  ASSUME FilesFit, FilesFit', TriesFit, Intend
  PROVE  TriesFit'
<1>1. /\ active \in Days /\ intent[active] = None /\ pc = "idle" /\ pc' = "writing"
      /\ intent' = [intent EXCEPT ![active] = receipts[active] + 1]
      /\ intent \in [Days -> Nat] /\ receipts[active] \in Nat
      /\ UNCHANGED <<titles, body, inflight, active, receipts, confirmed>>
  BY DaysAreNumbers DEF Intend, Advances, NextOperation, FilesFit, TypeOK, JournalOK, lark, state
<1>. PICK a \in Days, i \in Nat \ {None} : a = active /\ i = receipts[a] + 1
  BY <1>1 DEF None
<1>2. Numbers
  BY CountsAreNumbers DEF TriesFit
<1>3. ASSUME NEW d \in Days, NEW op \in Nat \ {None}
      PROVE  /\ Spent(d, op)' = Spent(d, op) + (IF d = a /\ op = i THEN 1 ELSE 0)
             /\ Allowed(d, op)' = Allowed(d, op) + (IF d = a /\ op = i THEN 1 ELSE 0)
  <2>1. ~AboutToWrite(d, op) /\ Flying(d, op)' = Flying(d, op) /\ (AboutToWrite(d, op)' <=> d = a /\ op = i)
    BY <1>1 DEF AboutToWrite, Flying
  <2>2. Cardinality(Flying(d, op)) \in Nat
    BY <1>2 DEF Numbers
  <2>3. Spent(d, op)' = Spent(d, op) + (IF d = a /\ op = i THEN 1 ELSE 0)
    BY <2>1, <2>2 DEF Spent
  <2>4. confirmed[d] \in Seq(Nat) /\ receipts[d] \in Nat
    BY DEF FilesFit, TypeOK, JournalOK
  <2>5. ConfirmedTimes(d, op) \in Nat /\ ConfirmedTimes(d, op)' = ConfirmedTimes(d, op)
    BY <1>1, <2>4, TimesType DEF ConfirmedTimes
  <2>6. Standing(d, op)' <=> Standing(d, op) \/ (d = a /\ op = i)
    BY <1>1 DEF Standing
  <2>7. d = a /\ op = i => ~Standing(d, op)
    BY <1>1, <2>4 DEF Standing
  <2>8. Allowed(d, op)' = Allowed(d, op) + (IF d = a /\ op = i THEN 1 ELSE 0)
    BY <2>5, <2>6, <2>7 DEF Allowed
  <2> QED BY <2>3, <2>8
<1>4. ASSUME NEW d \in Days, NEW op \in Nat \ {None}
      PROVE  \A t \in Nat : t + Spent(d, op) <= Allowed(d, op) => t + Spent(d, op)' <= Allowed(d, op)'
  <2>1. Spent(d, op) \in Nat /\ Allowed(d, op) \in Nat
    BY <1>2 DEF Numbers
  <2> QED BY <1>3, <2>1
<1>5. ASSUME NEW d \in Days, NEW op \in Nat \ {None} PROVE Spent(d, op)' <= Allowed(d, op)'
  <2>1. Spent(d, op) <= Allowed(d, op) /\ Spent(d, op) \in Nat /\ Allowed(d, op) \in Nat
    BY <1>2 DEF TriesFit, Numbers
  <2> QED BY <1>3, <2>1
<1>6. ASSUME NEW doc \in 1 .. Len(titles), NEW op \in Nat \ {None, Create}
      PROVE  (Times(op, body[doc]) + Spent(titles[doc], op) <= Allowed(titles[doc], op))'
  <2>. PICK d \in Days : d = titles[doc]
    BY <1>2 DEF Numbers
  <2>1. Times(op, body[doc]) + Spent(d, op) <= Allowed(d, op) /\ Times(op, body[doc]) \in Nat
    BY <1>2 DEF TriesFit, Numbers
  <2>2. Times(op, body[doc])' = Times(op, body[doc])
    BY <1>1 DEF Times
  <2>3. Times(op, body[doc]) + Spent(d, op)' <= Allowed(d, op)'
    BY <1>4, <2>1
  <2>4. Times(op, body[doc])' + Spent(d, op)' <= Allowed(d, op)' /\ d = titles'[doc]
    BY <1>1, <2>2, <2>3
  <2> QED BY <2>4 DEF Spent, Flying, AboutToWrite, Allowed, ConfirmedTimes, Standing
<1>7. ASSUME NEW d \in Days PROVE Times(d, titles)' + Spent(d, Create)' <= Allowed(d, Create)'
  <2>0. Times(d, titles)' = Times(d, titles)
    BY <1>1 DEF Times
  <2>1. Times(d, titles)' = Times(d, titles) /\ Create \in Nat \ {None} /\ Times(d, titles) \in Nat
    <3>1. Create \in Nat \ {None}
      BY DEF Create, None
    <3>2. Times(d, titles) \in Nat
      BY <1>2 DEF Numbers
    <3> QED BY <2>0, <3>1, <3>2
  <2>2. Times(d, titles) + Spent(d, Create) <= Allowed(d, Create)
    BY DEF TriesFit
  <2> QED BY <1>4, <2>1, <2>2
<1>8. ASSUME NEW doc \in 1 .. Len(titles) PROVE Times(Create, body[doc])' <= 1
  BY <1>1 DEF Times, TriesFit
<1> QED BY <1>1, <1>5, <1>6, <1>7, <1>8 DEF TriesFit

\* A receipt, an operator's word or a crash changes what stands of an intent
\* but not what is allowed.
LEMMA ReceiptTries ==
  ASSUME FilesFit, FilesFit', TriesFit,
         \/ RecordReceipt
         \/ \E doc \in DOMAIN titles : ReconcileApplied(doc)
         \/ ReconcileNotApplied
  PROVE  TriesFit'
<1>1. /\ active \in Days /\ intent[active] # None /\ pc # "writing" /\ pc' # "writing"
      /\ UNCHANGED <<titles, body, inflight, active>>
      /\ intent' = [intent EXCEPT ![active] = None]
  BY DaysAreNumbers DEF RecordReceipt, ReconcileApplied, ReconcileNotApplied, InDoubt, FilesFit, TypeOK, StepsFit,
     lark, state, memory
<1>2. /\ intent \in [Days -> Nat] /\ receipts \in [Days -> Nat] /\ confirmed \in [Days -> Seq(Nat)]
      /\ intent[active] = receipts[active] + 1
  BY <1>1 DEF FilesFit, TypeOK, JournalOK, JournalInRange
<1>. PICK a \in Days : a = active
  BY <1>1
<1>3. ASSUME NEW d \in Days, NEW op \in Nat \ {None} PROVE Allowed(d, op)' = Allowed(d, op)
  <2>1. CASE d # a
    <3>1. receipts'[d] = receipts[d] /\ intent'[d] = intent[d] /\ confirmed'[d] = confirmed[d]
      BY <1>1, <1>2, <2>1 DEF RecordReceipt, ReconcileApplied, ReconcileNotApplied
    <3> QED BY <3>1, BudgetKept
  <2>2. CASE d = a /\ ~ReconcileNotApplied
    <3>1. receipts'[a] = receipts[a] + 1 /\ intent'[a] = None /\ confirmed' = confirmed
      BY <1>1, <1>2, <2>2 DEF RecordReceipt, ReconcileApplied, NextOperation
    <3>2. Standing(d, op)' <=> Standing(d, op)
      <4>1. receipts[a] \in Nat /\ intent[a] = receipts[a] + 1
        BY <1>2
      <4> QED BY <2>2, <3>1, <4>1 DEF Standing
    <3>3. ConfirmedTimes(d, op)' = ConfirmedTimes(d, op)
      BY <3>1 DEF ConfirmedTimes
    <3> QED BY <3>2, <3>3 DEF Allowed
  <2>3. CASE d = a /\ ReconcileNotApplied
    <3>1. /\ receipts' = receipts /\ intent'[a] = None
          /\ confirmed'[a] = Append(confirmed[a], intent[a])
      BY <1>1, <1>2, <2>3 DEF ReconcileNotApplied
    <3>2. receipts[a] \in Nat /\ intent[a] = receipts[a] + 1 /\ intent[a] \in Nat /\ confirmed[a] \in Seq(Nat)
      BY <1>2
    <3>3. Times(op, Append(confirmed[a], intent[a])) = Times(op, confirmed[a]) + IF op = intent[a] THEN 1 ELSE 0
      BY <3>2, TimesAppend
    <3>4. /\ ConfirmedTimes(d, op) \in Nat
          /\ ConfirmedTimes(d, op)' = ConfirmedTimes(d, op) + IF op = intent[a] THEN 1 ELSE 0
      <4>1. Times(op, confirmed[a]) \in Nat
        BY <3>2, TimesType
      <4>2. confirmed'[d] = Append(confirmed[a], intent[a]) /\ confirmed[d] = confirmed[a]
        BY <2>3, <3>1
      <4> QED BY <3>3, <4>1, <4>2 DEF ConfirmedTimes
    <3>5. /\ Standing(d, op)' <=> op <= receipts[a]
          /\ Standing(d, op) <=> op <= receipts[a] \/ op = intent[a]
      BY <2>3, <3>1 DEF Standing
    <3>6. op = intent[a] => ~(op <= receipts[a])
      BY <3>2
    <3> QED BY <3>4, <3>5, <3>6 DEF Allowed
  <2> QED BY <2>1, <2>2, <2>3
<1>4. \A d \in Days, op \in Nat \ {None} : ~AboutToWrite(d, op)'
  BY <1>1 DEF AboutToWrite
<1> QED BY <1>1, <1>3, <1>4, QuietTries

\* The write of the active run is made, is lost or stays on its way: one try.
LEMMA WriteTries ==
  ASSUME FilesFit, FilesFit', TracesFit, TriesFit, WriteReturns \/ WriteRaises
  PROVE  TriesFit'
<1>1. /\ active \in Days /\ intent[active] # None /\ pc = "writing" /\ pc' # "writing"
      /\ intent[active] \in Nat /\ document[active] \in Nat /\ OfDay(document[active], active)
      /\ UNCHANGED <<active, receipts, intent, confirmed>>
  <2>1. /\ active \in Days /\ intent[active] # None /\ pc = "writing" /\ pc' # "writing"
        /\ UNCHANGED <<active, receipts, intent, confirmed>>
    BY DaysAreNumbers DEF WriteReturns, WriteRaises, FilesFit, TypeOK, StepsFit, state, journal
  <2> QED BY <2>1 DEF FilesFit, TypeOK, JournalOK, TracesFit, WritesFit
<1>. PICK a \in Days, i \in Nat \ {None}, to \in Nat : a = active /\ i = intent[a] /\ to = document[a]
  BY <1>1
<1>2. Numbers /\ IsFiniteSet(inflight)
  BY CountsAreNumbers DEF TriesFit
<1>3. \A d \in Days, op \in Nat \ {None} : Allowed(d, op)' = Allowed(d, op)
  BY <1>1, BudgetKept
<1>4. ASSUME NEW d \in Days, NEW op \in Nat \ {None}
      PROVE  /\ Spent(d, op) = Cardinality(Flying(d, op)) + (IF d = a /\ op = i THEN 1 ELSE 0)
             /\ Spent(d, op)' = Cardinality(Flying(d, op)')
             /\ Cardinality(Flying(d, op)) \in Nat /\ Allowed(d, op) \in Nat
             /\ inflight' = inflight => Flying(d, op)' = Flying(d, op)
  <2>1. AboutToWrite(d, op) <=> d = a /\ op = i
    BY <1>1 DEF AboutToWrite
  <2>2. ~AboutToWrite(d, op)'
    BY <1>1 DEF AboutToWrite
  <2>3. IsFiniteSet(inflight')
    BY <1>1, <1>2, FS_AddElement DEF WriteReturns, WriteRaises
  <2>4. Cardinality(Flying(d, op)') \in Nat
    BY <2>3, FS_Subset, FS_CardinalityType DEF Flying
  <2>5. Spent(d, op)' = Cardinality(Flying(d, op)')
    BY <2>2, <2>4 DEF Spent
  <2> QED BY <1>2, <2>1, <2>5 DEF Spent, Flying, Numbers
<1>5. CASE Apply(intent[active], active, document[active]) /\ UNCHANGED inflight
  <2>1. Apply(i, a, to) /\ OfDay(to, a) /\ IsFiniteSet(inflight)'
    BY <1>1, <1>2, <1>5
  <2>2. ASSUME NEW d \in Days, NEW op \in Nat \ {None}
        PROVE  Spent(d, op)' + (IF d = a /\ op = i THEN 1 ELSE 0) <= Spent(d, op)
    <3>1. /\ Spent(d, op)' = Cardinality(Flying(d, op)) /\ Cardinality(Flying(d, op)) \in Nat
          /\ Spent(d, op) = Cardinality(Flying(d, op)) + (IF d = a /\ op = i THEN 1 ELSE 0)
      BY <1>4, <1>5
    <3> QED BY <3>1
  <2> QED BY <1>3, <2>1, <2>2, ApplyTries
<1>6. CASE UNCHANGED <<titles, body, inflight>>
  <2>1. \A d \in Days, op \in Nat \ {None} : ~AboutToWrite(d, op)'
    BY <1>1 DEF AboutToWrite
  <2> QED BY <1>3, <1>6, <2>1, QuietTries
<1>7. ASSUME NEW w, w.op = i, w.day = a, inflight' = inflight \cup {w}, UNCHANGED <<titles, body>>
      PROVE  TriesFit'
  <2>1. IsFiniteSet(inflight)'
    BY <1>2, <1>7, FS_AddElement
  <2>2. ASSUME NEW d \in Days, NEW op \in Nat \ {None} PROVE Spent(d, op)' <= Spent(d, op)
    <3>1. IsFiniteSet(Flying(d, op)) /\ Cardinality(Flying(d, op)) \in Nat
      BY <1>2 DEF Numbers
    <3>2. CASE d = a /\ op = i
      <4>1. Flying(d, op)' = Flying(d, op) \cup {w}
        BY <1>7, <3>2 DEF Flying
      <4>2. Cardinality(Flying(d, op) \cup {w}) <= Cardinality(Flying(d, op)) + 1
        <5>1. Cardinality(Flying(d, op) \cup {w})
                = IF w \in Flying(d, op) THEN Cardinality(Flying(d, op)) ELSE Cardinality(Flying(d, op)) + 1
          BY <3>1, FS_AddElement
        <5> QED BY <3>1, <5>1
      <4> QED BY <1>4, <3>2, <4>1, <4>2
    <3>3. CASE ~(d = a /\ op = i)
      <4>1. Flying(d, op)' = Flying(d, op)
        BY <1>7, <3>3 DEF Flying
      <4> QED BY <1>4, <3>1, <3>3, <4>1
    <3> QED BY <3>2, <3>3
  <2>3. \A d \in Days, op \in Nat \ {None} : Allowed(d, op) <= Allowed(d, op)'
    BY <1>3, <1>4
  <2>4. \A doc \in 1 .. Len(titles), op \in Nat : Times(op, body[doc])' <= Times(op, body[doc])
    <3>1. \A doc \in 1 .. Len(titles), op \in Nat : Times(op, body[doc]) \in Nat
      BY <1>2 DEF Numbers
    <3>2. \A doc \in 1 .. Len(titles), op \in Nat : Times(op, body[doc])' = Times(op, body[doc])
      BY <1>7 DEF Times
    <3>3. \A m, k \in Nat : m = k => m <= k
      OBVIOUS
    <3> QED BY <3>1, <3>2, <3>3
  <2> QED BY <1>7, <2>1, <2>2, <2>3, <2>4, TriesStay
<1>8. CASE WriteReturns
  BY <1>5, <1>8 DEF WriteReturns
<1>9. CASE WriteRaises
  <2>1. ASSUME inflight' = inflight \cup {[op |-> intent[active], day |-> active, doc |-> document[active],
                                           try |-> Len(confirmed[active])]},
               UNCHANGED <<titles, body>>
        PROVE  TriesFit'
    <3>. PICK w : w = [op |-> intent[active], day |-> active, doc |-> document[active], try |-> Len(confirmed[active])]
      OBVIOUS
    <3>1. w.op = i /\ w.day = a /\ inflight' = inflight \cup {w}
      BY <2>1
    <3> QED BY <1>7, <2>1, <3>1
  <2> QED BY <1>5, <1>6, <1>9, <2>1 DEF WriteRaises
<1> QED BY <1>8, <1>9

\* A late write arrives: it is no longer on its way.
LEMMA LandTries ==
  ASSUME FilesFit, FilesFit', TracesFit, TriesFit, NEW w \in inflight, Land(w)
  PROVE  TriesFit'
<1>1. /\ w.day \in Days /\ w.op \in Nat \ {None} /\ w.doc \in Nat
      /\ Apply(w.op, w.day, w.doc) /\ OfDay(w.doc, w.day)
      /\ inflight' = inflight \ {w}
      /\ UNCHANGED <<active, receipts, intent, confirmed, pc>>
  BY DEF Land, FilesFit, TypeOK, LarkOK, TracesFit, WritesFit, Issued, Operations, None, state, journal, memory
<1>2. Numbers /\ IsFiniteSet(inflight)
  BY CountsAreNumbers DEF TriesFit
<1>3. \A d \in Days, op \in Nat \ {None} : Allowed(d, op)' = Allowed(d, op)
  BY <1>1, BudgetKept
<1>4. IsFiniteSet(inflight)'
  BY <1>1, <1>2, FS_RemoveElement
<1>5. ASSUME NEW d \in Days, NEW op \in Nat \ {None}
      PROVE  Spent(d, op)' + (IF d = w.day /\ op = w.op THEN 1 ELSE 0) <= Spent(d, op)
  <2>1. IsFiniteSet(Flying(d, op)) /\ Cardinality(Flying(d, op)) \in Nat
    BY <1>2 DEF Numbers
  <2>2. AboutToWrite(d, op)' <=> AboutToWrite(d, op)
    BY <1>1 DEF AboutToWrite
  <2>3. CASE d = w.day /\ op = w.op
    <3>1. Flying(d, op)' = Flying(d, op) \ {w} /\ w \in Flying(d, op)
      BY <1>1, <2>3 DEF Flying
    <3>2. Cardinality(Flying(d, op) \ {w}) = Cardinality(Flying(d, op)) - 1
      BY <2>1, <3>1, FS_RemoveElement
    <3> QED BY <2>1, <2>2, <2>3, <3>1, <3>2 DEF Spent
  <2>4. CASE ~(d = w.day /\ op = w.op)
    <3>1. Flying(d, op)' = Flying(d, op)
      BY <1>1, <2>4 DEF Flying
    <3> QED BY <2>1, <2>2, <2>4, <3>1 DEF Spent
  <2> QED BY <2>3, <2>4
<1>. PICK d \in Days, op \in Nat \ {None}, to \in Nat : d = w.day /\ op = w.op /\ to = w.doc
  BY <1>1
<1>6. Apply(op, d, to) /\ OfDay(to, d)
  BY <1>1
<1> QED BY <1>3, <1>4, <1>5, <1>6, ApplyTries

\* A reader's deletion shows no block more often.
LEMMA EditTries ==
  ASSUME FilesFit, FilesFit', TriesFit, NEW doc \in DOMAIN body, NEW n \in DOMAIN body[doc], Edit(doc, n)
  PROVE  TriesFit'
<1>1. /\ doc \in 1 .. Len(titles) /\ body[doc] \in Seq(Nat) /\ n \in 1 .. Len(body[doc])
      /\ DOMAIN body = 1 .. Len(titles)
  <2>1. DOMAIN body = 1 .. Len(titles) /\ body[doc] \in Seq(Nat)
    BY LenProperties, ElementOfSeq DEF FilesFit, TypeOK, LarkOK
  <2> QED BY <2>1, LenProperties
<1> DEFINE t == SubSeq(body[doc], 1, n - 1) \o SubSeq(body[doc], n + 1, Len(body[doc]))
<1>2. /\ body' = [body EXCEPT ![doc] = t]
      /\ UNCHANGED <<titles, inflight, active, receipts, intent, confirmed, pc>>
  BY DEF Edit, state, journal, memory
<1>3. \A op : Times(op, t) <= Times(op, body[doc])
  BY <1>1, TimesDelete
<1> HIDE DEF t
<1>4. Numbers /\ IsFiniteSet(inflight)'
  BY <1>2, CountsAreNumbers DEF TriesFit
<1>5. ASSUME NEW d \in Days, NEW op \in Nat \ {None}
      PROVE  Spent(d, op)' <= Spent(d, op) /\ Allowed(d, op) <= Allowed(d, op)'
  <2>1. AboutToWrite(d, op)' <=> AboutToWrite(d, op)
    BY <1>2 DEF AboutToWrite
  <2>2. Spent(d, op)' = Spent(d, op) /\ Allowed(d, op)' = Allowed(d, op)
    BY <1>2, <2>1, BudgetKept
  <2>3. Spent(d, op) \in Nat /\ Allowed(d, op) \in Nat
    BY <1>4 DEF Numbers
  <2> QED BY <2>2, <2>3
<1>6. ASSUME NEW e \in 1 .. Len(titles), NEW op \in Nat PROVE Times(op, body[e])' <= Times(op, body[e])
  <2>1. Times(op, body[e]) \in Nat
    BY <1>4 DEF Numbers
  <2>2. Times(op, body[e])' = Times(op, body'[e])
    BY DEF Times
  <2>3. CASE e = doc
    <3>1. body'[e] = t
      BY <1>1, <1>2, <2>3
    <3> QED BY <1>3, <2>2, <2>3, <3>1
  <2>4. CASE e # doc
    <3>1. body'[e] = body[e]
      BY <1>1, <1>2, <2>4
    <3> QED BY <2>1, <2>2, <3>1
  <2> QED BY <2>3, <2>4
<1> QED BY <1>2, <1>4, <1>5, <1>6, TriesStay

\* Together: no step shows more than its tries allow.
LEMMA TriesFitStep ==
  ASSUME FilesFit, TracesFit, TriesFit, [Next]_vars
  PROVE  TriesFit'
<1>1. FilesFit'
  BY FilesFitStep
<1>2. CASE \/ UNCHANGED vars \/ (Environment /\ UNCHANGED lark)
           \/ NothingNew \/ Activate \/ ReadBack \/ Resettle \/ Settle \/ Crash
           \/ \E bad \in SUBSET Reports : Prepare(bad)
           \/ Research \/ AcceptItem \/ RejectItem \/ StartPublishing \/ NothingToPublish \/ SaveReadBack
  <2>1. /\ UNCHANGED <<titles, body, inflight, receipts, intent, confirmed>>
        /\ pc' = "writing" => pc = "writing" /\ active' = active
    BY <1>2 DEF vars, Environment, Evening, Midnight, Ingest, Land, Edit, NothingNew, Due, Activate, ReadBack, Resettle,
       Settle, Crash, Prepare, Research, AcceptItem, RejectItem, StartPublishing, NothingToPublish, SaveReadBack,
       Advances, state, lark, journal, memory
  <2>2. \A d \in Days, op \in Nat \ {None} :
          Allowed(d, op)' = Allowed(d, op) /\ (AboutToWrite(d, op)' => AboutToWrite(d, op))
    BY <2>1, BudgetKept DEF AboutToWrite
  <2> QED BY <1>1, <2>1, <2>2, QuietTries
<1>3. CASE Environment
  <2>1. UNCHANGED lark \/ (\E w \in inflight : Land(w)) \/ \E doc \in DOMAIN body : \E n \in DOMAIN body[doc] : Edit(doc, n)
    BY <1>3 DEF Environment, Evening, Midnight, Ingest
  <2> QED BY <1>1, <1>2, <1>3, <2>1, LandTries, EditTries
<1>4. CASE Operator \/ RecordReceipt
  BY <1>1, <1>4, ReceiptTries DEF Operator
<1>5. CASE Intend \/ WriteReturns \/ WriteRaises \/ \E chosen \in SUBSET Reports : StartRun(chosen)
  BY <1>1, <1>5, IntendTries, WriteTries, StartTries
<1> QED BY <1>2, <1>3, <1>4, <1>5 DEF Next, Step

\* What the documents show is always paid for by tries.
THEOREM TriesHold == Spec => []Tried
<1>1. Init => TriesFit
  <2> SUFFICES ASSUME Init PROVE TriesFit
    OBVIOUS
  <2>1. /\ titles = <<>> /\ Len(titles) = 0 /\ inflight = {} /\ pc = "idle"
        /\ \A d \in Days : confirmed[d] = <<>> /\ receipts[d] = 0 /\ intent[d] = None
    BY DEF Init
  <2>2. IsFiniteSet(inflight) /\ Cardinality({}) = 0
    BY <2>1, FS_EmptySet
  <2>3. \A d \in Days, op \in Nat \ {None} : Spent(d, op) = 0 /\ Allowed(d, op) = 0
    <3> TAKE d \in Days, op \in Nat \ {None}
    <3>1. Flying(d, op) = {} /\ ~AboutToWrite(d, op) /\ ~Standing(d, op)
      BY <2>1 DEF Flying, AboutToWrite, Standing, None
    <3>2. ConfirmedTimes(d, op) = 0
      BY <2>1, TimesStart DEF ConfirmedTimes
    <3> QED BY <2>2, <3>1, <3>2 DEF Spent, Allowed
  <2>4. \A d \in Days : Times(d, titles) = 0
    BY <2>1, TimesStart
  <2>5. Create \in Nat \ {None}
    BY DEF Create, None
  <2>6. \A doc \in 1 .. Len(titles) : FALSE
    BY <2>1
  <2> QED BY <2>2, <2>3, <2>4, <2>5, <2>6 DEF TriesFit
<1>2. Shown /\ TriesFit /\ [Next]_vars => TriesFit'
  BY TriesFitStep DEF Shown
<1> QED BY <1>1, <1>2, TracesHold, PTL DEF Spec, Tried

\* A write reaches a document at most once, plus once for each time an
\* operator has declared it not applied, and a day has at most one document
\* plus one for each such word about its creation (daily_digest.py,
\* persisted intents and reconcile).
THEOREM WritesOnce == Spec => []AppliedOnce
<1>1. Tried => AppliedOnce
  <2> SUFFICES ASSUME Tried PROVE AppliedOnce
    OBVIOUS
  <2>1. Numbers
    BY CountsAreNumbers DEF Tried, Shown, TriesFit
  <2>2. ASSUME NEW d \in Days, NEW op \in Nat \ {None}, NEW t \in Nat, t + Spent(d, op) <= Allowed(d, op)
        PROVE  t <= 1 + ConfirmedTimes(d, op)
    <3>1. ConfirmedTimes(d, op) \in Nat
      BY TimesType DEF ConfirmedTimes, Tried, Shown, FilesFit, TypeOK, JournalOK
    <3>2. Allowed(d, op) <= 1 + ConfirmedTimes(d, op)
      BY <3>1 DEF Allowed
    <3>3. Spent(d, op) \in Nat /\ Allowed(d, op) \in Nat
      BY <2>1 DEF Numbers
    <3> QED BY <2>2, <3>1, <3>2, <3>3
  <2>3. ASSUME NEW d \in Days PROVE Times(d, titles) <= 1 + ConfirmedTimes(d, Create)
    <3>1. Create \in Nat \ {None} /\ Times(d, titles) \in Nat
      BY <2>1 DEF Create, None, Numbers
    <3>2. Times(d, titles) + Spent(d, Create) <= Allowed(d, Create)
      BY DEF Tried, TriesFit
    <3> QED BY <2>2, <3>1, <3>2
  <2>4. ASSUME NEW doc \in DOMAIN body, NEW n \in DOMAIN body[doc]
        PROVE  Times(body[doc][n], body[doc]) <= 1 + ConfirmedTimes(titles[doc], body[doc][n])
    <3>1. doc \in 1 .. Len(titles) /\ titles[doc] \in Days /\ body[doc] \in Seq(Nat)
      BY LenProperties, ElementOfSeq DEF Tried, Shown, FilesFit, TypeOK, LarkOK
    <3>2. n \in 1 .. Len(body[doc])
      BY <3>1, LenProperties
    <3>. PICK d \in Days, op \in Nat : d = titles[doc] /\ op = body[doc][n]
      BY <3>1, <3>2, ElementOfSeq
    <3>3. op # None
      <4>1. Issued(titles[doc], body[doc][n])
        BY <3>1, <3>2 DEF Tried, Shown, TracesFit, BlocksFit
      <4> QED BY <4>1 DEF Issued, Operations, None
    <3>4. Times(op, body[doc]) \in Nat
      BY <2>1, <3>1 DEF Numbers
    <3>5. CASE op = Create
      <4>1. Times(op, body[doc]) <= 1
        BY <3>1, <3>5 DEF Tried, TriesFit
      <4>2. ConfirmedTimes(d, op) \in Nat
        BY TimesType DEF ConfirmedTimes, Tried, Shown, FilesFit, TypeOK, JournalOK
      <4> QED BY <3>4, <4>1, <4>2
    <3>6. CASE op # Create
      <4>1. Times(op, body[doc]) + Spent(d, op) <= Allowed(d, op)
        BY <3>1, <3>3, <3>6 DEF Tried, TriesFit
      <4> QED BY <2>2, <3>3, <3>4, <4>1
    <3> QED BY <3>5, <3>6
  <2> QED BY <2>3, <2>4 DEF AppliedOnce
<1> QED BY <1>1, TriesHold, PTL
=============================================================================
