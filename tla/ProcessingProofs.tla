-------------------------- MODULE ProcessingProofs --------------------------
(***************************************************************************)
(* Proofs about Processing for any documents, PDFs, names, quota, workers, *)
(* library, vault and faults: type correctness, that no answer is paid for *)
(* twice, that a batch that reports success has published all of it, and   *)
(* when a summary is made of the text of its own report.                   *)
(***************************************************************************)
EXTENDS Processing, FiniteSetTheorems, FunctionTheorems, SequenceTheorems,
        WellFoundedInduction, TLAPS

StrictOrder(R, S) ==
  /\ \A x \in S : <<x, x>> \notin R
  /\ \A x, y, z \in S : <<x, y>> \in R /\ <<y, z>> \in R => <<x, z>> \in R
  /\ \A x, y \in S : x # y => <<x, y>> \in R \/ <<y, x>> \in R

Increasing(list, R) == \A i, j \in DOMAIN list : i < j => <<list[i], list[j]>> \in R

\* A finite set can be listed in any strict total order, each element at its rank.
LEMMA OrderedListExists ==
  ASSUME NEW S, IsFiniteSet(S), NEW R, StrictOrder(R, S)
  PROVE  \E list \in [1 .. Cardinality(S) -> S] : Increasing(list, R)
<1> DEFINE n == Cardinality(S)
           Below(x) == {y \in S : <<y, x>> \in R}
           rank == [x \in S |-> Cardinality(Below(x)) + 1]
           list == [i \in 1 .. n |-> CHOOSE x \in S : rank[x] = i]
<1>1. n \in Nat /\ IsFiniteSet(1 .. n) /\ Cardinality(1 .. n) = n
  <2>1. n \in Nat
    BY FS_CardinalityType
  <2> HIDE DEF n
  <2> QED BY <2>1, FS_Interval
<1>2. \A x \in S : rank[x] = Cardinality(Below(x)) + 1
  OBVIOUS
<1>3. ASSUME NEW x \in S PROVE IsFiniteSet(Below(x)) /\ Cardinality(Below(x)) \in Nat
  BY <1>3, FS_Subset, FS_CardinalityType
<1>4. ASSUME NEW x \in S PROVE rank[x] \in 1 .. n
  <2>1. IsFiniteSet(S \ {x}) /\ Cardinality(S \ {x}) = n - 1
    BY FS_RemoveElement
  <2>2. Below(x) \in SUBSET (S \ {x})
    BY DEF StrictOrder
  <2>3. n \in Nat /\ Cardinality(Below(x)) \in Nat /\ rank[x] = Cardinality(Below(x)) + 1
    BY <1>1, <1>2, <1>3
  <2> HIDE DEF n, Below, rank
  <2>4. Cardinality(Below(x)) <= n - 1
    BY <2>1, <2>2, FS_Subset
  <2> QED BY <2>3, <2>4
<1>5. ASSUME NEW x \in S, NEW y \in S, <<x, y>> \in R PROVE rank[x] < rank[y]
  <2>1. Below(x) \in SUBSET Below(y) /\ x \in Below(y) /\ x \notin Below(x)
    BY <1>5 DEF StrictOrder
  <2>2. Cardinality(Below(x)) <= Cardinality(Below(y)) /\ Cardinality(Below(x)) # Cardinality(Below(y))
    BY <1>3, <2>1, FS_Subset
  <2> QED BY <1>2, <1>3, <2>2
<1> HIDE DEF n, Below
<1>6. rank \in [S -> 1 .. n]
  BY <1>4
<1> HIDE DEF rank
<1>7. \A x, y \in S : rank[x] = rank[y] => x = y
  <2> SUFFICES ASSUME NEW x \in S, NEW y \in S, x # y PROVE rank[x] # rank[y]
    OBVIOUS
  <2>1. rank[x] \in Int /\ rank[y] \in Int
    BY <1>4, <1>1
  <2>2. rank[x] < rank[y] \/ rank[y] < rank[x]
    BY <1>5 DEF StrictOrder
  <2> QED BY <2>1, <2>2
<1>8. \A i \in 1 .. n : \E x \in S : rank[x] = i
  <2>1. rank \in Injection(S, 1 .. n)
    BY <1>6, <1>7, Fun_IsInj
  <2>2. rank \in Surjection(S, 1 .. n)
    BY <1>1, <2>1, FS_Injection DEF n
  <2> QED BY <2>2, Fun_SurjectionProperties
<1>9. \A i \in 1 .. n : list[i] \in S /\ rank[list[i]] = i
  BY <1>8
<1>10. list \in [1 .. n -> S] /\ DOMAIN list = 1 .. n
  BY <1>9
<1> HIDE DEF list
<1>11. ASSUME NEW i \in 1 .. n, NEW j \in 1 .. n, i < j PROVE <<list[i], list[j]>> \in R
  <2>1. list[i] # list[j]
    BY <1>9, <1>11
  <2>2. <<list[j], list[i]>> \in R => rank[list[j]] < rank[list[i]]
    BY <1>5, <1>9
  <2>3. <<list[j], list[i]>> \notin R
    BY <1>9, <1>11, <2>2
  <2> QED BY <1>9, <2>1, <2>3 DEF StrictOrder
<1>12. Increasing(list, R)
  BY <1>10, <1>11 DEF Increasing
<1> QED BY <1>10, <1>12 DEF n

\* The list of a tick is a sequence of documents that are due.
LEMMA ListedAreDue ==
  Listed \in Seq(Documents) /\ \A d \in In(Listed) : d \in Documents /\ IsDue(d)
<1> DEFINE S == {d \in Documents : IsDue(d)}
           R == {pair \in Documents \X Documents : Before(pair[1], pair[2])}
           due == InOrder(S)
           most == Min({Quota, Len(due)})
<1>1. S \subseteq Documents /\ IsFiniteSet(S) /\ Documents \subseteq Nat
  BY ProcessingAssumption, FS_Subset
<1>2. \A d, e \in Documents : <<d, e>> \in R <=> Before(d, e)
  OBVIOUS
<1>3. \A d \in Documents : Rank(d) \in {0, 1, 2}
  BY DEF Rank
<1>4. \A d \in S : <<d, d>> \notin R
  BY <1>1, <1>2, <1>3 DEF Before
<1>5. \A c, d, e \in S : <<c, d>> \in R /\ <<d, e>> \in R => <<c, e>> \in R
  <2> SUFFICES ASSUME NEW c \in S, NEW d \in S, NEW e \in S, Before(c, d), Before(d, e)
               PROVE  Before(c, e)
    BY <1>1, <1>2
  <2>1. {c, d, e} \subseteq Nat /\ {Rank(c), Rank(d), Rank(e)} \subseteq Nat
    BY <1>1, <1>3
  <2> QED BY <2>1 DEF Before
<1>6. \A d, e \in S : d # e => <<d, e>> \in R \/ <<e, d>> \in R
  <2> SUFFICES ASSUME NEW d \in S, NEW e \in S, d # e PROVE Before(d, e) \/ Before(e, d)
    BY <1>1, <1>2
  <2>1. {d, e} \subseteq Nat /\ {Rank(d), Rank(e)} \subseteq Nat
    BY <1>1, <1>3
  <2> QED BY <2>1 DEF Before
<1>7. \E list \in [1 .. Cardinality(S) -> S] : Increasing(list, R)
  <2>1. StrictOrder(R, S)
    BY <1>4, <1>5, <1>6 DEF StrictOrder
  <2> HIDE DEF S, R
  <2> QED BY <1>1, <2>1, OrderedListExists
<1> HIDE DEF S, R
<1>8. \E list \in [1 .. Cardinality(S) -> S] :
        \A i, j \in DOMAIN list : i < j => Before(list[i], list[j])
  BY <1>1, <1>2, <1>7 DEF Increasing
<1>9. due \in [1 .. Cardinality(S) -> S] /\ Cardinality(S) \in Nat
  BY <1>1, <1>8, FS_CardinalityType DEF InOrder
<1> HIDE DEF due
<1>10. due \in Seq(S) /\ Len(due) = Cardinality(S)
  BY <1>9
<1>11. most \in 0 .. Len(due)
  <2>1. Quota \in Nat /\ Len(due) \in Nat
    BY <1>9, <1>10, ProcessingAssumption
  <2>2. \E x \in {Quota, Len(due)} : \A y \in {Quota, Len(due)} : x =< y
    BY <2>1
  <2>3. most \in {Quota, Len(due)} /\ \A y \in {Quota, Len(due)} : most =< y
    BY <2>2 DEF Min
  <2> QED BY <2>1, <2>3
<1> HIDE DEF most
<1>12. Listed = SubSeq(due, 1, most)
  BY DEF Listed, due, most, S
<1>13. Listed \in Seq(S)
  BY <1>10, <1>11, <1>12, SubSeqProperties
<1>14. \A i \in DOMAIN Listed : Listed[i] \in S
  BY <1>13, ElementOfSeq
<1> QED BY <1>1, <1>13, <1>14 DEF In, S

-----------------------------------------------------------------------------
(* Type correctness.                                                       *)

\* The parts of the type invariant that a step does not touch.
LEMMA TypesKept ==
  /\ RowsOK /\ UNCHANGED rows => RowsOK'
  /\ FilesOK /\ UNCHANGED <<files, delivered>> => FilesOK'
  /\ BatchOK /\ UNCHANGED <<loop, batch, mine, last>> => BatchOK'
  /\ MemoryOK /\ UNCHANGED memory => MemoryOK'
  /\ CountsOK /\ UNCHANGED <<faults, history>> => CountsOK'
<1>1. RowsOK /\ UNCHANGED rows => RowsOK'
  BY DEF RowsOK, rows
<1>2. FilesOK /\ UNCHANGED <<files, delivered>> => FilesOK'
  BY DEF FilesOK, files
<1>3. BatchOK /\ UNCHANGED <<loop, batch, mine, last>> => BatchOK'
  BY DEF BatchOK, loop
<1>4. MemoryOK /\ UNCHANGED memory => MemoryOK'
  BY DEF MemoryOK, memory
<1>5. CountsOK /\ UNCHANGED <<faults, history>> => CountsOK'
  BY DEF CountsOK, history
<1> QED BY <1>1, <1>2, <1>3, <1>4, <1>5

\* Every document has a PDF; a text is that of some PDF.
LEMMA Texts ==
  /\ \A d \in Documents : Pdf[d] \in PDFs /\ Named[d] \in Names
  /\ Nothing \notin PDFs
  /\ FilesOK => \A d \in Documents : TextAt(d) \in PDFs \union {Nothing}
<1>1. \A d \in Documents : Pdf[d] \in PDFs /\ Named[d] \in Names
  BY DEF PDFs, Names
<1> QED BY <1>1, ProcessingAssumption DEF FilesOK, TextAt

\* A loop is at one of the documents of the batch, and can go on.
LEMMA LoopStands ==
  ASSUME BatchOK
  PROVE  /\ In(batch) \subseteq Documents
         /\ \A p : InLoop(p) => /\ at \in DOMAIN batch /\ Here \in Documents /\ Here \in In(batch)
                                /\ at + 1 \in 1 .. Len(batch) + 1
         /\ 1 \in 1 .. Len(batch) + 1
         /\ DOMAIN batch = 1 .. Len(batch) /\ Len(batch) \in Nat
<1>1. DOMAIN batch = 1 .. Len(batch) /\ Len(batch) \in Nat /\ \A i \in DOMAIN batch : batch[i] \in Documents
  BY LenProperties, ElementOfSeq DEF BatchOK
<1>2. ASSUME NEW p, InLoop(p)
      PROVE  /\ at \in DOMAIN batch /\ Here \in Documents /\ Here \in In(batch)
             /\ at + 1 \in 1 .. Len(batch) + 1
  BY <1>1, <1>2 DEF InLoop, Here, In, BatchOK
<1> QED BY <1>1, <1>2 DEF In

\* Moving rows keeps their type.
LEMMA MoveType ==
  ASSUME NEW row \in [Documents -> RowState], NEW S, NEW state \in RowState
  PROVE  Move(row, S, state) \in [Documents -> RowState]
BY DEF Move

\* A fault is counted.
LEMMA FaultType ==
  CountsOK /\ Fault /\ UNCHANGED paid /\ lost' \in SUBSET PDFs /\ damaged' \in SUBSET PDFs => CountsOK'
BY ProcessingAssumption DEF CountsOK, Fault

\* A batch that is over is forgotten.
LEMMA ForgetType ==
  ASSUME Forget
  PROVE  /\ MemoryOK'
         /\ last' \in [files : SUBSET Documents, status : Statuses] => BatchOK'
<1>1. MemoryOK'
  BY DEF Forget, MemoryOK, Outcomes
<1>2. <<>> \in Seq(Documents) /\ Len(<<>>) = 0
  OBVIOUS
<1>3. ASSUME last' \in [files : SUBSET Documents, status : Statuses] PROVE BatchOK'
  BY <1>2, <1>3 DEF Forget, Goto, BatchOK, Phases
<1> QED BY <1>1, <1>3

\* The start of a batch keeps the types.
LEMMA ListTypes ==
  ASSUME TypeOK, RejectBatch \/ StartBatch
  PROVE  TypeOK'
<1> USE DEF TypeOK
<1>0. Listed \in Seq(Documents) /\ In(Listed) \subseteq Documents
  BY ListedAreDue
<1>1. CASE RejectBatch
  <2>1. last' \in [files : SUBSET Documents, status : Statuses]
    BY <1>0, <1>1 DEF RejectBatch, Statuses
  <2>2. UNCHANGED <<rows, files, delivered, phase, at, batch, mine, memory, faults, history>>
    BY <1>1 DEF RejectBatch, loop
  <2>3. BatchOK'
    BY <2>1, <2>2 DEF BatchOK
  <2> QED BY <2>2, <2>3, TypesKept
<1>2. CASE StartBatch
  <2> DEFINE claims == {d \in In(Listed) : Claimable(d)}
  <2>1. /\ extract' = Move(extract, claims, "running") /\ mine' = {"extract"} \X claims
        /\ phase' = IF claims = {} THEN "summary" ELSE "extract"
        /\ batch' = Listed /\ at' = 1 /\ UNCHANGED <<summary, publish, last>>
    BY <1>2 DEF StartBatch
  <2>2. UNCHANGED <<files, delivered, faults, history>>
    BY <1>2 DEF StartBatch
  <2>3. /\ seen' = [d \in Documents |-> IF d \in In(Listed) /\ Rehydrated(d) THEN TextAt(d) ELSE Nothing]
        /\ UNCHANGED <<outcome, ready, failed, refused>>
    BY <1>2 DEF StartBatch
  <2>4. RowsOK'
    <3>1. extract' \in [Documents -> RowState]
      BY <2>1, MoveType DEF RowsOK, RowState
    <3> QED BY <2>1, <3>1 DEF RowsOK
  <2>5. MemoryOK'
    BY <2>3, Texts DEF MemoryOK
  <2>6. BatchOK'
    <3>1. Len(Listed) \in Nat
      BY <1>0, LenProperties
    <3>2. mine' \subseteq Stages \X Documents
      BY <1>0, <2>1 DEF Stages
    <3>3. phase' \in Phases
      BY <2>1 DEF Phases
    <3> QED BY <1>0, <2>1, <3>1, <3>2, <3>3 DEF BatchOK
  <2> QED BY <2>2, <2>4, <2>5, <2>6, TypesKept
<1> QED BY <1>1, <1>2

\* The loops and their ends keep the type of the batch.
LEMMA LoopTypes ==
  ASSUME BatchOK, UNCHANGED <<batch, last>>, mine' \subseteq mine \union (Stages \X Documents),
         \/ \E p \in Phases : Goto(p)
         \/ Step /\ (\E p \in Phases : InLoop(p))
         \/ UNCHANGED loop
  PROVE  BatchOK'
<1>1. mine' \subseteq Stages \X Documents
  BY DEF BatchOK
<1>2. CASE \E p \in Phases : Goto(p)
  BY <1>1, <1>2, LoopStands DEF Goto, BatchOK
<1>3. CASE Step /\ (\E p \in Phases : InLoop(p))
  BY <1>1, <1>3, LoopStands DEF Step, BatchOK
<1>4. CASE UNCHANGED loop
  BY <1>1, <1>4 DEF loop, BatchOK
<1> QED BY <1>2, <1>3, <1>4

\* The extractor keeps the types.
LEMMA ExtractTypes ==
  ASSUME TypeOK, ExtractFile \/ SkipFile \/ FinishExtract \/ ExtractorDies
  PROVE  TypeOK'
<1> USE DEF TypeOK
<1>1. CASE ExtractFile
  <2>1. PICK d \in Documents : ExtractCached(d) \/ ExtractNew(d) \/ ExtractNoText(d) \/ ExtractBreaks(d)
    BY <1>1 DEF ExtractFile
  <2>2. InLoop("extract") /\ Step
    BY <1>1, <2>1 DEF ExtractFile, ExtractCached, ExtractNew, ExtractNoText, ExtractBreaks, Extracting
  <2>3. UNCHANGED <<rows, artifact, entry, recorded, delivered, batch, mine, seen, ready, failed,
                    refused, last, paid, lost, damaged>>
    BY <1>1 DEF ExtractFile, history
  <2>4. BatchOK'
    BY <2>2, <2>3, LoopTypes DEF Phases
  <2>5. MemoryOK'
    BY <2>1, <2>3 DEF MemoryOK, ExtractCached, ExtractNew, ExtractNoText, ExtractBreaks, Returned, Outcomes
  <2>6. FilesOK'
    <3>1. Pdf[d] \in PDFs
      BY Texts
    <3>2. named' = named \/ named' = [named EXCEPT ![Named[d]] = Pdf[d]]
      BY <2>1 DEF ExtractCached, ExtractNew, ExtractNoText, ExtractBreaks
    <3>3. cached' = cached \/ cached' = cached \union {Pdf[d]}
      BY <2>1 DEF ExtractCached, ExtractNew, ExtractNoText, ExtractBreaks
    <3> QED BY <2>3, <3>1, <3>2, <3>3 DEF FilesOK
  <2>7. CountsOK'
    <3>1. Fault \/ UNCHANGED faults
      BY <2>1 DEF ExtractCached, ExtractNew, ExtractNoText, ExtractBreaks
    <3> QED BY <2>3, <3>1, FaultType DEF CountsOK
  <2> QED BY <2>3, <2>4, <2>5, <2>6, <2>7, TypesKept
<1>2. CASE SkipFile
  <2>1. BatchOK'
    BY <1>2, LoopTypes DEF SkipFile, Phases
  <2> QED BY <1>2, <2>1, TypesKept DEF SkipFile
<1>3. ASSUME NEW state \in RowState, FailExtraction(state), UNCHANGED <<summary, publish, ready>>,
             outcome' = [d \in Documents |-> "none"]
      PROVE  RowsOK' /\ MemoryOK' /\ UNCHANGED artifact
  <2>1. extract' \in [Documents -> RowState]
    BY <1>3, MoveType DEF FailExtraction, RowsOK
  <2> QED BY <1>3, <2>1 DEF FailExtraction, RowsOK, MemoryOK, Outcomes
<1>4. CASE FinishExtract
  <2>1. /\ Goto("summary") /\ mine' = {} /\ outcome' = [d \in Documents |-> "none"]
        /\ UNCHANGED <<summary, publish, named, cached, entry, recorded, delivered, batch, ready, last,
                       faults, history>>
    BY <1>4 DEF FinishExtract
  <2>2. BatchOK'
    BY <2>1, LoopTypes DEF Phases
  <2>3. CASE FailExtraction("waiting")
    <3>1. RowsOK' /\ MemoryOK' /\ UNCHANGED artifact
      BY <1>3, <2>1, <2>3 DEF RowState
    <3> QED BY <2>1, <2>2, <3>1, TypesKept DEF files
  <2>4. CASE AcceptExtraction
    <3>1. RowsOK'
      BY <2>1, <2>4 DEF AcceptExtraction, RowsOK, Verdict, RowState
    <3>2. MemoryOK'
      <4>1. \A d \in Documents : Pdf[d] \in PDFs /\ named[Named[d]] \in PDFs \union {Nothing}
        BY Texts DEF FilesOK
      <4>2. \A d \in Documents : TextReturned(d) \in PDFs \union {Nothing}
        BY <4>1 DEF TextReturned
      <4> QED BY <2>1, <2>4, <4>2 DEF AcceptExtraction, MemoryOK, Outcomes
    <3>3. FilesOK'
      BY <2>1, <2>4 DEF AcceptExtraction, FilesOK, Read
    <3> QED BY <2>1, <2>2, <3>1, <3>2, <3>3, TypesKept
  <2> QED BY <1>4, <2>3, <2>4 DEF FinishExtract
<1>5. CASE ExtractorDies
  <2>1. /\ Goto("summary") /\ mine' = {} /\ outcome' = [d \in Documents |-> "none"] /\ Fault
        /\ UNCHANGED <<summary, publish, named, cached, entry, recorded, delivered, batch, ready, last, history>>
    BY <1>5 DEF ExtractorDies
  <2>2. BatchOK'
    BY <2>1, LoopTypes DEF Phases
  <2>3. RowsOK' /\ MemoryOK' /\ UNCHANGED artifact
    BY <1>3, <1>5, <2>1 DEF ExtractorDies, RowState
  <2>4. CountsOK'
    BY <2>1, FaultType DEF CountsOK, history
  <2> QED BY <2>1, <2>2, <2>3, <2>4, TypesKept DEF files
<1> QED BY <1>1, <1>2, <1>4, <1>5

\* The preparation of the summaries keeps the types.
LEMMA SummaryTypes ==
  ASSUME TypeOK, PrepareSummary \/ SkipSummary \/ StartJobs \/ (\E d \in Documents : CorruptEntry(d))
  PROVE  TypeOK'
<1> USE DEF TypeOK
<1>1. CASE PrepareSummary
  <2>1. PICK d \in Documents : UseCached(d) \/ QueueJob(d) \/ NoJob(d)
    BY <1>1 DEF PrepareSummary
  <2>2. InLoop("summary") /\ Step
    BY <1>1, <2>1 DEF PrepareSummary, UseCached, QueueJob, NoJob, Preparing
  <2>3. UNCHANGED <<extract, publish, artifact, named, cached, entry, delivered, batch, seen, refused,
                    last, paid, lost, damaged>>
    BY <1>1 DEF PrepareSummary, history
  <2>4. RowsOK' /\ FilesOK'
    BY <2>1, <2>3 DEF RowsOK, RowState, FilesOK, UseCached, QueueJob, NoJob
  <2>5. MemoryOK'
    BY <2>1, <2>3 DEF MemoryOK, UseCached, QueueJob, NoJob, ProjectSummary, Returned, Outcomes
  <2>6. mine' \subseteq mine \union (Stages \X Documents)
    BY <2>1 DEF UseCached, QueueJob, NoJob, Stages
  <2>7. BatchOK'
    BY <2>2, <2>3, <2>6, LoopTypes DEF Phases
  <2>8. CountsOK'
    <3>1. Fault \/ UNCHANGED faults
      BY <2>1 DEF UseCached, QueueJob, NoJob, ProjectSummary
    <3> QED BY <2>3, <3>1, FaultType DEF CountsOK
  <2> QED BY <2>3, <2>4, <2>5, <2>7, <2>8, TypesKept
<1>2. CASE SkipSummary
  <2>1. BatchOK'
    BY <1>2, LoopTypes DEF SkipSummary, Phases
  <2> QED BY <1>2, <2>1, TypesKept DEF SkipSummary
<1>3. CASE StartJobs
  <2>1. BatchOK'
    BY <1>3, LoopTypes DEF StartJobs, Phases
  <2> QED BY <1>3, <2>1, TypesKept DEF StartJobs
<1>4. ASSUME NEW d \in Documents, CorruptEntry(d) PROVE TypeOK'
  <2>1. /\ Forget /\ last' = [files |-> In(batch), status |-> "failed"]
        /\ UNCHANGED <<extract, publish, files, delivered, faults, history>>
    BY <1>4 DEF CorruptEntry
  <2>2. MemoryOK' /\ BatchOK'
    BY <2>1, LoopStands, ForgetType DEF Statuses
  <2>3. RowsOK'
    BY <1>4, <2>1 DEF CorruptEntry, RowsOK, RowState
  <2> QED BY <2>1, <2>2, <2>3, TypesKept
<1> QED BY <1>1, <1>2, <1>3, <1>4

\* A set of positions of the batch that is not empty has a first one.
LEMMA FirstExists ==
  ASSUME NEW S, S \subseteq Nat, S # {}
  PROVE  Min(S) \in S
<1> DEFINE Less == {p \in Nat \X Nat : p[1] < p[2]}
<1>1. IsWellFoundedOn(Less, Nat)
  BY NatLessThanWellFounded DEF OpToRel, Less
<1>2. PICK x \in S : \A y \in S : <<y, x>> \notin Less
  BY <1>1, WFMin
<1>3. ASSUME NEW y \in S PROVE x =< y
  <2>1. x \in Nat /\ y \in Nat /\ <<y, x>> \notin Less
    BY <1>2
  <2>2. ~(y < x)
    BY <2>1
  <2> QED BY <2>1, <2>2
<1> QED BY <1>3 DEF Min

\* The calls of the model keep the types.
LEMMA CallTypes ==
  ASSUME TypeOK, \/ StartCall \/ JobsDone
                 \/ \E d \in Documents : ReceiveAnswer(d) \/ StoreAnswer(d) \/ StoreFails(d) \/ CallFails(d)
  PROVE  TypeOK'
<1> USE DEF TypeOK
<1>1. CASE StartCall
  <2>1. /\ UNCHANGED <<rows, files, delivered, loop, batch, mine, ready, failed, refused,
                       last, faults, history>>
        /\ LET d == batch[Min(Queued)]
           IN  /\ \E x \in {"calling", "transient"} : outcome' = [outcome EXCEPT ![d] = x]
               /\ seen' = [seen EXCEPT ![d] = TextAt(d)] \/ UNCHANGED seen
    BY <1>1 DEF StartCall
  <2>2. batch[Min(Queued)] \in Documents
    <3>1. Queued \subseteq Nat /\ Queued # {}
      BY <1>1, LoopStands DEF StartCall, Queued
    <3> QED BY <3>1, FirstExists, LoopStands DEF Queued, In
  <2>3. MemoryOK'
    BY <2>1, <2>2, Texts DEF MemoryOK, Outcomes
  <2> QED BY <2>1, <2>3, TypesKept
<1>2. CASE JobsDone
  <2>1. BatchOK'
    BY <1>2, LoopTypes DEF JobsDone, Phases
  <2> QED BY <1>2, <2>1, TypesKept DEF JobsDone
<1>3. ASSUME NEW d \in Documents, ReceiveAnswer(d) \/ StoreAnswer(d) \/ StoreFails(d) PROVE TypeOK'
  <2>1. /\ \E x \in {"answered", "valid", "terminal"} : outcome' = [outcome EXCEPT ![d] = x]
        /\ UNCHANGED <<rows, artifact, named, cached, delivered, loop, batch, mine, seen, ready,
                       failed, refused, last, damaged>>
    BY <1>3 DEF ReceiveAnswer, StoreAnswer, StoreFails, files
  <2>2. UNCHANGED <<entry, recorded>> \/ Enter(d)
    BY <1>3 DEF ReceiveAnswer, StoreAnswer, StoreFails, files
  <2>3. MemoryOK'
    BY <2>1 DEF MemoryOK, Outcomes
  <2>4. FilesOK'
    BY <2>1, <2>2 DEF Enter, FilesOK, MemoryOK
  <2>5. CountsOK'
    <3>1. /\ paid' = paid \/ paid' = paid \union {Pdf[d]}
          /\ lost' = lost \/ lost' = lost \union {Pdf[d]} \/ lost' = lost \ {Pdf[d]}
          /\ Fault \/ UNCHANGED faults
      BY <1>3 DEF ReceiveAnswer, StoreAnswer, StoreFails, Enter
    <3>2. lost' \in SUBSET PDFs /\ paid' \in SUBSET PDFs
      BY <3>1, Texts DEF CountsOK
    <3> QED BY <2>1, <3>1, <3>2, ProcessingAssumption DEF CountsOK, Fault
  <2> QED BY <2>1, <2>3, <2>4, <2>5, TypesKept
<1>4. ASSUME NEW d \in Documents, CallFails(d) PROVE TypeOK'
  <2>1. \E x \in {"transient", "terminal"} : CallEnds(d, x)
    BY <1>4 DEF CallFails, CallTimesOut, CallErrors, AnswerRejected
  <2>2. /\ Fault
        /\ UNCHANGED <<rows, files, delivered, loop, batch, mine, seen, ready, failed, refused,
                       last, history>>
    BY <2>1 DEF CallEnds
  <2>3. MemoryOK'
    BY <2>1, <2>2 DEF CallEnds, MemoryOK, Outcomes
  <2>4. CountsOK'
    BY <2>2, FaultType DEF CountsOK, history
  <2> QED BY <2>2, <2>3, <2>4, TypesKept
<1> QED BY <1>1, <1>2, <1>3, <1>4

\* What comes of the calls is stored with the right types.
LEMMA CommitTypes ==
  ASSUME TypeOK, CommitOutcome \/ SkipOutcome
  PROVE  TypeOK'
<1> USE DEF TypeOK
<1>1. CASE CommitOutcome
  <2>1. InLoop("commit") /\ Step /\ Here \in Documents /\ mine' \subseteq mine
    BY <1>1, LoopStands DEF CommitOutcome
  <2>2. UNCHANGED <<extract, publish, artifact, named, cached, delivered, batch, seen, outcome,
                    refused, last, paid, lost, damaged>>
    BY <1>1 DEF CommitOutcome, history
  <2>3. CommitSummary(Here) \/ FailSummary(Here)
    BY <1>1 DEF CommitOutcome
  <2>4. RowsOK'
    BY <2>2, <2>3 DEF CommitSummary, FailSummary, RetrySummary, BlockSummary, RowsOK, RowState
  <2>5. FilesOK'
    <3>1. seen[Here] \in PDFs \union {Nothing}
      BY <2>1 DEF MemoryOK
    <3>2. UNCHANGED entry \/ entry' = [entry EXCEPT ![Pdf[Here]] = IF @ = Nothing THEN seen[Here] ELSE @]
      BY <2>3 DEF CommitSummary, FailSummary, RetrySummary, BlockSummary, StoreAgain
    <3>3. UNCHANGED recorded \/ recorded' = [recorded EXCEPT ![Pdf[Here]] = "same"]
      BY <2>3 DEF CommitSummary, FailSummary
    <3> QED BY <2>2, <3>1, <3>2, <3>3 DEF FilesOK
  <2>6. MemoryOK'
    BY <2>1, <2>2, <2>3 DEF CommitSummary, FailSummary, ProjectSummary, MemoryOK
  <2>7. BatchOK'
    BY <2>1, <2>2, LoopTypes DEF Phases
  <2>8. CountsOK'
    <3>1. Fault \/ UNCHANGED faults
      BY <2>3 DEF CommitSummary, FailSummary, RetrySummary, BlockSummary, ProjectSummary
    <3> QED BY <2>2, <3>1, FaultType DEF CountsOK
  <2> QED BY <2>4, <2>5, <2>6, <2>7, <2>8
<1>2. CASE SkipOutcome
  <2>1. BatchOK'
    BY <1>2, LoopTypes DEF SkipOutcome, Phases
  <2> QED BY <1>2, <2>1, TypesKept DEF SkipOutcome
<1> QED BY <1>1, <1>2

\* Publication keeps the types.
LEMMA PublishTypes ==
  ASSUME TypeOK, \/ ClaimPublish \/ PublishGroup \/ PublishFails \/ SkipPublish \/ ArchiveSidecar
                 \/ ArchiveFails \/ CompletePublish \/ FinishBatch
  PROVE  TypeOK'
<1> USE DEF TypeOK
<1>1. CASE ClaimPublish
  <2> DEFINE claims == {d \in ready : publish[d] \in Runnable}
  <2>1. Goto("publish") /\ publish' = Move(publish, claims, "running") /\ mine' = {"publish"} \X claims
    BY <1>1 DEF ClaimPublish
  <2>2. UNCHANGED <<extract, summary, files, delivered, batch, memory, last, faults, history>>
    BY <1>1 DEF ClaimPublish
  <2>3. RowsOK'
    <3>1. publish' \in [Documents -> RowState]
      BY <2>1, MoveType DEF RowsOK, RowState
    <3> QED BY <2>2, <3>1 DEF RowsOK
  <2>4. mine' \subseteq mine \union (Stages \X Documents)
    BY <2>1 DEF MemoryOK, Stages
  <2>5. BatchOK'
    BY <2>1, <2>2, <2>4, LoopTypes DEF Phases
  <2> QED BY <2>2, <2>3, <2>5, TypesKept
<1>2. CASE PublishGroup
  <2>1. BatchOK'
    BY <1>2, LoopTypes DEF PublishGroup, Phases
  <2>2. FilesOK'
    BY <1>2 DEF PublishGroup, FilesOK, MemoryOK, files
  <2> QED BY <1>2, <2>1, <2>2, TypesKept DEF PublishGroup
<1>3. CASE SkipPublish \/ ArchiveSidecar
  <2>1. mine' \subseteq mine
    BY <1>3 DEF SkipPublish, ArchiveSidecar
  <2>2. BatchOK'
    BY <1>3, <2>1, LoopTypes DEF SkipPublish, ArchiveSidecar, Phases
  <2> QED BY <1>3, <2>2, TypesKept DEF SkipPublish, ArchiveSidecar
<1>4. CASE PublishFails \/ ArchiveFails
  <2>1. PICK state \in {"waiting", "blocked"} : FailPublish(state)
    BY <1>4 DEF PublishFails, ArchiveFails
  <2>2. UNCHANGED <<extract, summary, files, delivered, batch, seen, outcome, ready, refused, last, history>>
    BY <1>4 DEF PublishFails, ArchiveFails
  <2>3. RowsOK'
    <3>1. publish' \in [Documents -> RowState]
      BY <2>1, MoveType DEF FailPublish, RowsOK, RowState
    <3> QED BY <2>2, <3>1 DEF RowsOK
  <2>4. BatchOK'
    BY <2>1, <2>2, LoopTypes DEF FailPublish, Phases
  <2>5. MemoryOK'
    BY <2>1, <2>2 DEF FailPublish, MemoryOK
  <2>6. CountsOK'
    <3>1. Fault \/ UNCHANGED faults
      BY <1>4 DEF PublishFails, ArchiveFails
    <3> QED BY <2>2, <3>1, FaultType DEF CountsOK, history
  <2> QED BY <2>2, <2>3, <2>4, <2>5, <2>6, TypesKept
<1>5. CASE CompletePublish
  <2>1. InLoop("complete") /\ Step
    BY <1>5 DEF CompletePublish
  <2>2. UNCHANGED <<extract, summary, files, delivered, batch, memory, last, faults, history>>
    BY <1>5 DEF CompletePublish
  <2>3. RowsOK' /\ mine' \subseteq mine
    BY <1>5 DEF CompletePublish, RowsOK, RowState
  <2>4. BatchOK'
    BY <2>1, <2>2, <2>3, LoopTypes DEF Phases
  <2> QED BY <2>2, <2>3, <2>4, TypesKept
<1>6. CASE FinishBatch
  <2>1. last' \in [files : SUBSET Documents, status : Statuses]
    BY <1>6, LoopStands DEF FinishBatch, Status, Statuses
  <2>2. MemoryOK' /\ BatchOK'
    BY <1>6, <2>1, ForgetType DEF FinishBatch
  <2> QED BY <1>6, <2>2, TypesKept DEF FinishBatch
<1> QED BY <1>1, <1>2, <1>3, <1>4, <1>5, <1>6

\* Time, crashes and lost files keep the types.
LEMMA WorldTypes ==
  ASSUME TypeOK, \/ Crash \/ \E d \in Documents : Elapse(d)
                 \/ (\E n \in Names : LoseText(n)) \/ (\E p \in PDFs : DamageEntry(p))
  PROVE  TypeOK'
<1> USE DEF TypeOK
<1>1. CASE Crash
  <2>1. Forget /\ Fault /\ UNCHANGED <<rows, files, delivered, last, paid, damaged>>
        /\ lost' = lost \union {Pdf[d] : d \in Answered}
    BY <1>1 DEF Crash
  <2>2. MemoryOK' /\ BatchOK'
    BY <2>1, ForgetType DEF BatchOK
  <2>3. CountsOK'
    <3>1. {Pdf[d] : d \in Answered} \subseteq PDFs
      BY Texts DEF Answered
    <3> QED BY <2>1, <3>1, FaultType DEF CountsOK
  <2> QED BY <2>1, <2>2, <2>3, TypesKept
<1>2. ASSUME NEW d \in Documents, Elapse(d) PROVE TypeOK'
  <2>1. UNCHANGED <<files, delivered, loop, batch, mine, memory, last, faults, history>>
    BY <1>2 DEF Elapse
  <2>2. RowsOK'
    BY <1>2 DEF Elapse, RowsOK, RowState
  <2> QED BY <2>1, <2>2, TypesKept
<1>3. ASSUME NEW n \in Names, LoseText(n) PROVE TypeOK'
  <2>1. /\ named' = [named EXCEPT ![n] = Nothing] /\ Fault
        /\ UNCHANGED <<rows, artifact, cached, entry, recorded, delivered, loop, batch, mine, memory, last, history>>
    BY <1>3 DEF LoseText
  <2>2. FilesOK'
    BY <2>1 DEF FilesOK
  <2>3. CountsOK'
    BY <2>1, FaultType DEF CountsOK, history
  <2> QED BY <2>1, <2>2, <2>3, TypesKept
<1>4. ASSUME NEW p \in PDFs, DamageEntry(p) PROVE TypeOK'
  <2>1. PICK x \in {Nothing, Corrupt} : entry' = [entry EXCEPT ![p] = x]
    BY <1>4 DEF DamageEntry
  <2>2. /\ Fault /\ damaged' = damaged \union {p}
        /\ UNCHANGED <<rows, artifact, named, cached, recorded, delivered, loop, batch, mine, memory, last,
                       paid, lost>>
    BY <1>4 DEF DamageEntry
  <2>3. FilesOK'
    BY <2>1, <2>2 DEF FilesOK
  <2>4. CountsOK'
    BY <2>2, FaultType DEF CountsOK
  <2> QED BY <2>2, <2>3, <2>4, TypesKept
<1> QED BY <1>1, <1>2, <1>3, <1>4

\* Initially everything has its type.
LEMMA InitTypes == Init => TypeOK
<1> SUFFICES ASSUME Init PROVE TypeOK
  OBVIOUS
<1>1. RowsOK
  BY DEF Init, RowsOK, RowState
<1>2. FilesOK
  BY DEF Init, FilesOK
<1>3. BatchOK
  <2>1. <<>> \in Seq(Documents) /\ Len(<<>>) = 0
    OBVIOUS
  <2> QED BY <2>1 DEF Init, BatchOK, Phases, NoBatch, Statuses
<1>4. MemoryOK
  BY DEF Init, MemoryOK, Outcomes
<1>5. CountsOK
  BY ProcessingAssumption DEF Init, CountsOK
<1> QED BY <1>1, <1>2, <1>3, <1>4, <1>5 DEF TypeOK

\* Every step keeps the types.
LEMMA TypesInductive == TypeOK /\ [Next]_vars => TypeOK'
<1> SUFFICES ASSUME TypeOK, [Next]_vars PROVE TypeOK'
  OBVIOUS
<1>1. CASE BatchStep
  BY <1>1, ListTypes, ExtractTypes, SummaryTypes, CallTypes, CommitTypes, PublishTypes DEF BatchStep
<1>2. CASE Environment
  BY <1>2, CallTypes, ExtractTypes, PublishTypes, WorldTypes DEF Environment
<1>3. CASE UNCHANGED vars
  BY <1>3, TypesKept DEF TypeOK, vars
<1> QED BY <1>1, <1>2, <1>3 DEF Next

\* Every column, file and claim has its type in every reachable state.
THEOREM TypeCorrect == Spec => []TypeOK
<1> QED BY InitTypes, TypesInductive, PTL DEF Spec

-----------------------------------------------------------------------------
(***************************************************************************)
(* The inductive invariant.  A stage has begun only after the one before   *)
(* it has succeeded; a claim is held in its phase, over a running row; the *)
(* documents of a batch have different bytes and are not yet published;    *)
(* what the batch remembers of a document it has read, asked for or        *)
(* stored; a PDF that was paid for has an entry, or its answer is with a   *)
(* thread or was lost; and while nothing failed, each document of the      *)
(* batch is where the loops should have brought it.                        *)
(***************************************************************************)
RowsFit == \A d \in Documents :
  /\ extract[d] # "succeeded" => summary[d] \in Runnable \union {"succeeded"}
  /\ publish[d] \notin Runnable => extract[d] = "succeeded" /\ summary[d] = "succeeded"
  /\ summary[d] = "succeeded" => entry[Pdf[d]] # Nothing \/ Pdf[d] \in damaged

ClaimsFit == \A d \in Documents :
  /\ Holds("extract", d) => phase = "extract" /\ extract[d] = "running"
  /\ Holds("summary", d) => phase \in {"summary", "jobs", "commit"} /\ summary[d] = "running"
  /\ Holds("publish", d) => phase \in {"publish", "archive", "complete"} /\ publish[d] = "running"
  /\ phase \in {"publish", "archive"} => (Holds("publish", d) <=> d \in ready)

BatchFits ==
  /\ \A i, j \in DOMAIN batch : i # j => Pdf[batch[i]] # Pdf[batch[j]]
  /\ \A i \in DOMAIN batch :
       /\ phase \in {"extract", "summary", "jobs", "commit"} => publish[batch[i]] \in Runnable
       /\ phase = "extract" \/ (phase = "summary" /\ i >= at) =>
            summary[batch[i]] \in Runnable \union {"succeeded"}

Asked == {"queued", "calling", "answered", "valid"}

MemoryFits ==
  /\ phase \in {"idle", "extract"} => ~failed
  /\ \A d \in Documents :
       /\ phase = "idle" => outcome[d] = "none" /\ seen[d] = Nothing /\ d \notin ready
       /\ outcome[d] # "none" \/ seen[d] # Nothing => d \in In(batch)
       /\ seen[d] # Nothing => extract[d] = "succeeded"
       /\ d \in ready => summary[d] = "succeeded" /\ seen[d] # Nothing
       /\ outcome[d] \in Asked => phase # "extract" /\ seen[d] # Nothing
       /\ outcome[d] \in {"calling", "answered"} => phase = "jobs"
       /\ phase = "extract" => d \notin ready
       /\ outcome[d] # "none" /\ (phase \in {"summary", "jobs"} \/ (phase = "commit" /\ \E i \in DOMAIN batch : i >= at /\ batch[i] = d)) =>
            Holds("summary", d)

PaidFits ==
  /\ \A p \in paid : \/ entry[p] # Nothing \/ p \in damaged \union lost
                     \/ \E d \in Documents : outcome[d] = "answered" /\ Pdf[d] = p
  /\ \A d \in Documents :
       outcome[d] \in {"queued", "calling"} /\ Pdf[d] \in paid => Pdf[d] \in damaged \union lost

OnTrack == ~failed /\ damaged = {} =>
  \A i \in DOMAIN batch :
    LET d == batch[i]
    IN  /\ phase = "extract" => seen[d] # Nothing \/ Holds("extract", d)
        /\ phase = "summary" => seen[d] # Nothing
        /\ phase \in {"jobs", "commit"} \/ (phase = "summary" /\ i < at) =>
             d \in ready \/ outcome[d] # "none"
        /\ phase \in {"publish", "archive"} \/ (phase = "commit" /\ i < at) => d \in ready
        /\ phase = "complete" => publish[d] = "succeeded" \/ (i >= at /\ Holds("publish", d))

BatchInv == RowsFit /\ ClaimsFit /\ BatchFits /\ MemoryFits /\ PaidFits /\ OnTrack /\ SuccessIsComplete

IInv == TypeOK /\ BatchInv

\* The parts of the invariant that a step does not touch.
LEMMA FitsKept ==
  /\ RowsFit /\ UNCHANGED <<extract, summary, publish, entry, damaged>> => RowsFit'
  /\ ClaimsFit /\ UNCHANGED <<extract, summary, publish, mine, phase, ready>> => ClaimsFit'
  /\ BatchFits /\ UNCHANGED <<batch, phase, at, publish, summary>> => BatchFits'
  /\ MemoryFits /\ UNCHANGED <<phase, at, batch, mine, seen, outcome, ready, failed, extract, summary>> =>
       MemoryFits'
  /\ PaidFits /\ UNCHANGED <<paid, lost, damaged, entry, outcome>> => PaidFits'
  /\ OnTrack /\ UNCHANGED <<phase, at, batch, mine, seen, outcome, ready, failed, publish, damaged>> =>
       OnTrack'
  /\ /\ SuccessIsComplete /\ UNCHANGED last /\ damaged \subseteq damaged' /\ BatchOK
     /\ \A d \in Documents : publish[d] = "succeeded" => publish'[d] = "succeeded"
     => SuccessIsComplete'
<1>1. RowsFit /\ UNCHANGED <<extract, summary, publish, entry, damaged>> => RowsFit'
  BY DEF RowsFit
<1>2. ClaimsFit /\ UNCHANGED <<extract, summary, publish, mine, phase, ready>> => ClaimsFit'
  BY DEF ClaimsFit, Holds
<1>3. BatchFits /\ UNCHANGED <<batch, phase, at, publish, summary>> => BatchFits'
  BY DEF BatchFits
<1>4. MemoryFits /\ UNCHANGED <<phase, at, batch, mine, seen, outcome, ready, failed, extract, summary>> =>
       MemoryFits'
  BY DEF MemoryFits, Holds, In
<1>5. PaidFits /\ UNCHANGED <<paid, lost, damaged, entry, outcome>> => PaidFits'
  BY DEF PaidFits
<1>6. OnTrack /\ UNCHANGED <<phase, at, batch, mine, seen, outcome, ready, failed, publish, damaged>> =>
       OnTrack'
  BY DEF OnTrack, Holds
<1>7. /\ SuccessIsComplete /\ UNCHANGED last /\ damaged \subseteq damaged' /\ BatchOK
      /\ \A d \in Documents : publish[d] = "succeeded" => publish'[d] = "succeeded"
      => SuccessIsComplete'
  BY DEF SuccessIsComplete, BatchOK
<1> QED BY <1>1, <1>2, <1>3, <1>4, <1>5, <1>6, <1>7

\* Outside of the calls no answer is on its way to the store, so what was paid for
\* stays covered as long as no entry goes and no new call is queued where there is one.
LEMMA PaidKept ==
  ASSUME PaidFits, MemoryFits, phase # "jobs", UNCHANGED <<paid, lost, damaged>>,
         \A p \in paid : entry[p] # Nothing => entry'[p] # Nothing,
         \A d \in Documents : outcome'[d] \in {"queued", "calling"} =>
           outcome'[d] = outcome[d] \/ entry[Pdf[d]] = Nothing
  PROVE  PaidFits'
<1>1. \A d \in Documents : outcome[d] # "answered"
  BY DEF MemoryFits
<1>2. \A p \in paid : entry[p] # Nothing \/ p \in damaged \union lost
  BY <1>1 DEF PaidFits
<1>3. \A d \in Documents : outcome[d] \in {"queued", "calling"} /\ Pdf[d] \in paid => Pdf[d] \in damaged \union lost
  BY DEF PaidFits
<1> QED BY <1>2, <1>3 DEF PaidFits

\* A document has one place in the batch.
LEMMA OnePlace ==
  ASSUME BatchOK, BatchFits
  PROVE  /\ \A i, j \in DOMAIN batch : batch[i] = batch[j] => i = j
         /\ \A d, e \in In(batch) : Pdf[d] = Pdf[e] => d = e
         /\ \A i \in DOMAIN batch : batch[i] \in Documents
<1>1. \A i \in DOMAIN batch : batch[i] \in Documents
  BY LenProperties, ElementOfSeq DEF BatchOK
<1>2. \A i, j \in DOMAIN batch : batch[i] = batch[j] => i = j
  BY DEF BatchFits
<1> QED BY <1>1, <1>2 DEF BatchFits, In

\* A batch that is over holds nothing and remembers nothing.
LEMMA ForgetFits ==
  ASSUME Forget
  PROVE  ClaimsFit' /\ BatchFits' /\ MemoryFits' /\ OnTrack'
         /\ \A d \in Documents : outcome'[d] = "none"
<1>1. /\ phase' = "idle" /\ batch' = <<>> /\ mine' = {} /\ ready' = {} /\ failed' = FALSE
      /\ seen' = [d \in Documents |-> Nothing] /\ outcome' = [d \in Documents |-> "none"]
  BY DEF Forget, Goto
<1>2. ClaimsFit'
  BY <1>1 DEF ClaimsFit, Holds
<1>3. BatchFits' /\ OnTrack'
  BY <1>1 DEF BatchFits, OnTrack
<1>4. MemoryFits'
  BY <1>1 DEF MemoryFits, Asked
<1> QED BY <1>1, <1>2, <1>3, <1>4

\* A batch begins with due documents of different bytes.
LEMMA ListKeeps ==
  ASSUME IInv, RejectBatch \/ StartBatch
  PROVE  BatchInv'
<1> USE DEF BatchInv
<1>0. IInv /\ TypeOK /\ BatchOK
  BY DEF IInv, TypeOK
<1>1. CASE RejectBatch
  <2>1. last' = [files |-> In(Listed), status |-> "failed"]
    BY <1>1 DEF RejectBatch
  <2>2. UNCHANGED <<extract, summary, publish, entry, phase, at, batch, mine, seen, outcome, ready,
                    failed, paid, lost, damaged>>
    BY <1>1 DEF RejectBatch, rows, files, loop, memory, history
  <2>3. SuccessIsComplete'
    BY <2>1 DEF SuccessIsComplete
  <2> QED BY <2>2, <2>3, FitsKept DEF IInv
<1>2. CASE StartBatch
  <2> DEFINE claims == {d \in In(Listed) : Claimable(d)}
  <2>1. /\ phase = "idle" /\ ~Repeats(Listed) /\ batch' = Listed /\ at' = 1
        /\ extract' = Move(extract, claims, "running") /\ mine' = {"extract"} \X claims
        /\ phase' = IF claims = {} THEN "summary" ELSE "extract"
        /\ seen' = [d \in Documents |-> IF d \in In(Listed) /\ Rehydrated(d) THEN TextAt(d) ELSE Nothing]
    BY <1>2 DEF StartBatch
  <2>2. UNCHANGED <<summary, publish, entry, outcome, ready, failed, paid, lost, damaged, last>>
    BY <1>2 DEF StartBatch, files, history
  <2>3. \A d \in In(Listed) : d \in Documents /\ IsDue(d)
    BY ListedAreDue
  <2>4. /\ ~failed /\ \A d \in Documents : outcome[d] = "none" /\ d \notin ready
    BY <1>0, <2>1 DEF IInv, MemoryFits
  <2>5. ASSUME NEW d \in In(Listed)
        PROVE  summary[d] \in Runnable \union {"succeeded"} /\ publish[d] \in Runnable
    BY <1>0, <2>3 DEF IInv, RowsFit, IsDue, Runnable
  <2>6. ASSUME NEW d \in Documents
        PROVE  /\ d \in claims => extract'[d] = "running"
               /\ d \notin claims => extract'[d] = extract[d]
    BY <2>1, ListedAreDue DEF Move
  <2>7. ASSUME NEW d \in In(Listed), d \notin claims
        PROVE  extract[d] = "succeeded" /\ seen'[d] # Nothing
    BY <2>1, <2>3, <2>7 DEF Claimable, IsDue, Rehydrated
  <2>8. ASSUME NEW d \in Documents
        PROVE  Holds("extract", d)' <=> d \in claims
    BY <2>1 DEF Holds
  <2>9. ASSUME NEW d \in Documents
        PROVE  ~Holds("summary", d)' /\ ~Holds("publish", d)'
    BY <2>1 DEF Holds
  <2>10. \A d \in claims : d \in In(Listed) /\ Claimable(d)
    OBVIOUS
  <2>11. claims # {} => phase' = "extract"
    BY <2>1
  <2>12. In(batch)' = In(Listed) /\ \A i \in DOMAIN Listed : Listed[i] \in In(Listed)
    BY <2>1 DEF In
  <2>13. phase' \in {"extract", "summary"}
    BY <2>1
  <2> HIDE DEF claims
  <2>14. RowsFit'
    BY <1>0, <2>2, <2>5, <2>6, <2>10 DEF IInv, RowsFit
  <2>15. ClaimsFit'
    BY <2>4, <2>6, <2>8, <2>9, <2>11, <2>13 DEF ClaimsFit
  <2>16. BatchFits'
    <3>1. \A i, j \in DOMAIN Listed : i # j => Pdf[Listed[i]] # Pdf[Listed[j]]
      BY <2>1 DEF Repeats
    <3> QED BY <2>1, <2>2, <2>5, <2>12, <3>1 DEF BatchFits
  <2>17. MemoryFits'
    <3>1. ASSUME NEW d \in Documents, seen'[d] # Nothing PROVE d \in In(Listed) /\ extract'[d] = "succeeded"
      <4>1. d \in In(Listed) /\ Rehydrated(d)
        BY <2>1, <3>1
      <4>2. ~Claimable(d) /\ extract[d] = "succeeded"
        BY <4>1 DEF Rehydrated, Claimable, Runnable
      <4> QED BY <2>6, <2>10, <4>1, <4>2
    <3>2. \A d \in Documents : outcome'[d] = "none" /\ d \notin ready'
      BY <2>2, <2>4
    <3> QED BY <2>2, <2>4, <2>12, <2>13, <3>1, <3>2 DEF MemoryFits, Asked
  <2>18. PaidFits' /\ SuccessIsComplete'
    BY <1>0, <2>2, FitsKept DEF IInv
  <2>19. OnTrack'
    <3>1. ASSUME NEW i \in DOMAIN Listed
          PROVE  /\ phase' = "extract" => seen'[Listed[i]] # Nothing \/ <<"extract", Listed[i]>> \in mine'
                 /\ phase' = "summary" => seen'[Listed[i]] # Nothing /\ ~(i < 1)
      <4>1. Listed[i] \in Documents /\ Listed[i] \in In(Listed)
        BY <2>3, <2>12
      <4>2. i \in Nat /\ ~(i < 1)
        BY ListedAreDue, LenProperties
      <4>3. Listed[i] \in claims => phase' = "extract"
        BY <2>11
      <4> QED BY <2>7, <2>8, <4>1, <4>2, <4>3 DEF Holds
    <3>2. batch' = Listed /\ at' = 1
      BY <2>1
    <3> QED BY <2>13, <3>1, <3>2 DEF OnTrack, Holds
  <2> QED BY <2>14, <2>15, <2>16, <2>17, <2>18, <2>19
<1> QED BY <1>1, <1>2

\* Extraction ends with a text counted for each document, or with a failure.
LEMMA ExtractKeeps ==
  ASSUME IInv, ExtractFile \/ SkipFile \/ FinishExtract \/ ExtractorDies
  PROVE  BatchInv'
<1> USE DEF BatchInv
<1>0. /\ IInv /\ TypeOK /\ BatchOK /\ phase = "extract" /\ MemoryOK /\ RowsOK
      /\ UNCHANGED <<summary, publish, entry, ready, batch, paid, lost, damaged, last>>
  BY DEF IInv, TypeOK, ExtractFile, ExtractCached, ExtractNew, ExtractNoText, ExtractBreaks, Extracting,
         SkipFile, FinishExtract, ExtractorDies, InLoop, LoopEnds, rows, files, memory, history
<1>1. SuccessIsComplete'
  BY <1>0, FitsKept DEF IInv
<1>2. CASE ExtractFile \/ SkipFile
  <2>1. UNCHANGED <<extract, phase, mine, seen, failed>>
    BY <1>2 DEF ExtractFile, SkipFile, Step, rows, memory
  <2>2. \/ UNCHANGED outcome
        \/ \E x \in {"cached", "named", "content", "transient", "terminal"} :
             outcome' = [outcome EXCEPT ![Here] = x]
    BY <1>2 DEF ExtractFile, ExtractCached, ExtractNew, ExtractNoText, ExtractBreaks, Returned,
                SkipFile, memory
  <2>3. InLoop("extract")
    BY <1>2 DEF ExtractFile, ExtractCached, ExtractNew, ExtractNoText, ExtractBreaks, Extracting, SkipFile
  <2>4. Here \in In(batch)
    BY <1>0, <2>3, LoopStands
  <2>5. \A d \in Documents : /\ outcome'[d] = outcome[d] \/ (d \in In(batch) /\ outcome'[d] \notin Asked)
                             /\ outcome'[d] \in Asked => outcome[d] \in Asked
    BY <1>0, <2>2, <2>4 DEF MemoryOK, Asked
  <2>6. RowsFit' /\ ClaimsFit'
    BY <1>0, <2>1, FitsKept DEF IInv
  <2>7. BatchFits'
    BY <1>0, <2>1 DEF IInv, BatchFits
  <2>8. MemoryFits'
    BY <1>0, <2>1, <2>5 DEF IInv, MemoryFits, In, Asked
  <2>9. PaidFits'
    BY <1>0, <2>5, PaidKept DEF IInv, Asked
  <2>10. OnTrack'
    BY <1>0, <2>1 DEF IInv, OnTrack, Holds
  <2> QED BY <1>1, <2>6, <2>7, <2>8, <2>9, <2>10
<1>3. CASE FinishExtract \/ ExtractorDies
  <2>1. /\ phase' = "summary" /\ at' = 1 /\ mine' = {} /\ outcome' = [d \in Documents |-> "none"]
        /\ \/ FailExtraction("waiting") \/ FailExtraction("blocked")
           \/ AcceptExtraction
    BY <1>3 DEF FinishExtract, ExtractorDies, Goto
  <2>2. \A d \in Documents : Holds("extract", d) => extract[d] = "running"
    BY <1>0 DEF IInv, ClaimsFit
  <2>3. \A d \in Documents : Holds("extract", d) \/ extract'[d] = extract[d]
    BY <1>0, <2>1 DEF FailExtraction, AcceptExtraction, Move, Held, RowsOK
  <2>4. RowsFit'
    <3>1. \A d \in Documents : Holds("extract", d) =>
            summary[d] \in Runnable \union {"succeeded"} /\ publish[d] \in Runnable
      BY <1>0, <2>2 DEF IInv, RowsFit
    <3> QED BY <1>0, <2>3, <3>1 DEF IInv, RowsFit
  <2>5. ClaimsFit'
    BY <2>1 DEF ClaimsFit, Holds
  <2>6. BatchFits'
    BY <1>0, <2>1 DEF IInv, BatchFits
  <2>7. PaidFits'
    BY <1>0, <2>1, PaidKept DEF IInv
  <2>8. MemoryFits'
    <3>1. ASSUME NEW d \in Documents, seen'[d] # Nothing
          PROVE  d \in In(batch) /\ extract'[d] = "succeeded"
      <4>1. CASE seen[d] # Nothing
        <5>1. d \in In(batch) /\ extract[d] = "succeeded"
          BY <1>0, <4>1 DEF IInv, MemoryFits
        <5> QED BY <2>2, <2>3, <5>1
      <4>2. CASE seen[d] = Nothing
        <5>1. AcceptExtraction /\ Read(d)
          BY <1>0, <2>1, <3>1, <4>2 DEF FailExtraction, AcceptExtraction, MemoryOK
        <5>2. outcome[d] \in {"named", "cached"} /\ Holds("extract", d)
          BY <5>1 DEF Read
        <5>3. extract'[d] = "succeeded"
          BY <5>1, <5>2 DEF AcceptExtraction, Verdict
        <5>4. d \in In(batch)
          BY <1>0, <5>2 DEF IInv, MemoryFits
        <5> QED BY <5>3, <5>4
      <4> QED BY <4>1, <4>2
    <3>2. \A d \in Documents : d \notin ready
      BY <1>0 DEF IInv, MemoryFits
    <3> QED BY <1>0, <2>1, <3>1, <3>2 DEF MemoryFits, In, Asked
  <2>9. OnTrack'
    <3> SUFFICES ASSUME ~failed', damaged' = {}, NEW i \in DOMAIN batch
                 PROVE  seen'[batch[i]] # Nothing /\ ~(i < 1)
      BY <1>0, <2>1 DEF OnTrack
    <3>1. AcceptExtraction /\ \A d \in Held("extract") : Read(d) /\ ~Overwritten(d)
      BY <1>3, <2>1 DEF FinishExtract, ExtractorDies, FailExtraction, AcceptExtraction
    <3>2. batch[i] \in Documents /\ ~(i < 1)
      BY <1>0, LenProperties, ElementOfSeq DEF BatchOK
    <3>3. seen[batch[i]] # Nothing \/ Holds("extract", batch[i])
      <4>1. ~failed /\ damaged = {}
        BY <1>0 DEF IInv, MemoryFits
      <4> QED BY <1>0, <4>1 DEF IInv, OnTrack
    <3>4. Holds("extract", batch[i]) => Read(batch[i]) /\ TextReturned(batch[i]) # Nothing
      BY <3>1, <3>2, Texts DEF Held, Overwritten, AsLong, Read, TextReturned
    <3>5. seen'[batch[i]] = IF Read(batch[i]) THEN TextReturned(batch[i]) ELSE seen[batch[i]]
      BY <3>1, <3>2 DEF AcceptExtraction
    <3> QED BY <3>2, <3>3, <3>4, <3>5 DEF Read
  <2> QED BY <1>1, <2>4, <2>5, <2>6, <2>7, <2>8, <2>9
<1> QED BY <1>2, <1>3

\* Each document with a text gets its summary from the store or is queued.
LEMMA PrepareKeeps ==
  ASSUME IInv, PrepareSummary
  PROVE  BatchInv'
<1> USE DEF BatchInv
<1>1. PICK d \in Documents : UseCached(d) \/ QueueJob(d) \/ NoJob(d)
  BY DEF PrepareSummary
<1>2. Preparing(d) /\ InLoop("summary") /\ Step
  BY <1>1 DEF PrepareSummary, UseCached, QueueJob, NoJob, Preparing
<1>3. /\ UNCHANGED <<extract, publish, entry, batch, phase, seen, paid, lost, damaged, last>> /\ at' = at + 1
      /\ phase = "summary"
  BY <1>2 DEF PrepareSummary, files, history, Step, InLoop
<1>4. IInv /\ BatchOK /\ MemoryOK /\ RowsOK /\ FilesOK /\ at \in Nat
  BY DEF IInv, TypeOK, BatchOK
<1>5. /\ at \in DOMAIN batch /\ d = batch[at] /\ d \in In(batch) /\ seen[d] # Nothing
      /\ \A i \in DOMAIN batch : i \in Nat /\ (batch[i] = d => i = at) /\ batch[i] \in Documents
  BY <1>2, <1>4, LoopStands, OnePlace DEF Preparing, Here, IInv
<1>6. /\ extract[d] = "succeeded" /\ publish[d] \in Runnable
      /\ summary[d] \in Runnable \union {"succeeded"} /\ ~Holds("summary", d)
  <2>1. extract[d] = "succeeded"
    BY <1>4, <1>5 DEF IInv, MemoryFits
  <2>2. publish[d] \in Runnable /\ summary[d] \in Runnable \union {"succeeded"}
    BY <1>3, <1>4, <1>5 DEF IInv, BatchFits
  <2>3. ~Holds("summary", d)
    BY <1>4, <2>2 DEF IInv, ClaimsFit, Runnable
  <2> QED BY <2>1, <2>2, <2>3
<1>7. SuccessIsComplete'
  BY <1>3, <1>4, FitsKept DEF IInv
<1>8. CASE UseCached(d)
  <2>1. /\ ready' = ready \union {d} /\ UNCHANGED <<outcome, mine>>
        /\ failed => failed'
    BY <1>8, <1>4 DEF UseCached, ProjectSummary, MemoryOK
  <2>2. /\ summary'[d] = "succeeded"
        /\ \A e \in Documents : e # d => summary'[e] = summary[e]
    BY <1>4, <1>6, <1>8 DEF UseCached, ClaimsSummary, RowsOK, Runnable
  <2>3. entry[Pdf[d]] # Nothing
    BY <1>8, Texts DEF UseCached, Cached
  <2>4. RowsFit'
    BY <1>3, <1>4, <1>6, <2>2, <2>3 DEF IInv, RowsFit
  <2>5. ClaimsFit'
    BY <1>3, <1>4, <1>6, <2>1, <2>2 DEF IInv, ClaimsFit, Holds
  <2>6. BatchFits'
    <3>1. \A i \in DOMAIN batch : i >= at + 1 => summary'[batch[i]] = summary[batch[i]] /\ i >= at
      BY <1>4, <1>5, <2>2
    <3> QED BY <1>3, <1>4, <3>1 DEF IInv, BatchFits
  <2>7. MemoryFits'
    <3>1. \A e \in Documents : summary[e] = "succeeded" => summary'[e] = "succeeded"
      BY <2>2
    <3> QED BY <1>3, <1>4, <1>5, <2>1, <2>2, <3>1 DEF IInv, MemoryFits, In, Holds
  <2>8. PaidFits'
    BY <1>3, <1>4, <2>1, FitsKept DEF IInv
  <2>9. OnTrack'
    BY <1>3, <1>4, <1>5, <2>1 DEF IInv, OnTrack
  <2> QED BY <1>7, <2>4, <2>5, <2>6, <2>7, <2>8, <2>9
<1>9. CASE QueueJob(d)
  <2>1. /\ mine' = mine \union {<<"summary", d>>} /\ UNCHANGED <<ready, failed>>
        /\ outcome' = [outcome EXCEPT ![d] = "queued"] /\ entry[Pdf[d]] = Nothing
        /\ summary[d] \in Runnable /\ summary' = [summary EXCEPT ![d] = "running"]
    BY <1>2, <1>9 DEF QueueJob, Returned, Preparing, ClaimsSummary
  <2>2. /\ summary'[d] = "running" /\ outcome'[d] = "queued"
        /\ \A e \in Documents : e # d => summary'[e] = summary[e] /\ outcome'[e] = outcome[e]
    BY <1>4, <2>1 DEF RowsOK, MemoryOK
  <2>3. \A e \in Documents : /\ Holds("summary", e)' <=> Holds("summary", e) \/ e = d
                             /\ Holds("extract", e)' <=> Holds("extract", e)
                             /\ Holds("publish", e)' <=> Holds("publish", e)
    BY <2>1 DEF Holds
  <2>4. RowsFit'
    BY <1>3, <1>4, <1>6, <2>2 DEF IInv, RowsFit
  <2>5. ClaimsFit'
    BY <1>3, <1>4, <2>1, <2>2, <2>3 DEF IInv, ClaimsFit
  <2>6. BatchFits'
    <3>1. \A i \in DOMAIN batch : i >= at + 1 => summary'[batch[i]] = summary[batch[i]] /\ i >= at
      BY <1>4, <1>5, <2>2
    <3> QED BY <1>3, <1>4, <3>1 DEF IInv, BatchFits
  <2>7. MemoryFits'
    <3>1. d \notin ready
      BY <1>4, <2>1 DEF IInv, MemoryFits, Runnable
    <3> QED BY <1>3, <1>4, <1>5, <2>1, <2>2, <2>3, <3>1 DEF IInv, MemoryFits, In
  <2>8. PaidFits'
    <3>1. \A e \in Documents : outcome'[e] = outcome[e] \/ entry[Pdf[e]] = Nothing
      BY <2>1, <2>2
    <3> QED BY <1>3, <1>4, <3>1, PaidKept DEF IInv
  <2>9. OnTrack'
    <3>1. \A e \in Documents : outcome[e] # "none" => outcome'[e] # "none"
      BY <2>2
    <3> QED BY <1>3, <1>4, <1>5, <2>1, <2>2, <3>1 DEF IInv, OnTrack
  <2> QED BY <1>7, <2>4, <2>5, <2>6, <2>7, <2>8, <2>9
<1>10. CASE NoJob(d)
  <2>1. UNCHANGED <<summary, mine, outcome, ready, failed>> /\ entry[Pdf[d]] = Nothing /\ ~ClaimsSummary(d)
    BY <1>10 DEF NoJob
  <2>2. damaged # {}
    BY <1>4, <1>6, <2>1 DEF IInv, RowsFit, ClaimsSummary
  <2>3. RowsFit' /\ ClaimsFit' /\ PaidFits'
    BY <1>3, <1>4, <2>1, FitsKept DEF IInv
  <2>4. BatchFits'
    <3>1. \A i \in DOMAIN batch : i >= at + 1 => i >= at
      BY <1>4, <1>5
    <3> QED BY <1>3, <1>4, <2>1, <3>1 DEF IInv, BatchFits
  <2>5. MemoryFits'
    BY <1>3, <1>4, <2>1 DEF IInv, MemoryFits, In, Holds
  <2>6. OnTrack'
    BY <1>3, <2>2 DEF OnTrack
  <2> QED BY <1>7, <2>3, <2>4, <2>5, <2>6
<1> QED BY <1>1, <1>8, <1>9, <1>10

\* The rest of the summary loop: a document without a text is passed over, a
\* corrupt entry ends the batch, and the calls begin when the loop ends.
LEMMA SummaryKeeps ==
  ASSUME IInv, SkipSummary \/ StartJobs \/ (\E d \in Documents : CorruptEntry(d))
  PROVE  BatchInv'
<1> USE DEF BatchInv
<1>0. /\ IInv /\ BatchOK /\ MemoryOK /\ RowsOK /\ at \in Nat
      /\ \A i \in DOMAIN batch : i \in Nat /\ batch[i] \in Documents /\ i <= Len(batch)
      /\ Len(batch) \in Nat
  <2>1. IInv /\ BatchOK /\ MemoryOK /\ RowsOK /\ at \in Nat
    BY DEF IInv, TypeOK, BatchOK
  <2> QED BY <2>1, LoopStands, OnePlace DEF IInv
<1>1. CASE SkipSummary
  <2>1. /\ UNCHANGED <<extract, summary, publish, entry, batch, phase, mine, seen, outcome, ready, failed,
                       paid, lost, damaged, last>>
        /\ at' = at + 1 /\ phase = "summary"
    BY <1>1 DEF SkipSummary, Step, InLoop, rows, files, memory, history
  <2>2. at \in DOMAIN batch /\ seen[batch[at]] = Nothing
    BY <1>0, <1>1, LoopStands DEF SkipSummary, Here
  <2>3. failed \/ damaged # {}
    BY <1>0, <2>1, <2>2 DEF IInv, OnTrack
  <2>4. RowsFit' /\ ClaimsFit' /\ PaidFits' /\ SuccessIsComplete'
    BY <1>0, <2>1, FitsKept DEF IInv
  <2>5. BatchFits'
    <3>1. \A i \in DOMAIN batch : i >= at + 1 => i >= at
      BY <1>0
    <3> QED BY <1>0, <2>1, <3>1 DEF IInv, BatchFits
  <2>6. MemoryFits'
    BY <1>0, <2>1 DEF IInv, MemoryFits, In, Holds
  <2>7. OnTrack'
    BY <2>1, <2>3 DEF OnTrack
  <2> QED BY <2>4, <2>5, <2>6, <2>7
<1>2. CASE StartJobs
  <2>1. /\ UNCHANGED <<extract, summary, publish, entry, batch, mine, seen, outcome, ready, failed,
                       paid, lost, damaged, last>>
        /\ at' = 1 /\ phase = "summary" /\ phase' = "jobs" /\ at > Len(batch)
    BY <1>2 DEF StartJobs, Goto, LoopEnds, rows, files, memory, history
  <2>2. RowsFit' /\ PaidFits' /\ SuccessIsComplete'
    BY <1>0, <2>1, FitsKept DEF IInv
  <2>3. ClaimsFit'
    BY <1>0, <2>1 DEF IInv, ClaimsFit, Holds
  <2>4. BatchFits'
    BY <1>0, <2>1 DEF IInv, BatchFits
  <2>5. MemoryFits'
    BY <1>0, <2>1 DEF IInv, MemoryFits, In, Holds
  <2>6. OnTrack'
    <3>1. \A i \in DOMAIN batch : i < at
      BY <1>0, <2>1
    <3> QED BY <1>0, <2>1, <3>1 DEF IInv, OnTrack
  <2> QED BY <2>2, <2>3, <2>4, <2>5, <2>6
<1>3. ASSUME NEW d \in Documents, CorruptEntry(d) PROVE BatchInv'
  <2>1. /\ Preparing(d) /\ Forget /\ last' = [files |-> In(batch), status |-> "failed"]
        /\ summary' = IF ClaimsSummary(d) THEN [summary EXCEPT ![d] = "running"] ELSE summary
        /\ UNCHANGED <<extract, publish, entry, paid, lost, damaged>>
    BY <1>3 DEF CorruptEntry, files, history
  <2>2. at \in DOMAIN batch /\ d = batch[at] /\ phase = "summary" /\ seen[d] # Nothing
    BY <1>0, <2>1, LoopStands DEF Preparing, InLoop, Here
  <2>3. extract[d] = "succeeded" /\ publish[d] \in Runnable
    BY <1>0, <2>2 DEF IInv, MemoryFits, BatchFits
  <2>4. \A e \in Documents : summary'[e] = summary[e] \/ (e = d /\ summary'[e] = "running")
    BY <1>0, <2>1 DEF RowsOK
  <2>5. RowsFit'
    BY <1>0, <2>1, <2>3, <2>4 DEF IInv, RowsFit
  <2>6. ClaimsFit' /\ BatchFits' /\ MemoryFits' /\ OnTrack' /\ \A e \in Documents : outcome'[e] = "none"
    BY <2>1, ForgetFits
  <2>7. PaidFits'
    BY <1>0, <2>1, <2>2, <2>6, PaidKept DEF IInv
  <2>8. SuccessIsComplete'
    BY <2>1 DEF SuccessIsComplete
  <2> QED BY <2>5, <2>6, <2>7, <2>8
<1> QED BY <1>1, <1>2, <1>3

\* The model calls: an answer is stored, lost, or still with its thread.
LEMMA CallKeeps ==
  ASSUME IInv, \/ StartCall \/ JobsDone
               \/ \E d \in Documents : ReceiveAnswer(d) \/ StoreAnswer(d) \/ StoreFails(d) \/ CallFails(d)
  PROVE  BatchInv'
<1> USE DEF BatchInv
<1>0. /\ IInv /\ BatchOK /\ MemoryOK /\ FilesOK /\ RowsOK
      /\ \A i \in DOMAIN batch : i \in Nat /\ batch[i] \in Documents /\ batch[i] \in In(batch)
      /\ \A e, f \in In(batch) : Pdf[e] = Pdf[f] => e = f
  <2>1. IInv /\ BatchOK /\ MemoryOK /\ FilesOK /\ RowsOK
    BY DEF IInv, TypeOK
  <2> QED BY <2>1, LoopStands, OnePlace DEF IInv, In
<1>1. ASSUME NEW d \in Documents, NEW x \in {"calling", "answered", "valid", "transient", "terminal"},
             outcome[d] \in {"queued", "calling", "answered"}, outcome' = [outcome EXCEPT ![d] = x],
             phase = "jobs", \A e \in Documents : seen[e] # Nothing <=> seen'[e] # Nothing,
             UNCHANGED <<extract, summary, publish, batch, phase, at, mine, ready, failed, damaged, last>>
      PROVE  /\ ClaimsFit' /\ BatchFits' /\ MemoryFits' /\ OnTrack' /\ SuccessIsComplete'
             /\ \A e \in Documents : e # d => outcome'[e] = outcome[e]
             /\ outcome'[d] = x
  <2>1. outcome'[d] = x /\ \A e \in Documents : e # d => outcome'[e] = outcome[e]
    BY <1>0, <1>1 DEF MemoryOK
  <2>2. ClaimsFit' /\ BatchFits' /\ SuccessIsComplete'
    BY <1>0, <1>1, FitsKept DEF IInv
  <2>3. \A e \in Documents : /\ outcome[e] # "none" <=> outcome'[e] # "none"
                             /\ outcome'[e] \in Asked => outcome[e] \in Asked
    BY <1>1, <2>1 DEF Asked
  <2>4. MemoryFits'
    BY <1>0, <1>1, <2>3 DEF IInv, MemoryFits, In, Holds
  <2>5. OnTrack'
    BY <1>0, <1>1, <2>3 DEF IInv, OnTrack, Holds
  <2> QED BY <2>1, <2>2, <2>4, <2>5
<1>2. CASE StartCall
  <2> DEFINE d == batch[Min(Queued)]
  <2>1. /\ Queued # {} /\ phase = "jobs"
        /\ \/ outcome' = [outcome EXCEPT ![d] = "calling"] /\ seen' = [seen EXCEPT ![d] = TextAt(d)]
              /\ TextAt(d) # Nothing
           \/ outcome' = [outcome EXCEPT ![d] = "transient"] /\ UNCHANGED seen
        /\ UNCHANGED <<extract, summary, publish, batch, phase, at, mine, ready, failed, damaged, last,
                       paid, lost, entry>>
    BY <1>2 DEF StartCall, AsLong, rows, files, loop, history
  <2>2. d \in Documents /\ outcome[d] = "queued"
    BY <1>0, <2>1, FirstExists DEF Queued
  <2>3. seen[d] # Nothing
    BY <1>0, <2>2 DEF IInv, MemoryFits, Asked
  <2> HIDE DEF d
  <2>4. \A e \in Documents : seen[e] # Nothing <=> seen'[e] # Nothing
    BY <1>0, <2>1, <2>2, <2>3 DEF MemoryOK
  <2>5. \E x \in {"calling", "transient"} : outcome' = [outcome EXCEPT ![d] = x]
    BY <2>1
  <2>6. /\ ClaimsFit' /\ BatchFits' /\ MemoryFits' /\ OnTrack' /\ SuccessIsComplete'
        /\ \A e \in Documents : e # d => outcome'[e] = outcome[e]
        /\ outcome'[d] \in {"calling", "transient"}
    BY <1>1, <2>1, <2>2, <2>4, <2>5
  <2>7. RowsFit'
    BY <1>0, <2>1, FitsKept DEF IInv
  <2>8. PaidFits'
    BY <1>0, <2>1, <2>2, <2>6 DEF IInv, PaidFits
  <2> QED BY <2>6, <2>7, <2>8
<1>3. ASSUME NEW d \in Documents, ReceiveAnswer(d) PROVE BatchInv'
  <2>1. /\ outcome' = [outcome EXCEPT ![d] = "answered"] /\ outcome[d] = "calling"
        /\ paid' = paid \union {Pdf[d]}
        /\ UNCHANGED <<extract, summary, publish, entry, batch, phase, at, mine, seen, ready, failed, lost,
                       damaged, last>>
    BY <1>3 DEF ReceiveAnswer, rows, files, loop
  <2>2. phase = "jobs" /\ d \in In(batch)
    BY <1>0, <2>1 DEF IInv, MemoryFits
  <2>3. /\ ClaimsFit' /\ BatchFits' /\ MemoryFits' /\ OnTrack' /\ SuccessIsComplete'
        /\ \A e \in Documents : e # d => outcome'[e] = outcome[e]
        /\ outcome'[d] = "answered"
    BY <1>1, <2>1, <2>2
  <2>4. RowsFit'
    BY <1>0, <2>1, FitsKept DEF IInv
  <2>5. PaidFits'
    <3>1. ASSUME NEW p \in paid'
          PROVE  \/ entry'[p] # Nothing \/ p \in (damaged \union lost)'
                 \/ \E e \in Documents : outcome'[e] = "answered" /\ Pdf[e] = p
      <4>1. CASE p = Pdf[d]
        BY <2>3, <4>1
      <4>2. CASE p \in paid /\ p # Pdf[d]
        BY <1>0, <2>1, <2>3, <4>2 DEF IInv, PaidFits
      <4> QED BY <2>1, <4>1, <4>2
    <3>2. ASSUME NEW e \in Documents, outcome'[e] \in {"queued", "calling"}, Pdf[e] \in paid'
          PROVE  Pdf[e] \in (damaged \union lost)'
      <4>1. e # d /\ outcome[e] = outcome'[e]
        BY <2>3, <3>2
      <4>2. e \in In(batch)
        BY <1>0, <3>2, <4>1 DEF IInv, MemoryFits
      <4>3. Pdf[e] \in paid
        BY <1>0, <2>1, <2>2, <3>2, <4>1, <4>2
      <4> QED BY <1>0, <2>1, <3>2, <4>1, <4>3 DEF IInv, PaidFits
    <3> QED BY <3>1, <3>2 DEF PaidFits
  <2> QED BY <2>3, <2>4, <2>5
<1>4. ASSUME NEW d \in Documents, StoreAnswer(d) \/ StoreFails(d) PROVE BatchInv'
  <2>1. /\ \E x \in {"valid", "terminal"} : outcome' = [outcome EXCEPT ![d] = x]
        /\ outcome[d] = "answered"
        /\ UNCHANGED <<extract, summary, publish, batch, phase, at, mine, seen, ready, failed, paid, damaged, last>>
    BY <1>4 DEF StoreAnswer, StoreFails, rows, loop
  <2>2. phase = "jobs" /\ d \in In(batch) /\ seen[d] # Nothing
    BY <1>0, <2>1 DEF IInv, MemoryFits, Asked
  <2>3. /\ ClaimsFit' /\ BatchFits' /\ MemoryFits' /\ OnTrack' /\ SuccessIsComplete'
        /\ \A e \in Documents : e # d => outcome'[e] = outcome[e]
        /\ outcome'[d] \in {"valid", "terminal"}
    BY <1>1, <2>1, <2>2
  <2>4. \/ Enter(d)
        \/ lost' = lost \union {Pdf[d]} /\ UNCHANGED entry
    BY <1>4 DEF StoreAnswer, StoreFails
  <2>5. /\ entry'[Pdf[d]] # Nothing \/ Pdf[d] \in lost'
        /\ \A p \in PDFs : entry[p] # Nothing => entry'[p] # Nothing
        /\ \A p \in PDFs : p # Pdf[d] => (p \in lost <=> p \in lost')
    BY <1>0, <2>2, <2>4, Texts DEF Enter, FilesOK
  <2>6. \A e \in Documents : Pdf[e] \in PDFs
    BY Texts
  <2>7. RowsFit'
    BY <1>0, <2>1, <2>5, <2>6 DEF IInv, RowsFit
  <2>8. PaidFits'
    <3>1. \A p \in paid : p \in PDFs
      BY DEF IInv, TypeOK, CountsOK
    <3>2. ASSUME NEW p \in paid
          PROVE  \/ entry'[p] # Nothing \/ p \in (damaged \union lost)'
                 \/ \E e \in Documents : outcome'[e] = "answered" /\ Pdf[e] = p
      <4>1. CASE p = Pdf[d]
        BY <2>5, <4>1
      <4>2. CASE p # Pdf[d]
        BY <1>0, <2>1, <2>3, <2>5, <3>1, <4>2 DEF IInv, PaidFits
      <4> QED BY <4>1, <4>2
    <3>3. ASSUME NEW e \in Documents, outcome'[e] \in {"queued", "calling"}, Pdf[e] \in paid
          PROVE  Pdf[e] \in (damaged \union lost)'
      <4>1. e # d /\ outcome[e] = outcome'[e]
        BY <2>3, <3>3
      <4>2. e \in In(batch) /\ Pdf[e] \in damaged \union lost
        BY <1>0, <3>3, <4>1 DEF IInv, MemoryFits, PaidFits
      <4>3. Pdf[e] # Pdf[d]
        BY <1>0, <2>2, <4>1, <4>2
      <4> QED BY <2>1, <2>5, <2>6, <4>2, <4>3
    <3> QED BY <2>1, <3>2, <3>3 DEF PaidFits
  <2> QED BY <2>3, <2>7, <2>8
<1>5. ASSUME NEW d \in Documents, CallFails(d) PROVE BatchInv'
  <2>1. PICK x \in {"transient", "terminal"} : CallEnds(d, x)
    BY <1>5 DEF CallFails, CallTimesOut, CallErrors, AnswerRejected
  <2>2. /\ outcome' = [outcome EXCEPT ![d] = x] /\ outcome[d] = "calling"
        /\ UNCHANGED <<extract, summary, publish, batch, phase, at, mine, seen, ready, failed, damaged, last,
                       paid, lost, entry>>
    BY <2>1 DEF CallEnds, rows, files, loop, history
  <2>3. phase = "jobs"
    BY <1>0, <2>2 DEF IInv, MemoryFits
  <2>4. /\ ClaimsFit' /\ BatchFits' /\ MemoryFits' /\ OnTrack' /\ SuccessIsComplete'
        /\ \A e \in Documents : e # d => outcome'[e] = outcome[e]
        /\ outcome'[d] = x
    BY <1>1, <2>2, <2>3
  <2>5. RowsFit'
    BY <1>0, <2>2, FitsKept DEF IInv
  <2>6. PaidFits'
    BY <1>0, <2>2, <2>4 DEF IInv, PaidFits
  <2> QED BY <2>4, <2>5, <2>6
<1>6. CASE JobsDone
  <2>1. /\ UNCHANGED <<extract, summary, publish, entry, batch, mine, seen, outcome, ready, failed,
                       paid, lost, damaged, last>>
        /\ at' = 1 /\ phase = "jobs" /\ phase' = "commit" /\ Calling \union Answered = {}
    BY <1>6 DEF JobsDone, Goto, rows, files, memory, history
  <2>2. RowsFit' /\ PaidFits' /\ SuccessIsComplete'
    BY <1>0, <2>1, FitsKept DEF IInv
  <2>3. ClaimsFit'
    BY <1>0, <2>1 DEF IInv, ClaimsFit, Holds
  <2>4. BatchFits'
    BY <1>0, <2>1 DEF IInv, BatchFits
  <2>5. MemoryFits'
    <3>1. \A d \in Documents : outcome[d] \notin {"calling", "answered"}
      BY <2>1 DEF Calling, Answered
    <3> QED BY <1>0, <2>1, <3>1 DEF IInv, MemoryFits, In, Holds
  <2>6. OnTrack'
    <3>1. \A i \in DOMAIN batch : ~(i < 1)
      BY <1>0, LoopStands
    <3> QED BY <1>0, <2>1, <3>1 DEF IInv, OnTrack
  <2> QED BY <2>2, <2>3, <2>4, <2>5, <2>6
<1> QED BY <1>2, <1>3, <1>4, <1>5, <1>6

\* What was returned for each document is stored, or its failure is.
LEMMA CommitKeeps ==
  ASSUME IInv, CommitOutcome \/ SkipOutcome
  PROVE  BatchInv'
<1> USE DEF BatchInv
<1> DEFINE d == batch[at]
<1>0. /\ IInv /\ BatchOK /\ MemoryOK /\ FilesOK /\ RowsOK /\ at \in Nat /\ InLoop("commit") /\ Step
      /\ UNCHANGED <<extract, publish, batch, seen, outcome, paid, lost, damaged, last>>
  BY DEF IInv, TypeOK, BatchOK, CommitOutcome, SkipOutcome, rows, files, memory, history
<1>1. /\ at \in DOMAIN batch /\ d \in Documents /\ d \in In(batch)
      /\ phase = "commit" /\ UNCHANGED phase /\ at' = at + 1
      /\ \A i \in DOMAIN batch : i \in Nat /\ batch[i] \in Documents /\ (batch[i] = d => i = at)
  BY <1>0, LoopStands, OnePlace DEF IInv, InLoop, Here, Step
<1>2. \A i \in DOMAIN batch : (i >= at + 1 => i >= at /\ i # at) /\ (i < at + 1 => i < at \/ i = at)
  BY <1>0, <1>1
<1>3. SuccessIsComplete'
  BY <1>0, FitsKept DEF IInv
<1> HIDE DEF d
<1>4. CASE CommitOutcome
  <2>1. /\ CommitSummary(d) \/ FailSummary(d)
        /\ mine' = mine \ {<<"summary", d>>}
    BY <1>4 DEF CommitOutcome, Here, d
  <2>2. outcome[d] # "none"
    BY <2>1 DEF CommitSummary, FailSummary, RetrySummary, BlockSummary, StoreAgain
  <2>3. Holds("summary", d)
    <3>1. \E i \in DOMAIN batch : i >= at /\ batch[i] = d
      BY <1>0, <1>1 DEF d
    <3> QED BY <1>0, <1>1, <2>2, <3>1 DEF IInv, MemoryFits
  <2>4. summary[d] = "running"
    BY <1>0, <1>1, <2>3 DEF IInv, ClaimsFit
  <2>5. extract[d] = "succeeded" /\ publish[d] \in Runnable /\ d \notin ready
    <3>1. extract[d] = "succeeded"
      BY <1>0, <1>1, <2>4 DEF IInv, RowsFit, Runnable
    <3>2. publish[d] \in Runnable
      BY <1>0, <1>1 DEF IInv, BatchFits, d
    <3>3. d \notin ready
      BY <1>0, <1>1, <2>4 DEF IInv, MemoryFits
    <3> QED BY <3>1, <3>2, <3>3
  <2>6. \A e \in Documents : e # d => summary'[e] = summary[e]
    BY <1>0, <2>1 DEF CommitSummary, FailSummary, RetrySummary, BlockSummary, RowsOK
  <2>7. \A e \in Documents : /\ Holds("summary", e)' <=> Holds("summary", e) /\ e # d
                             /\ Holds("extract", e)' <=> Holds("extract", e)
                             /\ Holds("publish", e)' <=> Holds("publish", e)
    BY <2>1 DEF Holds
  <2>8. \A p \in PDFs : entry[p] # Nothing => entry'[p] # Nothing
    <3>1. UNCHANGED entry \/ entry' = [entry EXCEPT ![Pdf[d]] = IF @ = Nothing THEN seen[d] ELSE @]
      BY <2>1 DEF CommitSummary, FailSummary, RetrySummary, BlockSummary, StoreAgain
    <3> QED BY <1>0, <3>1 DEF FilesOK
  <2>9. CommitSummary(d) => /\ summary'[d] = "succeeded" /\ seen[d] # Nothing /\ entry'[Pdf[d]] # Nothing
                            /\ ready' = ready \union {d} /\ (failed => failed')
    <3> SUFFICES ASSUME CommitSummary(d)
                 PROVE  /\ summary'[d] = "succeeded" /\ seen[d] # Nothing /\ entry'[Pdf[d]] # Nothing
                        /\ ready' = ready \union {d} /\ (failed => failed')
      OBVIOUS
    <3>1. seen[d] # Nothing
      BY <1>0, <1>1 DEF CommitSummary, StoreAgain, IInv, MemoryFits, Asked
    <3>2. entry' = [entry EXCEPT ![Pdf[d]] = IF @ = Nothing THEN seen[d] ELSE @] /\ Pdf[d] \in PDFs
      BY <1>1, Texts DEF CommitSummary, StoreAgain
    <3>3. entry'[Pdf[d]] # Nothing
      BY <1>0, <3>1, <3>2 DEF FilesOK
    <3> QED BY <1>0, <1>1, <3>1, <3>3 DEF CommitSummary, ProjectSummary, RowsOK, MemoryOK
  <2>10. FailSummary(d) => /\ summary'[d] \in {"waiting", "blocked"} /\ UNCHANGED ready /\ failed' = TRUE
    BY <1>0, <1>1 DEF FailSummary, RetrySummary, BlockSummary, RowsOK
  <2>11. RowsFit'
    <3>1. \A e \in Documents : Pdf[e] \in PDFs
      BY Texts
    <3> QED BY <1>0, <1>1, <2>1, <2>5, <2>6, <2>8, <2>9, <2>10, <3>1 DEF IInv, RowsFit
  <2>12. ClaimsFit'
    BY <1>0, <1>1, <2>6, <2>7 DEF IInv, ClaimsFit
  <2>13. BatchFits'
    BY <1>0, <1>1 DEF IInv, BatchFits
  <2>14. MemoryFits'
    <3>1. \A e \in Documents : e \in ready' => summary'[e] = "succeeded" /\ seen[e] # Nothing
      BY <1>0, <2>1, <2>5, <2>6, <2>9, <2>10 DEF IInv, MemoryFits
    <3>2. ASSUME NEW e \in Documents, outcome[e] # "none", NEW i \in DOMAIN batch, i >= at + 1, batch[i] = e
          PROVE  Holds("summary", e)'
      <4>1. i >= at /\ e # d
        BY <1>1, <1>2, <3>2
      <4>2. Holds("summary", e)
        BY <1>0, <1>1, <3>2, <4>1 DEF IInv, MemoryFits
      <4> QED BY <2>7, <4>1, <4>2
    <3> QED BY <1>0, <1>1, <3>1, <3>2 DEF IInv, MemoryFits, In
  <2>15. PaidFits'
    <3>1. \A p \in paid : p \in PDFs
      BY DEF IInv, TypeOK, CountsOK
    <3> QED BY <1>0, <2>8, <3>1 DEF IInv, PaidFits
  <2>16. OnTrack'
    <3>1. CASE FailSummary(d)
      BY <2>10, <3>1 DEF OnTrack
    <3>2. CASE CommitSummary(d)
      BY <1>0, <1>1, <1>2, <2>9, <3>2 DEF IInv, OnTrack, d
    <3> QED BY <2>1, <3>1, <3>2
  <2> QED BY <1>3, <2>11, <2>12, <2>13, <2>14, <2>15, <2>16
<1>5. CASE SkipOutcome
  <2>1. UNCHANGED <<summary, entry, mine, ready, failed>> /\ outcome[d] = "none"
    BY <1>5 DEF SkipOutcome, Here, rows, files, memory, d
  <2>2. RowsFit' /\ ClaimsFit' /\ PaidFits'
    BY <1>0, <1>1, <2>1, FitsKept DEF IInv
  <2>3. BatchFits'
    BY <1>0, <1>1 DEF IInv, BatchFits
  <2>4. MemoryFits'
    BY <1>0, <1>1, <1>2, <2>1 DEF IInv, MemoryFits, In, Holds
  <2>5. OnTrack'
    BY <1>0, <1>1, <1>2, <2>1 DEF IInv, OnTrack, d
  <2> QED BY <1>3, <2>2, <2>3, <2>4, <2>5
<1> QED BY <1>4, <1>5

\* All that is ready is claimed, delivered and archived together, or nothing is.
LEMMA PublishKeeps ==
  ASSUME IInv, ClaimPublish \/ PublishGroup \/ SkipPublish \/ ArchiveSidecar
  PROVE  BatchInv'
<1> USE DEF BatchInv
<1>0. /\ IInv /\ BatchOK /\ MemoryOK /\ RowsOK /\ at \in Nat
      /\ UNCHANGED <<extract, summary, entry, batch, seen, outcome, ready, failed, paid, lost, damaged, last>>
      /\ at' = 1
      /\ phase \in {"commit", "publish", "archive"} /\ phase' \in {"publish", "archive", "complete"}
  BY DEF IInv, TypeOK, BatchOK, ClaimPublish, PublishGroup, SkipPublish, ArchiveSidecar, Goto, LoopEnds,
         rows, files, memory, history
<1>1. /\ \A i \in DOMAIN batch : i \in 1 .. Len(batch) /\ batch[i] \in Documents
      /\ Len(batch) \in Nat
  BY <1>0, LoopStands, OnePlace DEF IInv
<1>2. BatchFits'
  BY <1>0 DEF IInv, BatchFits
<1>3. MemoryFits'
  BY <1>0 DEF IInv, MemoryFits, In, Holds
<1>4. PaidFits'
  BY <1>0, FitsKept DEF IInv
<1>5. CASE ClaimPublish
  <2> DEFINE claims == {d \in ready : publish[d] \in Runnable}
  <2>1. /\ phase = "commit" /\ at > Len(batch) /\ phase' = "publish"
        /\ publish' = Move(publish, claims, "running") /\ mine' = {"publish"} \X claims
    BY <1>5 DEF ClaimPublish, LoopEnds, Goto
  <2>2. ASSUME NEW d \in ready
        PROVE  d \in claims /\ d \in Documents /\ extract[d] = "succeeded" /\ summary[d] = "succeeded"
    <3>1. d \in Documents
      BY <1>0 DEF MemoryOK
    <3>2. d \in In(batch) /\ extract[d] = "succeeded" /\ summary[d] = "succeeded"
      BY <1>0, <3>1 DEF IInv, MemoryFits
    <3>3. publish[d] \in Runnable
      BY <1>0, <2>1, <3>2 DEF IInv, BatchFits, In
    <3> QED BY <3>1, <3>2, <3>3
  <2>3. claims = ready
    BY <2>2
  <2> HIDE DEF claims
  <2>4. \A d \in Documents : publish'[d] = IF d \in ready THEN "running" ELSE publish[d]
    BY <2>1, <2>3 DEF Move
  <2>5. \A d \in Documents : /\ Holds("publish", d)' <=> d \in ready
                             /\ ~Holds("summary", d)' /\ ~Holds("extract", d)'
    BY <2>1, <2>3 DEF Holds
  <2>6. RowsFit'
    BY <1>0, <2>2, <2>4 DEF IInv, RowsFit
  <2>7. ClaimsFit'
    BY <1>0, <2>1, <2>4, <2>5 DEF ClaimsFit
  <2>8. OnTrack'
    <3>1. \A i \in DOMAIN batch : i < at
      BY <1>0, <1>1, <2>1
    <3> QED BY <1>0, <2>1, <3>1 DEF IInv, OnTrack
  <2>9. SuccessIsComplete'
    <3>1. \A d \in Documents : publish[d] = "succeeded" => publish'[d] = "succeeded"
      <4>1. \A d \in ready : publish[d] # "succeeded"
        BY <2>3 DEF claims, Runnable
      <4> QED BY <2>4, <4>1
    <3> QED BY <1>0, <3>1, FitsKept DEF IInv
  <2> QED BY <1>2, <1>3, <1>4, <2>6, <2>7, <2>8, <2>9
<1>6. CASE PublishGroup \/ SkipPublish \/ ArchiveSidecar
  <2>1. UNCHANGED publish /\ phase \in {"publish", "archive"}
    BY <1>6 DEF PublishGroup, SkipPublish, ArchiveSidecar, rows
  <2>2. RowsFit' /\ SuccessIsComplete'
    BY <1>0, <2>1, FitsKept DEF IInv
  <2>3. CASE PublishGroup \/ ArchiveSidecar
    <3>1. UNCHANGED mine /\ (phase' = "archive" \/ phase' = "complete")
      BY <2>3 DEF PublishGroup, ArchiveSidecar, Goto
    <3>2. ClaimsFit'
      BY <1>0, <2>1, <3>1 DEF IInv, ClaimsFit, Holds
    <3>3. OnTrack'
      <4>1. ASSUME ~failed, damaged = {}, NEW i \in DOMAIN batch
            PROVE  batch[i] \in ready /\ <<"publish", batch[i]>> \in mine' /\ i >= 1
        <5>1. batch[i] \in ready
          BY <1>0, <2>1, <4>1 DEF IInv, OnTrack
        <5>2. Holds("publish", batch[i])
          BY <1>0, <1>1, <2>1, <5>1 DEF IInv, ClaimsFit
        <5> QED BY <1>1, <3>1, <5>1, <5>2 DEF Holds
      <4> QED BY <1>0, <3>1, <4>1 DEF OnTrack, Holds
    <3> QED BY <1>2, <1>3, <1>4, <2>2, <3>2, <3>3
  <2>4. CASE SkipPublish
    <3>1. ~Publishable /\ mine' = {} /\ phase = "publish" /\ phase' = "complete"
      BY <2>4 DEF SkipPublish, Goto
    <3>2. Held("publish") = ready
      BY <1>0, <3>1 DEF IInv, ClaimsFit, Held, MemoryOK
    <3>3. ready = {}
      BY <3>1, <3>2 DEF Publishable
    <3>4. ClaimsFit'
      BY <3>1 DEF ClaimsFit, Holds
    <3>5. OnTrack'
      <4>1. ~failed /\ damaged = {} => DOMAIN batch = {}
        BY <1>0, <3>1, <3>3 DEF IInv, OnTrack
      <4> QED BY <1>0, <4>1 DEF OnTrack
    <3> QED BY <1>2, <1>3, <1>4, <2>2, <3>4, <3>5
  <2> QED BY <1>6, <2>3, <2>4
<1> QED BY <1>5, <1>6

\* A publication that fails is reported; one that does not is completed for
\* each document, and the batch reports success only after the last.
LEMMA CompleteKeeps ==
  ASSUME IInv, PublishFails \/ ArchiveFails \/ CompletePublish \/ FinishBatch
  PROVE  BatchInv'
<1> USE DEF BatchInv
<1>0. /\ IInv /\ BatchOK /\ MemoryOK /\ RowsOK /\ at \in Nat
      /\ UNCHANGED <<extract, summary, entry, paid, lost, damaged>>
  BY DEF IInv, TypeOK, BatchOK, PublishFails, ArchiveFails, CompletePublish, FinishBatch,
         rows, files, history
<1>1. CASE PublishFails \/ ArchiveFails
  <2>1. PICK state \in {"waiting", "blocked"} : FailPublish(state)
    BY <1>1 DEF PublishFails, ArchiveFails
  <2>2. /\ UNCHANGED <<batch, seen, outcome, ready, last>>
        /\ phase \in {"publish", "archive"}
    BY <1>1 DEF PublishFails, ArchiveFails
  <2>3. /\ mine' = {} /\ failed' = TRUE /\ phase' = "complete" /\ at' = 1
        /\ publish' = Move(publish, Held("publish"), state)
    BY <2>1 DEF FailPublish, Goto
  <2>4. \A d \in Documents : publish'[d] = publish[d] \/ (publish[d] = "running" /\ publish'[d] = state)
    BY <1>0, <2>3 DEF IInv, ClaimsFit, Move, Held
  <2>5. RowsFit'
    BY <1>0, <2>4 DEF IInv, RowsFit, Runnable
  <2>6. ClaimsFit'
    BY <2>3 DEF ClaimsFit, Holds
  <2>7. BatchFits'
    BY <1>0, <2>2, <2>3 DEF IInv, BatchFits
  <2>8. MemoryFits'
    BY <1>0, <2>2, <2>3 DEF IInv, MemoryFits, In
  <2>9. PaidFits'
    BY <1>0, <2>2, FitsKept DEF IInv
  <2>10. OnTrack'
    BY <2>3 DEF OnTrack
  <2>11. SuccessIsComplete'
    BY <1>0, <2>2, <2>4, FitsKept DEF IInv
  <2> QED BY <2>5, <2>6, <2>7, <2>8, <2>9, <2>10, <2>11
<1>2. CASE CompletePublish
  <2> DEFINE d == batch[at]
  <2>1. /\ InLoop("complete") /\ Step /\ UNCHANGED <<batch, seen, outcome, ready, failed, last>>
        /\ IF Holds("publish", d)
           THEN publish' = [publish EXCEPT ![d] = "succeeded"] /\ mine' = mine \ {<<"publish", d>>}
           ELSE UNCHANGED <<publish, mine>>
    BY <1>2 DEF CompletePublish, Here, memory
  <2>2. /\ at \in DOMAIN batch /\ d \in Documents /\ phase = "complete" /\ UNCHANGED phase /\ at' = at + 1
        /\ \A i \in DOMAIN batch : i \in Nat /\ batch[i] \in Documents /\ (batch[i] = d => i = at)
    BY <1>0, <2>1, LoopStands, OnePlace DEF IInv, InLoop, Here, Step
  <2>3. \A i \in DOMAIN batch : i >= at /\ i # at => i >= at + 1
    BY <1>0, <2>2
  <2>4. BatchFits' /\ MemoryFits'
    <3>1. BatchFits'
      BY <1>0, <2>1, <2>2 DEF IInv, BatchFits
    <3>2. MemoryFits'
      BY <1>0, <2>1, <2>2 DEF IInv, MemoryFits, In
    <3> QED BY <3>1, <3>2
  <2>5. PaidFits'
    BY <1>0, <2>1, FitsKept DEF IInv
  <2> HIDE DEF d
  <2>6. CASE Holds("publish", d)
    <3>1. publish[d] = "running" /\ publish'[d] = "succeeded"
          /\ \A e \in Documents : e # d => publish'[e] = publish[e]
      BY <1>0, <2>1, <2>2, <2>6 DEF IInv, ClaimsFit, RowsOK
    <3>2. \A e \in Documents : /\ Holds("publish", e)' <=> Holds("publish", e) /\ e # d
                               /\ Holds("summary", e)' <=> Holds("summary", e)
                               /\ Holds("extract", e)' <=> Holds("extract", e)
      BY <2>1, <2>6 DEF Holds
    <3>3. RowsFit'
      BY <1>0, <2>2, <3>1 DEF IInv, RowsFit, Runnable
    <3>4. ClaimsFit'
      BY <1>0, <2>1, <2>2, <3>1, <3>2 DEF IInv, ClaimsFit
    <3>5. OnTrack'
      <4> SUFFICES ASSUME ~failed, damaged = {}, NEW i \in DOMAIN batch
                   PROVE  publish'[batch[i]] = "succeeded" \/ (i >= at + 1 /\ <<"publish", batch[i]>> \in mine')
        BY <1>0, <2>1, <2>2 DEF OnTrack, Holds
      <4>1. publish[batch[i]] = "succeeded" \/ (i >= at /\ Holds("publish", batch[i]))
        BY <1>0, <2>2 DEF IInv, OnTrack
      <4> QED BY <2>1, <2>2, <2>3, <2>6, <3>1, <4>1 DEF Holds, d
    <3>6. SuccessIsComplete'
      BY <1>0, <2>1, <3>1, FitsKept DEF IInv
    <3> QED BY <2>4, <2>5, <3>3, <3>4, <3>5, <3>6
  <2>7. CASE ~Holds("publish", d)
    <3>1. UNCHANGED <<publish, mine>>
      BY <2>1, <2>7
    <3>2. RowsFit' /\ ClaimsFit' /\ SuccessIsComplete'
      BY <1>0, <2>1, <2>2, <3>1, FitsKept DEF IInv
    <3>3. OnTrack'
      <4> SUFFICES ASSUME ~failed, damaged = {}, NEW i \in DOMAIN batch
                   PROVE  publish[batch[i]] = "succeeded" \/ (i >= at + 1 /\ Holds("publish", batch[i]))
        BY <1>0, <2>1, <2>2, <3>1 DEF OnTrack, Holds
      <4>1. publish[batch[i]] = "succeeded" \/ (i >= at /\ Holds("publish", batch[i]))
        BY <1>0, <2>2 DEF IInv, OnTrack
      <4> QED BY <2>3, <2>7, <4>1 DEF d
    <3> QED BY <2>4, <2>5, <3>2, <3>3
  <2> QED BY <2>6, <2>7
<1>3. CASE FinishBatch
  <2>1. /\ phase = "complete" /\ at > Len(batch) /\ Forget /\ UNCHANGED publish
        /\ last' = [files |-> In(batch), status |-> Status]
    BY <1>3 DEF FinishBatch, LoopEnds, rows
  <2>2. RowsFit'
    BY <1>0, <2>1, FitsKept DEF IInv
  <2>3. ClaimsFit' /\ BatchFits' /\ MemoryFits' /\ OnTrack' /\ \A d \in Documents : outcome'[d] = "none"
    BY <2>1, ForgetFits
  <2>4. PaidFits'
    BY <1>0, <2>1, <2>3, PaidKept DEF IInv
  <2>5. SuccessIsComplete'
    <3> SUFFICES ASSUME last'.status = "success", damaged = {}, NEW d \in In(batch)
                 PROVE  publish[d] = "succeeded"
      BY <1>0, <2>1 DEF SuccessIsComplete
    <3>1. ~failed
      BY <1>0, <2>1 DEF Status, MemoryOK
    <3>2. PICK i \in DOMAIN batch : d = batch[i]
      BY DEF In
    <3>3. ~(i >= at)
      BY <1>0, <2>1, LoopStands
    <3> QED BY <1>0, <2>1, <3>1, <3>2, <3>3 DEF IInv, OnTrack
  <2> QED BY <2>2, <2>3, <2>4, <2>5
<1> QED BY <1>1, <1>2, <1>3

\* Time, a crash, a lost text or a damaged summary: what survives still fits.
LEMMA WorldKeeps ==
  ASSUME IInv,
         \/ \E d \in Documents : Elapse(d)
         \/ Crash
         \/ \E n \in Names : LoseText(n)
         \/ \E p \in PDFs : DamageEntry(p)
  PROVE  BatchInv'
<1> USE DEF BatchInv
<1>0. IInv /\ BatchOK /\ MemoryOK /\ RowsOK /\ FilesOK
  BY DEF IInv, TypeOK
<1>1. ASSUME NEW d \in Documents, Elapse(d) PROVE BatchInv'
  <2>1. UNCHANGED <<entry, phase, at, batch, mine, seen, outcome, ready, failed, last, paid, lost, damaged>>
    BY <1>1 DEF Elapse, files, loop, memory, history
  <2>2. \A e \in Documents : /\ Holds("extract", e) => extract[e] = "running"
                             /\ Holds("summary", e) => summary[e] = "running"
                             /\ Holds("publish", e) => publish[e] = "running"
    BY <1>0 DEF IInv, ClaimsFit
  <2>3. \A e \in Documents :
          /\ \/ extract'[e] = extract[e]
             \/ ~Holds("extract", e) /\ extract[e] # "succeeded" /\ extract'[e] = "due"
          /\ \/ summary'[e] = summary[e]
             \/ ~Holds("summary", e) /\ summary[e] \in {"waiting", "running"} /\ summary'[e] = "due"
          /\ \/ publish'[e] = publish[e]
             \/ ~Holds("publish", e) /\ publish[e] # "succeeded" /\ publish'[e] = "due"
    BY <1>0, <1>1, <2>2 DEF Elapse, Ripe, RowsOK
  <2>4. RowsFit'
    BY <1>0, <2>1, <2>3 DEF IInv, RowsFit, Runnable
  <2>5. ClaimsFit'
    BY <1>0, <2>1, <2>3 DEF IInv, ClaimsFit, Holds
  <2>6. BatchFits'
    <3>1. \A i \in DOMAIN batch : batch[i] \in Documents
      BY <1>0, OnePlace DEF IInv
    <3> QED BY <1>0, <2>1, <2>3, <3>1 DEF IInv, BatchFits, Runnable
  <2>7. MemoryFits'
    BY <1>0, <2>1, <2>3 DEF IInv, MemoryFits, In, Holds
  <2>8. PaidFits'
    BY <1>0, <2>1, FitsKept DEF IInv
  <2>9. OnTrack'
    <3>1. \A i \in DOMAIN batch : batch[i] \in Documents
      BY <1>0, OnePlace DEF IInv
    <3> QED BY <1>0, <2>1, <2>3, <3>1 DEF IInv, OnTrack, Holds
  <2>10. SuccessIsComplete'
    BY <1>0, <2>1, <2>3, FitsKept DEF IInv
  <2> QED BY <2>4, <2>5, <2>6, <2>7, <2>8, <2>9, <2>10
<1>2. CASE Crash
  <2>1. /\ Forget /\ lost' = lost \union {Pdf[d] : d \in Answered}
        /\ UNCHANGED <<extract, summary, publish, entry, last, paid, damaged>>
    BY <1>2 DEF Crash, rows, files
  <2>2. RowsFit' /\ SuccessIsComplete'
    BY <1>0, <2>1, FitsKept DEF IInv
  <2>3. ClaimsFit' /\ BatchFits' /\ MemoryFits' /\ OnTrack' /\ \A d \in Documents : outcome'[d] = "none"
    BY <2>1, ForgetFits
  <2>4. PaidFits'
    BY <1>0, <2>1, <2>3 DEF IInv, PaidFits, Answered
  <2> QED BY <2>2, <2>3, <2>4
<1>3. ASSUME NEW n \in Names, LoseText(n) PROVE BatchInv'
  <2>1. UNCHANGED <<extract, summary, publish, entry, phase, at, batch, mine, seen, outcome, ready, failed,
                    last, paid, lost, damaged>>
    BY <1>3 DEF LoseText, rows, loop, memory, history
  <2> QED BY <1>0, <2>1, FitsKept DEF IInv
<1>4. ASSUME NEW p \in PDFs, DamageEntry(p) PROVE BatchInv'
  <2>1. /\ UNCHANGED <<extract, summary, publish, phase, at, batch, mine, seen, outcome, ready, failed,
                       last, paid, lost>>
        /\ damaged' = damaged \union {p} /\ \A q \in PDFs : q # p => entry'[q] = entry[q]
    BY <1>0, <1>4 DEF DamageEntry, rows, loop, memory, FilesOK
  <2>2. RowsFit'
    <3>1. \A d \in Documents : Pdf[d] \in PDFs
      BY Texts
    <3> QED BY <1>0, <2>1, <3>1 DEF IInv, RowsFit
  <2>3. ClaimsFit' /\ BatchFits' /\ MemoryFits'
    BY <1>0, <2>1, FitsKept DEF IInv
  <2>4. PaidFits'
    <3>1. \A q \in paid : q \in PDFs
      BY DEF IInv, TypeOK, CountsOK
    <3> QED BY <1>0, <2>1, <3>1 DEF IInv, PaidFits
  <2>5. OnTrack' /\ SuccessIsComplete'
    BY <2>1 DEF OnTrack, SuccessIsComplete
  <2> QED BY <2>2, <2>3, <2>4, <2>5
<1> QED BY <1>1, <1>2, <1>3, <1>4

\* Initially there is no batch, no claim and no history.
LEMMA Initial == Init => IInv
<1> SUFFICES ASSUME Init PROVE IInv
  OBVIOUS
<1>1. RowsFit /\ ClaimsFit
  BY DEF Init, RowsFit, Runnable, ClaimsFit, Holds
<1>2. BatchFits /\ OnTrack
  BY DEF Init, BatchFits, OnTrack
<1>3. MemoryFits /\ PaidFits
  BY DEF Init, MemoryFits, PaidFits, Asked
<1>4. SuccessIsComplete
  BY DEF Init, SuccessIsComplete, NoBatch
<1> QED BY <1>1, <1>2, <1>3, <1>4, InitTypes DEF IInv, BatchInv

\* Every step keeps the invariant.
LEMMA Inductive == IInv /\ [Next]_vars => IInv'
<1> SUFFICES ASSUME IInv, [Next]_vars PROVE IInv'
  OBVIOUS
<1>1. TypeOK'
  BY TypesInductive DEF IInv
<1>2. CASE BatchStep
  BY <1>1, <1>2, ListKeeps, ExtractKeeps, PrepareKeeps, SummaryKeeps, CallKeeps, CommitKeeps,
     PublishKeeps, CompleteKeeps DEF BatchStep, IInv
<1>3. CASE Environment
  BY <1>1, <1>3, ExtractKeeps, CallKeeps, CompleteKeeps, WorldKeeps DEF Environment, IInv
<1>4. CASE UNCHANGED vars
  <2>1. BatchInv'
    BY <1>4, FitsKept DEF IInv, BatchInv, TypeOK, vars, rows, files, loop, memory, history
  <2> QED BY <1>1, <2>1 DEF IInv
<1> QED BY <1>2, <1>3, <1>4 DEF Next

\* In every reachable state rows, claims, memory and history fit together.
THEOREM InvariantHolds == Spec => []IInv
<1> QED BY Initial, Inductive, PTL DEF Spec

\* A stored answer is never paid for again: no model is called for a PDF whose answer
\* was stored before, whatever crashed in between, unless its committed summary was
\* lost or altered.  What a thread had received and not stored when the process died,
\* or when the disk failed, is paid for again.
THEOREM PaidForOnce == Spec => []PaidOnce
<1>1. IInv => PaidOnce
  BY DEF IInv, BatchInv, PaidFits, PaidOnce, Calling
<1> QED BY <1>1, InvariantHolds, PTL

\* A batch that reports success has published every document it listed.
THEOREM SuccessMeansPublished == Spec => []SuccessIsComplete
<1>1. IInv => SuccessIsComplete
  BY DEF IInv, BatchInv
<1> QED BY <1>1, InvariantHolds, PTL

-----------------------------------------------------------------------------
(***************************************************************************)
(* Whose text a summary is made of.  A text is found by the name of its    *)
(* file or by the bytes of the PDF; as long as no two PDFs share a name,   *)
(* both lead to the text of the report, and so does what a batch has read. *)
(***************************************************************************)
OwnNames == \A d, e \in Documents : Named[d] = Named[e] => Pdf[d] = Pdf[e]

TextsFit == \A d \in Documents :
  named[Named[d]] \in {Nothing, Pdf[d]} /\ seen[d] \in {Nothing, Pdf[d]}

\* Where a text may come from, a document finds its own or none.
LEMMA OwnTextFound ==
  ASSUME TextsFit, NEW d \in Documents
  PROVE  TextAt(d) \in {Nothing, Pdf[d]}
BY DEF TextsFit, TextAt

\* The extractor writes a text to a file that no other PDF has the name of, and the
\* batch counts the text it was given.
LEMMA TextsInductive ==
  ASSUME OwnNames, TypeOK, TextsFit, [Next]_vars
  PROVE  TextsFit'
<1>1. CASE UNCHANGED <<named, seen>>
  BY <1>1 DEF TextsFit
<1>2. CASE StartBatch
  <2>1. seen' = [d \in Documents |-> IF d \in In(Listed) /\ Rehydrated(d) THEN TextAt(d) ELSE Nothing]
        /\ named' = named
    BY <1>2 DEF StartBatch, files
  <2>2. \A d \in Documents : seen'[d] \in {Nothing, Pdf[d]}
    BY <2>1, OwnTextFound
  <2> QED BY <2>1, <2>2 DEF TextsFit
<1>3. CASE ExtractFile
  <2>1. seen' = seen
    BY <1>3 DEF ExtractFile
  <2>2. PICK d \in Documents : UNCHANGED named \/ named' = [named EXCEPT ![Named[d]] = Pdf[d]]
    BY <1>3 DEF ExtractFile, ExtractCached, ExtractNew, ExtractNoText, ExtractBreaks
  <2>3. ASSUME NEW e \in Documents PROVE named'[Named[e]] \in {Nothing, Pdf[e]}
    <3>1. named[Named[e]] \in {Nothing, Pdf[e]} /\ Named[e] \in DOMAIN named
      BY Texts DEF TextsFit, TypeOK, FilesOK
    <3>2. CASE Named[e] = Named[d]
      BY <2>2, <3>1, <3>2 DEF OwnNames
    <3>3. CASE Named[e] # Named[d]
      BY <2>2, <3>1, <3>3
    <3> QED BY <3>2, <3>3
  <2> QED BY <2>1, <2>3 DEF TextsFit
<1>4. CASE FinishExtract
  <2>1. /\ named' = named
        /\ seen' = seen \/ AcceptExtraction
    BY <1>4 DEF FinishExtract, FailExtraction
  <2>2. \A d \in Documents : seen'[d] \in {seen[d], Pdf[d], named[Named[d]]}
    BY <2>1 DEF AcceptExtraction, TextReturned, TextsFit
  <2> QED BY <2>1, <2>2 DEF TextsFit
<1>5. CASE Forget /\ UNCHANGED named
  BY <1>5 DEF Forget, TextsFit
<1>6. ASSUME NEW n \in Names, LoseText(n) PROVE TextsFit'
  <2>1. named' = [named EXCEPT ![n] = Nothing] /\ seen' = seen /\ named \in [Names -> PDFs \union {Nothing}]
    BY <1>6 DEF LoseText, memory, TypeOK, FilesOK
  <2>2. \A d \in Documents : named'[Named[d]] \in {Nothing, named[Named[d]]}
    BY <2>1, Texts
  <2> QED BY <2>1, <2>2 DEF TextsFit
<1>7. CASE StartCall
  <2>1. /\ named' = named
        /\ \E d \in Documents : UNCHANGED seen \/ seen' = [seen EXCEPT ![d] = TextAt(d)]
    <3>1. Queued \subseteq Nat /\ Queued # {}
      BY <1>7, LoopStands DEF StartCall, Queued, TypeOK
    <3>2. batch[Min(Queued)] \in Documents
      BY <3>1, FirstExists, LoopStands DEF Queued, In, TypeOK
    <3> QED BY <1>7, <3>2 DEF StartCall, files
  <2>2. \A d \in Documents : seen'[d] \in {seen[d], TextAt(d)}
    BY <2>1 DEF TypeOK, MemoryOK
  <2>3. \A d \in Documents : seen'[d] \in {Nothing, Pdf[d]}
    BY <2>2, OwnTextFound DEF TextsFit
  <2> QED BY <2>1, <2>3 DEF TextsFit
<1>8. CASE BatchStep
  <2>1. CASE CorruptEntry(Here) \/ (\E d \in Documents : CorruptEntry(d)) \/ FinishBatch
    BY <1>5, <2>1 DEF CorruptEntry, FinishBatch, files
  <2> QED BY <1>1, <1>2, <1>3, <1>4, <1>7, <1>8, <2>1 DEF BatchStep, RejectBatch, SkipFile, PrepareSummary,
          SkipSummary, StartJobs, ReceiveAnswer, StoreAnswer, JobsDone, CommitOutcome, SkipOutcome, ClaimPublish,
          PublishGroup, SkipPublish, ArchiveSidecar, ArchiveFails, CompletePublish, memory, files
<1>9. CASE Environment
  BY <1>1, <1>5, <1>6, <1>9 DEF Environment, Elapse, CallFails, CallTimesOut, CallErrors, AnswerRejected,
     CallEnds, StoreFails, ExtractorDies, FailExtraction, PublishFails, Crash, DamageEntry, memory, files
<1> QED BY <1>1, <1>8, <1>9 DEF Next, vars, files, memory

\* A summary is stored under the bytes of a PDF with what the batch had read for it.
LEMMA EntriesInductive ==
  ASSUME TypeOK, TextsFit, SummaryIsOfItsReport, [Next]_vars
  PROVE  SummaryIsOfItsReport'
<1> SUFFICES ASSUME NEW p \in PDFs, entry'[p] \in PDFs PROVE entry'[p] = p
  BY DEF SummaryIsOfItsReport
<1>1. entry \in [PDFs -> PDFs \union {Nothing, Corrupt}] /\ (entry[p] \in PDFs => entry[p] = p)
  BY DEF TypeOK, FilesOK, SummaryIsOfItsReport
<1>2. CASE UNCHANGED entry
  BY <1>1, <1>2
<1>3. ASSUME NEW d \in Documents, entry' = [entry EXCEPT ![Pdf[d]] = seen[d]]
      PROVE  entry'[p] = p
  <2>1. seen[d] \in {Nothing, Pdf[d]} /\ Nothing \notin PDFs /\ Pdf[d] \in PDFs
    BY Texts DEF TextsFit
  <2> QED BY <1>1, <1>3, <2>1
<1>4. ASSUME NEW d \in Documents, ReceiveAnswer(d) \/ StoreAnswer(d) \/ StoreFails(d) PROVE entry'[p] = p
  BY <1>2, <1>3, <1>4 DEF ReceiveAnswer, StoreAnswer, StoreFails, Enter, files
<1>5. CASE CommitOutcome
  <2>1. Here \in Documents
    BY <1>5, LoopStands DEF CommitOutcome, TypeOK
  <2>2. UNCHANGED entry \/ entry' = [entry EXCEPT ![Pdf[Here]] = seen[Here]]
    <3>1. CASE StoreAgain(Here)
      <4>1. entry' = [entry EXCEPT ![Pdf[Here]] = IF entry[Pdf[Here]] = Nothing THEN seen[Here] ELSE entry[Pdf[Here]]]
        BY <3>1 DEF StoreAgain
      <4> QED BY <1>1, <4>1
    <3> QED BY <1>5, <3>1 DEF CommitOutcome, CommitSummary, FailSummary, RetrySummary, BlockSummary
  <2> QED BY <1>2, <1>3, <2>1, <2>2
<1>6. ASSUME NEW q \in PDFs, DamageEntry(q) PROVE entry'[p] = p
  <2>1. PICK x \in {Nothing, Corrupt} : entry' = [entry EXCEPT ![q] = x]
    BY <1>6 DEF DamageEntry
  <2>2. CASE p = q
    <3>1. entry'[p] = x /\ x \notin PDFs
      BY <1>1, <2>1, <2>2, ProcessingAssumption
    <3> QED BY <3>1
  <2>3. CASE p # q
    BY <1>1, <2>1, <2>3
  <2> QED BY <2>2, <2>3
<1>7. CASE BatchStep
  BY <1>2, <1>4, <1>5, <1>7 DEF BatchStep, StartBatch, RejectBatch, ExtractFile, SkipFile, FinishExtract,
     PrepareSummary, SkipSummary, StartJobs, CorruptEntry, StartCall, JobsDone, SkipOutcome, ClaimPublish,
     PublishGroup, SkipPublish, ArchiveSidecar, ArchiveFails, CompletePublish, FinishBatch, files
<1>8. CASE Environment
  BY <1>2, <1>4, <1>6, <1>8 DEF Environment, Elapse, CallFails, CallTimesOut, CallErrors, AnswerRejected, CallEnds,
     ExtractorDies, PublishFails, Crash, LoseText, files
<1> QED BY <1>2, <1>7, <1>8 DEF Next, vars, files

\* A committed summary is made of the text of its own report, whatever is lost,
\* damaged, cut off or tried again, as long as no two PDFs share the name of their
\* text; ProcessingOneName.cfg shows that this condition is needed.
THEOREM SummariesAreTheirOwn ==
  ASSUME OwnNames
  PROVE  Spec => []SummaryIsOfItsReport
<1>1. Init => TextsFit /\ SummaryIsOfItsReport
  BY ProcessingAssumption, Texts DEF Init, TextsFit, SummaryIsOfItsReport
<1>2. TypeOK /\ TextsFit /\ SummaryIsOfItsReport /\ [Next]_vars => (TextsFit /\ SummaryIsOfItsReport)'
  BY TextsInductive, EntriesInductive
<1> QED BY <1>1, <1>2, TypeCorrect, PTL DEF Spec
=============================================================================
