----------------------- MODULE AfterPublicationProofs -----------------------
(***************************************************************************)
(* Proofs about what follows a publication, for all values of the          *)
(* constants.  NotificationOutbox: nothing counts as sent that is not in   *)
(* the chat, and no conclusion overtakes a document.  EvidenceIndex: the   *)
(* full-text index shows what was accepted, and what was accepted gives    *)
(* way only to what the writer of the summaries names.                     *)
(***************************************************************************)
EXTENDS NotificationOutbox, EvidenceIndex, FiniteSetTheorems, FunctionTheorems, SequenceTheorems,
        WellFoundedInduction, TLAPS

(***************************************************************************)
(* The inductive invariant of the outbox: what the process remembers of    *)
(* Lark's answer is about the notice it has claimed, and that stands in    *)
(* the chat.                                                               *)
(***************************************************************************)
AnswerFits == accepted => claim # None /\ claim \in InChat

IInv == TypeOK /\ SettledHonestly /\ AnswerFits

-----------------------------------------------------------------------------
\* A new row gets the next number, which is one of those there are.
LEMMA InsertTypes ==
  ASSUME TypeOK, NEW n \in Notices, Insert(n)
  PROVE  /\ status' = [status EXCEPT ![n] = "queued"]
         /\ status' \in [Notices -> Statuses]
         /\ number' \in [Notices -> 0 .. Cardinality(Notices)]
         /\ status[n] = "absent"
<1>1. Rows \subseteq Notices /\ n \notin Rows
  BY DEF Rows, Insert
<1>2. IsFiniteSet(Rows \union {n}) /\ IsFiniteSet(Rows)
  BY <1>1, NoticesAreFinite, FS_Subset
<1>3. Cardinality(Rows \union {n}) = Cardinality(Rows) + 1
  BY <1>1, <1>2, FS_AddElement
<1>4. Cardinality(Rows \union {n}) <= Cardinality(Notices)
  BY <1>1, NoticesAreFinite, FS_Subset
<1>5. Cardinality(Rows) \in Nat /\ Cardinality(Notices) \in Nat
  BY <1>2, NoticesAreFinite, FS_CardinalityType
<1>6. Cardinality(Rows) + 1 \in 0 .. Cardinality(Notices)
  BY <1>3, <1>4, <1>5
<1>7. status' \in [Notices -> Statuses]
  BY DEF Insert, TypeOK, Statuses, Active
<1>8. number' \in [Notices -> 0 .. Cardinality(Notices)]
  BY <1>6 DEF Insert, TypeOK
<1> QED BY <1>7, <1>8 DEF Insert

\* A message that is shown stands in the chat, behind what stood there before.
LEMMA ShownKeeps ==
  ASSUME chat \in Seq(Notices), NEW n \in Notices, Shown(n)
  PROVE  /\ chat' \in Seq(Notices)
         /\ InChat' = InChat \union {n}
<1>1. CASE n \in InChat
  BY <1>1 DEF Shown, InChat
<1>2. CASE n \notin InChat
  <2>1. chat' = Append(chat, n) /\ chat' \in Seq(Notices)
    BY <1>2 DEF Shown
  <2>2. /\ Len(chat') = Len(chat) + 1 /\ Len(chat) \in Nat
        /\ \A i \in 1 .. Len(chat) : chat'[i] = chat[i]
        /\ chat'[Len(chat) + 1] = n
    BY <2>1
  <2>3. \A i \in 1 .. Len(chat') : i \in 1 .. Len(chat) \/ i = Len(chat) + 1
    BY <2>2
  <2>4. Len(chat) + 1 \in 1 .. Len(chat') /\ 1 .. Len(chat) \subseteq 1 .. Len(chat')
    BY <2>2
  <2>5. InChat' \subseteq InChat \union {n}
    BY <2>2, <2>3 DEF InChat
  <2>6. InChat \union {n} \subseteq InChat'
    BY <2>2, <2>4 DEF InChat
  <2> QED BY <2>1, <2>5, <2>6
<1> QED BY <1>1, <1>2

\* A row that is settled or put off is no longer claimed.
LEMMA SettleTypes ==
  ASSUME IInv, claim # None, NEW result \in {"retry_wait", "failed", "sent"}, Settle(result)
  PROVE  /\ claim \in Notices /\ claim' = None /\ ~accepted'
         /\ status' = [status EXCEPT ![claim] = result]
         /\ status' \in [Notices -> Statuses]
         /\ waiting' \subseteq {n \in Notices : status'[n] \in {"retry_wait", "running"}}
<1>1. claim \in Notices /\ status \in [Notices -> Statuses]
  BY DEF IInv, TypeOK
<1>2. status' = [status EXCEPT ![claim] = result] /\ claim' = None /\ ~accepted'
  BY DEF Settle
<1>3. status' \in [Notices -> Statuses]
  BY <1>1, <1>2 DEF Statuses, Active
<1>4. \A n \in waiting' : n \in Notices /\ status'[n] \in {"retry_wait", "running"}
  BY <1>1, <1>2 DEF Settle, IInv, TypeOK
<1> QED BY <1>1, <1>2, <1>3, <1>4

-----------------------------------------------------------------------------
(* Every step keeps the invariant.                                         *)

\* Producers insert and supersede rows nobody is sending.
LEMMA ProduceKeeps ==
  ASSUME IInv, Produce
  PROVE  IInv'
<1>0. TypeOK /\ SettledHonestly /\ AnswerFits
  BY DEF IInv
<1>1. ASSUME NEW n \in Notices, Insert(n), UNCHANGED <<waiting, claim, accepted, chat>>,
             announced' \in RunNotices \union {None}
      PROVE  IInv'
  <2>1. /\ status' = [status EXCEPT ![n] = "queued"] /\ status' \in [Notices -> Statuses]
        /\ number' \in [Notices -> 0 .. Cardinality(Notices)] /\ status[n] = "absent"
    BY <1>0, <1>1, InsertTypes
  <2>2. \A m \in Notices : status'[m] # status[m] => m = n /\ status'[m] = "queued"
    BY <1>0, <2>1 DEF TypeOK
  <2>3. n \notin waiting /\ (claim # None => claim # n)
    BY <1>0, <2>1 DEF TypeOK
  <2>4. TypeOK'
    BY <1>0, <1>1, <2>1, <2>2, <2>3 DEF TypeOK, RunNotices
  <2>5. SettledHonestly' /\ AnswerFits'
    BY <1>0, <1>1, <2>2 DEF SettledHonestly, AnswerFits, InChat
  <2> QED BY <2>4, <2>5 DEF IInv
<1>2. ASSUME NEW n \in Notices, Enqueue(n), UNCHANGED <<status, number>>
      PROVE  IInv'
  BY <1>0, <1>2 DEF Enqueue, IInv, TypeOK, SettledHonestly, AnswerFits, InChat, RunNotices
<1>3. ASSUME NEW n \in Notices, Enqueue(n), Insert(n)
      PROVE  IInv'
  BY <1>0, <1>1, <1>3 DEF Enqueue, TypeOK
<1>4. ASSUME NEW n \in Notices, SupersedePending(n)
      PROVE  IInv'
  <2>1. /\ claim = None /\ n \in RunNotices /\ announced' = n
        /\ status' = [m \in Notices |-> IF m \in Stale THEN "superseded" ELSE status[m]]
        /\ waiting' = waiting \ Stale /\ UNCHANGED <<number, claim, accepted, chat>>
    BY <1>4 DEF SupersedePending, RunNotices
  <2>2. status' \in [Notices -> Statuses]
    BY <1>0, <2>1 DEF TypeOK, Statuses
  <2>3. \A m \in waiting' : m \in Notices /\ status'[m] = status[m]
    BY <1>0, <2>1 DEF TypeOK
  <2>4. TypeOK'
    BY <1>0, <2>1, <2>2, <2>3 DEF TypeOK, RunNotices
  <2>5. SettledHonestly' /\ AnswerFits'
    BY <1>0, <2>1 DEF SettledHonestly, AnswerFits, InChat, Stale, RunNotices
  <2> QED BY <2>4, <2>5 DEF IInv
<1>5. CASE EnqueueTerminal
  <2>1. announced \in Notices
    BY <1>0, <1>5 DEF EnqueueTerminal, TypeOK, RunNotices
  <2> QED BY <1>1, <1>5, <2>1 DEF EnqueueTerminal
<1> QED BY <1>2, <1>3, <1>4, <1>5 DEF Produce, Enqueue

\* The drainer settles what it claimed.
LEMMA DrainKeeps ==
  ASSUME IInv, Drain
  PROVE  IInv'
<1>0. TypeOK /\ SettledHonestly /\ AnswerFits
  BY DEF IInv
<1>1. ASSUME NEW n \in Notices, ClaimDue(n)
      PROVE  IInv'
  <2>1. /\ status' = [status EXCEPT ![n] = "running"] /\ waiting' = waiting \union {n}
        /\ claim' = n /\ claim = None /\ status[n] \in Active
        /\ UNCHANGED <<number, accepted, announced, chat>>
    BY <1>1 DEF ClaimDue, Due
  <2>2. status' \in [Notices -> Statuses]
    BY <1>0, <2>1 DEF TypeOK, Statuses, Active
  <2>3. \A m \in waiting' : m \in Notices /\ status'[m] \in {"retry_wait", "running"}
    BY <1>0, <2>1 DEF TypeOK
  <2>4. status'[n] = "running"
    BY <1>0, <2>1 DEF TypeOK
  <2>5. TypeOK'
    BY <1>0, <2>1, <2>2, <2>3, <2>4 DEF TypeOK, RunNotices
  <2>6. SettledHonestly' /\ AnswerFits'
    BY <1>0, <2>1 DEF TypeOK, SettledHonestly, AnswerFits, InChat
  <2> QED BY <2>5, <2>6 DEF IInv
<1>2. ASSUME claim # None, NEW result \in {"retry_wait", "failed", "sent"}, Settle(result),
             UNCHANGED <<number, announced>>,
             UNCHANGED chat \/ Shown(claim),
             result = "sent" => claim \in InChat
      PROVE  IInv'
  <2>1. /\ claim \in Notices /\ claim' = None /\ ~accepted' /\ accepted' \in BOOLEAN
        /\ status' = [status EXCEPT ![claim] = result] /\ status' \in [Notices -> Statuses]
        /\ waiting' \subseteq {n \in Notices : status'[n] \in {"retry_wait", "running"}}
    BY <1>2, SettleTypes DEF Settle
  <2>2. chat' \in Seq(Notices) /\ InChat \subseteq InChat'
    BY <1>0, <1>2, <2>1, ShownKeeps DEF TypeOK, InChat
  <2>3. TypeOK'
    BY <1>0, <1>2, <2>1, <2>2 DEF TypeOK, RunNotices
  <2>4. SettledHonestly' /\ AnswerFits'
    BY <1>0, <1>2, <2>1, <2>2 DEF TypeOK, SettledHonestly, AnswerFits
  <2> QED BY <2>3, <2>4 DEF IInv
<1>3. CASE Send
  <2>1. claim \in Notices /\ Shown(claim) /\ UNCHANGED <<table, claim, announced>> /\ accepted'
    BY <1>0, <1>3 DEF Send, TypeOK
  <2>2. chat' \in Seq(Notices) /\ InChat' = InChat \union {claim}
    BY <1>0, <2>1, ShownKeeps DEF TypeOK
  <2>3. TypeOK'
    BY <1>0, <1>3, <2>1, <2>2 DEF Send, TypeOK, RunNotices, table
  <2>4. SettledHonestly' /\ AnswerFits'
    BY <1>0, <1>3, <2>1, <2>2 DEF Send, SettledHonestly, AnswerFits, table
  <2> QED BY <2>3, <2>4 DEF IInv
<1>4. CASE Defer
  BY <1>2, <1>4 DEF Defer
<1>5. CASE SendFails
  BY <1>2, <1>5 DEF SendFails
<1>6. CASE Complete
  BY <1>0, <1>2, <1>6 DEF Complete, AnswerFits
<1> QED BY <1>1, <1>3, <1>4, <1>5, <1>6 DEF Drain

\* An empty outbox.
THEOREM Initial == Init => IInv
<1> SUFFICES ASSUME Init PROVE IInv
  OBVIOUS
<1>1. Cardinality(Notices) \in Nat
  BY NoticesAreFinite, FS_CardinalityType
<1>2. number \in [Notices -> 0 .. Cardinality(Notices)]
  BY <1>1 DEF Init
<1>3. status \in [Notices -> Statuses] /\ chat \in Seq(Notices)
  BY DEF Init, Statuses
<1>4. TypeOK
  BY <1>2, <1>3 DEF Init, TypeOK
<1> QED BY <1>4 DEF Init, IInv, SettledHonestly, AnswerFits

\* Every step keeps the invariant.
THEOREM Inductive == IInv /\ [Next]_vars => IInv'
<1> SUFFICES ASSUME IInv, [Next]_vars PROVE IInv'
  OBVIOUS
<1>1. CASE Produce
  BY <1>1, ProduceKeeps
<1>2. CASE Drain
  BY <1>2, DrainKeeps
<1>3. CASE Crash
  BY <1>3 DEF Crash, IInv, TypeOK, SettledHonestly, AnswerFits, InChat, RunNotices, table
<1>4. ASSUME NEW n \in Notices, Ripen(n)
      PROVE  IInv'
  BY <1>4 DEF Ripen, IInv, TypeOK, SettledHonestly, AnswerFits, InChat, RunNotices
<1>5. CASE UNCHANGED vars
  BY <1>5 DEF vars, table, IInv, TypeOK, SettledHonestly, AnswerFits, InChat, RunNotices
<1> QED BY <1>1, <1>2, <1>3, <1>4, <1>5 DEF Next

\* The inductive invariant holds in every state of the outbox.
THEOREM InvariantHolds == Spec => []IInv
BY Initial, Inductive, PTL DEF Spec

-----------------------------------------------------------------------------
\* A row is always in one of its states, and the one the drainer has in hand is
\* running.
THEOREM TypeCorrect == Spec => []TypeOK
<1>1. IInv => TypeOK
  BY DEF IInv
<1> QED BY <1>1, InvariantHolds, PTL

\* complete_notification and supersede_pending_notifications lose nothing: a row
\* counts as sent only if its message is in the chat, and only a run conclusion
\* is ever given up for a newer one.
THEOREM SettlingIsHonest == Spec => []SettledHonestly
<1>1. IInv => SettledHonestly
  BY DEF IInv
<1> QED BY <1>1, InvariantHolds, PTL

\* What the step that shows a conclusion finds in the table.
LEMMA ShownConclusions ==
  ASSUME IInv, [Next]_vars
  PROVE  DocumentsFirst
<1> SUFFICES ASSUME NEW n \in Conclusions, n \notin InChat, n \in InChat',
                    NEW m \in Documents
             PROVE  status[m] = "absent" \/ status[m] \in {"sent", "failed"}
  BY DEF DocumentsFirst, InChat
<1>1. chat' # chat
  BY DEF InChat
<1>2. claim # None /\ MayBeSent /\ Shown(claim)
  BY <1>1 DEF Next, Produce, Drain, Enqueue, SupersedePending, EnqueueTerminal, ClaimDue, Defer,
              Send, SendFails, Complete, Crash, Ripen, vars
<1>3. n = claim
  <2>1. claim \in Notices /\ chat \in Seq(Notices)
    BY <1>2 DEF IInv, TypeOK
  <2>2. InChat' = InChat \union {claim}
    BY <1>2, <2>1, ShownKeeps
  <2> QED BY <2>2
<1>4. m # claim /\ PendingDocuments(claim) = {}
  BY <1>2, <1>3 DEF MayBeSent, Conclusions, Documents
<1>5. status[m] \notin Active
  BY <1>4 DEF PendingDocuments
<1>6. status[m] \in Statuses /\ status[m] # "superseded"
  BY DEF IInv, TypeOK, SettledHonestly, Documents
<1> QED BY <1>5, <1>6 DEF Statuses

\* NotificationDrainer.drain shows a conclusion only after every document notice
\* that was enqueued before has been delivered or has failed for good, for any
\* notices, crashes and lost answers.
THEOREM ConclusionsComeLast == Spec => DocumentsBeforeConclusions
<1>1. IInv /\ [Next]_vars => [DocumentsFirst]_vars
  BY ShownConclusions
<1> QED BY <1>1, InvariantHolds, PTL DEF Spec, DocumentsBeforeConclusions

-----------------------------------------------------------------------------
(***************************************************************************)
(* The inductive invariant of the index.  A state that is ready was read   *)
(* from a file no older than its signature says, and that file has kept    *)
(* its text if it has kept its stamp; each row of the catalogue belongs to *)
(* a state that is ready.  Both hold of the tables and of what an open     *)
(* transaction will write, which keeps what was accepted.                  *)
(***************************************************************************)
StateFits(state, file) == state.status = "ready" =>
  /\ state.labels = state.signature[3]
  /\ state.signature[1] # 0
  /\ file.stamp = state.signature[1] => file.text = state.text

OwnedFit(states, found) == \A id \in DOMAIN found : found[id].owned =>
  LET state == states[found[id].report]
  IN  /\ state.status = "ready" /\ state.rowid = id
      /\ found[id].text = state.text /\ found[id].labels = state.labels

KeepsAccepted(old, new) == old.text # Nothing => new.text = old.text /\ new.labels = old.labels

FilesFit == \A r \in Reports : summary[r].text = Nothing <=> summary[r].stamp = 0

TablesFit ==
  /\ \A r \in Reports : StateFits(evidence[r], summary[r])
  /\ OwnedFit(evidence, search)

\* Whose files are being read.
Reading == Settling \union {"reading"}

\* What the worker remembers of a report and its files, or of all of them.
AtReport == {"persist", "publish", "archive", "note", "enrich", "relabel", "load", "indexing", "noting"}

\* Does the signature say what the entry and its summary say?
Signed(sig, r, line) ==
  /\ sig[3] = line.labels
  /\ line.path /\ sig[1] = 0 => summary[r].text = Nothing

LookFits == Signed(job.sig, job.report, job.lines[job.report])

JobFits ==
  /\ job.step \in AtReport \union Reading => job.report \in Reports
  /\ job.step \in Reading \union {"catalog"} => job.lines \in [Reports -> Lines]
  /\ job.step \in Reading => LookFits
  /\ job.step = "reading" => job.report \notin job.todo
  /\ job.step \in {"notes", "noting"} => job.known \in [Reports -> Stamps \X Stamps]

\* Reports the open transaction has not come to.
Ahead == job.todo \union IF job.step = "reading" THEN {job.report} ELSE {}

PendingFits == job.pending # <<>> =>
  /\ job.step \in {"catalog", "reading"}
  /\ OwnedFit(job.pending[1], job.pending[2])
  /\ \A r \in Reports : /\ StateFits(job.pending[1][r], summary[r])
                        /\ KeepsAccepted(evidence[r], job.pending[1][r])
  /\ \A r \in Ahead : job.pending[1][r] = evidence[r]

IndexInv == IndexTypeOK /\ FilesFit /\ TablesFit /\ JobFits /\ PendingFits

-----------------------------------------------------------------------------
(* The search table                                                        *)

\* A finite set of numbers has a largest one.
LEMMA LargestExists ==
  ASSUME NEW S, S \subseteq Nat, IsFiniteSet(S), S # {}
  PROVE  \E m \in S : \A x \in S : x <= m
<1> DEFINE Above(x) == {y \in S : x < y}
           Counts == {Cardinality(Above(x)) : x \in S}
           Less == OpToRel(<, Nat)
<1>1. ASSUME NEW x \in S PROVE IsFiniteSet(Above(x)) /\ Cardinality(Above(x)) \in Nat
  BY <1>1, FS_Subset, FS_CardinalityType
<1>2. Counts \subseteq Nat /\ Counts # {}
  BY <1>1
<1>3. PICK least \in Counts : \A c \in Counts : <<c, least>> \notin Less
  <2>1. IsWellFoundedOn(Less, Nat)
    BY NatLessThanWellFounded DEF Less
  <2> HIDE DEF Counts, Less
  <2> QED BY <1>2, <2>1, WFMin
<1>4. PICK m \in S : least = Cardinality(Above(m))
  BY <1>3
<1>5. ASSUME NEW x \in S, m < x PROVE FALSE
  <2>1. Above(x) \subseteq Above(m) /\ x \in Above(m) /\ x \notin Above(x)
    <3>1. \A y \in S : y \in Nat
      OBVIOUS
    <3>2. \A y \in S : x < y => m < y
      BY <1>5, <3>1
    <3>3. Above(x) \subseteq Above(m)
      BY <3>2
    <3>4. x \in Above(m)
      BY <1>5
    <3>5. ~(x < x)
      BY <3>1, <1>5
    <3>6. x \notin Above(x)
      BY <3>5
    <3> QED BY <3>3, <3>4, <3>6
  <2>2. Cardinality(Above(x)) < Cardinality(Above(m))
    <3>1. Above(x) \in SUBSET Above(m) /\ Above(x) # Above(m)
      BY <2>1
    <3>2. IsFiniteSet(Above(m)) /\ Cardinality(Above(m)) \in Nat /\ Cardinality(Above(x)) \in Nat
      BY <1>1
    <3> HIDE DEF Above
    <3> QED BY <3>1, <3>2, FS_Subset
  <2>3. <<Cardinality(Above(x)), least>> \in Less
    <3>1. Cardinality(Above(x)) \in Nat /\ Cardinality(Above(m)) \in Nat
      BY <1>1
    <3> HIDE DEF Above
    <3> QED BY <1>4, <2>2, <3>1 DEF OpToRel
  <2> QED BY <1>3, <2>3
<1> QED BY <1>5

\* A new row has an id that no row has.
LEMMA NextRowIsNew ==
  ASSUME NEW found, IsTable(found)
  PROVE  NextRow(found) \in Nat \ {0} /\ \A id \in DOMAIN found : id < NextRow(found)
<1>1. CASE DOMAIN found = {}
  BY <1>1 DEF NextRow
<1>2. CASE DOMAIN found # {}
  <2>1. DOMAIN found \subseteq Nat /\ IsFiniteSet(DOMAIN found)
    BY DEF IsTable
  <2>2. \E m \in DOMAIN found : \A x \in DOMAIN found : x <= m
    BY <1>2, <2>1, LargestExists
  <2>3. \E m \in DOMAIN found : \A x \in DOMAIN found : m >= x
    BY <2>1, <2>2
  <2>4. Max(DOMAIN found) \in DOMAIN found /\ \A x \in DOMAIN found : Max(DOMAIN found) >= x
    BY <2>3 DEF Max
  <2> DEFINE top == Max(DOMAIN found)
  <2>5. NextRow(found) = 1 + top
    BY <1>2 DEF NextRow
  <2> HIDE DEF top
  <2> QED BY <2>1, <2>4, <2>5 DEF top
<1> QED BY <1>1, <1>2

\* Rows are taken out of a table,
LEMMA WithoutIs ==
  ASSUME NEW found, IsTable(found), NEW ids
  PROVE  /\ IsTable(Without(found, ids)) /\ DOMAIN Without(found, ids) = DOMAIN found \ ids
         /\ \A id \in DOMAIN found \ ids : Without(found, ids)[id] = found[id]
<1>1. IsFiniteSet(DOMAIN found \ ids)
  BY FS_Subset DEF IsTable
<1> QED BY <1>1 DEF IsTable, Without

\* one row is put behind the others,
LEMMA WithIs ==
  ASSUME NEW found, IsTable(found), NEW record \in SearchRows
  PROVE  /\ IsTable(With(found, record)) /\ NextRow(found) \notin DOMAIN found /\ NextRow(found) \in Nat
         /\ DOMAIN With(found, record) = DOMAIN found \union {NextRow(found)}
         /\ \A id \in DOMAIN found : With(found, record)[id] = found[id]
         /\ With(found, record)[NextRow(found)] = record
<1>1. NextRow(found) \in Nat \ {0} /\ NextRow(found) \notin DOMAIN found
  BY NextRowIsNew DEF IsTable
<1>2. IsFiniteSet(DOMAIN found \union {NextRow(found)})
  BY FS_AddElement DEF IsTable
<1> HIDE DEF NextRow
<1> QED BY <1>1, <1>2 DEF IsTable, With

\* or one for each of several notes.
LEMMA FilledIs ==
  ASSUME NEW found, IsTable(found), NEW labels, DOMAIN labels \subseteq Reports,
         \A r \in DOMAIN labels : labels[r] \in Labels \union {Nothing}
  PROVE  /\ IsTable(Filled(found, labels))
         /\ \A id \in DOMAIN Filled(found, labels) :
              Filled(found, labels)[id].owned => id \in DOMAIN found /\ Filled(found, labels)[id] = found[id]
<1> DEFINE before(r) == {q \in DOMAIN labels : q < r}
           place(r) == NextRow(found) + Cardinality(before(r))
           owner(id) == CHOOSE r \in DOMAIN labels : place(r) = id
           places == {place(r) : r \in DOMAIN labels}
<1>1. Filled(found, labels) = [id \in DOMAIN found \union places |->
         IF id \in DOMAIN found THEN found[id] ELSE NoteRow(owner(id), labels[owner(id)])]
  BY DEF Filled
<1>2. IsFiniteSet(DOMAIN labels)
  BY EvidenceAssumption, FS_Subset
<1>3. ASSUME NEW r \in DOMAIN labels PROVE place(r) \in Nat \ {0}
  <2>1. IsFiniteSet(before(r))
    BY <1>2, FS_Subset
  <2>2. Cardinality(before(r)) \in Nat
    BY <2>1, FS_CardinalityType
  <2>3. NextRow(found) \in Nat \ {0}
    BY NextRowIsNew
  <2> HIDE DEF before
  <2> QED BY <2>2, <2>3
<1> HIDE DEF place
<1>4. IsFiniteSet(places)
  <2> DEFINE f == [r \in DOMAIN labels |-> place(r)]
  <2>1. f \in Surjection(DOMAIN labels, places)
    BY Fun_IsSurj
  <2> QED BY <1>2, <2>1, FS_Surjection
<1>5. IsFiniteSet(DOMAIN found \union places)
  BY <1>4, FS_Union DEF IsTable
<1>6. ASSUME NEW id \in places PROVE owner(id) \in DOMAIN labels
  BY <1>6
<1>7. ASSUME NEW id \in places
      PROVE  NoteRow(owner(id), labels[owner(id)]) \in SearchRows /\ ~NoteRow(owner(id), labels[owner(id)]).owned
  BY <1>6, <1>7 DEF NoteRow, SearchRows
<1> HIDE DEF owner
<1>8. \A id \in places : id \in Nat \ {0}
  BY <1>3
<1> HIDE DEF places
<1> QED BY <1>1, <1>5, <1>7, <1>8 DEF IsTable

\* Rows of notes may come and go, and any rows be dropped.
LEMMA OwnedKept ==
  ASSUME NEW states, NEW found, OwnedFit(states, found), NEW more,
         \A id \in DOMAIN more : more[id].owned => id \in DOMAIN found /\ more[id] = found[id]
  PROVE  OwnedFit(states, more)
BY DEF OwnedFit

\* What is refreshed fits its file and its row, other rows stay as they are, and
\* what was accepted gives way only to a text that is named and found in the file.
Renewed(new, r, expected, states) ==
  /\ new.state \in States /\ IsTable(new.found)
  /\ StateFits(new.state, summary[r])
  /\ OwnedFit([states EXCEPT ![r] = new.state], new.found)
  /\ evidence[r].text # Nothing =>
       \/ new.state.text = evidence[r].text /\ new.state.labels = evidence[r].labels
       \/ new.state.text = expected /\ summary[r].text = expected /\ expected # Nothing

\* That is what refreshing does.
LEMMA RefreshedFits ==
  ASSUME IndexTypeOK, NEW r \in Reports, NEW line \in Lines, NEW sig \in Signatures, Signed(sig, r, line),
         NEW expected \in Texts \union {Nothing}, NEW unread \in BOOLEAN, NEW found, IsTable(found),
         NEW states \in [Reports -> States], states[r] = evidence[r], OwnedFit(states, found)
  PROVE  Renewed(Refreshed(r, line, sig, expected, unread, found), r, expected, states)
<1> DEFINE old == evidence[r]
           text == Source(r, line, unread)
           attested == expected # Nothing /\ expected = text
           changed == text # Nothing /\ ~attested /\ (expected # Nothing \/ Differs(old, text, line.labels))
           outcome == CASE changed -> "source_changed"
                       [] text # Nothing /\ ~changed -> "ready"
                       [] ~line.path -> "pdf_only"
                       [] OTHER -> "error"
           kept == outcome # "ready" /\ old.text # Nothing
           rest == Without(found, OwnedRow(found, r))
           shown == [report |-> r, owned |-> TRUE, text |-> text, labels |-> line.labels]
           retry == outcome = "error" /\ (unread \/ summary[r].text = Nothing)
           after == IF outcome = "ready" THEN With(rest, shown) ELSE rest
           state == [status |-> outcome, retry |-> retry,
                     text |-> IF kept THEN old.text ELSE text,
                     labels |-> IF kept THEN old.labels ELSE line.labels,
                     signature |-> sig,
                     rowid |-> IF outcome = "ready" THEN NextRow(rest) ELSE 0]
<1>1. Refreshed(r, line, sig, expected, unread, found) = [state |-> state, found |-> after]
  BY DEF Refreshed
<1>2. old \in States /\ old.text \in Texts \union {Nothing} /\ old.labels \in Labels \union {Nothing}
  BY DEF IndexTypeOK, TablesOK, States
<1>3. line.labels \in Labels \union {Nothing}
  BY DEF Lines
<1>4. text \in Texts \union {Nothing} /\ (text # Nothing => summary[r].text = text /\ line.path)
  BY DEF Source
<1>5. sig[1] # 0 \/ text = Nothing
  BY <1>4 DEF Signed
<1> HIDE DEF text
<1>6. outcome = "ready" =>
        /\ text # Nothing
        /\ attested \/ (expected = Nothing /\ ~Differs(old, text, line.labels))
  <2>1. outcome = "ready" => text # Nothing /\ ~changed
    <3> HIDE DEF changed
    <3> QED OBVIOUS
  <2> QED BY <2>1
<1>7. outcome \in EvidenceStatuses /\ retry \in BOOLEAN
  BY DEF EvidenceStatuses
<1> HIDE DEF outcome, retry
<1>8. outcome = "ready" /\ ~attested /\ old.text # Nothing => old.text = text /\ old.labels = line.labels
  BY <1>6 DEF Differs
<1>9. /\ IsTable(rest) /\ DOMAIN rest = DOMAIN found \ OwnedRow(found, r)
      /\ \A id \in DOMAIN rest : rest[id] = found[id]
  <2> DEFINE gone == OwnedRow(found, r)
  <2> SUFFICES /\ IsTable(Without(found, gone)) /\ DOMAIN Without(found, gone) = DOMAIN found \ gone
               /\ \A id \in DOMAIN Without(found, gone) : Without(found, gone)[id] = found[id]
    OBVIOUS
  <2> HIDE DEF gone, rest
  <2>1. /\ IsTable(Without(found, gone)) /\ DOMAIN Without(found, gone) = DOMAIN found \ gone
        /\ \A id \in DOMAIN found \ gone : Without(found, gone)[id] = found[id]
    BY WithoutIs, Zenon
  <2> QED BY <2>1
<1> HIDE DEF rest
<1>10. shown \in SearchRows
  BY <1>3, <1>4 DEF SearchRows
<1>11. /\ IsTable(With(rest, shown)) /\ NextRow(rest) \in Nat
       /\ DOMAIN With(rest, shown) = DOMAIN rest \union {NextRow(rest)}
       /\ \A id \in DOMAIN rest : With(rest, shown)[id] = rest[id]
       /\ With(rest, shown)[NextRow(rest)] = shown
  <2> HIDE DEF shown
  <2> QED BY <1>9, <1>10, WithIs
<1>12. state \in States
  BY <1>2, <1>3, <1>4, <1>7, <1>11 DEF States
<1>13. IsTable(after)
  BY <1>9, <1>11
<1>14. StateFits(state, summary[r])
  BY <1>4, <1>5, <1>6 DEF StateFits, Signed
<1>15. old.text # Nothing =>
         \/ state.text = old.text /\ state.labels = old.labels
         \/ state.text = expected /\ summary[r].text = expected /\ expected # Nothing
  BY <1>4, <1>6, <1>8
<1>16. ASSUME NEW id \in DOMAIN rest, rest[id].owned
       PROVE  /\ id \in DOMAIN found /\ rest[id] = found[id] /\ rest[id].report \in Reports \ {r}
  <2>1. id \in DOMAIN found /\ rest[id] = found[id] /\ found[id] \in SearchRows /\ id \notin OwnedRow(found, r)
    BY <1>9 DEF IsTable
  <2>2. found[id].report \in Reports
    BY <2>1 DEF SearchRows
  <2>3. states[found[id].report].rowid = id
    BY <2>1, <1>16 DEF OwnedFit
  <2>4. found[id].report # r
    BY <2>1, <2>3, <1>16 DEF OwnedRow
  <2> QED BY <2>1, <2>2, <2>4
<1>17. ASSUME NEW id \in DOMAIN after, after[id].owned
       PROVE  LET state2 == [states EXCEPT ![r] = state][after[id].report]
              IN  /\ state2.status = "ready" /\ state2.rowid = id
                  /\ after[id].text = state2.text /\ after[id].labels = state2.labels
  <2>1. CASE id \in DOMAIN rest
    <3>1. after[id] = rest[id]
      BY <1>11, <2>1
    <3>2. id \in DOMAIN found /\ after[id] = found[id] /\ found[id].owned /\ after[id].report \in Reports \ {r}
      BY <1>16, <1>17, <2>1, <3>1
    <3>3. [states EXCEPT ![r] = state][after[id].report] = states[found[id].report]
      BY <3>2
    <3> HIDE DEF after, state
    <3> QED BY <3>2, <3>3 DEF OwnedFit
  <2>2. CASE id \notin DOMAIN rest
    <3>1. outcome = "ready" /\ id = NextRow(rest) /\ after[id] = shown
      BY <1>11, <2>2
    <3>2. [states EXCEPT ![r] = state][after[id].report] = state
      BY <3>1
    <3>3. state.status = "ready" /\ state.rowid = id /\ state.text = text /\ state.labels = line.labels
      BY <3>1
    <3> QED BY <3>1, <3>2, <3>3
  <2> QED BY <2>1, <2>2
<1>18. OwnedFit([states EXCEPT ![r] = state], after)
  <2> HIDE DEF after, state
  <2> QED BY <1>17 DEF OwnedFit
<1> HIDE DEF after, state
<1> QED BY <1>1, <1>12, <1>13, <1>14, <1>15, <1>18 DEF Renewed

-----------------------------------------------------------------------------
(* What a step leaves as it is                                             *)

\* Stamps only grow,
Grown == stamp \in Nat /\ stamp' \in Nat /\ stamp <= stamp'

\* and a summary that was written or removed has another one than before.
Edited == \A r \in Reports :
  \/ summary'[r] = summary[r]
  \/ summary'[r].stamp = 0 \/ summary'[r].stamp > stamp

\* What was of a type stays of it when the stamp grows.
LEMMA TypesGrow ==
  ASSUME Grown
  PROVE  /\ \A n \in Stamps : n \in Stamps'
         /\ \A n \in Stamps \X Stamps : n \in (Stamps \X Stamps)'
         /\ \A sig \in Signatures : sig \in Signatures'
         /\ \A state \in States : state \in States'
         /\ \A p : \A j \in Jobs(p) : j \in Jobs(p)'
         /\ \A b \in Rebuilds : b \in Rebuilds'
<1>1. \A n \in Stamps : n \in Stamps'
  BY DEF Grown, Stamps
<1>2. Stamps \subseteq Stamps'
  BY <1>1
<1> HIDE DEF Stamps
<1>3. \A n \in Stamps \X Stamps : n \in (Stamps \X Stamps)'
  BY <1>2
<1>4. Signatures \subseteq Signatures'
  BY <1>2 DEF Signatures
<1>5. \A state \in States : state \in States'
  BY <1>4 DEF States
<1>6. [Reports -> Stamps \X Stamps] \subseteq [Reports -> Stamps \X Stamps]'
  BY <1>3
<1>7. ASSUME NEW p, NEW j \in Jobs(p) PROVE j \in Jobs(p)'
  <2>1. j.sig \in Signatures' /\ j.known \in [Reports -> Stamps \X Stamps]' \union {<<>>}
    BY <1>4, <1>6 DEF Jobs
  <2> QED BY <1>4, <1>6 DEF Jobs, Lines
<1>8. [labels : Labels \union {Nothing}, stamps : Stamps \X Stamps]
        \subseteq [labels : Labels \union {Nothing}, stamps : Stamps \X Stamps]'
  BY <1>3
<1>9. \A b \in Rebuilds : b \in Rebuilds'
  BY <1>8 DEF Rebuilds
<1> QED BY <1>1, <1>3, <1>4, <1>5, <1>7, <1>9

\* A state fits a file that was written or removed after it was read.
LEMMA FitsSurvive ==
  ASSUME stamp \in Nat, NEW state \in States, NEW old, NEW new, StateFits(state, old),
         new = old \/ new.stamp = 0 \/ new.stamp > stamp
  PROVE  StateFits(state, new)
<1>1. state.signature[1] \in 0 .. stamp
  BY DEF States, Signatures, Stamps
<1> QED BY <1>1 DEF StateFits

\* The tables fit as long as nobody writes to them.
LEMMA TablesLast ==
  ASSUME IndexTypeOK, TablesFit, UNCHANGED tables, Grown, Edited
  PROVE  TablesOK' /\ TablesFit'
<1>1. TablesOK'
  <2>1. evidence \in [Reports -> States'] /\ index \in [Reports -> (Stamps \X Stamps)']
    BY TypesGrow DEF IndexTypeOK, TablesOK
  <2> QED BY <2>1 DEF IndexTypeOK, TablesOK, tables, IsTable, SearchRows, Lines
<1>2. ASSUME NEW r \in Reports PROVE StateFits(evidence[r], summary'[r])
  <2>1. /\ StateFits(evidence[r], summary[r]) /\ evidence[r] \in States
        /\ summary'[r] = summary[r] \/ summary'[r].stamp = 0 \/ summary'[r].stamp > stamp
    BY DEF TablesFit, IndexTypeOK, TablesOK, Edited
  <2> QED BY <2>1, FitsSurvive DEF Grown
<1>3. evidence' = evidence /\ search' = search
  BY DEF tables
<1> QED BY <1>1, <1>2, <1>3 DEF TablesFit, OwnedFit, StateFits

\* So does what the worker remembers while it stands still.
LEMMA JobLasts ==
  ASSUME IndexTypeOK, JobFits, PendingFits, UNCHANGED <<job, evidence>>, Grown, Edited,
         \A r \in Reports : summary[r].text = Nothing => summary'[r].text = Nothing
  PROVE  JobOK' /\ JobFits' /\ PendingFits'
<1>1. JobOK'
  <2>1. job \in Jobs(job.pending)'
    BY TypesGrow DEF IndexTypeOK, JobOK
  <2>2. job.pending # <<>> => job.pending[1] \in [Reports -> States'] /\ IsTable(job.pending[2])
    BY TypesGrow DEF IndexTypeOK, JobOK
  <2> QED BY <2>1, <2>2 DEF JobOK, IsTable, SearchRows, Jobs
<1>2. JobFits'
  <2>1. job.step \in {"notes", "noting"} => job.known \in [Reports -> (Stamps \X Stamps)']
    BY TypesGrow DEF JobFits
  <2> QED BY <2>1 DEF JobFits, LookFits, Signed, Reading, Lines
<1>3. ASSUME NEW r \in Reports, job.pending # <<>> PROVE StateFits(job.pending[1][r], summary'[r])
  <2>1. /\ StateFits(job.pending[1][r], summary[r]) /\ job.pending[1][r] \in States
        /\ summary'[r] = summary[r] \/ summary'[r].stamp = 0 \/ summary'[r].stamp > stamp
    BY <1>3 DEF PendingFits, IndexTypeOK, JobOK, Edited
  <2> QED BY <2>1, FitsSurvive DEF Grown
<1> QED BY <1>1, <1>2, <1>3 DEF PendingFits, Ahead, OwnedFit, StateFits

\* A step that leaves the files alone leaves them in order.
LEMMA FilesLast ==
  ASSUME IndexTypeOK, FilesFit, UNCHANGED <<files, stamp>>
  PROVE  /\ FilesOK' /\ FilesFit' /\ Grown /\ Edited
         /\ \A r \in Reports : summary[r].text = Nothing => summary'[r].text = Nothing
BY DEF IndexTypeOK, FilesOK, FilesFit, files, Grown, Edited, Stamps

\* A signature says what the entry and its files say.
LEMMA SignatureIs ==
  ASSUME IndexTypeOK, FilesFit, NEW r \in Reports, NEW line \in Lines
  PROVE  Signature(r, line) \in Signatures /\ Signed(Signature(r, line), r, line)
<1>1. summary[r].stamp \in Stamps /\ note[r].stamp \in Stamps /\ 0 \in Stamps
  BY DEF IndexTypeOK, FilesOK, Stamps
<1> QED BY <1>1 DEF Signature, Signatures, Signed, FilesFit, Lines

\* A worker that is idle remembers nothing.
LEMMA IdleFits ==
  ASSUME stamp \in Nat
  PROVE  Idle \in Jobs(<<>>) /\ NoSignature \in Signatures
<1>1. 0 \in Stamps /\ NoSignature = <<0, 0, Nothing, FALSE>>
  BY DEF Stamps, NoSignature
<1>2. NoSignature \in Signatures
  BY <1>1 DEF Signatures
<1> QED BY <1>2 DEF Idle, Jobs, Steps

\* What is beside the tables and the job.
LEMMA RestLasts ==
  ASSUME IndexTypeOK, Grown, UNCHANGED rebuild, done' \in BOOLEAN,
         written' \in [Reports -> Texts \union {Nothing}], UNCHANGED events \/ Disturbance
  PROVE  RestOK'
<1>1. rebuild' \in (Rebuilds \union {Nothing})'
  BY TypesGrow DEF IndexTypeOK, RestOK
<1>2. events' \in 0 .. MaxEvents
  BY EvidenceAssumption DEF IndexTypeOK, RestOK, Disturbance
<1> QED BY <1>1, <1>2 DEF RestOK

\* A step of the worker after which no transaction is open, if it leaves the files
\* and the tables alone.
LEMMA WorkerTurns ==
  ASSUME IndexInv, UNCHANGED <<files, tables, stamp, rebuild, written>>, done' \in BOOLEAN,
         UNCHANGED events \/ Disturbance,
         job' \in Jobs(<<>>), job'.pending = <<>>, JobFits'
  PROVE  IndexInv'
<1>1. FilesOK' /\ FilesFit' /\ Grown /\ Edited
  BY FilesLast DEF IndexInv
<1>2. TablesOK' /\ TablesFit'
  BY <1>1, TablesLast DEF IndexInv
<1>3. JobOK' /\ PendingFits'
  BY <1>1, TypesGrow DEF JobOK, PendingFits
<1>4. RestOK'
  BY <1>1, RestLasts DEF IndexInv, IndexTypeOK, RestOK
<1> QED BY <1>1, <1>2, <1>3, <1>4 DEF IndexInv, IndexTypeOK

\* The same of a step after which the files are not what they were.
LEMMA WriterTurns ==
  ASSUME IndexInv, UNCHANGED <<tables, rebuild, done>>, FilesOK', FilesFit', Grown, Edited,
         written' \in [Reports -> Texts \union {Nothing}],
         UNCHANGED events \/ Disturbance,
         job' \in Jobs(<<>>)', job'.pending = <<>>, JobFits'
  PROVE  IndexInv'
<1>2. TablesOK' /\ TablesFit'
  BY TablesLast DEF IndexInv
<1>3. JobOK' /\ PendingFits'
  BY DEF JobOK, PendingFits
<1>4. RestOK'
  BY RestLasts DEF IndexInv, IndexTypeOK, RestOK
<1> QED BY <1>2, <1>3, <1>4 DEF IndexInv, IndexTypeOK

\* A step of the others, if it leaves the worker and the tables alone.
LEMMA OthersTurn ==
  ASSUME IndexInv, UNCHANGED <<tables, job, written>>, done' \in BOOLEAN, FilesOK', FilesFit', Grown, Edited,
         \A r \in Reports : summary[r].text = Nothing => summary'[r].text = Nothing,
         rebuild' \in (Rebuilds \union {Nothing})', UNCHANGED events \/ Disturbance
  PROVE  IndexInv'
<1>1. TablesOK' /\ TablesFit'
  BY TablesLast DEF IndexInv
<1>2. JobOK' /\ JobFits' /\ PendingFits'
  BY JobLasts DEF IndexInv, tables
<1>3. events' \in 0 .. MaxEvents
  BY EvidenceAssumption DEF IndexInv, IndexTypeOK, RestOK, Disturbance
<1>4. RestOK'
  BY <1>3 DEF RestOK, IndexInv, IndexTypeOK
<1> QED BY <1>1, <1>2, <1>4 DEF IndexInv, IndexTypeOK

-----------------------------------------------------------------------------
(* The invariant holds at first                                            *)

\* IndexInit: the index of a library whose summaries are from before it has one row
\* for each of their notes and none of the catalogue.
LEMMA IndexStarts == IndexInit => IndexInv
<1> SUFFICES ASSUME IndexInit PROVE IndexInv
  OBVIOUS
<1> DEFINE label == LabelOf[LegacyText]
           first == [r \in Legacy |-> label]
<1>1. label \in Labels /\ LegacyText \in Texts /\ LegacyText # Nothing /\ Legacy \subseteq Reports
  BY EvidenceAssumption DEF Labels
<1>2. stamp = 1 /\ 0 \in Stamps /\ 1 \in Stamps
  BY DEF IndexInit, Stamps
<1>3. IsTable(<<>>)
  BY FS_EmptySet DEF IsTable
<1>4. IsTable(search) /\ \A id \in DOMAIN search : search[id].owned => id \in DOMAIN <<>>
  <2>1. DOMAIN first \subseteq Reports /\ \A r \in DOMAIN first : first[r] \in Labels \union {Nothing}
    BY <1>1
  <2>2. search = Filled(<<>>, first)
    BY DEF IndexInit
  <2> HIDE DEF first
  <2> QED BY <1>3, <2>1, <2>2, FilledIs
<1>5. FilesOK /\ FilesFit
  BY <1>1, <1>2, EvidenceAssumption DEF IndexInit, FilesOK, FilesFit, Absent, NoNote
<1>6. Idle \in Jobs(<<>>) /\ NoSignature \in Signatures
  BY <1>2, IdleFits
<1>7. TablesOK
  <2>1. row \in [Reports -> Lines]
    BY <1>1 DEF IndexInit, Lines
  <2>2. evidence \in [Reports -> States]
    BY <1>6 DEF IndexInit, States, EvidenceStatuses
  <2>3. index \in [Reports -> Stamps \X Stamps]
    BY <1>2 DEF IndexInit, NoStamps
  <2> QED BY <1>4, <2>1, <2>2, <2>3 DEF TablesOK
<1>8. TablesFit
  BY <1>4 DEF IndexInit, TablesFit, StateFits, OwnedFit
<1>9. job = Idle /\ Idle.pending = <<>> /\ Idle.step = "idle"
  BY DEF IndexInit, Idle
<1>10. JobOK /\ JobFits /\ PendingFits
  BY <1>6, <1>9 DEF JobOK, JobFits, PendingFits, Reading, Settling, AtReport
<1>11. RestOK
  <2>1. written \in [Reports -> Texts \union {Nothing}] /\ rebuild = Nothing /\ done = FALSE
    BY <1>1 DEF IndexInit
  <2>2. events \in 0 .. MaxEvents
    BY EvidenceAssumption DEF IndexInit
  <2> QED BY <2>1, <2>2 DEF RestOK
<1> QED BY <1>5, <1>7, <1>8, <1>10, <1>11 DEF IndexInv, IndexTypeOK

-----------------------------------------------------------------------------
(* Each step keeps it                                                      *)

\* persist_summary: a summary that is written is newer than every signature, and the
\* writer names it from here on.
LEMMA PersistKeeps ==
  ASSUME IndexInv, NEW r \in Reports, Persist(r)
  PROVE  IndexInv'
<1>1. PICK t \in Texts :
        /\ summary' = [summary EXCEPT ![r] = [text |-> t, stamp |-> stamp + 1]]
        /\ written' = [written EXCEPT ![r] = t]
        /\ job' = [Idle EXCEPT !.step = "persist", !.report = r, !.expected = t]
  BY DEF Persist
<1>2. t # Nothing /\ stamp \in Nat /\ stamp' = stamp + 1
  BY EvidenceAssumption DEF Persist, NewStamp, IndexInv, IndexTypeOK, FilesOK
<1>3. stamp + 1 \in Stamps' /\ \A n \in Stamps : n \in Stamps'
  BY <1>2 DEF Stamps
<1>4. Grown /\ stamp + 1 # 0
  BY <1>2 DEF Grown
<1>5. FilesOK' /\ FilesFit' /\ Edited
  <2>1. summary' \in [Reports -> [text : Texts \union Unsafe \union {Nothing}, stamp : Stamps']]
    BY <1>1, <1>3 DEF IndexInv, IndexTypeOK, FilesOK
  <2>2. note' \in [Reports -> [labels : Labels \union {Nothing}, stamp : Stamps']]
    BY <1>3 DEF Persist, IndexInv, IndexTypeOK, FilesOK
  <2>3. FilesFit'
    BY <1>1, <1>2, <1>4 DEF FilesFit, IndexInv, IndexTypeOK, FilesOK
  <2>4. stamp + 1 > stamp
    BY <1>2
  <2>5. Edited
    BY <1>1, <2>4 DEF Edited, IndexInv, IndexTypeOK, FilesOK
  <2> QED BY <1>2, <2>1, <2>2, <2>3, <2>5 DEF FilesOK
<1>6. job' \in Jobs(<<>>)' /\ job'.pending = <<>>
  <2>1. Idle \in Jobs(<<>>)'
    BY <1>2, <1>4, IdleFits, TypesGrow
  <2> QED BY <1>1, <2>1 DEF Jobs, Steps
<1>7. JobFits'
  BY <1>1 DEF JobFits, Idle, AtReport, Reading, Settling
<1>8. written' \in [Reports -> Texts \union {Nothing}]
  BY <1>1 DEF IndexInv, IndexTypeOK, RestOK
<1> QED BY <1>4, <1>5, <1>6, <1>7, <1>8, WriterTurns DEF Persist

\* archive_published_group: the worker turns to a report that has been published.
LEMMA ArchivePublishedKeeps ==
  ASSUME IndexInv, NEW r \in Reports, ArchivePublished(r)
  PROVE  IndexInv'
<1>1. job' = [Idle EXCEPT !.step = "publish", !.report = r]
  BY DEF ArchivePublished
<1>2. job' \in Jobs(<<>>) /\ job'.pending = <<>>
  BY <1>1, IdleFits DEF IndexInv, IndexTypeOK, FilesOK, Jobs, Steps
<1>3. JobFits'
  BY <1>1 DEF JobFits, Idle, AtReport, Reading, Settling
<1> QED BY <1>2, <1>3, WorkerTurns DEF ArchivePublished, IndexInv, IndexTypeOK, RestOK

\* Only the reconciliation of the catalogue leaves a transaction open.
LEMMA NothingPending ==
  ASSUME IndexInv, job.step \notin {"catalog", "reading"}
  PROVE  job \in Jobs(<<>>) /\ job.pending = <<>>
BY DEF IndexInv, PendingFits, IndexTypeOK, JobOK

\* upsert_report: the signature the transaction goes by says what the entry it is to
\* write says, and what the files say of which it speaks.
LEMMA UpsertKeeps ==
  ASSUME IndexInv, Upsert
  PROVE  IndexInv'
<1> DEFINE r == job.report
           line == Merged(row[r], job.step)
           lines == [row EXCEPT ![r] = line]
           sig == Signature(r, line)
           step == CASE job.step = "persist" -> "persisting"
                     [] job.step = "publish" -> "publishing"
                     [] job.step = "archive" -> "archiving"
<1>1. job.step \in {"persist", "publish", "archive"}
  BY DEF Upsert
<1>2. job' = [job EXCEPT !.lines = lines, !.sig = sig, !.step = step]
  BY DEF Upsert
<1>3. job \in Jobs(<<>>) /\ job.pending = <<>>
  BY <1>1, NothingPending
<1>4. r \in Reports /\ row \in [Reports -> Lines]
  BY <1>1 DEF IndexInv, JobFits, AtReport, IndexTypeOK, TablesOK
<1>5. step \in {"persisting", "publishing", "archiving"}
  BY <1>1
<1> HIDE DEF step
<1>6. line \in Lines
  BY <1>1, <1>4 DEF Merged, Lines
<1> HIDE DEF line
<1>7. lines \in [Reports -> Lines] /\ lines[r] = line
  BY <1>4, <1>6
<1>8. sig \in Signatures /\ Signed(sig, r, line)
  BY <1>4, <1>6, SignatureIs DEF IndexInv
<1> HIDE DEF sig, lines
<1>9. job' \in Jobs(<<>>) /\ job'.pending = <<>>
  BY <1>2, <1>3, <1>5, <1>7, <1>8 DEF Jobs, Steps
<1>10. job'.step = step /\ job'.report = r /\ job'.lines = lines /\ job'.sig = sig
  BY <1>2, <1>3 DEF Jobs
<1>11. summary' = summary
  BY DEF Upsert, files
<1>12. JobFits'
  BY <1>4, <1>5, <1>7, <1>8, <1>10, <1>11 DEF JobFits, LookFits, Signed, AtReport, Reading, Settling
<1> QED BY <1>9, <1>12, WorkerTurns DEF Upsert, IndexInv, IndexTypeOK, RestOK

\* render_note: the note is no part of what is accepted.
LEMMA WriteNoteKeeps ==
  ASSUME IndexInv, WriteNote
  PROVE  IndexInv'
<1> DEFINE r == job.report
           label == LabelOf[summary[r].text]
<1>1. job.step = "note" /\ r \in Reports /\ job \in Jobs(<<>>) /\ job.pending = <<>>
  <2>1. job.step = "note"
    BY DEF WriteNote
  <2> QED BY <2>1, NothingPending DEF IndexInv, JobFits, AtReport
<1>2. stamp \in Nat /\ summary' = summary
  BY DEF WriteNote, IndexInv, IndexTypeOK, FilesOK
<1>3. CASE summary[r].text = Nothing
  <2>1. job' = Idle /\ UNCHANGED <<files, stamp>>
    BY <1>3 DEF WriteNote, files
  <2>2. job' \in Jobs(<<>>) /\ job'.pending = <<>> /\ JobFits'
    BY <2>1, <1>2, IdleFits DEF JobFits, Idle, AtReport, Reading, Settling
  <2> QED BY <2>1, <2>2, WorkerTurns DEF WriteNote, IndexInv, IndexTypeOK, RestOK
<1>4. CASE summary[r].text # Nothing
  <2>1. /\ note' = [note EXCEPT ![r] = [labels |-> label, stamp |-> stamp + 1]]
        /\ stamp' = stamp + 1 /\ job' = [job EXCEPT !.step = "enrich"]
    BY <1>4 DEF WriteNote, NewStamp
  <2>2. label \in Labels
    BY <1>1, <1>4 DEF Labels, IndexInv, IndexTypeOK, FilesOK
  <2>3. stamp + 1 \in Stamps' /\ (\A n \in Stamps : n \in Stamps') /\ Grown
    BY <1>2, <2>1 DEF Stamps, Grown
  <2> HIDE DEF label
  <2>4. FilesOK'
    BY <1>1, <1>2, <2>1, <2>2, <2>3 DEF IndexInv, IndexTypeOK, FilesOK
  <2>5. FilesFit' /\ Edited
    BY <1>2 DEF FilesFit, Edited, IndexInv
  <2>6. job' \in Jobs(<<>>)' /\ job'.pending = <<>>
    <3>1. job' \in Jobs(<<>>) /\ job'.pending = <<>>
      BY <1>1, <2>1 DEF Jobs, Steps
    <3> QED BY <2>3, <3>1, TypesGrow
  <2>7. JobFits'
    BY <1>1, <2>1 DEF JobFits, AtReport, Reading, Settling, Jobs
  <2> QED BY <2>3, <2>4, <2>5, <2>6, <2>7, WriterTurns
          DEF WriteNote, IndexInv, IndexTypeOK, RestOK
<1> QED BY <1>3, <1>4

\* enrich_note_metadata: the note is no part of what is accepted.
LEMMA EnrichKeeps ==
  ASSUME IndexInv, Enrich
  PROVE  IndexInv'
<1> DEFINE r == job.report
<1>1. job.step = "enrich" /\ r \in Reports /\ job \in Jobs(<<>>) /\ job.pending = <<>>
  <2>1. job.step = "enrich"
    BY DEF Enrich
  <2> QED BY <2>1, NothingPending DEF IndexInv, JobFits, AtReport
<1>2. stamp \in Nat /\ summary' = summary
  BY DEF Enrich, IndexInv, IndexTypeOK, FilesOK
<1>3. CASE note[r] = NoNote
  <2>1. job' = [job EXCEPT !.step = "archive"] /\ UNCHANGED <<files, stamp>>
    BY <1>3 DEF Enrich, files
  <2>2. job' \in Jobs(<<>>) /\ job'.pending = <<>>
    BY <1>1, <2>1 DEF Jobs, Steps
  <2>3. JobFits'
    BY <1>1, <2>1 DEF JobFits, AtReport, Reading, Settling, Jobs
  <2> QED BY <2>1, <2>2, <2>3, WorkerTurns DEF Enrich, IndexInv, IndexTypeOK, RestOK
<1>4. CASE note[r] # NoNote
  <2>1. /\ note' = [note EXCEPT ![r].stamp = stamp + 1] /\ stamp' = stamp + 1
        /\ job' = [job EXCEPT !.step = "relabel", !.labels = note[r].labels]
    BY <1>4 DEF Enrich, NewStamp
  <2>2. note[r].labels \in Labels \union {Nothing}
    BY <1>1 DEF IndexInv, IndexTypeOK, FilesOK
  <2>3. stamp + 1 \in Stamps' /\ (\A n \in Stamps : n \in Stamps') /\ Grown
    BY <1>2, <2>1 DEF Stamps, Grown
  <2>4. FilesOK'
    BY <1>1, <1>2, <2>1, <2>3 DEF IndexInv, IndexTypeOK, FilesOK
  <2>5. FilesFit' /\ Edited
    BY <1>2 DEF FilesFit, Edited, IndexInv
  <2>6. job' \in Jobs(<<>>)' /\ job'.pending = <<>>
    <3>1. job' \in Jobs(<<>>) /\ job'.pending = <<>>
      BY <1>1, <2>1, <2>2 DEF Jobs, Steps
    <3> QED BY <2>3, <3>1, TypesGrow
  <2>7. JobFits'
    BY <1>1, <2>1 DEF JobFits, AtReport, Reading, Settling, Jobs
  <2> QED BY <2>3, <2>4, <2>5, <2>6, <2>7, WriterTurns
          DEF Enrich, IndexInv, IndexTypeOK, RestOK
<1> QED BY <1>3, <1>4

\* upsert_metadata: the labels of the note go into the entry and the signature
\* alike, and the text the entry was accepted with is named again.
LEMMA RelabelKeeps ==
  ASSUME IndexInv, Relabel
  PROVE  IndexInv'
<1> DEFINE r == job.report
           line == [row[r] EXCEPT !.labels = job.labels, !.noted = TRUE]
           lines == [row EXCEPT ![r] = line]
           mine == evidence[r].status = "ready" /\ evidence[r].labels = row[r].labels
           expected == IF mine THEN evidence[r].text ELSE Nothing
           sig == Signature(r, line)
<1>1. job.step = "relabel"
  BY DEF Relabel
<1>2. job' = [job EXCEPT !.step = "enriching", !.expected = expected, !.lines = lines, !.sig = sig]
  BY DEF Relabel
<1>3. job \in Jobs(<<>>) /\ job.pending = <<>> /\ job.labels \in Labels \union {Nothing}
  BY <1>1, NothingPending DEF Jobs
<1>4. r \in Reports /\ row \in [Reports -> Lines]
  BY <1>1 DEF IndexInv, JobFits, AtReport, IndexTypeOK, TablesOK
<1>5. expected \in Texts \union {Nothing}
  BY <1>4 DEF States, IndexInv, IndexTypeOK, TablesOK
<1>6. line \in Lines
  BY <1>3, <1>4 DEF Lines
<1> HIDE DEF line, expected
<1>7. lines \in [Reports -> Lines] /\ lines[r] = line
  BY <1>4, <1>6
<1>8. sig \in Signatures /\ Signed(sig, r, line)
  BY <1>4, <1>6, SignatureIs DEF IndexInv
<1> HIDE DEF sig, lines
<1>9. job' \in Jobs(<<>>) /\ job'.pending = <<>>
  BY <1>2, <1>3, <1>5, <1>7, <1>8 DEF Jobs, Steps
<1>10. job'.step = "enriching" /\ job'.report = r /\ job'.lines = lines /\ job'.sig = sig
  BY <1>2, <1>3 DEF Jobs
<1>11. summary' = summary
  BY DEF Relabel, files
<1>12. JobFits'
  BY <1>4, <1>7, <1>8, <1>10, <1>11 DEF JobFits, LookFits, Signed, AtReport, Reading, Settling
<1> QED BY <1>9, <1>12, WorkerTurns DEF Relabel, IndexInv, IndexTypeOK, RestOK

\* upsert_search_note, its first half: the labels that were read are kept.
LEMMA LoadKeeps ==
  ASSUME IndexInv, Load
  PROVE  IndexInv'
<1>1. job.step = "load" /\ job.report \in Reports /\ job \in Jobs(<<>>) /\ job.pending = <<>>
  <2>1. job.step = "load"
    BY DEF Load
  <2> QED BY <2>1, NothingPending DEF IndexInv, JobFits, AtReport
<1>2. \/ job' = Idle
      \/ job' = [job EXCEPT !.step = "indexing", !.labels = note[job.report].labels]
  BY DEF Load
<1>3. Idle \in Jobs(<<>>) /\ Idle.pending = <<>>
  BY IdleFits DEF IndexInv, IndexTypeOK, FilesOK, Idle
<1>4. note[job.report].labels \in Labels \union {Nothing}
  BY <1>1 DEF IndexInv, IndexTypeOK, FilesOK
<1>5. job' \in Jobs(<<>>) /\ job'.pending = <<>>
  BY <1>1, <1>2, <1>3, <1>4 DEF Jobs, Steps
<1>6. job' = Idle \/ (job'.step = "indexing" /\ job'.report = job.report)
  BY <1>1, <1>2 DEF Jobs
<1>7. JobFits'
  BY <1>1, <1>6 DEF JobFits, AtReport, Reading, Settling, Idle
<1> QED BY <1>5, <1>7, WorkerTurns DEF Load, IndexInv, IndexTypeOK, RestOK

\* The daily reconciliation takes a list of notes and of what they were indexed with.
LEMMA StartReconcileKeeps ==
  ASSUME IndexInv, StartReconcile
  PROVE  IndexInv'
<1> DEFINE present == {r \in Reports : note[r] # NoNote}
<1>1. job' = [Idle EXCEPT !.step = "notes", !.todo = present, !.seen = present,
                !.known = index, !.listed = Noted(search)]
  BY DEF StartReconcile
<1>2. present \subseteq Reports /\ Noted(search) \subseteq Reports /\ index \in [Reports -> Stamps \X Stamps]
  BY DEF Noted, IndexInv, IndexTypeOK, TablesOK
<1> HIDE DEF present
<1>3. Idle \in Jobs(<<>>)
  BY IdleFits DEF IndexInv, IndexTypeOK, FilesOK
<1>4. job' \in Jobs(<<>>) /\ job'.pending = <<>>
  BY <1>1, <1>2, <1>3 DEF Jobs, Steps
<1>5. job'.step = "notes" /\ job'.known = index
  BY <1>1 DEF Idle
<1>6. index \in [Reports -> (Stamps \X Stamps)']
  BY <1>2 DEF StartReconcile, Stamps
<1>7. JobFits'
  BY <1>5, <1>6 DEF JobFits, AtReport, Reading, Settling
<1> QED BY <1>4, <1>7, WorkerTurns DEF StartReconcile, IndexInv, IndexTypeOK, RestOK

\* reconcile_catalog, the entries: no transaction is open yet.
LEMMA StartCatalogKeeps ==
  ASSUME IndexInv, StartCatalog
  PROVE  IndexInv'
<1>1. job.step = "entries" /\ job' = [job EXCEPT !.step = "catalog", !.lines = row, !.todo = Reports]
  BY DEF StartCatalog
<1>2. job \in Jobs(<<>>) /\ job.pending = <<>>
  BY <1>1, NothingPending
<1>3. row \in [Reports -> Lines]
  BY DEF IndexInv, IndexTypeOK, TablesOK
<1>4. job' \in Jobs(<<>>) /\ job'.pending = <<>>
  BY <1>1, <1>2, <1>3 DEF Jobs, Steps
<1>5. job'.step = "catalog" /\ job'.lines = row
  BY <1>1, <1>2 DEF Jobs
<1>6. JobFits'
  BY <1>3, <1>5 DEF JobFits, AtReport, Reading, Settling, Lines
<1> QED BY <1>4, <1>6, WorkerTurns DEF StartCatalog, IndexInv, IndexTypeOK, RestOK

\* The death of the worker takes an open transaction with it and nothing else.
LEMMA WorkerDiesKeeps ==
  ASSUME IndexInv, WorkerDies
  PROVE  IndexInv'
<1>1. job' = Idle /\ Idle \in Jobs(<<>>) /\ Idle.pending = <<>>
  BY IdleFits DEF WorkerDies, IndexInv, IndexTypeOK, FilesOK, Idle
<1>2. JobFits'
  BY <1>1 DEF JobFits, AtReport, Reading, Settling, Idle
<1> QED BY <1>1, <1>2, WorkerTurns DEF WorkerDies, IndexInv, IndexTypeOK, RestOK

\* A new day changes nothing but that the reconciliation is due.
LEMMA NewDayKeeps ==
  ASSUME IndexInv, NewDay
  PROVE  IndexInv'
<1>1. UNCHANGED <<files, stamp>> /\ done' = FALSE
  BY DEF NewDay
<1>2. /\ FilesOK' /\ FilesFit' /\ Grown /\ Edited
      /\ \A r \in Reports : summary[r].text = Nothing => summary'[r].text = Nothing
  BY <1>1, FilesLast DEF IndexInv
<1>3. rebuild' \in (Rebuilds \union {Nothing})'
  BY <1>2, TypesGrow DEF NewDay, IndexInv, IndexTypeOK, RestOK
<1> QED BY <1>1, <1>2, <1>3, OthersTurn DEF NewDay

\* rebuild_search_index, the notes are read: nothing of the tables is touched.
LEMMA BeginRebuildKeeps ==
  ASSUME IndexInv, BeginRebuild
  PROVE  IndexInv'
<1>1. UNCHANGED <<files, stamp>> /\ done' \in BOOLEAN
  BY DEF BeginRebuild, IndexInv, IndexTypeOK, RestOK
<1>2. /\ FilesOK' /\ FilesFit' /\ Grown /\ Edited
      /\ \A r \in Reports : summary[r].text = Nothing => summary'[r].text = Nothing
  BY <1>1, FilesLast DEF IndexInv
<1>3. rebuild' \in Rebuilds
  BY DEF BeginRebuild, Rebuilds, IndexInv, IndexTypeOK, FilesOK
<1>4. rebuild' \in (Rebuilds \union {Nothing})'
  BY <1>2, <1>3, TypesGrow
<1> QED BY <1>1, <1>2, <1>4, OthersTurn DEF BeginRebuild

\* A rebuild that dies leaves the table as it then is.
LEMMA RebuildDiesKeeps ==
  ASSUME IndexInv, RebuildDies
  PROVE  IndexInv'
<1>1. UNCHANGED <<files, stamp>> /\ done' \in BOOLEAN
  BY DEF RebuildDies, IndexInv, IndexTypeOK, RestOK
<1>2. /\ FilesOK' /\ FilesFit' /\ Grown /\ Edited
      /\ \A r \in Reports : summary[r].text = Nothing => summary'[r].text = Nothing
  BY <1>1, FilesLast DEF IndexInv
<1> QED BY <1>1, <1>2, OthersTurn DEF RebuildDies

\* A person edits or removes a summary: its stamp is none that a state was read with,
\* and a file that is missing does not come back by an edit.
LEMMA EditSummaryKeeps ==
  ASSUME IndexInv, NEW r \in Reports, EditSummary(r)
  PROVE  IndexInv'
<1>1. PICK t \in (Texts \union Unsafe \union {Nothing}) \ {summary[r].text} :
        summary' = [summary EXCEPT ![r] =
                      IF t = Nothing THEN Absent ELSE [text |-> t, stamp |-> stamp + 1]]
  BY DEF EditSummary
<1>2. stamp \in Nat /\ stamp' = stamp + 1 /\ summary[r].text # Nothing
  BY DEF EditSummary, Edit, NewStamp, IndexInv, IndexTypeOK, FilesOK
<1>3. /\ stamp + 1 \in Stamps' /\ 0 \in Stamps' /\ (\A n \in Stamps : n \in Stamps')
      /\ Grown /\ stamp + 1 # 0 /\ stamp + 1 > stamp
  BY <1>2 DEF Stamps, Grown
<1> DEFINE file == IF t = Nothing THEN Absent ELSE [text |-> t, stamp |-> stamp + 1]
<1>4. /\ file \in [text : Texts \union Unsafe \union {Nothing}, stamp : Stamps']
      /\ file.text = Nothing <=> file.stamp = 0
      /\ file.stamp = 0 \/ file.stamp > stamp
      /\ summary' = [summary EXCEPT ![r] = file]
  <2>1. CASE t = Nothing
    BY <1>1, <1>3, <2>1 DEF Absent
  <2>2. CASE t # Nothing
    <3>1. file = [text |-> t, stamp |-> stamp + 1]
      BY <2>2
    <3> QED BY <1>1, <1>3, <2>2, <3>1
  <2> QED BY <2>1, <2>2
<1> HIDE DEF file
<1>5. summary' \in [Reports -> [text : Texts \union Unsafe \union {Nothing}, stamp : Stamps']]
  BY <1>3, <1>4 DEF IndexInv, IndexTypeOK, FilesOK
<1>6. note' \in [Reports -> [labels : Labels \union {Nothing}, stamp : Stamps']]
  BY <1>3 DEF EditSummary, IndexInv, IndexTypeOK, FilesOK
<1>7. ASSUME NEW q \in Reports
      PROVE  /\ summary'[q].text = Nothing <=> summary'[q].stamp = 0
             /\ summary'[q] = summary[q] \/ summary'[q].stamp = 0 \/ summary'[q].stamp > stamp
             /\ summary[q].text = Nothing => summary'[q].text = Nothing
  <2>1. CASE q = r
    BY <1>2, <1>4, <2>1 DEF IndexInv, IndexTypeOK, FilesOK
  <2>2. CASE q # r
    BY <1>4, <2>2 DEF FilesFit, IndexInv, IndexTypeOK, FilesOK
  <2> QED BY <2>1, <2>2
<1>8. FilesOK' /\ FilesFit' /\ Edited
  BY <1>2, <1>5, <1>6, <1>7 DEF FilesOK, FilesFit, Edited
<1>9. rebuild' \in (Rebuilds \union {Nothing})' /\ done' \in BOOLEAN
  BY <1>3, TypesGrow DEF EditSummary, IndexInv, IndexTypeOK, RestOK
<1> QED BY <1>3, <1>7, <1>8, <1>9, OthersTurn DEF EditSummary, Edit

\* A person edits or removes a note: no state depends on it.
LEMMA EditNoteKeeps ==
  ASSUME IndexInv, NEW r \in Reports, EditNote(r)
  PROVE  IndexInv'
<1>1. PICK l \in (Labels \union {Nothing}) \ {note[r].labels} :
        note' = [note EXCEPT ![r] = IF l = Nothing THEN NoNote ELSE [labels |-> l, stamp |-> stamp + 1]]
  BY DEF EditNote
<1>2. stamp \in Nat /\ stamp' = stamp + 1 /\ summary' = summary
  BY DEF EditNote, Edit, NewStamp, IndexInv, IndexTypeOK, FilesOK
<1>3. stamp + 1 \in Stamps' /\ 0 \in Stamps' /\ (\A n \in Stamps : n \in Stamps') /\ Grown
  BY <1>2 DEF Stamps, Grown
<1>4. note' \in [Reports -> [labels : Labels \union {Nothing}, stamp : Stamps']]
  BY <1>1, <1>3 DEF IndexInv, IndexTypeOK, FilesOK, NoNote
<1>5. summary' \in [Reports -> [text : Texts \union Unsafe \union {Nothing}, stamp : Stamps']]
  BY <1>2, <1>3 DEF IndexInv, IndexTypeOK, FilesOK
<1>6. FilesOK' /\ FilesFit' /\ Edited
  BY <1>2, <1>4, <1>5 DEF FilesOK, FilesFit, Edited, IndexInv
<1>7. rebuild' \in (Rebuilds \union {Nothing})' /\ done' \in BOOLEAN
  BY <1>3, TypesGrow DEF EditNote, IndexInv, IndexTypeOK, RestOK
<1> QED BY <1>2, <1>3, <1>6, <1>7, OthersTurn DEF EditNote, Edit

\* reconcile_catalog, _needs_refresh: the signature is that of the entry the
\* transaction has read, and the report is no longer ahead of it.
LEMMA LookAtSourceKeeps ==
  ASSUME IndexInv, NEW r \in Reports, LookAtSource(r)
  PROVE  IndexInv'
<1> DEFINE sig == Signature(r, job.lines[r])
           left == [job EXCEPT !.todo = @ \ {r}]
<1>1. job.step = "catalog" /\ r \in job.todo /\ UNCHANGED <<files, stamp, evidence>>
  BY DEF LookAtSource, tables
<1>2. /\ FilesOK' /\ FilesFit' /\ Grown /\ Edited
  BY <1>1, FilesLast DEF IndexInv
<1>3. TablesOK' /\ TablesFit'
  BY <1>2, TablesLast DEF LookAtSource, IndexInv
<1>4. RestOK'
  BY <1>2, RestLasts DEF LookAtSource, IndexInv, IndexTypeOK, RestOK
<1>5. job \in Jobs(job.pending) /\ job.lines \in [Reports -> Lines]
  BY <1>1 DEF IndexInv, IndexTypeOK, JobOK, JobFits
<1>6. sig \in Signatures /\ Signed(sig, r, job.lines[r])
  BY <1>5, SignatureIs DEF IndexInv
<1>7. job' = [left EXCEPT !.step = "reading", !.report = r, !.sig = sig] \/ job' = left
  BY DEF LookAtSource
<1> HIDE DEF sig
<1>8. job' \in Jobs(job.pending) /\ job'.pending = job.pending
  BY <1>5, <1>6, <1>7 DEF Jobs, Steps
<1>9. /\ job'.lines = job.lines /\ job'.todo = job.todo \ {r}
      /\ \/ job'.step = "reading" /\ job'.report = r /\ job'.sig = sig
         \/ job'.step = "catalog"
  BY <1>1, <1>5, <1>7 DEF Jobs
<1>10. JobOK'
  <2>1. PICK p : p = job'.pending /\ job' \in Jobs(p)'
    BY <1>2, <1>8, TypesGrow
  <2>2. job'.pending # <<>> => job'.pending[1] \in [Reports -> States'] /\ IsTable(job'.pending[2])
    BY <1>2, <1>8, TypesGrow DEF IndexInv, IndexTypeOK, JobOK
  <2>3. job' \in Jobs(job.pending)'
    BY <2>1 DEF Jobs
  <2>4. IsTable(job'.pending[2]) => IsTable(job.pending[2])'
    BY DEF IsTable, SearchRows
  <2> QED BY <2>2, <2>3, <2>4 DEF JobOK
<1>11. JobFits'
  BY <1>1, <1>5, <1>6, <1>9 DEF JobFits, LookFits, Signed, AtReport, Reading, Settling, Lines, files
<1>12. Ahead' \subseteq Ahead
  BY <1>1, <1>9 DEF Ahead
<1>13. PendingFits'
  BY <1>1, <1>8, <1>9, <1>12 DEF PendingFits, OwnedFit, StateFits, KeepsAccepted, files, IndexInv
<1> QED BY <1>2, <1>3, <1>4, <1>10, <1>11, <1>13 DEF IndexInv, IndexTypeOK

\* What settling does to the tables.
LEMMA SettlingFits ==
  ASSUME IndexInv, SettleEntry
  PROVE  LET r == job.report
         IN  /\ r \in Reports /\ job.pending = <<>> /\ job \in Jobs(<<>>)
             /\ row' \in [Reports -> Lines] /\ evidence' \in [Reports -> States] /\ IsTable(search')
             /\ \A q \in Reports : StateFits(evidence'[q], summary[q])
             /\ OwnedFit(evidence', search')
             /\ \A q \in Reports \ {r} : evidence'[q] = evidence[q]
             /\ evidence[r].text # Nothing =>
                  \/ evidence'[r].text = evidence[r].text /\ evidence'[r].labels = evidence[r].labels
                  \/ evidence'[r].text = job.expected /\ summary[r].text = job.expected
<1> DEFINE r == job.report
<1>1. job.step \in Settling
  BY DEF SettleEntry
<1>2. r \in Reports /\ job.lines \in [Reports -> Lines] /\ LookFits
  BY <1>1 DEF IndexInv, JobFits, Reading
<1>3. job \in Jobs(<<>>) /\ job.pending = <<>>
  BY <1>1, NothingPending DEF Settling
<1>4. job.expected \in Texts \union {Nothing} /\ job.sig \in Signatures /\ job.lines[r] \in Lines
  BY <1>2, <1>3 DEF Jobs
<1>5. row' \in [Reports -> Lines]
  BY <1>2, <1>4 DEF SettleEntry, IndexInv, IndexTypeOK, TablesOK
<1>6. evidence \in [Reports -> States] /\ IsTable(search) /\ OwnedFit(evidence, search)
      /\ \A q \in Reports : StateFits(evidence[q], summary[q])
  BY DEF IndexInv, IndexTypeOK, TablesOK, TablesFit
<1>7. CASE UNCHANGED <<evidence, search>>
  BY <1>2, <1>3, <1>5, <1>6, <1>7
<1>8. CASE ~UNCHANGED <<evidence, search>>
  <2>1. PICK unread \in BOOLEAN :
          LET new == Refreshed(r, job.lines[r], job.sig, job.expected, unread, search)
          IN  evidence' = [evidence EXCEPT ![r] = new.state] /\ search' = new.found
    BY <1>8 DEF SettleEntry
  <2> DEFINE new == Refreshed(r, job.lines[r], job.sig, job.expected, unread, search)
  <2>2. Renewed(new, r, job.expected, evidence)
    BY <1>2, <1>4, <1>6, RefreshedFits DEF LookFits, IndexInv
  <2>3. evidence' = [evidence EXCEPT ![r] = new.state] /\ search' = new.found
    BY <2>1
  <2> HIDE DEF new
  <2>4. evidence'[r] = new.state /\ \A q \in Reports \ {r} : evidence'[q] = evidence[q]
    BY <1>2, <1>6, <2>3
  <2>5. evidence' \in [Reports -> States]
    BY <1>6, <2>2, <2>3 DEF Renewed
  <2>6. \A q \in Reports : StateFits(evidence'[q], summary[q])
    BY <1>6, <2>2, <2>4 DEF Renewed
  <2> QED BY <1>2, <1>3, <1>5, <2>2, <2>3, <2>4, <2>5, <2>6 DEF Renewed
<1> QED BY <1>7, <1>8

\* refresh_catalog_source for one report, with the transaction that commits it.
LEMMA SettleEntryKeeps ==
  ASSUME IndexInv, SettleEntry
  PROVE  IndexInv'
<1>1. UNCHANGED <<files, stamp, index, rebuild, written, done>>
  BY DEF SettleEntry
<1>2. FilesOK' /\ FilesFit' /\ Grown /\ Stamps' = Stamps /\ summary' = summary
  BY <1>1, FilesLast DEF IndexInv, Stamps, files
<1>3. States' = States /\ Signatures' = Signatures
  BY <1>2 DEF States, Signatures
<1>4. TablesOK' /\ TablesFit'
  <2>1. /\ row' \in [Reports -> Lines] /\ evidence' \in [Reports -> States] /\ IsTable(search')
        /\ \A q \in Reports : StateFits(evidence'[q], summary[q])
        /\ OwnedFit(evidence', search')
    BY SettlingFits
  <2>2. index' \in [Reports -> Stamps' \X Stamps']
    BY <1>1, <1>2 DEF IndexInv, IndexTypeOK, TablesOK
  <2> QED BY <1>2, <1>3, <2>1, <2>2 DEF TablesOK, TablesFit, IsTable, SearchRows, OwnedFit, StateFits
<1>5. events' = events \/ Disturbance
  BY DEF SettleEntry, MayFail
<1>6. RestOK'
  BY <1>1, <1>2, <1>5, RestLasts DEF IndexInv, IndexTypeOK, RestOK
<1>7. job.step \in Settling /\ job.report \in Reports
  BY SettlingFits DEF SettleEntry
<1>8. \/ job' = Idle
      \/ \E step \in {"note", "archive", "load"} : job' = [Idle EXCEPT !.step = step, !.report = job.report]
  <2>1. job' = CASE job.step = "persisting" -> Idle
                 [] job.step = "publishing" -> [Idle EXCEPT !.step = "note", !.report = job.report]
                 [] job.step = "enriching" -> [Idle EXCEPT !.step = "archive", !.report = job.report]
                 [] job.step = "archiving" -> [Idle EXCEPT !.step = "load", !.report = job.report]
    BY DEF SettleEntry
  <2> QED BY <1>7, <2>1 DEF Settling
<1>9. Idle \in Jobs(<<>>) /\ Idle.pending = <<>>
  BY IdleFits DEF IndexInv, IndexTypeOK, FilesOK, Idle
<1>10. job' \in Jobs(<<>>) /\ job'.pending = <<>>
  BY <1>7, <1>8, <1>9 DEF Jobs, Steps
<1>11. JobFits'
  <2>1. job'.step \in {"idle", "note", "archive", "load"} /\ (job'.step # "idle" => job'.report = job.report)
    <3>1. CASE job' = Idle
      BY <3>1 DEF Idle
    <3>2. CASE job' # Idle
      <4>1. PICK step \in {"note", "archive", "load"} : job' = [Idle EXCEPT !.step = step, !.report = job.report]
        BY <1>8, <3>2
      <4> QED BY <4>1 DEF Idle
    <3> QED BY <3>1, <3>2
  <2> QED BY <1>7, <2>1 DEF JobFits, AtReport, Reading, Settling
<1>12. JobOK' /\ PendingFits'
  BY <1>2, <1>10, TypesGrow DEF JobOK, PendingFits
<1> QED BY <1>2, <1>4, <1>6, <1>11, <1>12 DEF IndexInv, IndexTypeOK

\* Entries and notes may change, rows of notes come and go, and any rows be dropped.
LEMMA RowsChange ==
  ASSUME IndexInv, UNCHANGED <<files, stamp, evidence>>,
         row' \in [Reports -> Lines], index' \in [Reports -> Stamps \X Stamps], IsTable(search'),
         \A id \in DOMAIN search' : search'[id].owned => id \in DOMAIN search /\ search'[id] = search[id]
  PROVE  /\ FilesOK' /\ FilesFit' /\ TablesOK' /\ TablesFit' /\ Grown /\ Edited
         /\ \A r \in Reports : summary[r].text = Nothing => summary'[r].text = Nothing
<1>1. /\ FilesOK' /\ FilesFit' /\ Grown /\ Edited /\ Stamps' = Stamps /\ summary' = summary
      /\ \A r \in Reports : summary[r].text = Nothing => summary'[r].text = Nothing
  BY FilesLast DEF IndexInv, Stamps, files
<1>2. States' = States
  BY <1>1 DEF States, Signatures
<1>3. TablesOK'
  BY <1>1, <1>2 DEF TablesOK, IsTable, SearchRows, IndexInv, IndexTypeOK, Lines
<1>4. OwnedFit(evidence, search')
  BY OwnedKept DEF IndexInv, TablesFit
<1>5. TablesFit'
  BY <1>1, <1>4 DEF IndexInv, TablesFit, OwnedFit, StateFits
<1> QED BY <1>1, <1>3, <1>5

\* A step of the worker that does so, with no transaction open.
LEMMA IndexerTurns ==
  ASSUME IndexInv, UNCHANGED <<files, stamp, evidence, rebuild, done, written, events>>,
         row' \in [Reports -> Lines], index' \in [Reports -> Stamps \X Stamps], IsTable(search'),
         \A id \in DOMAIN search' : search'[id].owned => id \in DOMAIN search /\ search'[id] = search[id],
         job' \in Jobs(<<>>), job'.pending = <<>>, JobFits'
  PROVE  IndexInv'
<1>1. FilesOK' /\ FilesFit' /\ TablesOK' /\ TablesFit' /\ Grown
  BY RowsChange
<1>2. JobOK' /\ PendingFits'
  BY <1>1, TypesGrow DEF JobOK, PendingFits
<1>3. RestOK'
  BY <1>1, RestLasts DEF IndexInv, IndexTypeOK, RestOK
<1> QED BY <1>1, <1>2, <1>3 DEF IndexInv, IndexTypeOK

\* upsert_search_note, its second half: one row of a note replaces those there were.
LEMMA IndexNoteKeeps ==
  ASSUME IndexInv, IndexNote
  PROVE  IndexInv'
<1> DEFINE r == job.report
           next == IF job.step = "indexing" THEN Idle
                   ELSE [job EXCEPT !.step = "notes", !.report = 0, !.labels = Nothing]
           rest == Without(search, NoteRows(search, r))
           entry == NoteRow(r, job.labels)
<1>1. job.step \in {"indexing", "noting"} /\ r \in Reports /\ job \in Jobs(<<>>) /\ job.pending = <<>>
  <2>1. job.step \in {"indexing", "noting"}
    BY DEF IndexNote
  <2> QED BY <2>1, NothingPending DEF IndexInv, JobFits, AtReport
<1>2. Idle \in Jobs(<<>>) /\ Idle.pending = <<>> /\ Idle.step = "idle"
  BY IdleFits DEF IndexInv, IndexTypeOK, FilesOK, Idle
<1>3. /\ next \in Jobs(<<>>) /\ next.pending = <<>>
      /\ next.step = "idle" \/ (next.step = "notes" /\ next.known = job.known /\ job.step = "noting")
  <2>1. CASE job.step = "indexing"
    BY <1>2, <2>1
  <2>2. CASE job.step = "noting"
    <3>1. next = [job EXCEPT !.step = "notes", !.report = 0, !.labels = Nothing]
      BY <2>2
    <3> HIDE DEF next
    <3> QED BY <1>1, <2>2, <3>1 DEF Jobs, Steps
  <2> QED BY <1>1, <2>1, <2>2
<1> HIDE DEF next
<1>4. job' = next \/ job' = [next EXCEPT !.failed = TRUE]
  BY DEF IndexNote, next
<1>5. job' \in Jobs(<<>>) /\ job'.pending = <<>> /\ job'.step = next.step /\ job'.known = next.known
  BY <1>3, <1>4 DEF Jobs
<1>6. JobFits'
  <2>1. job.step = "noting" => job.known \in [Reports -> (Stamps \X Stamps)']
    BY DEF IndexNote, IndexInv, JobFits, Stamps
  <2> QED BY <1>3, <1>5, <2>1 DEF JobFits, AtReport, Reading, Settling
<1>7. row' \in [Reports -> Lines] /\ IsTable(search) /\ index \in [Reports -> Stamps \X Stamps]
  BY DEF IndexNote, IndexInv, IndexTypeOK, TablesOK
<1>8. CASE UNCHANGED <<search, index>>
  BY <1>5, <1>6, <1>7, <1>8, IndexerTurns DEF IndexNote
<1>9. CASE ~UNCHANGED <<search, index>>
  <2>1. search' = With(rest, entry) /\ index' = [index EXCEPT ![r] = <<note[r].stamp, summary[r].stamp>>]
    BY <1>9 DEF IndexNote
  <2>2. index' \in [Reports -> Stamps \X Stamps]
    BY <1>1, <1>7, <2>1 DEF IndexInv, IndexTypeOK, FilesOK
  <2>3. entry \in SearchRows /\ ~entry.owned
    BY <1>1 DEF NoteRow, SearchRows, Jobs
  <2> DEFINE gone == NoteRows(search, r)
  <2>4. IsTable(rest) /\ \A id \in DOMAIN rest : id \in DOMAIN search /\ rest[id] = search[id]
    <3>1. rest = Without(search, gone)
      OBVIOUS
    <3> HIDE DEF gone, rest
    <3>2. /\ IsTable(Without(search, gone)) /\ DOMAIN Without(search, gone) = DOMAIN search \ gone
          /\ \A id \in DOMAIN search \ gone : Without(search, gone)[id] = search[id]
      BY <1>7, WithoutIs, Zenon
    <3> QED BY <3>1, <3>2
  <2> HIDE DEF rest, entry
  <2>5. /\ IsTable(search') /\ DOMAIN search' = DOMAIN rest \union {NextRow(rest)}
        /\ (\A id \in DOMAIN rest : search'[id] = rest[id]) /\ search'[NextRow(rest)] = entry
    BY <2>1, <2>3, <2>4, WithIs
  <2>6. \A id \in DOMAIN search' : search'[id].owned => id \in DOMAIN search /\ search'[id] = search[id]
    BY <2>3, <2>4, <2>5
  <2> QED BY <1>5, <1>6, <1>7, <2>2, <2>5, <2>6, IndexerTurns DEF IndexNote
<1> QED BY <1>8, <1>9

\* kb_reconcile_search, one note: labels go to the catalogue, where a state that was
\* read with others no longer has the signature of its entry.
LEMMA NoteTurnKeeps ==
  ASSUME IndexInv, NEW r \in Reports, NoteTurn(r)
  PROVE  IndexInv'
<1> DEFINE left == [job EXCEPT !.todo = @ \ {r}]
<1>1. job.step = "notes" /\ job \in Jobs(<<>>) /\ job.pending = <<>>
  <2>1. job.step = "notes"
    BY DEF NoteTurn
  <2> QED BY <2>1, NothingPending
<1>2. left \in Jobs(<<>>) /\ left.pending = <<>> /\ left.step = "notes" /\ left.known = job.known
  BY <1>1 DEF Jobs
<1> HIDE DEF left
<1>3. note[r].labels \in Labels \union {Nothing}
  BY DEF IndexInv, IndexTypeOK, FilesOK
<1>4. \/ job' = left \/ job' = [left EXCEPT !.failed = TRUE]
      \/ job' = [left EXCEPT !.step = "noting", !.report = r, !.labels = note[r].labels]
  BY DEF NoteTurn, left
<1>5. /\ job' \in Jobs(<<>>) /\ job'.pending = <<>> /\ job'.known = job.known
      /\ job'.step = "notes" \/ (job'.step = "noting" /\ job'.report = r)
  BY <1>2, <1>3, <1>4 DEF Jobs, Steps
<1>6. JobFits'
  <2>1. job.known \in [Reports -> (Stamps \X Stamps)']
    BY <1>1 DEF NoteTurn, IndexInv, JobFits, Stamps
  <2> QED BY <1>5, <2>1 DEF JobFits, AtReport, Reading, Settling
<1>7. row' \in [Reports -> Lines]
  <2>1. row \in [Reports -> Lines] /\ row[r] \in Lines
    BY DEF IndexInv, IndexTypeOK, TablesOK
  <2>2. row' = row \/ row' = [row EXCEPT ![r].labels = note[r].labels, ![r].noted = TRUE]
    BY DEF NoteTurn
  <2> QED BY <1>3, <2>1, <2>2 DEF Lines
<1>8. IsTable(search') /\ index' \in [Reports -> Stamps \X Stamps] /\ search' = search
  BY DEF NoteTurn, IndexInv, IndexTypeOK, TablesOK
<1> QED BY <1>5, <1>6, <1>7, <1>8, IndexerTurns DEF NoteTurn

\* kb_reconcile_search, notes that have gone: only rows of notes are dropped.
LEMMA DropStaleKeeps ==
  ASSUME IndexInv, DropStale
  PROVE  IndexInv'
<1> DEFINE stale == {r \in Reports : \/ job.known[r] # NoStamps /\ r \notin job.seen
                                     \/ r \in job.listed /\ note[r] = NoNote}
           gone == UNION {NoteRows(search, r) : r \in stale}
<1>1. job.step = "notes" /\ job \in Jobs(<<>>) /\ job.pending = <<>>
  <2>1. job.step = "notes"
    BY DEF DropStale
  <2> QED BY <2>1, NothingPending
<1>2. /\ search' = Without(search, gone)
      /\ index' = [r \in Reports |-> IF r \in stale THEN NoStamps ELSE index[r]]
  BY DEF DropStale
<1>3. job' = [Idle EXCEPT !.step = "entries", !.failed = job.failed]
  BY DEF DropStale
<1>4. Idle \in Jobs(<<>>)
  BY IdleFits DEF IndexInv, IndexTypeOK, FilesOK
<1>5. job' \in Jobs(<<>>) /\ job'.pending = <<>>
  BY <1>1, <1>3, <1>4 DEF Jobs, Steps
<1>6. JobFits'
  BY <1>3 DEF Idle, JobFits, AtReport, Reading, Settling
<1> HIDE DEF stale, gone
<1>7. /\ IsTable(search')
      /\ \A id \in DOMAIN search' : search'[id].owned => id \in DOMAIN search /\ search'[id] = search[id]
  <2>1. IsTable(search)
    BY DEF IndexInv, IndexTypeOK, TablesOK
  <2>2. /\ IsTable(Without(search, gone)) /\ DOMAIN Without(search, gone) = DOMAIN search \ gone
        /\ \A id \in DOMAIN search \ gone : Without(search, gone)[id] = search[id]
    BY <2>1, WithoutIs, Zenon
  <2> QED BY <1>2, <2>2
<1>8. index' \in [Reports -> Stamps \X Stamps] /\ row' \in [Reports -> Lines]
  <2>1. 0 \in Stamps
    BY DEF IndexInv, IndexTypeOK, FilesOK, Stamps
  <2> QED BY <1>2, <2>1 DEF DropStale, NoStamps, IndexInv, IndexTypeOK, TablesOK
<1> QED BY <1>5, <1>6, <1>7, <1>8, IndexerTurns DEF DropStale

\* A step of people that changes entries, notes and rows, while the worker stands still.
LEMMA PeopleTurn ==
  ASSUME IndexInv, UNCHANGED <<files, stamp, evidence, job, done, written, events>>,
         row' \in [Reports -> Lines], index' \in [Reports -> Stamps \X Stamps], IsTable(search'),
         \A id \in DOMAIN search' : search'[id].owned => id \in DOMAIN search /\ search'[id] = search[id],
         rebuild' \in Rebuilds \union {Nothing}
  PROVE  IndexInv'
<1>1. /\ FilesOK' /\ FilesFit' /\ TablesOK' /\ TablesFit' /\ Grown /\ Edited
      /\ \A r \in Reports : summary[r].text = Nothing => summary'[r].text = Nothing
  BY RowsChange
<1>2. JobOK' /\ JobFits' /\ PendingFits'
  BY <1>1, JobLasts DEF IndexInv
<1>3. rebuild' \in (Rebuilds \union {Nothing})'
  BY <1>1, TypesGrow
<1>4. RestOK'
  BY <1>3 DEF RestOK, IndexInv, IndexTypeOK
<1> QED BY <1>1, <1>2, <1>4 DEF IndexInv, IndexTypeOK

\* rebuild_search_index, the table is dropped: no row of the catalogue is left that
\* could be wrong.
LEMMA DropTableKeeps ==
  ASSUME IndexInv, DropTable
  PROVE  IndexInv'
<1>1. search' = <<>> /\ IsTable(<<>>) /\ DOMAIN <<>> = {}
  BY FS_EmptySet DEF DropTable, IsTable
<1>2. rebuild' \in Rebuilds
  BY DEF DropTable, IndexInv, IndexTypeOK, RestOK, Rebuilds
<1>3. row' \in [Reports -> Lines] /\ index' \in [Reports -> Stamps \X Stamps]
  BY DEF DropTable, IndexInv, IndexTypeOK, TablesOK
<1> QED BY <1>1, <1>2, <1>3, PeopleTurn DEF DropTable

\* rebuild_search_index, the table is filled: the new rows are of notes and take ids
\* that no row of the catalogue has, though a state may still name one of them.
LEMMA FillTableKeeps ==
  ASSUME IndexInv, FillTable
  PROVE  IndexInv'
<1> DEFINE read == {r \in Reports : rebuild.notes[r].labels # Nothing}
           labels == [r \in read |-> rebuild.notes[r].labels]
<1>1. /\ search' = Filled(search, labels)
      /\ index' = [r \in Reports |-> IF r \in read THEN rebuild.notes[r].stamps ELSE NoStamps]
  BY DEF FillTable
<1>2. rebuild \in Rebuilds /\ rebuild' = Nothing
  BY DEF FillTable, IndexInv, IndexTypeOK, RestOK
<1>3. DOMAIN labels \subseteq Reports /\ \A r \in DOMAIN labels : labels[r] \in Labels \union {Nothing}
  BY <1>2 DEF Rebuilds
<1> HIDE DEF labels
<1>4. IsTable(search') /\ \A id \in DOMAIN search' : search'[id].owned => id \in DOMAIN search /\ search'[id] = search[id]
  BY <1>1, <1>3, FilledIs DEF IndexInv, IndexTypeOK, TablesOK
<1>5. index' \in [Reports -> Stamps \X Stamps] /\ row' \in [Reports -> Lines]
  <2>1. 0 \in Stamps
    BY DEF IndexInv, IndexTypeOK, FilesOK, Stamps
  <2> QED BY <1>1, <1>2, <2>1 DEF FillTable, NoStamps, Rebuilds, IndexInv, IndexTypeOK, TablesOK
<1> QED BY <1>2, <1>4, <1>5, PeopleTurn DEF FillTable

\* upsert_metadata by a maintenance tool: the entry changes, no state does.
LEMMA BackfillKeeps ==
  ASSUME IndexInv, NEW r \in Reports, Backfill(r)
  PROVE  IndexInv'
<1>1. row' \in [Reports -> Lines]
  <2>1. row \in [Reports -> Lines] /\ row[r] \in Lines /\ note[r].labels \in Labels \union {Nothing}
    BY DEF IndexInv, IndexTypeOK, TablesOK, FilesOK
  <2>2. row' = [row EXCEPT ![r].labels = note[r].labels, ![r].noted = TRUE]
    BY DEF Backfill
  <2> QED BY <2>1, <2>2 DEF Lines
<1>2. /\ IsTable(search') /\ index' \in [Reports -> Stamps \X Stamps] /\ search' = search
      /\ rebuild' \in Rebuilds \union {Nothing}
  BY DEF Backfill, IndexInv, IndexTypeOK, TablesOK, RestOK
<1> QED BY <1>1, <1>2, PeopleTurn DEF Backfill

\* reconcile_catalog, refresh_catalog_source for one entry: what the transaction will
\* write fits what it has written so far and keeps what was accepted, because the
\* report was still ahead of it.
LEMMA ReadSourceKeeps ==
  ASSUME IndexInv, ReadSource
  PROVE  IndexInv'
<1> DEFINE r == job.report
           states == IF job.pending = <<>> THEN evidence ELSE job.pending[1]
           found == IF job.pending = <<>> THEN search ELSE job.pending[2]
<1>1. job.step = "reading" /\ UNCHANGED <<files, stamp, tables>>
  BY DEF ReadSource
<1>2. PICK unread \in BOOLEAN :
        LET new == Refreshed(r, job.lines[r], job.sig, Nothing, unread, found)
        IN  job' = [job EXCEPT !.step = "catalog", !.report = 0, !.sig = NoSignature,
                      !.pending = <<[states EXCEPT ![r] = new.state], new.found>>]
  BY DEF ReadSource
<1>3. /\ FilesOK' /\ FilesFit' /\ Grown /\ Edited /\ Stamps' = Stamps /\ summary' = summary
  BY <1>1, FilesLast DEF IndexInv, files, Stamps
<1>4. TablesOK' /\ TablesFit' /\ evidence' = evidence
  BY <1>1, <1>3, TablesLast DEF IndexInv, tables
<1>5. events' = events \/ Disturbance
  BY DEF ReadSource, MayFail
<1>6. RestOK'
  BY <1>3, <1>5, RestLasts DEF ReadSource, IndexInv, IndexTypeOK, RestOK
<1>7. r \in Reports /\ job.lines \in [Reports -> Lines] /\ LookFits /\ r \notin job.todo
  BY <1>1 DEF IndexInv, JobFits, Reading
<1>8. job \in Jobs(job.pending) /\ job.sig \in Signatures /\ job.lines[r] \in Lines
  BY <1>7 DEF IndexInv, IndexTypeOK, JobOK, Jobs
<1>9. /\ states \in [Reports -> States] /\ IsTable(found) /\ OwnedFit(states, found)
      /\ \A q \in Reports : StateFits(states[q], summary[q]) /\ KeepsAccepted(evidence[q], states[q])
      /\ \A q \in job.todo \union {r} : states[q] = evidence[q]
  <2>1. CASE job.pending = <<>>
    BY <2>1 DEF IndexInv, IndexTypeOK, TablesOK, TablesFit, KeepsAccepted
  <2>2. CASE job.pending # <<>>
    BY <1>1, <2>2 DEF IndexInv, IndexTypeOK, JobOK, PendingFits, Ahead
  <2> QED BY <2>1, <2>2
<1> HIDE DEF states, found
<1> DEFINE new == Refreshed(r, job.lines[r], job.sig, Nothing, unread, found)
           after == [states EXCEPT ![r] = new.state]
<1>10. Renewed(new, r, Nothing, states)
  BY <1>7, <1>8, <1>9, RefreshedFits DEF LookFits, IndexInv
<1>11. job' = [job EXCEPT !.step = "catalog", !.report = 0, !.sig = NoSignature,
                 !.pending = <<after, new.found>>]
  BY <1>2
<1> HIDE DEF new
<1>12. after[r] = new.state /\ \A q \in Reports \ {r} : after[q] = states[q]
  BY <1>7, <1>9
<1>13. after \in [Reports -> States] /\ IsTable(new.found) /\ OwnedFit(after, new.found)
  BY <1>9, <1>10 DEF Renewed
<1>14. \A q \in Reports : StateFits(after[q], summary[q]) /\ KeepsAccepted(evidence[q], after[q])
  <2>1. StateFits(new.state, summary[r]) /\ KeepsAccepted(evidence[r], new.state)
    BY <1>10 DEF Renewed, KeepsAccepted
  <2> QED BY <1>9, <1>12, <2>1
<1>15. \A q \in job.todo : after[q] = evidence[q]
  BY <1>7, <1>8, <1>9, <1>12 DEF Jobs
<1> DEFINE open == <<after, new.found>>
<1> HIDE DEF after
<1>16. open[1] = after /\ open[2] = new.found /\ open # <<>>
  OBVIOUS
<1> HIDE DEF open
<1>17. job' \in Jobs(open) /\ job'.pending = open
  <2>1. NoSignature \in Signatures
    BY IdleFits DEF IndexInv, IndexTypeOK, FilesOK
  <2>2. job' = [job EXCEPT !.step = "catalog", !.report = 0, !.sig = NoSignature, !.pending = open]
    BY <1>11 DEF open
  <2> QED BY <1>8, <2>1, <2>2 DEF Jobs, Steps
<1>18. job'.step = "catalog" /\ job'.todo = job.todo /\ job'.lines = job.lines
  BY <1>8, <1>11 DEF Jobs
<1>19. States' = States
  BY <1>3 DEF States, Signatures
<1>20. JobOK'
  <2>1. PICK p : p = job'.pending /\ job' \in Jobs(p)'
    BY <1>3, <1>17, TypesGrow
  <2>2. job' \in Jobs(job.pending)'
    BY <2>1 DEF Jobs
  <2>3. job'.pending[1] \in [Reports -> States'] /\ IsTable(job'.pending[2])
    BY <1>13, <1>16, <1>17, <1>19
  <2>4. IsTable(job'.pending[2]) => IsTable(job.pending[2])'
    BY DEF IsTable, SearchRows
  <2> QED BY <2>2, <2>3, <2>4 DEF JobOK
<1>21. JobFits'
  BY <1>7, <1>18 DEF JobFits, AtReport, Reading, Settling, Lines
<1>22. PendingFits'
  <2>1. Ahead' = job.todo
    BY <1>18 DEF Ahead
  <2> QED BY <1>3, <1>4, <1>13, <1>14, <1>15, <1>16, <1>17, <1>18, <2>1
          DEF PendingFits, OwnedFit, StateFits, KeepsAccepted
<1> QED BY <1>3, <1>4, <1>6, <1>20, <1>21, <1>22 DEF IndexInv, IndexTypeOK

\* reconcile_catalog commits: all states and rows at once, and nobody else wrote to
\* them since the transaction was opened.
LEMMA FinishCatalogKeeps ==
  ASSUME IndexInv, FinishCatalog
  PROVE  /\ IndexInv'
         /\ \A r \in Reports : KeepsAccepted(evidence[r], evidence'[r])
<1>1. UNCHANGED <<files, stamp, row, index, rebuild, written, events>> /\ job' = Idle
  BY DEF FinishCatalog
<1>2. /\ FilesOK' /\ FilesFit' /\ Grown /\ Stamps' = Stamps /\ summary' = summary
  BY <1>1, FilesLast DEF IndexInv, files, Stamps
<1>3. States' = States
  BY <1>2 DEF States, Signatures
<1>4. /\ evidence' \in [Reports -> States] /\ IsTable(search') /\ OwnedFit(evidence', search')
      /\ \A q \in Reports : StateFits(evidence'[q], summary[q]) /\ KeepsAccepted(evidence[q], evidence'[q])
  <2>1. CASE job.pending = <<>>
    BY <2>1 DEF FinishCatalog, IndexInv, IndexTypeOK, TablesOK, TablesFit, KeepsAccepted
  <2>2. CASE job.pending # <<>>
    BY <2>2 DEF FinishCatalog, IndexInv, IndexTypeOK, JobOK, PendingFits
  <2> QED BY <2>1, <2>2
<1>5. TablesOK' /\ TablesFit'
  BY <1>1, <1>2, <1>3, <1>4
     DEF TablesOK, TablesFit, IsTable, SearchRows, OwnedFit, StateFits, IndexInv, IndexTypeOK, Lines
<1>6. Idle \in Jobs(<<>>) /\ Idle.pending = <<>>
  BY IdleFits DEF IndexInv, IndexTypeOK, FilesOK, Idle
<1>7. JobOK' /\ PendingFits'
  BY <1>1, <1>2, <1>6, TypesGrow DEF JobOK, PendingFits
<1>8. JobFits'
  BY <1>1 DEF Idle, JobFits, AtReport, Reading, Settling
<1>9. RestOK'
  <2>1. done' \in BOOLEAN
    BY DEF FinishCatalog
  <2> QED BY <1>1, <1>2, <2>1, RestLasts DEF IndexInv, IndexTypeOK, RestOK
<1> QED BY <1>2, <1>4, <1>5, <1>7, <1>8, <1>9 DEF IndexInv, IndexTypeOK

-----------------------------------------------------------------------------
(* The theorems                                                            *)

\* Every step keeps the invariant.
LEMMA IndexInductive == IndexInv /\ [IndexNext]_indexVars => IndexInv'
<1> SUFFICES ASSUME IndexInv, [IndexNext]_indexVars PROVE IndexInv'
  OBVIOUS
<1>1. CASE WorkerStep
  <2>1. CASE Reconcile
    BY <2>1, StartReconcileKeeps, DropStaleKeeps, StartCatalogKeeps, ReadSourceKeeps, FinishCatalogKeeps,
       NoteTurnKeeps, LookAtSourceKeeps DEF Reconcile
  <2>2. CASE Archive
    BY <2>2, UpsertKeeps, SettleEntryKeeps, WriteNoteKeeps, EnrichKeeps, RelabelKeeps, LoadKeeps, IndexNoteKeeps DEF Archive
  <2> QED BY <1>1, <2>1, <2>2, NewDayKeeps DEF WorkerStep
<1>2. CASE BeginRebuild \/ DropTable \/ FillTable \/ RebuildDies \/ WorkerDies
  BY <1>2, BeginRebuildKeeps, DropTableKeeps, FillTableKeeps, RebuildDiesKeeps, WorkerDiesKeeps
<1>3. ASSUME NEW r \in Reports,
             Persist(r) \/ ArchivePublished(r) \/ Backfill(r) \/ EditSummary(r) \/ EditNote(r)
      PROVE  IndexInv'
  BY <1>3, PersistKeeps, ArchivePublishedKeeps, BackfillKeeps, EditSummaryKeeps, EditNoteKeeps
<1>4. CASE UNCHANGED indexVars
  <2>1. UNCHANGED <<files, stamp>> /\ UNCHANGED <<tables, job, written, done, rebuild, events>>
    BY <1>4 DEF indexVars
  <2>2. /\ FilesOK' /\ FilesFit' /\ Grown /\ Edited
        /\ \A r \in Reports : summary[r].text = Nothing => summary'[r].text = Nothing
    BY <2>1, FilesLast DEF IndexInv
  <2>3. rebuild' \in (Rebuilds \union {Nothing})' /\ done' \in BOOLEAN
    BY <2>1, <2>2, TypesGrow DEF IndexInv, IndexTypeOK, RestOK
  <2> QED BY <2>1, <2>2, <2>3, OthersTurn
<1> QED BY <1>1, <1>2, <1>3, <1>4 DEF IndexNext

\* The invariant of the index holds for any reports, texts and labels, whatever
\* people, rebuilds and crashes do and however often.
THEOREM IndexInvariantHolds == IndexSpec => []IndexInv
<1> QED BY IndexStarts, IndexInductive, PTL DEF IndexSpec

\* The tables and files are of their types; in particular a row id is a number, and
\* only a text that passed the screening stands in report_evidence_state.
THEOREM IndexTypeCorrect == IndexSpec => []IndexTypeOK
<1>1. IndexInv => IndexTypeOK
  BY DEF IndexInv
<1> QED BY <1>1, IndexInvariantHolds, PTL

\* A row of the catalogue in report_search shows the text and labels that were
\* accepted for its report, and a report that _needs_refresh skips has a state that
\* says what its file says (research_evidence_index.py, kb_common.py).
THEOREM SearchIsTruthful == IndexSpec => []SearchShowsTheAccepted
<1>1. IndexInv => SearchShowsTheAccepted
  <2> SUFFICES ASSUME IndexInv PROVE SearchShowsTheAccepted
    OBVIOUS
  <2>1. OwnedFit(evidence, search)
    BY DEF IndexInv, TablesFit
  <2>2. ASSUME NEW r \in Reports, evidence[r].status = "ready", ~NeedsRefresh(r, Signature(r, row[r]))
        PROVE  summary[r].text = evidence[r].text /\ row[r].labels = evidence[r].labels
    <3>1. StateFits(evidence[r], summary[r]) /\ evidence[r].signature = Signature(r, row[r])
      BY <2>2 DEF IndexInv, TablesFit, NeedsRefresh
    <3>2. evidence[r].signature[3] = row[r].labels
          /\ evidence[r].signature[1] = IF row[r].path THEN summary[r].stamp ELSE 0
      BY <3>1 DEF Signature
    <3> QED BY <2>2, <3>1, <3>2 DEF StateFits
  <2> QED BY <2>1, <2>2 DEF SearchShowsTheAccepted, OwnedFit
<1> QED BY <1>1, IndexInvariantHolds, PTL

\* Only two steps write states, and each of them keeps what it must.
LEMMA StatesAreKept ==
  ASSUME IndexInv, [IndexNext]_indexVars, NEW r \in Reports, evidence[r].text # Nothing,
         <<evidence'[r].text, evidence'[r].labels>> # <<evidence[r].text, evidence[r].labels>>
  PROVE  job.report = r /\ evidence'[r].text = job.expected /\ summary[r].text = job.expected
<1>1. evidence' # evidence
  OBVIOUS
<1>2. SettleEntry \/ FinishCatalog
  <2>1. UNCHANGED tables => evidence' = evidence
    BY DEF tables
  <2>2. UNCHANGED indexVars => evidence' = evidence
    BY DEF indexVars, tables
  <2>3. WorkerStep => SettleEntry \/ FinishCatalog
    BY <1>1, <2>1 DEF WorkerStep, Reconcile, Archive, StartReconcile, DropStale, StartCatalog, ReadSource,
       NoteTurn, LookAtSource, Upsert, WriteNote, Enrich, Relabel, Load, IndexNote, NewDay
  <2> QED BY <1>1, <2>1, <2>2, <2>3 DEF IndexNext, BeginRebuild, DropTable, FillTable, RebuildDies,
          WorkerDies, Persist, ArchivePublished, Backfill, EditSummary, EditNote
<1>3. CASE SettleEntry
  BY <1>3, SettlingFits
<1>4. CASE FinishCatalog
  BY <1>4, FinishCatalogKeeps DEF KeepsAccepted
<1> QED BY <1>2, <1>3, <1>4

\* refresh_catalog_source: what was accepted for a report is replaced only when the
\* writer names a text that is in the file as it is read; no reconciliation, rebuild,
\* edit, misread or crash replaces it.
THEOREM AcceptedStays == IndexSpec => AcceptedIsKept
<1>1. IndexInv /\ [IndexNext]_indexVars =>
        [\A r \in Reports :
           (/\ evidence[r].text # Nothing
            /\ <<evidence'[r].text, evidence'[r].labels>> # <<evidence[r].text, evidence[r].labels>>)
           => /\ job.report = r
              /\ evidence'[r].text = job.expected /\ summary[r].text = job.expected]_indexVars
  BY StatesAreKept
<1> QED BY <1>1, IndexInvariantHolds, PTL DEF IndexSpec, AcceptedIsKept
=============================================================================
