------------------------- MODULE NotificationOutbox -------------------------
(***************************************************************************)
(* The notification_outbox table (state.py), the producers that fill it    *)
(* and the drainer that sends it to the chat (notify.py).                  *)
(*                                                                         *)
(* Producers and drainer run inside ticks, which hold the runtime lock:    *)
(* one process at a time, and it may die between any two steps.  Lark      *)
(* shows a message once per idempotency key, however often it is asked.    *)
(* A notice stands for its key.                                            *)
(***************************************************************************)
EXTENDS Naturals, FiniteSets, Sequences

CONSTANTS
  Notices,  \* idempotency keys
  Event,    \* what each of them announces
  None      \* no notice

\* "document": document_ready; "run": an event of TERMINAL_EVENTS; "batch":
\* batch_complete, flagged terminal; "status": the other pipeline statuses.
Events == {"document", "run", "batch", "status"}

ASSUME EventAssumption == Event \in [Notices -> Events]
ASSUME NoneAssumption  == None \notin Notices
ASSUME NoticesAreFinite == IsFiniteSet(Notices)

VARIABLES
  status,    \* column status; "absent": no such row
  waiting,   \* rows whose available_at or lease end has not come
  number,    \* row ids, in the order of insertion
  claim,     \* the notice the process has claimed, or None
  accepted,  \* Lark took the claimed notice and said so
  announced, \* run conclusion whose predecessors were just superseded
  chat       \* the messages that stand in the chat, in order

table == <<status, waiting, number>>
vars  == <<table, claim, accepted, announced, chat>>

Active   == {"queued", "retry_wait", "running"}
Statuses == Active \union {"absent", "sent", "failed", "superseded"}

Rows        == {n \in Notices : status[n] # "absent"}
Documents   == {n \in Notices : Event[n] = "document"}
Conclusions == {n \in Notices : Event[n] \in {"run", "batch"}}
RunNotices  == {n \in Notices : Event[n] = "run"}
InChat      == {chat[i] : i \in 1 .. Len(chat)}

TypeOK ==
  /\ status \in [Notices -> Statuses]
  /\ waiting \subseteq {n \in Notices : status[n] \in {"retry_wait", "running"}}
  /\ number \in [Notices -> 0 .. Cardinality(Notices)]
  /\ claim \in Notices \union {None}
  /\ claim # None => status[claim] = "running"
  /\ accepted \in BOOLEAN
  /\ announced \in RunNotices \union {None}
  /\ chat \in Seq(Notices)

Init ==
  /\ status = [n \in Notices |-> "absent"]
  /\ waiting = {}
  /\ number = [n \in Notices |-> 0]
  /\ claim = None
  /\ accepted = FALSE
  /\ announced = None
  /\ chat = <<>>

-----------------------------------------------------------------------------
(* Producers *)

Insert(n) ==
  /\ status[n] = "absent"
  /\ status' = [status EXCEPT ![n] = "queued"]
  /\ number' = [number EXCEPT ![n] = Cardinality(Rows) + 1]

\* enqueue_document_notification, enqueue_pipeline_status_notification: a key
\* that exists is left as it is (ON CONFLICT DO NOTHING).
Enqueue(n) ==
  /\ claim = None /\ announced = None
  /\ Event[n] # "run"
  /\ \/ Insert(n)
     \/ status[n] # "absent" /\ UNCHANGED <<status, number>>
  /\ UNCHANGED <<waiting, claim, accepted, announced, chat>>

\* Mutated form: batch completions are replaced as well.
StaleBatches == {m \in Conclusions : status[m] \in {"queued", "retry_wait"}}

\* What supersede_pending_notifications retires.
Stale == {m \in RunNotices : status[m] \in {"queued", "retry_wait"}}

\* enqueue_terminal_notification, first transaction: the run conclusions that
\* nobody is sending are superseded.
SupersedePending(n) ==
  /\ claim = None /\ announced = None
  /\ Event[n] = "run" /\ status[n] = "absent"
  /\ status' = [m \in Notices |-> IF m \in Stale THEN "superseded" ELSE status[m]]
  /\ waiting' = waiting \ Stale
  /\ announced' = n
  /\ UNCHANGED <<number, claim, accepted, chat>>

\* Second transaction: the new conclusion is inserted.
EnqueueTerminal ==
  /\ announced # None
  /\ Insert(announced)
  /\ announced' = None
  /\ UNCHANGED <<waiting, claim, accepted, chat>>

-----------------------------------------------------------------------------
(* The drainer *)

\* Mutated form: a running row is never claimed again.
DueUnlessRunning(n) == status[n] \in {"queued", "retry_wait"} /\ n \notin waiting

Due(n) == status[n] \in Active /\ n \notin waiting

Class(n) == CASE status[n] = "queued" -> 0
              [] status[n] = "retry_wait" -> 1
              [] OTHER -> 2

\* claim_due_notification: queued rows in the order of insertion, then rows
\* that wait for a retry, then rows of a dead process, both in any order.
ClaimDue(n) ==
  /\ claim = None /\ announced = None
  /\ Due(n)
  /\ \A m \in Notices : Due(m) =>
       \/ Class(n) < Class(m)
       \/ Class(n) = Class(m) /\ (Class(n) = 0 => number[n] <= number[m])
  /\ status' = [status EXCEPT ![n] = "running"]
  /\ waiting' = waiting \union {n}
  /\ claim' = n
  /\ UNCHANGED <<number, accepted, announced, chat>>

\* Mutated form: a document notice some dead process was sending is overlooked.
PendingDocumentsButRunning(n) ==
  {m \in Documents \ {n} : status[m] \in {"queued", "retry_wait"}}

\* _has_pending_document.
PendingDocuments(n) == {m \in Documents \ {n} : status[m] \in Active}

MayBeSent == claim \in Conclusions => PendingDocuments(claim) = {}

\* Mutated form: the lease is left behind.
SettleLeavingLease(result) ==
  /\ status' = [status EXCEPT ![claim] = result]
  /\ waiting' = waiting \union {claim}
  /\ claim' = None
  /\ accepted' = FALSE

Settle(result) ==
  /\ status' = [status EXCEPT ![claim] = result]
  /\ waiting' = IF result = "retry_wait" THEN waiting \union {claim} ELSE waiting \ {claim}
  /\ claim' = None
  /\ accepted' = FALSE

\* document_before_terminal: the conclusion waits five minutes.
Defer ==
  /\ claim # None /\ ~accepted
  /\ ~MayBeSent
  /\ Settle("retry_wait")
  /\ UNCHANGED <<number, announced, chat>>

Shown(n) == chat' = IF n \in InChat THEN chat ELSE Append(chat, n)

\* Lark takes the message and answers.
Send ==
  /\ claim # None /\ ~accepted
  /\ MayBeSent
  /\ accepted' = TRUE
  /\ Shown(claim)
  /\ UNCHANGED <<table, claim, announced>>

\* The call fails, perhaps after Lark took the message.  A missing permission
\* is final, any other error is retried after a cooldown.
SendFails ==
  /\ claim # None /\ ~accepted
  /\ MayBeSent
  /\ \/ Settle("failed") /\ UNCHANGED chat
     \/ Settle("retry_wait") /\ (UNCHANGED chat \/ Shown(claim))
  /\ UNCHANGED <<number, announced>>

\* complete_notification.
Complete ==
  /\ claim # None /\ accepted
  /\ Settle("sent")
  /\ UNCHANGED <<number, announced, chat>>

\* The process dies; its claim stays in the table.
Crash ==
  /\ claim # None \/ announced # None
  /\ claim' = None /\ accepted' = FALSE /\ announced' = None
  /\ UNCHANGED <<table, chat>>

\* A retry time or a lease end is reached.
Ripen(n) ==
  /\ n \in waiting
  /\ waiting' = waiting \ {n}
  /\ UNCHANGED <<status, number, claim, accepted, announced, chat>>

-----------------------------------------------------------------------------
Drain == (\E n \in Notices : ClaimDue(n)) \/ Defer \/ Send \/ SendFails \/ Complete

Produce == (\E n \in Notices : Enqueue(n) \/ SupersedePending(n)) \/ EnqueueTerminal

Next == Produce \/ Drain \/ Crash \/ \E n \in Notices : Ripen(n)

Spec == Init /\ [][Next]_vars

\* A tick starts every five minutes and drains, before and after the processing;
\* time passes.  A row that is again and again the first due is claimed: rows of one
\* class go by age, and a deferral of five minutes outlasts the second drain of its
\* tick.  A row that is sent again and again is at last taken by Lark, and a process
\* that acknowledges again and again does not always die before.
FairSpec ==
  /\ Spec
  /\ WF_vars(EnqueueTerminal) /\ WF_vars(Defer)
  /\ \A n \in Notices :
       /\ WF_vars(Ripen(n))
       /\ SF_vars(ClaimDue(n))
       /\ SF_vars(claim = n /\ Send)
       /\ SF_vars(claim = n /\ Complete)

-----------------------------------------------------------------------------
DocumentsFirst ==
  \A n \in Conclusions :
    n \notin InChat /\ (\E i \in 1 .. Len(chat') : chat'[i] = n) =>
      \A m \in Documents : status[m] = "absent" \/ status[m] \in {"sent", "failed"}

\* A conclusion appears in the chat only when every document notice that was
\* enqueued before is settled, also the ones a dead process was sending and the
\* ones that wait for a retry (NotificationDrainer.drain).
DocumentsBeforeConclusions == [][DocumentsFirst]_vars

\* Nothing gets lost on the way: a row that counts as sent stands in the chat,
\* and only a run conclusion is ever superseded.
SettledHonestly ==
  \A n \in Notices :
    /\ status[n] = "sent" => n \in InChat
    /\ status[n] = "superseded" => Event[n] = "run"

\* More than one conclusion waits to be shown.
Crowded == \E m, n \in Conclusions : m # n /\ status[m] \in Active /\ status[n] \in Active

\* Whatever crashes and outages delay a notice, it is settled in the end, unless two
\* conclusions are open again and again: those may take turns in being deferred for a
\* document of a dead sender, whose row ranks behind both (claim_due_notification).
EveryNoticeSettles ==
  []<>Crowded \/ \A n \in Notices : status[n] \in Active ~> status[n] \notin Active

\* Without the condition: a crashed sender is reclaimable after its lease expires
\* (claim_due_notification).  The code does not keep it (NotificationStarved.cfg).
DeadSendersAreReclaimed ==
  \A n \in Notices : status[n] = "running" /\ claim # n ~> status[n] # "running" \/ claim = n

\* docs/zsxq_notification_policy.md: only the latest undelivered conclusion is
\* kept, so that no late message contradicts the current state.  The code does not
\* keep it (NotificationOrder.cfg).
ConclusionsInOrder ==
  \A i, j \in 1 .. Len(chat) :
    chat[i] \in RunNotices /\ chat[j] \in RunNotices /\ i < j => number[chat[i]] < number[chat[j]]
=============================================================================
