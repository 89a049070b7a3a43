--------------------------- MODULE ExternalIntake ---------------------------
(***************************************************************************)
(* External intake: items that scripts, webhooks and the Telegram bot      *)
(* deliver, possibly several times with one idempotency key, the record    *)
(* kept of each, the document made from it, and the retries of records     *)
(* that failed.  Owners may delete the documents meanwhile.                *)
(*                                                                         *)
(* A call is a request in the web process; it runs three transactions, and *)
(* calls interleave between them.  A record is known by the delivery that  *)
(* inserted it, a document by the call that made it.                       *)
(***************************************************************************)
EXTENDS Naturals

CONSTANTS
    Keys,        \* idempotency keys, each with its user and provider
    Deliveries,  \* bound: calls of IngestExternalItemUseCase
    Retries,     \* bound: calls of RetryExternalIntakeItemUseCase
    MaxMishaps,  \* bound: calls that are lost
    None

Calls == Deliveries \cup Retries

ASSUME ExternalIntakeAssumption ==
    /\ Deliveries \cap Retries = {}
    /\ None \notin Keys /\ None \notin Calls
    /\ MaxMishaps \in Nat

VARIABLES
    item,      \* external_intake_items
    doc,       \* the documents
    call,      \* the calls
    mishaps,   \* how many calls were lost
    disturbed  \* history: records whose retries overlapped or ended without a mark

vars == <<item, doc, call, mishaps, disturbed>>

-----------------------------------------------------------------------------
(* The database.                                                           *)

Record == [status : {"none", "RECEIVED", "QUEUED", "FAILED"},
           key : Keys \cup {None}, doc : Calls \cup {None}]
NoItem == [status |-> "none", key |-> None, doc |-> None]
Items  == {i \in Deliveries : item[i].status # "none"}

\* get_by_idempotency_key; a record without a key is never found.
WithKey(k) == {i \in Items : item[i].key = k /\ k # None}

\* Mutant of Conflict: the unique index leaves out records that are not settled.
Conflict_Settled(k) == {i \in WithKey(k) : item[i].status # "RECEIVED"}

\* The unique index on user, provider and idempotency key.
Conflict(k) == WithKey(k)

\* Mutant of Unlinked: documents that are deleted stay linked.
Unlinked_Kept(d) == item

\* ON DELETE SET NULL
Unlinked(d) == [i \in Deliveries |-> IF item[i].doc = d THEN [item[i] EXCEPT !.doc = None] ELSE item[i]]

-----------------------------------------------------------------------------
(* What deliveries and retries have in common.                             *)

Running == {"create", "ingest", "mark", "fail"}
CallRecord == [pc : Running \cup {"new", "done", "raised", "lost"},
               key : Keys \cup {None}, item : Deliveries \cup {None}]
NewCall == [pc |-> "new", key |-> None, item |-> None]

Goto(c, pc) == call' = [call EXCEPT ![c].pc = pc]

\* The retries of a record that are under way.
Retrying(i) == {c \in Retries : call[c].item = i /\ call[c].pc \in Running}
\* The calls that made a document of a record.
Made(i) == {c \in Calls : call[c].item = i /\ doc[c] # "none"}

\* A retry that made its document ends without a mark.
Disturb(c) ==
    disturbed' = IF c \in Retries /\ call[c].pc = "mark" THEN disturbed \cup {call[c].item} ELSE disturbed

\* IngestDocumentUseCase commits the document; when it cannot be queued the document itself
\* says so, and nothing is raised.
MakeDocument(c) ==
    /\ call[c].pc = "ingest"
    /\ doc' = [doc EXCEPT ![c] = "live"]
    /\ Goto(c, "mark")
    /\ UNCHANGED <<item, mishaps, disturbed>>

\* It raises before it makes a document: no content, or the collection is gone.
IngestRaises(c) ==
    /\ call[c].pc = "ingest"
    /\ Goto(c, "fail")
    /\ UNCHANGED <<item, doc, mishaps, disturbed>>

MarkQueued(c) ==
    /\ call[c].pc = "mark"
    /\ doc[c] = "live"
    /\ item' = [item EXCEPT ![call[c].item].status = "QUEUED", ![call[c].item].doc = c]
    /\ Goto(c, "done")
    /\ UNCHANGED <<doc, mishaps, disturbed>>

\* The document was deleted meanwhile: the foreign key refuses the record, outside of the try.
MarkRefused(c) ==
    /\ call[c].pc = "mark"
    /\ doc[c] # "live"
    /\ Goto(c, "raised")
    /\ Disturb(c)
    /\ UNCHANGED <<item, doc, mishaps>>

\* Mutant of MarkFailed: the session is not committed.
MarkFailed_NotCommitted(c) ==
    /\ call[c].pc = "fail"
    /\ Goto(c, "raised")
    /\ UNCHANGED <<item, doc, mishaps, disturbed>>

\* The document of an earlier retry stays in the record.
MarkFailed(c) ==
    /\ call[c].pc = "fail"
    /\ item' = [item EXCEPT ![call[c].item].status = "FAILED"]
    /\ Goto(c, "raised")
    /\ UNCHANGED <<doc, mishaps, disturbed>>

\* The process ends, or the database refuses a transaction outside of the try.
Lost(c) ==
    /\ call[c].pc \in Running
    /\ mishaps < MaxMishaps
    /\ mishaps' = mishaps + 1
    /\ Goto(c, "lost")
    /\ Disturb(c)
    /\ UNCHANGED <<item, doc>>

-----------------------------------------------------------------------------
(* IngestExternalItemUseCase.                                              *)

\* _get_existing: a record that is there answers the delivery, whatever its status.
Deliver(r) ==
    /\ call[r].pc = "new"
    /\ \E k \in Keys \cup {None} :
         \/ \E i \in WithKey(k) : call' = [call EXCEPT ![r] = [pc |-> "done", key |-> k, item |-> i]]
         \/ /\ WithKey(k) = {}
            /\ call' = [call EXCEPT ![r] = [pc |-> "create", key |-> k, item |-> None]]
    /\ UNCHANGED <<item, doc, mishaps, disturbed>>

\* _create_intake_item inserts the record unless another delivery did.
Create(r) ==
    /\ call[r].pc = "create"
    /\ \/ /\ Conflict(call[r].key) = {}
          /\ item' = [item EXCEPT ![r] = [status |-> "RECEIVED", key |-> call[r].key, doc |-> None]]
          /\ call' = [call EXCEPT ![r].pc = "ingest", ![r].item = r]
       \/ /\ \E i \in Conflict(call[r].key) : call' = [call EXCEPT ![r].pc = "done", ![r].item = i]
          /\ UNCHANGED item
    /\ UNCHANGED <<doc, mishaps, disturbed>>

-----------------------------------------------------------------------------
(* RetryExternalIntakeItemUseCase.                                         *)

\* Mutant of Retryable: RECEIVED can be retried as well.
Retryable_Received(i) == item[i].status \in {"FAILED", "RECEIVED"}

Retryable(i) == item[i].status = "FAILED"

Retry(c, i) ==
    /\ call[c].pc = "new"
    /\ i \in Items
    /\ call' = [call EXCEPT ![c].pc = IF Retryable(i) THEN "ingest" ELSE "done", ![c].item = i]
    /\ disturbed' = IF Retryable(i) /\ Retrying(i) # {} THEN disturbed \cup {i} ELSE disturbed
    /\ UNCHANGED <<item, doc, mishaps>>

-----------------------------------------------------------------------------
\* The owner deletes a document.
Delete(c) ==
    /\ doc[c] = "live"
    /\ doc' = [doc EXCEPT ![c] = "deleted"]
    /\ item' = Unlinked(c)
    /\ UNCHANGED <<call, mishaps, disturbed>>

Init ==
    /\ item = [i \in Deliveries |-> NoItem]
    /\ doc = [c \in Calls |-> "none"]
    /\ call = [c \in Calls |-> NewCall]
    /\ mishaps = 0
    /\ disturbed = {}

Next ==
    \/ \E r \in Deliveries : Deliver(r) \/ Create(r)
    \/ \E c \in Retries, i \in Deliveries : Retry(c, i)
    \/ \E c \in Calls :
         \/ MakeDocument(c) \/ IngestRaises(c) \/ MarkQueued(c) \/ MarkRefused(c) \/ MarkFailed(c)
         \/ Lost(c) \/ Delete(c)

Spec == Init /\ [][Next]_vars

-----------------------------------------------------------------------------
(* Properties.                                                             *)

\* Every variable has its type.
TypeOK ==
    /\ item \in [Deliveries -> Record]
    /\ doc \in [Calls -> {"none", "live", "deleted"}]
    /\ call \in [Calls -> CallRecord]
    /\ mishaps \in 0..MaxMishaps
    /\ disturbed \subseteq Deliveries

\* Deliveries with one idempotency key make at most one document between them, however they
\* interleave and whichever of them are lost.
DeliveredOnce ==
    \A r, s \in Deliveries :
        doc[r] # "none" /\ doc[s] # "none" /\ call[r].key = call[s].key /\ call[r].key # None => r = s

\* Retries included, a record gets at most one document, unless two retries of it overlapped or
\* a retry ended between the document and the mark.
OneDocumentPerItem == \A i \in Deliveries \ disturbed : \A c, d \in Made(i) : c = d

\* A record points only to a document made for it that still exists, and one that is QUEUED
\* points to none only when its document was deleted.
LinkIsSound ==
    \A i \in Items :
        /\ item[i].doc # None => doc[item[i].doc] = "live" /\ call[item[i].doc].item = i
        /\ item[i].status = "QUEUED" /\ item[i].doc = None => \E c \in Made(i) : doc[c] = "deleted"

\* A record stays RECEIVED only while its delivery is under way, or because that was lost or
\* its document deleted before the mark: every other record says how it ended.
SettledIsAnswered ==
    \A i \in Items :
        item[i].status = "RECEIVED" /\ call[i].pc \notin Running =>
            call[i].pc = "lost" \/ doc[i] = "deleted"

=============================================================================
