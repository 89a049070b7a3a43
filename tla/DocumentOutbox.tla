--------------------------- MODULE DocumentOutbox ---------------------------
(***************************************************************************)
(* The document processing outbox of Conserium: requests of the API that   *)
(* queue a document, the rows of document_processing_outbox, the periodic  *)
(* drains that retry what a request could not send, the broker, and the    *)
(* worker jobs, seen only through the status they leave on the document.   *)
(*                                                                         *)
(* A transaction is one step; a crash, another actor or a failing call may *)
(* come between any two of them.  What a job does inside is the subject of *)
(* DocumentPipeline.                                                       *)
(***************************************************************************)
EXTENDS Naturals, FiniteSets

CONSTANTS
    Docs,         \* documents
    Requests,     \* API requests; a row a request inserts has the request as its id
    Drains,       \* slots in which the periodic drain task runs
    Kinds,        \* the operations the requests perform, a subset of AllKinds
    MaxAttempts,  \* _MAX_OUTBOX_ATTEMPTS
    BatchLimit,   \* _OUTBOX_BATCH_LIMIT
    MaxFaults,    \* bound: calls to the broker, the database or Redis that fail
    MaxCrashes,   \* bound: processes lost between two steps
    MaxDeletes,   \* bound: documents deleted by their owner
    NoDoc, NoRow

AllKinds == {"ingest", "note", "retry", "reprocess", "bulk"}

ASSUME OutboxAssumption ==
    /\ Kinds \subseteq AllKinds
    /\ MaxAttempts \in Nat \ {0}
    /\ BatchLimit \in Nat \ {0}
    /\ MaxFaults \in Nat /\ MaxCrashes \in Nat /\ MaxDeletes \in Nat
    /\ NoDoc \notin Docs
    /\ NoRow \notin Requests

VARIABLES
    doc,       \* documents.status, "NONE" before the document exists, "DELETED" after
    row,       \* document_processing_outbox, status "none" where there is no row
    rpc, rdoc, rrow, rkind,  \* a request: its step, document, outbox row, operation
    dpc, dcur, held,         \* a drain: its step, current row, claimed rows
    msgs,      \* process_document messages in the broker, by task id
    running,   \* jobs a worker has taken and not yet acknowledged, by task id
    faults, crashes, deletes \* how much of the bounds is used up

dbVars      == <<doc, row>>
requestVars == <<rpc, rdoc, rrow, rkind>>
drainVars   == <<dpc, dcur, held>>
brokerVars  == <<msgs, running>>
budgetVars  == <<faults, crashes, deletes>>
vars == <<dbVars, requestVars, drainVars, brokerVars, budgetVars>>

-----------------------------------------------------------------------------
(* The database.                                                           *)

LiveStatus == {"PENDING", "QUEUED", "PROCESSING", "READY", "FAILED"}
DocStatus  == LiveStatus \cup {"NONE", "DELETED"}
Exists(d)  == doc[d] \in LiveStatus

ActiveStatus == {"pending", "processing", "failed"}
RowStatus    == ActiveStatus \cup {"none", "dispatched"}
Row          == [status : RowStatus, attempts : 0..MaxAttempts]

\* The document a row or a task belongs to: that of the request it is named after.
RowExists(r)     == row[r].status # "none"
ActiveRowsOf(d)  == {r \in Requests : rdoc[r] = d /\ row[r].status \in ActiveStatus}

\* Mutant of IndexAllows: there is no unique index.
IndexAllows_Always(r) == TRUE

\* The partial unique index on (document_id, task_name) where status != 'dispatched'
\* lets row r take an active status.
IndexAllows(r) == ActiveRowsOf(rdoc[r]) \subseteq {r}

SetStatus(d, s) == doc' = [doc EXCEPT ![d] = s]
\* An UPDATE of the document that is skipped when the document is gone.
SetStatusIfExists(d, s) == doc' = [doc EXCEPT ![d] = IF Exists(d) THEN s ELSE @]

\* Mutant of CreateOutbox: the upsert resets the attempts as well.
CreateOutbox_Reset(c) ==
    LET active == ActiveRowsOf(rdoc[c])
        id     == IF active = {} THEN c ELSE CHOOSE r \in active : TRUE
    IN  /\ row' = [row EXCEPT ![id] = [status |-> "pending", attempts |-> 0]]
        /\ rrow' = [rrow EXCEPT ![c] = id]

\* create_outbox: INSERT ... ON CONFLICT DO UPDATE.  A conflicting active row goes back
\* to pending and keeps its attempts.
CreateOutbox(c) ==
    LET active == ActiveRowsOf(rdoc[c])
    IN  IF active = {}
        THEN /\ row' = [row EXCEPT ![c] = [status |-> "pending", attempts |-> 0]]
             /\ rrow' = [rrow EXCEPT ![c] = c]
        ELSE \E r \in active :
             /\ row' = [row EXCEPT ![r].status = "pending"]
             /\ rrow' = [rrow EXCEPT ![c] = r]

MarkDispatched(r) == row' = [row EXCEPT ![r].status = "dispatched"]

\* Mutant of MarkFailed: the status is left alone, only the error is recorded.
MarkFailed_ErrorOnly(r, retryable) == UNCHANGED row

\* mark_failed raises when the row is gone, and when the index refuses it.
CanMarkFailed(r) == RowExists(r) /\ IndexAllows(r)
MarkFailed(r, retryable) ==
    row' = [row EXCEPT ![r].status = IF retryable THEN "pending" ELSE "failed"]

-----------------------------------------------------------------------------
(* A request: load or create the document, then queue_document_processing  *)
(* and kick_document_processing_outbox_item.                               *)

Goto(c, step)  == rpc' = [rpc EXCEPT ![c] = step]

\* An exception leaves the operation; only ingestion catches it, and falls back.
RaiseStep(c) == IF rkind[c] = "ingest" THEN "fallback" ELSE "done"
Raise(c)     == Goto(c, RaiseStep(c))

UseFault == faults < MaxFaults /\ faults' = faults + 1
NoBudget == UNCHANGED budgetVars

\* The operation finds its document, or inserts it, and passes its checks.
Begin(c, k, d) ==
    /\ rpc[c] = "new"
    /\ \/ k \in {"ingest", "note"} /\ doc[d] = "NONE" /\ SetStatus(d, "PENDING")
       \/ k = "retry" /\ doc[d] = "FAILED" /\ UNCHANGED doc
       \/ k = "reprocess" /\ Exists(d) /\ UNCHANGED doc
       \/ k = "bulk" /\ Exists(d) /\ SetStatus(d, "QUEUED")
    /\ Goto(c, "loaded")
    /\ rkind' = [rkind EXCEPT ![c] = k]
    /\ rdoc' = [rdoc EXCEPT ![c] = d]
    /\ UNCHANGED <<row, rrow, drainVars, brokerVars, budgetVars>>

\* One transaction: the document becomes QUEUED and has an active outbox row.
QueueTxn(c) ==
    /\ rpc[c] = "loaded"
    /\ Exists(rdoc[c])
    /\ SetStatus(rdoc[c], "QUEUED")
    /\ CreateOutbox(c)
    /\ Goto(c, "queued")
    /\ UNCHANGED <<rdoc, rkind, drainVars, brokerVars, budgetVars>>

\* The transaction fails: the document was deleted, or the database call did.
QueueTxnFails(c) ==
    /\ rpc[c] = "loaded"
    /\ \/ ~Exists(rdoc[c]) /\ NoBudget
       \/ UseFault /\ UNCHANGED <<crashes, deletes>>
    /\ Raise(c)
    /\ UNCHANGED <<dbVars, rdoc, rrow, rkind, drainVars, brokerVars>>

\* kick: the row is committed as dispatched before anything is sent.
KickMark(c) ==
    /\ rpc[c] = "queued"
    /\ RowExists(rrow[c])
    /\ MarkDispatched(rrow[c])
    /\ Goto(c, "marked")
    /\ UNCHANGED <<doc, rdoc, rrow, rkind, drainVars, brokerVars, budgetVars>>

KickMarkFails(c) ==
    /\ rpc[c] = "queued"
    /\ \/ ~RowExists(rrow[c]) /\ NoBudget
       \/ UseFault /\ UNCHANGED <<crashes, deletes>>
    /\ Raise(c)
    /\ UNCHANGED <<dbVars, rdoc, rrow, rkind, drainVars, brokerVars>>

KickSend(c) ==
    /\ rpc[c] = "marked"
    /\ msgs' = [msgs EXCEPT ![rrow[c]] = @ + 1]
    /\ Goto(c, "done")
    /\ UNCHANGED <<dbVars, rdoc, rrow, rkind, drainVars, running, budgetVars>>

KickSendFails(c) ==
    /\ rpc[c] = "marked"
    /\ UseFault /\ UNCHANGED <<crashes, deletes>>
    /\ Goto(c, "unsent")
    /\ UNCHANGED <<dbVars, rdoc, rrow, rkind, drainVars, brokerVars>>

\* The handler of a failed send puts the row back to pending and re-raises; when that
\* fails too, the row stays dispatched.
KickUndo(c) ==
    /\ rpc[c] = "unsent"
    /\ \/ CanMarkFailed(rrow[c]) /\ MarkFailed(rrow[c], TRUE) /\ NoBudget
       \/ ~CanMarkFailed(rrow[c]) /\ UNCHANGED row /\ NoBudget
       \/ UNCHANGED row /\ UseFault /\ UNCHANGED <<crashes, deletes>>
    /\ Raise(c)
    /\ UNCHANGED <<doc, rdoc, rrow, rkind, drainVars, brokerVars>>

\* Ingestion falls back to a message of its own (document-processing-direct-...).
FallbackQueue(c) ==
    /\ rpc[c] = "fallback"
    /\ \/ SetStatusIfExists(rdoc[c], "QUEUED") /\ NoBudget
       \/ UNCHANGED doc /\ UseFault /\ UNCHANGED <<crashes, deletes>>
    /\ Goto(c, "direct")
    /\ UNCHANGED <<row, rdoc, rrow, rkind, drainVars, brokerVars>>

FallbackSend(c) ==
    /\ rpc[c] = "direct"
    /\ msgs' = [msgs EXCEPT ![c] = @ + 1]
    /\ Goto(c, "done")
    /\ UNCHANGED <<dbVars, rdoc, rrow, rkind, drainVars, running, budgetVars>>

FallbackSendFails(c) ==
    /\ rpc[c] = "direct"
    /\ UseFault /\ UNCHANGED <<crashes, deletes>>
    /\ Goto(c, "giveup")
    /\ UNCHANGED <<dbVars, rdoc, rrow, rkind, drainVars, brokerVars>>

FallbackFail(c) ==
    /\ rpc[c] = "giveup"
    /\ \/ SetStatusIfExists(rdoc[c], "FAILED") /\ NoBudget
       \/ UNCHANGED doc /\ UseFault /\ UNCHANGED <<crashes, deletes>>
    /\ Goto(c, "done")
    /\ UNCHANGED <<row, rdoc, rrow, rkind, drainVars, brokerVars>>

RequestStep(c) ==
    \/ QueueTxn(c) \/ QueueTxnFails(c)
    \/ KickMark(c) \/ KickMarkFails(c)
    \/ KickSend(c) \/ KickSendFails(c) \/ KickUndo(c)
    \/ FallbackQueue(c) \/ FallbackSend(c) \/ FallbackSendFails(c) \/ FallbackFail(c)

RequestCrash(c) ==
    /\ rpc[c] \notin {"new", "done"}
    /\ crashes < MaxCrashes /\ crashes' = crashes + 1
    /\ Goto(c, "done")
    /\ UNCHANGED <<dbVars, rdoc, rrow, rkind, drainVars, brokerVars, faults, deletes>>

-----------------------------------------------------------------------------
(* The periodic drain: claim a batch in one transaction, then dispatch its *)
(* rows one after the other, each in transactions of its own.              *)

DrainGoto(w, step) == dpc' = [dpc EXCEPT ![w] = step]

Held(w) == {r \in Requests : held[w][r] > 0}

\* A drain is killed (time_limit = 360 s) long before its lock is stale (15 min), so a
\* lock can only be stale when no drain that is alive holds the row.
LockStale(r) == \A w \in Drains : r \notin Held(w)

\* Mutant of Claimable: the limit on the attempts is forgotten.
Claimable_AnyAttempts(r) ==
    \/ row[r].status = "pending"
    \/ row[r].status = "processing" /\ LockStale(r)

Claimable(r) ==
    /\ row[r].attempts < MaxAttempts
    /\ \/ row[r].status = "pending"
       \/ row[r].status = "processing" /\ LockStale(r)

ClaimableRows == {r \in Requests : Claimable(r)}

\* Mutant of Batch: the rows of a drain that died are passed over.
Batch_PendingOnly(S) ==
    /\ S # {} /\ Cardinality(S) <= BatchLimit
    /\ S \subseteq {r \in ClaimableRows : row[r].status = "pending"}

\* What claim_batch selects: every claimable row, or as many as the limit allows.
Batch(S) ==
    /\ S # {} /\ Cardinality(S) <= BatchLimit
    /\ S \subseteq ClaimableRows
    /\ S = ClaimableRows \/ Cardinality(S) = BatchLimit

\* held[w][r] is the number of attempts in the drain's copy of the row, 0 if it has none.
Claim(w, S) ==
    /\ dpc[w] = "idle"
    /\ Batch(S)
    /\ row' = [r \in Requests |->
                 IF r \in S THEN [status |-> "processing", attempts |-> row[r].attempts + 1]
                            ELSE row[r]]
    /\ held' = [held EXCEPT ![w] = [r \in Requests |-> IF r \in S THEN row[r].attempts + 1 ELSE 0]]
    /\ DrainGoto(w, "next")
    /\ UNCHANGED <<doc, requestVars, dcur, brokerVars, budgetVars>>

\* The loop goes on with the rows that are left, or the task returns.
ItemDone(w) ==
    /\ held' = [held EXCEPT ![w][dcur[w]] = 0]
    /\ dcur' = [dcur EXCEPT ![w] = NoRow]
    /\ DrainGoto(w, IF Held(w) = {dcur[w]} THEN "idle" ELSE "next")

\* An exception leaves the loop: the rows not reached stay 'processing'.
Abort(w) ==
    /\ held' = [held EXCEPT ![w] = [r \in Requests |-> 0]]
    /\ dcur' = [dcur EXCEPT ![w] = NoRow]
    /\ DrainGoto(w, "idle")

\* The document is read; a job that has started or finished needs no message.
DrainLoad(w, r) ==
    /\ dpc[w] = "next"
    /\ r \in Held(w)
    /\ dcur' = [dcur EXCEPT ![w] = r]
    /\ DrainGoto(w, IF doc[rdoc[r]] \in {"PROCESSING", "READY", "NONE", "DELETED"}
                    THEN "mark" ELSE "queue")
    /\ UNCHANGED <<dbVars, requestVars, held, brokerVars, budgetVars>>

DrainMark(w) ==
    /\ dpc[w] = "mark"
    /\ RowExists(dcur[w])
    /\ MarkDispatched(dcur[w])
    /\ ItemDone(w)
    /\ UNCHANGED <<doc, requestVars, brokerVars, budgetVars>>

\* One transaction: the document becomes QUEUED and the row dispatched.
DrainQueue(w) ==
    /\ dpc[w] = "queue"
    /\ RowExists(dcur[w])
    /\ SetStatusIfExists(rdoc[dcur[w]], "QUEUED")
    /\ MarkDispatched(dcur[w])
    /\ DrainGoto(w, "send")
    /\ UNCHANGED <<requestVars, dcur, held, brokerVars, budgetVars>>

DrainSend(w) ==
    /\ dpc[w] = "send"
    /\ msgs' = [msgs EXCEPT ![dcur[w]] = @ + 1]
    /\ ItemDone(w)
    /\ UNCHANGED <<dbVars, requestVars, running, budgetVars>>

\* A step of the item raises: the row is gone, or the cache, the database or the
\* broker failed.  (A failing load is a failing mark.)
DrainRaises(w) ==
    /\ \/ dpc[w] \in {"mark", "queue"} /\ ~RowExists(dcur[w]) /\ NoBudget
       \/ dpc[w] \in {"mark", "queue", "send"} /\ UseFault /\ UNCHANGED <<crashes, deletes>>
    /\ DrainGoto(w, "fail")
    /\ UNCHANGED <<dbVars, requestVars, dcur, held, brokerVars>>

\* Mutant of Retryable: off by one, the last attempt is never made.
Retryable_OneShort(w) == held[w][dcur[w]] + 1 < MaxAttempts

Retryable(w) == held[w][dcur[w]] < MaxAttempts

DrainFail(w) ==
    /\ dpc[w] = "fail"
    /\ CanMarkFailed(dcur[w])
    /\ MarkFailed(dcur[w], Retryable(w))
    /\ IF Retryable(w) THEN ItemDone(w)
                       ELSE DrainGoto(w, "docfail") /\ UNCHANGED <<dcur, held>>
    /\ UNCHANGED <<doc, requestVars, brokerVars, budgetVars>>

\* mark_failed itself raises, out of the handler and out of the drain.
DrainAborts(w) ==
    /\ dpc[w] = "fail"
    /\ \/ ~CanMarkFailed(dcur[w]) /\ NoBudget
       \/ UseFault /\ UNCHANGED <<crashes, deletes>>
    /\ Abort(w)
    /\ UNCHANGED <<dbVars, requestVars, brokerVars>>

\* The attempts are used up: the document fails (best effort).
DrainFailDoc(w) ==
    /\ dpc[w] = "docfail"
    /\ \/ SetStatusIfExists(rdoc[dcur[w]], "FAILED") /\ NoBudget
       \/ UNCHANGED doc /\ UseFault /\ UNCHANGED <<crashes, deletes>>
    /\ ItemDone(w)
    /\ UNCHANGED <<row, requestVars, brokerVars>>

DrainStep(w) ==
    \/ \E r \in Requests : DrainLoad(w, r)
    \/ DrainMark(w) \/ DrainQueue(w) \/ DrainSend(w)
    \/ DrainRaises(w) \/ DrainFail(w) \/ DrainAborts(w) \/ DrainFailDoc(w)

DrainCrash(w) ==
    /\ dpc[w] # "idle"
    /\ crashes < MaxCrashes /\ crashes' = crashes + 1
    /\ Abort(w)
    /\ UNCHANGED <<dbVars, requestVars, brokerVars, faults, deletes>>

-----------------------------------------------------------------------------
(* The worker: a job, with all the messages it passes on, from the start   *)
(* of process_document to the status it leaves.                            *)

StartJob(t) ==
    /\ msgs[t] > 0
    /\ msgs' = [msgs EXCEPT ![t] = @ - 1]
    /\ running' = IF Exists(rdoc[t]) THEN [running EXCEPT ![t] = @ + 1] ELSE running
    /\ SetStatusIfExists(rdoc[t], "PROCESSING")
    /\ UNCHANGED <<row, requestVars, drainVars, budgetVars>>

FinishJob(t, s) ==
    /\ running[t] > 0
    /\ running' = [running EXCEPT ![t] = @ - 1]
    /\ SetStatusIfExists(rdoc[t], s)
    /\ UNCHANGED <<row, requestVars, drainVars, msgs, budgetVars>>

\* Messages are acknowledged late: a lost worker puts its message back.
WorkerCrash(t) ==
    /\ running[t] > 0
    /\ crashes < MaxCrashes /\ crashes' = crashes + 1
    /\ running' = [running EXCEPT ![t] = @ - 1]
    /\ msgs' = [msgs EXCEPT ![t] = @ + 1]
    /\ UNCHANGED <<dbVars, requestVars, drainVars, faults, deletes>>

WorkerStep(t) == StartJob(t) \/ \E s \in {"READY", "FAILED"} : FinishJob(t, s)

\* Deleting a document cascades to its rows.
DeleteDocument(d) ==
    /\ Exists(d)
    /\ deletes < MaxDeletes /\ deletes' = deletes + 1
    /\ SetStatus(d, "DELETED")
    /\ row' = [r \in Requests |->
                 IF rdoc[r] = d THEN [status |-> "none", attempts |-> 0] ELSE row[r]]
    /\ UNCHANGED <<requestVars, drainVars, brokerVars, faults, crashes>>

-----------------------------------------------------------------------------

Init ==
    /\ doc = [d \in Docs |-> "NONE"]
    /\ row = [r \in Requests |-> [status |-> "none", attempts |-> 0]]
    /\ rpc = [c \in Requests |-> "new"]
    /\ rdoc = [c \in Requests |-> NoDoc]
    /\ rrow = [c \in Requests |-> NoRow]
    /\ rkind = [c \in Requests |-> "none"]
    /\ dpc = [w \in Drains |-> "idle"]
    /\ dcur = [w \in Drains |-> NoRow]
    /\ held = [w \in Drains |-> [r \in Requests |-> 0]]
    /\ msgs = [t \in Requests |-> 0]
    /\ running = [t \in Requests |-> 0]
    /\ faults = 0 /\ crashes = 0 /\ deletes = 0

Next ==
    \/ \E c \in Requests, k \in Kinds, d \in Docs : Begin(c, k, d)
    \/ \E c \in Requests : RequestStep(c) \/ RequestCrash(c)
    \/ \E w \in Drains, S \in SUBSET Requests : Claim(w, S)
    \/ \E w \in Drains : DrainStep(w) \/ DrainCrash(w)
    \/ \E t \in Requests : WorkerStep(t) \/ WorkerCrash(t)
    \/ \E d \in Docs : DeleteDocument(d)

Spec == Init /\ [][Next]_vars

\* A live process goes on, beat starts a drain every minute, and workers take messages.
\* Users need not act, and nothing makes a failing call or a crash happen.
Fairness ==
    /\ \A c \in Requests : WF_vars(RequestStep(c))
    /\ \A w \in Drains : WF_vars(\E S \in SUBSET Requests : Claim(w, S))
    /\ \A w \in Drains : WF_vars(DrainStep(w))
    /\ \A t \in Requests : WF_vars(WorkerStep(t))

FairSpec == Spec /\ Fairness

-----------------------------------------------------------------------------
(* Properties.                                                             *)

\* Every variable holds a value of its kind; a drain that handles an item holds it.
TypeOK ==
    /\ doc \in [Docs -> DocStatus]
    /\ row \in [Requests -> Row]
    /\ rpc \in [Requests -> {"new", "loaded", "queued", "marked", "unsent",
                             "fallback", "direct", "giveup", "done"}]
    /\ rdoc \in [Requests -> Docs \cup {NoDoc}]
    /\ rrow \in [Requests -> Requests \cup {NoRow}]
    /\ rkind \in [Requests -> AllKinds \cup {"none"}]
    /\ dpc \in [Drains -> {"idle", "next", "mark", "queue", "send", "fail", "docfail"}]
    /\ dcur \in [Drains -> Requests \cup {NoRow}]
    /\ held \in [Drains -> [Requests -> 0..MaxAttempts]]
    /\ msgs \in [Requests -> Nat] /\ running \in [Requests -> Nat]
    /\ faults \in 0..MaxFaults /\ crashes \in 0..MaxCrashes /\ deletes \in 0..MaxDeletes

\* No two drains work on the same claim of a row: a stale lock may be taken over, but
\* the two drains then differ in the attempt they were given.
ClaimExclusive ==
    \A v, w \in Drains : \A r \in Requests :
        (v # w /\ held[v][r] > 0) => held[v][r] # held[w][r]

\* A row is given up ('failed') only after the last of its attempts.
FailedIsExhausted ==
    \A r \in Requests : row[r].status = "failed" => row[r].attempts = MaxAttempts

\* The upsert of create_outbox is unambiguous: a document has one active row at most.
OneActiveRow ==
    \A d \in Docs : \A q, r \in ActiveRowsOf(d) : q = r

\* BulkReprocess commits QUEUED before it queues; no other operation does.
InBulk(d) == \E c \in Requests : rdoc[c] = d /\ rkind[c] = "bulk"

\* No claim is left: requests and late drains put a row back to pending without
\* resetting its attempts, and the drains pass over it.
Exhausted(d) == \E r \in ActiveRowsOf(d) : row[r].attempts = MaxAttempts

\* A row that a drain may claim does not wait for ever, whatever the batch limit.
ClaimableIsClaimed == \A r \in Requests : Claimable(r) ~> ~Claimable(r)

\* A document shown as QUEUED leaves that status.
QueuedIsLeft == \A d \in Docs : doc[d] = "QUEUED" ~> doc[d] # "QUEUED"

\* It does so when no process is lost, at most one call fails, it is not in a bulk
\* operation and it has attempts left.
QueuedIsLeftAfterOneFault ==
    \A d \in Docs :
        doc[d] = "QUEUED" ~>
            \/ doc[d] # "QUEUED"
            \/ faults > 1 \/ crashes > 0 \/ InBulk(d) \/ Exhausted(d)

=============================================================================
