---------------------------- MODULE StatusCache -----------------------------
(***************************************************************************)
(* The status of one document in two places: the row, and the value in     *)
(* Redis that GET /documents/{id}/status prefers.  Everybody who changes   *)
(* the row writes the value in a step of its own, before or after, and     *)
(* either step can fail.  The value lapses after REDIS_DOC_STATUS_TTL.     *)
(***************************************************************************)
EXTENDS Naturals, FiniteSets

CONSTANTS
    Requests,       \* requests of the owner, each made once
    Workers,        \* bound: jobs and drains at a time
    MaxJobRetries,  \* max_retries of the tasks
    MaxCacheFaults  \* bound: calls that fail and processes that are lost

ASSUME StatusCacheAssumption == MaxJobRetries \in Nat /\ MaxCacheFaults \in Nat

VARIABLES
    row,        \* documents.status
    value,      \* the status in Redis, or "none"
    asked,      \* the requests
    work,       \* the jobs and drains
    messages,   \* messages in the broker: kinds of work with their retries
    mishaps,    \* how much of MaxCacheFaults is used up
    astray      \* history: why the two may differ at rest

cacheVars == <<row, value, asked, work, messages, mishaps, astray>>

-----------------------------------------------------------------------------

RowStatus  == {"PENDING", "QUEUED", "PROCESSING", "READY", "FAILED"}
Kinds      == {"drain", "process", "enrich"}
Message    == [kind : Kinds, retries : 0..MaxJobRetries]
AskedPc    == {"idle", "row", "value", "send", "late", "done"}
WorkPc     == {"free", "begin", "mark", "run", "finish", "done", "failed", "tell"}
Reasons    == {"overlap", "silent", "unwritten"}

CacheTypeOK ==
    /\ row \in RowStatus
    /\ value \in RowStatus \cup {"none"}
    /\ asked \in [Requests -> [op : {"queue", "sync", "clear"}, pc : AskedPc]]
    /\ work \in [Workers -> [message : Message, pc : WorkPc, copy : RowStatus]]
    /\ messages \subseteq Message
    /\ mishaps \in 0..MaxCacheFaults
    /\ astray \subseteq Reasons

Fresh(kind) == [kind |-> kind, retries |-> 0]
FreeWorker  == [message |-> Fresh("process"), pc |-> "free", copy |-> "PENDING"]

CacheInit ==
    /\ row = "PENDING" /\ value = "none"
    /\ asked = [r \in Requests |-> [op |-> "queue", pc |-> "idle"]]
    /\ work = [w \in Workers |-> FreeWorker]
    /\ messages = {} /\ mishaps = 0 /\ astray = {}

\* Those who have begun and not ended.
Asking  == {r \in Requests : asked[r].pc \notin {"idle", "done"}}
Working == {w \in Workers : work[w].pc # "free"}
Quiet   == Asking = {} /\ Working = {} /\ messages = {}

Stray(reason, hit) == astray' = IF hit THEN astray \cup {reason} ELSE astray
Mishap == mishaps < MaxCacheFaults /\ mishaps' = mishaps + 1

Step(r, pc) == asked' = [asked EXCEPT ![r].pc = pc]
Turn(w, pc) == work' = [work EXCEPT ![w].pc = pc]
End(w)      == work' = [work EXCEPT ![w] = FreeWorker]

\* RedisDocumentStatusCache.set_status.
SetStatus(s) == value' = s

-----------------------------------------------------------------------------
(* Requests.  "queue" is queue_document_processing and its likes: the row, *)
(* the value, the message.  "sync" is the drain of the GitHub sync: the    *)
(* value, the message, and only then the row.  "clear" is an update that   *)
(* leaves a note empty: it is READY, and nothing tells the cache.          *)

AskBegin(r, op) ==
    /\ asked[r].pc = "idle"
    /\ op = "sync" => row \notin {"QUEUED", "PROCESSING", "READY"}
    /\ asked' = [asked EXCEPT ![r] = [op |-> op, pc |-> IF op = "sync" THEN "value" ELSE "row"]]
    /\ Stray("overlap", Asking # {} \/ Working # {} \/ messages # {})
    /\ UNCHANGED <<row, value, work, messages, mishaps>>

AskRow(r) ==
    /\ asked[r].pc = "row"
    /\ row' = IF asked[r].op = "clear" THEN "READY" ELSE "QUEUED"
    /\ Step(r, IF asked[r].op = "clear" THEN "done" ELSE "value")
    /\ Stray("silent", asked[r].op = "clear")
    /\ UNCHANGED <<value, work, messages, mishaps>>

\* The call to Redis may fail: it is suppressed in a request, and ends a sync, whose row of
\* the outbox stays for the next drain.
AskValue(r) ==
    /\ asked[r].pc = "value"
    /\ \/ SetStatus("QUEUED") /\ Step(r, "send") /\ UNCHANGED <<mishaps, astray>>
       \/ /\ Mishap /\ UNCHANGED value
          /\ Step(r, IF asked[r].op = "sync" THEN "done" ELSE "send")
          /\ UNCHANGED astray
    /\ UNCHANGED <<row, work, messages>>

\* The message is sent, or the request is lost and the drain of the outbox sends it.
AskSend(r) ==
    /\ asked[r].pc = "send"
    /\ \/ messages' = messages \cup {Fresh("process")} /\ UNCHANGED mishaps
       \/ /\ Mishap /\ asked[r].op = "queue"
          /\ messages' = messages \cup {Fresh("drain")}
    /\ Step(r, IF asked[r].op = "sync" THEN "late" ELSE "done")
    /\ UNCHANGED <<row, value, work, astray>>

\* The drain of a sync marks the document after its message may have been worked on.
AskLate(r) ==
    /\ asked[r].pc = "late"
    /\ row' = "QUEUED"
    /\ Step(r, "done")
    /\ Stray("overlap", Working # {} \/ messages = {})
    /\ UNCHANGED <<value, work, messages, mishaps>>

-----------------------------------------------------------------------------
(* Jobs.                                                                   *)

WorkBegin(w, m) ==
    /\ work[w].pc = "free" /\ m \in messages
    /\ messages' = messages \ {m}
    /\ work' = [work EXCEPT ![w] = [message |-> m, pc |-> "begin", copy |-> row]]
    /\ Stray("overlap", Asking # {} \/ Working # {} \/ (m.kind = "enrich" /\ row # "READY"))
    /\ UNCHANGED <<row, value, asked, mishaps>>

Does(w, kind, pc) == work[w].message.kind = kind /\ work[w].pc = pc

\* A drain of the document outbox: a document at work or done needs no message.
DrainMark(w) ==
    /\ Does(w, "drain", "begin")
    /\ IF work[w].copy \in {"PROCESSING", "READY"}
       THEN End(w) /\ UNCHANGED <<value, messages>>
       ELSE SetStatus("QUEUED") /\ Turn(w, "mark") /\ UNCHANGED messages
    /\ UNCHANGED <<row, asked, mishaps, astray>>

DrainSend(w) ==
    /\ Does(w, "drain", "mark")
    /\ row' = "QUEUED"
    /\ messages' = messages \cup {Fresh("process")}
    /\ End(w)
    /\ UNCHANGED <<value, asked, mishaps, astray>>

\* Extraction, OCR and embedding as one job: the value before the row at its beginning, ...
ProcessBegin(w) ==
    /\ Does(w, "process", "begin")
    /\ SetStatus("PROCESSING") /\ Turn(w, "mark")
    /\ UNCHANGED <<row, asked, messages, mishaps, astray>>

ProcessMark(w) ==
    /\ Does(w, "process", "mark")
    /\ row' = "PROCESSING" /\ Turn(w, "run")
    /\ UNCHANGED <<value, asked, messages, mishaps, astray>>

\* ... the value again as it goes on, ...
ProcessRun(w) ==
    /\ Does(w, "process", "run")
    /\ SetStatus("PROCESSING") /\ Turn(w, "finish")
    /\ UNCHANGED <<row, asked, messages, mishaps, astray>>

\* ... and the row before the value at its end.
ProcessFinish(w) ==
    /\ Does(w, "process", "finish")
    /\ row' = "READY" /\ Turn(w, "done")
    /\ UNCHANGED <<value, asked, messages, mishaps, astray>>

ProcessDone(w) ==
    /\ Does(w, "process", "done")
    /\ SetStatus("READY")
    /\ messages' = messages \cup {Fresh("enrich")}
    /\ End(w)
    /\ UNCHANGED <<row, asked, mishaps, astray>>

\* A call fails, to Redis or to another service.  The task is retried, or fails for good:
\* handle_document_failure writes the row and then the value.
ProcessFault(w) ==
    /\ work[w].message.kind = "process" /\ work[w].pc \notin {"free", "failed", "tell"}
    /\ Mishap
    /\ \/ /\ work[w].message.retries < MaxJobRetries
          /\ messages' = messages \cup {[work[w].message EXCEPT !.retries = @ + 1]}
          /\ End(w)
       \/ Turn(w, "failed") /\ UNCHANGED messages
    /\ UNCHANGED <<row, value, asked, astray>>

FailRow(w) ==
    /\ work[w].pc = "failed"
    /\ row' = "FAILED" /\ Turn(w, "tell")
    /\ UNCHANGED <<value, asked, messages, mishaps, astray>>

\* Mutant: a failure is not told to the cache.
FailTell_Silent(w) ==
    /\ work[w].pc = "tell"
    /\ End(w)
    /\ UNCHANGED <<row, value, asked, messages, mishaps, astray>>

FailTell(w) ==
    /\ work[w].pc = "tell"
    /\ \/ SetStatus("FAILED") /\ UNCHANGED <<mishaps, astray>>
       \/ Mishap /\ UNCHANGED value /\ Stray("unwritten", TRUE)
    /\ End(w)
    /\ UNCHANGED <<row, asked, messages>>

\* Enrichment writes back the row it read, status included, and says READY whatever the row
\* is.  A failure leaves everything as it is.
EnrichRow(w) ==
    /\ Does(w, "enrich", "begin")
    /\ \/ row' = work[w].copy /\ Turn(w, "done") /\ UNCHANGED mishaps
       \/ Mishap /\ End(w) /\ UNCHANGED row
    /\ UNCHANGED <<value, asked, messages, astray>>

EnrichDone(w) ==
    /\ Does(w, "enrich", "done")
    /\ SetStatus("READY") /\ End(w)
    /\ UNCHANGED <<row, asked, messages, mishaps, astray>>

\* A lost worker: the broker delivers its message again, for tasks are acknowledged late.
WorkLost(w) ==
    /\ work[w].pc # "free"
    /\ Mishap
    /\ messages' = messages \cup {work[w].message}
    /\ End(w)
    /\ UNCHANGED <<row, value, asked, astray>>

\* Mutant: the value is written without a time to live.
Lapse_Never == FALSE /\ UNCHANGED cacheVars

\* Redis drops the value when its time is over.
Lapse ==
    /\ value # "none"
    /\ value' = "none"
    /\ UNCHANGED <<row, asked, work, messages, mishaps, astray>>

AskNext(r) ==
    \/ \E op \in {"queue", "sync", "clear"} : AskBegin(r, op)
    \/ AskRow(r) \/ AskValue(r) \/ AskSend(r) \/ AskLate(r)

WorkNext(w) ==
    \/ \E m \in messages : WorkBegin(w, m)
    \/ DrainMark(w) \/ DrainSend(w)
    \/ ProcessBegin(w) \/ ProcessMark(w) \/ ProcessRun(w) \/ ProcessFinish(w) \/ ProcessDone(w)
    \/ ProcessFault(w) \/ FailRow(w) \/ FailTell(w)
    \/ EnrichRow(w) \/ EnrichDone(w) \/ WorkLost(w)

CacheNext == (\E r \in Requests : AskNext(r)) \/ (\E w \in Workers : WorkNext(w)) \/ Lapse

CacheSpec == CacheInit /\ [][CacheNext]_cacheVars

\* Requests that have begun and jobs go on, and Redis drops what has lapsed.
CacheFairSpec ==
    /\ CacheSpec
    /\ \A r \in Requests : WF_cacheVars(AskRow(r) \/ AskValue(r) \/ AskSend(r) \/ AskLate(r))
    /\ \A w \in Workers : WF_cacheVars(WorkNext(w))
    /\ WF_cacheVars(Lapse)

-----------------------------------------------------------------------------

\* GetDocumentStatusUseCase: the value wins over the row.
ShownStatus == IF value = "none" THEN row ELSE value

\* When nobody works on a document any more, its owner is shown the status it has.  The
\* exceptions are those the code cannot exclude: two that overlapped, a note that was left
\* empty, and a failure that could not be told to Redis.
QuietIsShown == (Quiet /\ astray = {}) => ShownStatus = row

\* Whatever overlapped or failed: once all is quiet for good, the owner is shown the status
\* of the row in the end, because every value in Redis has a time to live.
ShownSettles == (<>[]Quiet) => <>[](ShownStatus = row)

=============================================================================
