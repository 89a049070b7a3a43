-------------------------- MODULE DocumentPipeline --------------------------
(***************************************************************************)
(* What happens to one document between a request that queues it and the   *)
(* end of its jobs: extraction, OCR, embedding and enrichment, each a      *)
(* Celery task that reads the document, works for a while on its copy and  *)
(* then writes the whole row back, while the owner edits, reprocesses or   *)
(* deletes it.  Documents are independent of each other.                   *)
(*                                                                         *)
(* How a queued document gets its message is the subject of                *)
(* DocumentOutbox; here a request that queues sends one, or more when the  *)
(* outbox sends it again.                                                  *)
(***************************************************************************)
EXTENDS Naturals, FiniteSets

CONSTANTS
    Types,          \* types of document considered, a subset of AllTypes
    Texts,          \* texts a document can have
    NoText,         \* raw_content is NULL
    EditTexts,      \* what an edit can make of a note, a subset of Texts and NoText
    Jobs,           \* bound: slots for messages and the jobs they start
    Users,          \* requests of the owner, each made once
    Operations,     \* what they do, a subset of AllOperations
    MaxDeliveries,  \* bound: messages a request that queues leads to
    MaxRetries,     \* max_retries of the tasks
    MaxFaults,      \* bound: jobs that fail
    MaxLost         \* bound: workers and requests lost between two steps

AllTypes      == {"TEXT", "URL", "IMAGE"}  \* URL stands for PDF and YOUTUBE, TEXT for MARKDOWN
AllOperations == {"edit", "reprocess", "retry", "bulk", "delete"}

ASSUME PipelineAssumption ==
    /\ Types \subseteq AllTypes
    /\ NoText \notin Texts /\ Texts # {}
    /\ EditTexts \subseteq Texts \cup {NoText}
    /\ Operations \subseteq AllOperations
    /\ MaxDeliveries \in Nat \ {0}
    /\ MaxRetries \in Nat /\ MaxFaults \in Nat /\ MaxLost \in Nat

VARIABLES
    type,         \* documents.type, never changed
    doc,          \* documents.status and raw_content
    chunks,       \* the batches of chunks in the database: who wrote them, of what text
    job,          \* the messages and the running jobs
    req,          \* the requests
    faults, lost, \* how much of the bounds is used up
    clash         \* history: who did not keep apart, a subset of {"users", "enrich"}

vars == <<type, doc, chunks, job, req, faults, lost, clash>>

-----------------------------------------------------------------------------

Status == {"PENDING", "QUEUED", "PROCESSING", "READY", "FAILED", "GONE"}
Row    == [status : Status, content : Texts \cup {NoText}]
Batch  == [by : Jobs, of : Texts]

Exists == doc.status # "GONE"
With(copy, status) == [copy EXCEPT !.status = status]

NoCopy == [status |-> "GONE", content |-> NoText]
Free   == [kind |-> "none", pc |-> "free", text |-> NoText, check |-> FALSE,
           copy |-> NoCopy, old |-> {}, retries |-> 0]

Message(kind) == [Free EXCEPT !.kind = kind, !.pc = "sent"]
\* An embedding job carries the text to index, and for a text document the hash of the
\* text it was made from: the texts themselves stand for their hashes.
EmbedMessage(t) ==
    [Message("embed") EXCEPT !.text = t, !.check = (type = "TEXT")]

FreeJobs == {j \in Jobs : job[j].pc = "free"}

At(j, kind, pc) == job[j].kind = kind /\ job[j].pc = pc
Goto(j, pc) == job' = [job EXCEPT ![j].pc = pc]
Done(j)     == job' = [job EXCEPT ![j] = Free]

\* The message of job j, as it was when the job took it.
Again(j) == [job[j] EXCEPT !.pc = "sent", !.copy = NoCopy, !.old = {}]

\* The job has sent the message m that follows it and is acknowledged, or its worker is
\* lost just before that and the job starts again.
Then(j, m) ==
    \/ job' = [job EXCEPT ![j] = m] /\ UNCHANGED lost
    \/ /\ lost < MaxLost /\ lost' = lost + 1
       /\ \E k \in FreeJobs : job' = [job EXCEPT ![j] = Again(j), ![k] = m]

\* Jobs and requests that have read the document and not yet written it.
Holding == {j \in Jobs : job[j].pc \notin {"free", "sent"}}
Waiting == {u \in Users : req[u].pc \in {"save", "queue"}}

\* Messages that carry a text of their own.
Carrying == {j \in Jobs : At(j, "embed", "sent")}

\* The history of clashes.  The owner does not keep apart when a request writes, or takes
\* a copy, while another holds one, or empties a note whose older texts are still to be
\* indexed; an enrichment does not when it runs beside another job or a request, or on a
\* document that is not READY.
Clash(who, hit) == clash' = IF hit THEN clash \cup {who} ELSE clash
UserWriteClash(u) ==
    Clash("users", \/ Holding # {} \/ ~(Waiting \subseteq {u})
                   \/ doc.content # NoText /\ doc'.content = NoText /\ Carrying # {})
UserReadClash     == Clash("users", Waiting # {})
EnrichClash(j)    == Clash("enrich", Holding # {} \/ Waiting # {} \/ doc.status # "READY")
JobClash(j)       == Clash("enrich", \E k \in Holding : job[k].kind = "enrich")

NoBudget == UNCHANGED <<faults, lost>>

-----------------------------------------------------------------------------
(* process_document: ProcessDocumentIngestionUseCase.                      *)

IngestLoad(j) ==
    /\ At(j, "ingest", "sent")
    /\ IF Exists THEN job' = [job EXCEPT ![j].pc = "mark", ![j].copy = doc]
                 ELSE Done(j)
    /\ UNCHANGED <<type, doc, chunks, req>> /\ NoBudget
    /\ JobClash(j)

\* The whole row is written back from the copy.
IngestMark(j) ==
    /\ At(j, "ingest", "mark") /\ Exists
    /\ doc' = With(job[j].copy, "PROCESSING")
    /\ Goto(j, "extract")
    /\ UNCHANGED <<type, chunks, req, clash>> /\ NoBudget

\* A text is taken from the copy; a page, a file or a video is fetched.
Extracted(j) == IF type = "TEXT" THEN {job[j].copy.content} \ {NoText} ELSE Texts

IngestSend(j) ==
    /\ At(j, "ingest", "extract")
    /\ IF type = "IMAGE" THEN Then(j, Message("image"))
                         ELSE \E t \in Extracted(j) : Then(j, EmbedMessage(t))
    /\ UNCHANGED <<type, doc, chunks, req, faults, clash>>

(* process_image_document: ProcessImageDocumentUseCase.                    *)

ImageLoad(j) ==
    /\ At(j, "image", "sent")
    /\ IF Exists THEN job' = [job EXCEPT ![j].pc = "mark", ![j].copy = doc]
                 ELSE Done(j)
    /\ UNCHANGED <<type, doc, chunks, req>> /\ NoBudget
    /\ JobClash(j)

ImageMark(j) ==
    /\ At(j, "image", "mark") /\ Exists
    /\ doc' = With(job[j].copy, "PROCESSING")
    /\ Goto(j, "ocr")
    /\ UNCHANGED <<type, chunks, req, clash>> /\ NoBudget

\* Visual metadata, when there is any, is written with the same copy.
ImageVisual(j) ==
    /\ At(j, "image", "ocr") /\ Exists
    /\ doc' = With(job[j].copy, "PROCESSING")
    /\ Goto(j, "send")
    /\ UNCHANGED <<type, chunks, req, clash>> /\ NoBudget

ImageSend(j) ==
    /\ At(j, "image", "ocr") \/ At(j, "image", "send")
    /\ \E t \in Texts : Then(j, EmbedMessage(t))
    /\ UNCHANGED <<type, doc, chunks, req, faults, clash>>

(* embed_and_finalize_document: ProcessDocumentEmbeddingsUseCase.          *)

\* Mutant of Stale: the text of the job is never compared.
Stale_Never(j) == FALSE

\* _is_stale_text_job: a document without content is not newer than the job.
Stale(j) ==
    /\ job[j].check
    /\ doc.content # NoText
    /\ doc.content # job[j].text

EmbedLoad(j) ==
    /\ At(j, "embed", "sent")
    /\ IF Exists /\ ~Stale(j)
       THEN job' = [job EXCEPT ![j].pc = "embed", ![j].copy = doc]
       ELSE Done(j)
    /\ UNCHANGED <<type, doc, chunks, req>> /\ NoBudget
    /\ JobClash(j)

\* The transaction that saves starts by deleting the chunks it can see; those another
\* transaction inserts meanwhile survive it.
EmbedDelete(j) ==
    /\ At(j, "embed", "embed")
    /\ job' = [job EXCEPT ![j].pc = "save", ![j].old = chunks]
    /\ UNCHANGED <<type, doc, chunks, req, clash>> /\ NoBudget

\* Mutant of EmbedSave: the row is inserted when it is not there.
EmbedSave_Upsert(j) ==
    /\ At(j, "embed", "save")
    /\ chunks' = (chunks \ job[j].old) \cup {[by |-> j, of |-> job[j].text]}
    /\ doc' = [status |-> "READY", content |-> job[j].text]
    /\ Then(j, Message("enrich"))
    /\ UNCHANGED <<type, req, faults, clash>>

\* The document is READY even when the message for the enrichment cannot be sent.
EmbedSave(j) ==
    LET copy == job[j].copy
        text == IF copy.content = NoText THEN job[j].text ELSE copy.content
    IN
    /\ At(j, "embed", "save") /\ Exists
    /\ chunks' = (chunks \ job[j].old) \cup {[by |-> j, of |-> job[j].text]}
    /\ doc' = [status |-> "READY", content |-> text]
    /\ \E m \in {Message("enrich"), Free} : Then(j, m)
    /\ UNCHANGED <<type, req, faults, clash>>

(* enrich_document_task: EnrichmentService.                                *)

EnrichLoad(j) ==
    /\ At(j, "enrich", "sent")
    /\ IF Exists THEN job' = [job EXCEPT ![j].pc = "save", ![j].copy = doc]
                 ELSE Done(j)
    /\ UNCHANGED <<type, doc, chunks, req>> /\ NoBudget
    /\ EnrichClash(j)

\* Only the summary, the tags and the like are new in the copy; the whole row is written.
EnrichSave(j) ==
    /\ At(j, "enrich", "save") /\ Exists
    /\ doc' = job[j].copy
    /\ Then(j, Free)
    /\ UNCHANGED <<type, chunks, req, faults, clash>>

-----------------------------------------------------------------------------
(* Failures of jobs.                                                       *)

\* Steps that raise whatever happens: the document is gone, or has no text.
MustFail(j) ==
    \/ job[j].pc \in {"mark", "save"} /\ ~Exists
    \/ At(j, "ingest", "extract") /\ type = "TEXT" /\ job[j].copy.content = NoText

Raises(j) ==
    /\ job[j].pc \notin {"free", "sent"}
    /\ \/ MustFail(j) /\ UNCHANGED faults
       \/ faults < MaxFaults /\ faults' = faults + 1

\* OCR retries after any error; classify_error lets only the calls of the extractors and
\* of the embedding provider be retried.
CanRetry(j) ==
    /\ job[j].retries < MaxRetries
    /\ \/ job[j].kind = "image"
       \/ ~MustFail(j) /\ (At(j, "ingest", "extract") \/ At(j, "embed", "embed"))

JobRetries(j) ==
    /\ Raises(j) /\ CanRetry(j)
    /\ job' = [job EXCEPT ![j] = [Again(j) EXCEPT !.retries = @ + 1]]
    /\ UNCHANGED <<type, doc, chunks, req, lost, clash>>

\* Mutant of JobFails: the failure is logged and nothing else.
JobFails_Silent(j) ==
    /\ Raises(j)
    /\ Done(j)
    /\ UNCHANGED <<type, doc, chunks, req, lost, clash>>

\* handle_document_failure updates the status of the row, whatever it has become.
\* Enrichment only logs the error.
JobFails(j) ==
    /\ Raises(j)
    /\ job[j].kind = "image" => ~CanRetry(j)
    /\ doc' = IF Exists /\ job[j].kind # "enrich" THEN With(doc, "FAILED") ELSE doc
    /\ Done(j)
    /\ UNCHANGED <<type, chunks, req, lost, clash>>

\* Messages are acknowledged late: the job of a lost worker starts again.
WorkerLost(j) ==
    /\ job[j].pc \notin {"free", "sent"}
    /\ lost < MaxLost /\ lost' = lost + 1
    /\ job' = [job EXCEPT ![j] = Again(j)]
    /\ UNCHANGED <<type, doc, chunks, req, faults, clash>>

-----------------------------------------------------------------------------
(* The owner's requests.                                                   *)

Request(op, pc, copy) == [op |-> op, pc |-> pc, copy |-> copy]
ReqGoto(u, pc) == req' = [req EXCEPT ![u].pc = pc]

\* UpdateNote and RestoreNoteVersion read the note and change their copy of it; the text
\* stays the same when only the title, the collection or the language changes.
EditLoad(u, t) ==
    /\ "edit" \in Operations /\ req[u].pc = "new"
    /\ type = "TEXT" /\ Exists
    /\ req' = [req EXCEPT ![u] =
                 Request("edit", "save",
                         [status |-> IF t = NoText THEN "READY" ELSE doc.status, content |-> t])]
    /\ UNCHANGED <<type, doc, chunks, job>> /\ NoBudget
    /\ UserReadClash

\* The first transaction writes the note and, when it is empty, deletes its chunks.
EditSave(u) ==
    /\ req[u].pc = "save" /\ Exists
    /\ doc' = req[u].copy
    /\ IF doc'.content = NoText THEN chunks' = {} /\ ReqGoto(u, "done")
                                ELSE UNCHANGED chunks /\ ReqGoto(u, "queue")
    /\ UNCHANGED <<type, job>> /\ NoBudget
    /\ UserWriteClash(u)

\* Reprocess and Retry read the document, then queue it.
ReprocessLoad(u) ==
    /\ req[u].pc = "new" /\ Exists
    /\ \/ "reprocess" \in Operations
       \/ "retry" \in Operations /\ doc.status = "FAILED"
    /\ req' = [req EXCEPT ![u] = Request("reprocess", "queue", doc)]
    /\ UNCHANGED <<type, doc, chunks, job>> /\ NoBudget
    /\ UserReadClash

\* Mutant of BulkMark: the chunks go, the status stays until the document is queued.
BulkMark_ChunksOnly(u) ==
    /\ "bulk" \in Operations /\ req[u].pc = "new" /\ Exists
    /\ chunks' = {}
    /\ req' = [req EXCEPT ![u] = Request("bulk", "queue", doc)]
    /\ UNCHANGED <<type, doc, job>> /\ NoBudget
    /\ UserWriteClash(u)

\* BulkReprocess marks the document and drops its chunks before it queues it.
BulkMark(u) ==
    /\ "bulk" \in Operations /\ req[u].pc = "new" /\ Exists
    /\ doc' = With(doc, "QUEUED")
    /\ chunks' = {}
    /\ req' = [req EXCEPT ![u] = Request("bulk", "queue", doc')]
    /\ UNCHANGED <<type, job>> /\ NoBudget
    /\ UserWriteClash(u)

\* queue_document_processing and queue_note_processing, with the outbox behind them.
Queue(u) ==
    /\ req[u].pc = "queue" /\ Exists
    /\ doc' = With(req[u].copy, "QUEUED")
    /\ \E J \in SUBSET FreeJobs :
          /\ Cardinality(J) \in 1..MaxDeliveries
          /\ job' = [j \in Jobs |-> IF j \in J THEN Message("ingest") ELSE job[j]]
    /\ ReqGoto(u, "done")
    /\ UNCHANGED <<type, chunks>> /\ NoBudget
    /\ UserWriteClash(u)

\* The document is deleted under the request, or the process is lost.
RequestEnds(u) ==
    /\ u \in Waiting
    /\ \/ ~Exists /\ UNCHANGED lost
       \/ lost < MaxLost /\ lost' = lost + 1
    /\ ReqGoto(u, "done")
    /\ UNCHANGED <<type, doc, chunks, job, faults, clash>>

Delete(u) ==
    /\ "delete" \in Operations /\ req[u].pc = "new" /\ Exists
    /\ doc' = NoCopy /\ chunks' = {}
    /\ ReqGoto(u, "done")
    /\ UNCHANGED <<type, job, clash>> /\ NoBudget

-----------------------------------------------------------------------------

\* The document has just been inserted; the request that did so is about to queue it.
Init ==
    /\ type \in Types
    /\ \E t \in Texts :
          doc = [status |-> "PENDING", content |-> IF type = "TEXT" THEN t ELSE NoText]
    /\ chunks = {}
    /\ job = [j \in Jobs |-> Free]
    /\ \E u \in Users :
          req = [v \in Users |-> IF v = u THEN Request("create", "queue", doc)
                                          ELSE Request("none", "new", NoCopy)]
    /\ faults = 0 /\ lost = 0 /\ clash = {}

JobStep(j) ==
    \/ IngestLoad(j) \/ IngestMark(j) \/ IngestSend(j)
    \/ ImageLoad(j) \/ ImageMark(j) \/ ImageVisual(j) \/ ImageSend(j)
    \/ EmbedLoad(j) \/ EmbedDelete(j) \/ EmbedSave(j)
    \/ EnrichLoad(j) \/ EnrichSave(j)
    \/ JobFails(j) \/ JobRetries(j) \/ WorkerLost(j)

UserWrites(u) == EditSave(u) \/ BulkMark(u) \/ Queue(u) \/ Delete(u)

UserStep(u) ==
    \/ (\E t \in EditTexts : EditLoad(u, t)) \/ ReprocessLoad(u)
    \/ UserWrites(u) \/ RequestEnds(u)

Next == (\E j \in Jobs : JobStep(j)) \/ (\E u \in Users : UserStep(u))

Spec == Init /\ [][Next]_vars

-----------------------------------------------------------------------------
(* Properties.                                                             *)

JobRecord ==
    [kind : {"none", "ingest", "image", "embed", "enrich"},
     pc : {"free", "sent", "mark", "extract", "ocr", "send", "embed", "save"},
     text : Texts \cup {NoText}, check : BOOLEAN, copy : Row,
     old : SUBSET Batch, retries : 0..MaxRetries]

RequestRecord ==
    [op : AllOperations \cup {"none", "create"},
     pc : {"new", "save", "queue", "done"}, copy : Row]

TypeOK ==
    /\ type \in AllTypes /\ doc \in Row /\ chunks \subseteq Batch
    /\ job \in [Jobs -> JobRecord] /\ req \in [Users -> RequestRecord]
    /\ faults \in 0..MaxFaults /\ lost \in 0..MaxLost
    /\ clash \subseteq {"users", "enrich"}

\* Nothing is queued, running or about to be queued for the document.
Settled == FreeJobs = Jobs /\ Waiting = {}

\* When all is done the owner sees a result, not work that nobody does any more: an
\* enrichment that wrote back an older status is the only thing that can undo one.
HasResult == doc.status \in {"READY", "FAILED", "GONE"}
SettledIsFinal == (Settled /\ lost = 0 /\ "enrich" \notin clash) => HasResult

\* The chunks are those of one text, which is t, or there are none when t is no text.
IndexedAs(t) == {b.of : b \in chunks} = {t} \ {NoText}

\* When all is done a READY document can be found: a note or text by the text it shows, however
\* many jobs of older texts came after it, and what was fetched or read by something, unless
\* the owner wrote while a copy was about.  A note that was emptied is not found.
SettledIsIndexed ==
    (Settled /\ "users" \notin clash /\ doc.status = "READY") =>
        IF type = "TEXT" THEN lost = 0 => IndexedAs(doc.content) ELSE chunks # {}

\* A deleted document stays deleted, with nothing left to find.
DeletedStaysDeleted == [][doc.status = "GONE" => doc' = doc /\ chunks' = {}]_vars

\* The pipeline implements DocumentLife: its copies are those of the running jobs and the
\* waiting requests, and a document is found by its chunks.
Life == INSTANCE DocumentLife WITH
            row   <- doc,
            held  <- {job[j].copy : j \in Holding} \cup {req[u].copy : u \in Waiting},
            found <- chunks # {}

\* What jobs and requests write is a copy they took of a document that was there, and the text
\* of nobody else; nobody brings a deleted document back or lets it be found.
LifeIsKept == Life!LifeSpec

-----------------------------------------------------------------------------
(* What the code and its tests say, and the jobs can break.                *)

OwnerStep == \E u \in Users : req'[u] # req[u]

\* Only the owner changes what a note says: the embeddings of an older text are skipped.
TextIsTheOwners == [][type = "TEXT" /\ doc'.content # doc.content => OwnerStep]_vars

=============================================================================
