---------------------- MODULE DocumentPipeline_proofs ----------------------
(***************************************************************************)
(* What the pipeline guarantees for any number of texts, job slots and     *)
(* requests, any number of failures and losses, and whoever writes when.   *)
(***************************************************************************)
EXTENDS DocumentPipeline, FiniteSetTheorems, TLAPS

USE PipelineAssumption

\* An embedding job always has a text to index.
JobType == {m \in JobRecord : m.kind = "embed" => m.text \in Texts}

\* The types; a job that embeds has a text.
TypeInv == TypeOK /\ job \in [Jobs -> JobType]

\* A document that is gone has left nothing to find.
GoneIsEmpty == doc.status = "GONE" => doc = NoCopy /\ chunks = {}

\* What jobs and edits hold was read while the document existed.
JobsHoldLive  == \A j \in Jobs : job[j].pc \notin {"free", "sent"} => job[j].copy.status # "GONE"
\* A request that saves read a document that was there.
EditsHoldLive == \A u \in Users : req[u].pc = "save" => req[u].copy.status # "GONE"

\* The invariant of deletion.
DeletedInv == GoneIsEmpty /\ JobsHoldLive /\ EditsHoldLive

-----------------------------------------------------------------------------
(* The messages and jobs the actions build.                                *)

\* A free slot, and a message for any job that takes no text, have the type of a job.
LEMMA MessageType ==
    /\ Free \in JobType
    /\ \A kind \in {"ingest", "image", "enrich"} : Message(kind) \in JobType
  <1>1. NoCopy \in Row
    BY DEF NoCopy, Row, Status
  <1>2. Free \in JobRecord /\ Free.kind = "none"
    BY <1>1 DEF Free, JobRecord
  <1>3. ASSUME NEW kind \in {"ingest", "image", "enrich"}
        PROVE  Message(kind) \in JobType
    <2>1. Message(kind) \in JobRecord
      BY <1>2 DEF Message, JobRecord
    <2>2. Message(kind).kind = kind
      BY <1>2 DEF Message, JobRecord
    <2> QED  BY <2>1, <2>2 DEF JobType
  <1> QED  BY <1>2, <1>3 DEF JobType

\* So has the message of an embedding job with a text.
LEMMA EmbedMessageType == \A t \in Texts : EmbedMessage(t) \in JobType
  <1>1. Free \in JobRecord
    BY MessageType DEF JobType
  <1>2. Message("embed") \in JobRecord
    BY <1>1 DEF Message, JobRecord
  <1> SUFFICES ASSUME NEW t \in Texts
               PROVE  EmbedMessage(t) \in JobType
    OBVIOUS
  <1>3. (type = "TEXT") \in BOOLEAN
    OBVIOUS
  <1>4. EmbedMessage(t) \in JobRecord
    BY <1>2, <1>3 DEF EmbedMessage, JobRecord
  <1>5. EmbedMessage(t).text = t
    BY <1>2 DEF EmbedMessage, JobRecord
  <1> QED  BY <1>4, <1>5 DEF JobType

\* A job that starts again has the message it had.
LEMMA AgainType ==
    ASSUME NEW j \in Jobs, job \in [Jobs -> JobType]
    PROVE  Again(j) \in JobType
  <1>1. NoCopy \in Row
    BY DEF NoCopy, Row, Status
  <1>2. job[j] \in JobType
    OBVIOUS
  <1> QED  BY <1>1, <1>2 DEF Again, JobType, JobRecord

\* Sending the next message of a job keeps the types and the bound on losses.
LEMMA ThenType ==
    ASSUME NEW j \in Jobs, NEW m \in JobType, job \in [Jobs -> JobType],
           lost \in 0..MaxLost, Then(j, m)
    PROVE  job' \in [Jobs -> JobType] /\ lost' \in 0..MaxLost
  <1>1. CASE job' = [job EXCEPT ![j] = m] /\ UNCHANGED lost
    BY <1>1
  <1>2. CASE /\ lost < MaxLost /\ lost' = lost + 1
             /\ \E k \in FreeJobs : job' = [job EXCEPT ![j] = Again(j), ![k] = m]
    <2>1. PICK k \in FreeJobs : job' = [job EXCEPT ![j] = Again(j), ![k] = m]
      BY <1>2
    <2>2. k \in Jobs
      BY DEF FreeJobs
    <2>3. job' \in [Jobs -> JobType]
      BY <2>1, <2>2, AgainType
    <2> QED  BY <1>2, <2>3
  <1> QED  BY <1>1, <1>2 DEF Then

\* A clash only names the owner or the enrichment.
LEMMA ClashType ==
    ASSUME NEW who \in {"users", "enrich"}, NEW hit, clash \subseteq {"users", "enrich"},
           Clash(who, hit)
    PROVE  clash' \subseteq {"users", "enrich"}
  BY DEF Clash

-----------------------------------------------------------------------------
(* The type invariant.                                                     *)

\* The initial states have the right types.
LEMMA InitType == Init => TypeInv
  <1> SUFFICES ASSUME Init
               PROVE  TypeInv
    OBVIOUS
  <1>1. doc \in Row
    BY DEF Init, Row, Status
  <1>2. job \in [Jobs -> JobType]
    BY MessageType DEF Init
  <1>3. NoCopy \in Row
    BY DEF NoCopy, Row, Status
  <1>4. req \in [Users -> RequestRecord]
    BY <1>1, <1>3 DEF Init, Request, RequestRecord
  <1>5. job \in [Jobs -> JobRecord]
    BY <1>2 DEF JobType
  <1> QED  BY <1>1, <1>2, <1>4, <1>5 DEF Init, TypeInv, TypeOK

\* Each step of a job keeps the types.
LEMMA JobStepType ==
    ASSUME TypeInv, NEW j \in Jobs, JobStep(j)
    PROVE  TypeInv'
  <1> USE DEF TypeInv, TypeOK
  <1>1. job[j] \in JobType /\ job[j] \in JobRecord /\ job[j].copy \in Row
    BY DEF JobType, JobRecord
  <1>2. SUFFICES /\ doc' \in Row /\ chunks' \subseteq Batch /\ job' \in [Jobs -> JobType]
                 /\ faults' \in 0..MaxFaults /\ lost' \in 0..MaxLost
                 /\ clash' \subseteq {"users", "enrich"} /\ UNCHANGED <<type, req>>
    BY DEF JobType
  <1>3. ASSUME NEW pc \in {"mark", "save", "embed"}, job' = [job EXCEPT ![j].pc = pc, ![j].copy = doc]
        PROVE  job' \in [Jobs -> JobType]
    BY <1>1, <1>3, ZenonT(30) DEF JobType, JobRecord
  <1>4. ASSUME NEW pc \in {"extract", "ocr", "send"}, Goto(j, pc)
        PROVE  job' \in [Jobs -> JobType]
    BY <1>1, <1>4 DEF Goto, JobType, JobRecord
  <1>5. ASSUME Done(j)
        PROVE  job' \in [Jobs -> JobType]
    BY <1>5, MessageType DEF Done
  <1>6. With(job[j].copy, "PROCESSING") \in Row
    BY <1>1 DEF With, Row, Status
  <1>7. CASE IngestLoad(j) \/ ImageLoad(j) \/ EmbedLoad(j) \/ EnrichLoad(j)
    <2>1. job' \in [Jobs -> JobType]
      BY <1>3, <1>5, <1>7 DEF IngestLoad, ImageLoad, EmbedLoad, EnrichLoad
    <2>2. clash' \subseteq {"users", "enrich"}
      BY <1>7, ClashType
         DEF IngestLoad, ImageLoad, EmbedLoad, EnrichLoad, JobClash, EnrichClash
    <2> QED  BY <1>7, <2>1, <2>2 DEF IngestLoad, ImageLoad, EmbedLoad, EnrichLoad, NoBudget
  <1>8. CASE IngestMark(j) \/ ImageMark(j) \/ ImageVisual(j)
    BY <1>4, <1>6, <1>8 DEF IngestMark, ImageMark, ImageVisual, NoBudget
  <1>9. CASE IngestSend(j)
    <2>1. \E m \in JobType : Then(j, m)
      <3>1. CASE type = "IMAGE"
        BY <1>9, <3>1, MessageType DEF IngestSend
      <3>2. CASE type # "IMAGE"
        <4>1. PICK t \in Extracted(j) : Then(j, EmbedMessage(t))
          BY <1>9, <3>2 DEF IngestSend
        <4>2. t \in Texts
          BY <1>1, <4>1 DEF Extracted, Row
        <4> QED  BY <4>1, <4>2, EmbedMessageType
      <3> QED  BY <3>1, <3>2
    <2> QED  BY <1>9, <2>1, ThenType DEF IngestSend
  <1>10. CASE ImageSend(j)
    <2>1. \E m \in JobType : Then(j, m)
      BY <1>10, EmbedMessageType DEF ImageSend
    <2> QED  BY <1>10, <2>1, ThenType DEF ImageSend
  <1>11. CASE EmbedDelete(j)
    <2>1. job' \in [Jobs -> JobType]
      BY <1>1, <1>11 DEF EmbedDelete, JobType, JobRecord
    <2> QED  BY <1>11, <2>1 DEF EmbedDelete, NoBudget
  <1>12. CASE EmbedSave(j)
    <2>1. job[j].text \in Texts
      BY <1>1, <1>12 DEF EmbedSave, At, JobType
    <2>2. chunks' \subseteq Batch
      BY <1>12, <2>1 DEF EmbedSave, Batch
    <2>3. doc' \in Row
      BY <1>1, <1>12, <2>1 DEF EmbedSave, Row, Status
    <2>4. job' \in [Jobs -> JobType] /\ lost' \in 0..MaxLost
      BY <1>12, ThenType, MessageType DEF EmbedSave
    <2> QED  BY <1>12, <2>2, <2>3, <2>4 DEF EmbedSave
  <1>13. CASE EnrichSave(j)
    <2>1. job' \in [Jobs -> JobType] /\ lost' \in 0..MaxLost
      BY <1>13, ThenType, MessageType DEF EnrichSave
    <2> QED  BY <1>1, <1>13, <2>1 DEF EnrichSave
  <1>14. CASE JobFails(j)
    <2>1. doc' \in Row
      BY <1>14 DEF JobFails, With, Row, Status
    <2> QED  BY <1>5, <1>14, <2>1 DEF JobFails, Raises
  <1>15. CASE JobRetries(j)
    <2>1. job[j].retries \in 0..MaxRetries /\ job[j].retries < MaxRetries
      BY <1>1, <1>15 DEF JobRetries, CanRetry, JobRecord
    <2>2. job[j].retries + 1 \in 0..MaxRetries
      BY <2>1
    <2>3. Again(j) \in JobType /\ Again(j).retries = job[j].retries
      BY <1>1, AgainType DEF Again, JobRecord
    <2>4. [Again(j) EXCEPT !.retries = @ + 1] \in JobType
      BY <2>2, <2>3 DEF JobType, JobRecord
    <2> QED  BY <1>15, <2>4 DEF JobRetries, Raises
  <1>16. CASE WorkerLost(j)
    BY <1>16, AgainType DEF WorkerLost
  <1> QED  BY <1>7, <1>8, <1>9, <1>10, <1>11, <1>12, <1>13, <1>14, <1>15, <1>16 DEF JobStep

\* Each step of a request keeps the types.
LEMMA UserStepType ==
    ASSUME TypeInv, NEW u \in Users, UserStep(u)
    PROVE  TypeInv'
  <1> USE DEF TypeInv, TypeOK
  <1>1. req[u] \in RequestRecord /\ req[u].copy \in Row /\ NoCopy \in Row
    BY DEF RequestRecord, NoCopy, Row, Status
  <1>2. SUFFICES /\ doc' \in Row /\ chunks' \subseteq Batch /\ job' \in [Jobs -> JobType]
                 /\ req' \in [Users -> RequestRecord] /\ faults' \in 0..MaxFaults
                 /\ lost' \in 0..MaxLost /\ clash' \subseteq {"users", "enrich"}
                 /\ UNCHANGED type
    BY DEF JobType
  <1>3. ASSUME NEW op \in {"edit", "reprocess", "bulk"}, NEW pc \in {"save", "queue"},
               NEW copy \in Row, req' = [req EXCEPT ![u] = Request(op, pc, copy)]
        PROVE  req' \in [Users -> RequestRecord]
    BY <1>3 DEF Request, RequestRecord, AllOperations
  <1>4. ASSUME NEW pc \in {"queue", "done"}, ReqGoto(u, pc)
        PROVE  req' \in [Users -> RequestRecord]
    BY <1>1, <1>4 DEF ReqGoto, RequestRecord
  <1>5. ASSUME NEW hit, Clash("users", hit)
        PROVE  clash' \subseteq {"users", "enrich"}
    BY <1>5, ClashType
  <1>6. With(doc, "QUEUED") \in Row /\ With(req[u].copy, "QUEUED") \in Row
    BY <1>1 DEF With, Row, Status
  <1>7. CASE \E t \in EditTexts : EditLoad(u, t)
    <2>1. PICK t \in EditTexts : EditLoad(u, t)
      BY <1>7
    <2> DEFINE copy == [status |-> IF t = NoText THEN "READY" ELSE doc.status, content |-> t]
    <2>2. copy \in Row
      BY DEF Row, Status
    <2>3. req' \in [Users -> RequestRecord]
      <3>1. req' = [req EXCEPT ![u] = Request("edit", "save", copy)]
        BY <2>1 DEF EditLoad
      <3> HIDE DEF copy
      <3> QED  BY <1>3, <2>2, <3>1
    <2> QED  BY <1>5, <2>1, <2>3 DEF EditLoad, NoBudget, UserReadClash
  <1>8. CASE ReprocessLoad(u)
    BY <1>3, <1>5, <1>8 DEF ReprocessLoad, NoBudget, UserReadClash
  <1>9. CASE EditSave(u)
    BY <1>1, <1>4, <1>5, <1>9 DEF EditSave, NoBudget, UserWriteClash
  <1>10. CASE BulkMark(u)
    BY <1>3, <1>5, <1>6, <1>10 DEF BulkMark, NoBudget, UserWriteClash
  <1>11. CASE Queue(u)
    <2>1. job' \in [Jobs -> JobType]
      BY <1>11, MessageType DEF Queue
    <2> QED  BY <1>4, <1>5, <1>6, <1>11, <2>1 DEF Queue, NoBudget, UserWriteClash
  <1>12. CASE RequestEnds(u)
    BY <1>4, <1>12 DEF RequestEnds
  <1>13. CASE Delete(u)
    BY <1>1, <1>4, <1>13 DEF Delete, NoBudget
  <1> QED
    BY <1>7, <1>8, <1>9, <1>10, <1>11, <1>12, <1>13 DEF UserStep, UserWrites

\* TypeInv is inductive.
LEMMA NextType == TypeInv /\ [Next]_vars => TypeInv'
  <1>1. TypeInv /\ UNCHANGED vars => TypeInv'
    BY DEF TypeInv, TypeOK, vars
  <1> QED  BY <1>1, JobStepType, UserStepType DEF Next

\* TypeInv holds in every reachable state.
LEMMA TypeInvariance == Spec => []TypeInv
  BY InitType, NextType, PTL DEF Spec

\* Every variable of the pipeline keeps to its type; no job retries beyond its limit.
THEOREM TypeCorrect == Spec => []TypeOK
  BY TypeInvariance, PTL DEF TypeInv

-----------------------------------------------------------------------------
(* A deleted document.                                                     *)

\* No step writes to a document that is gone, or adds to its chunks.
LEMMA GoneStep ==
    ASSUME GoneIsEmpty, [Next]_vars, doc.status = "GONE"
    PROVE  doc' = doc /\ chunks' = {}
  <1>1. ~Exists /\ chunks = {}
    BY DEF GoneIsEmpty, Exists
  <1>2. ASSUME NEW j \in Jobs, JobStep(j)
        PROVE  UNCHANGED <<doc, chunks>>
    BY <1>1, <1>2 DEF JobStep, IngestLoad, IngestMark, IngestSend, ImageLoad, ImageMark,
         ImageVisual, ImageSend, EmbedLoad, EmbedDelete, EmbedSave, EnrichLoad, EnrichSave,
         JobFails, JobRetries, WorkerLost
  <1>3. ASSUME NEW u \in Users, UserStep(u)
        PROVE  UNCHANGED <<doc, chunks>>
    BY <1>1, <1>3 DEF UserStep, UserWrites, EditLoad, ReprocessLoad, EditSave, BulkMark,
         Queue, RequestEnds, Delete
  <1>4. CASE UNCHANGED vars
    BY <1>1, <1>4 DEF vars
  <1> QED  BY <1>1, <1>2, <1>3, <1>4 DEF Next

\* A job takes a copy of a document that exists, and keeps it until it is done.
LEMMA JobsHoldStep ==
    ASSUME TypeInv, JobsHoldLive, [Next]_vars
    PROVE  JobsHoldLive'
  <1> USE DEF JobsHoldLive, TypeInv, TypeOK
  <1>1. \A j \in Jobs : job[j] \in JobRecord
    OBVIOUS
  <1>2. ASSUME NEW j \in Jobs, NEW m \in JobType, m.pc \in {"free", "sent"}, Then(j, m)
        PROVE  JobsHoldLive'
    <2>1. Again(j).pc = "sent"
      BY <1>1 DEF Again, JobRecord
    <2>2. CASE job' = [job EXCEPT ![j] = m]
      BY <1>2, <2>2
    <2>3. CASE \E k \in FreeJobs : job' = [job EXCEPT ![j] = Again(j), ![k] = m]
      <3>1. PICK k \in FreeJobs : job' = [job EXCEPT ![j] = Again(j), ![k] = m]
        BY <2>3
      <3> QED  BY <1>2, <2>1, <3>1 DEF FreeJobs
    <2> QED  BY <1>2, <2>2, <2>3 DEF Then
  <1>3. Free.pc = "free" /\ \A kind \in {"ingest", "image", "enrich"} : Message(kind).pc = "sent"
    BY MessageType DEF Free, Message, JobType, JobRecord
  <1>4. ASSUME NEW t \in Texts
        PROVE  EmbedMessage(t).pc = "sent"
    BY DEF EmbedMessage, Message, Free
  <1>5. ASSUME NEW j \in Jobs, JobStep(j)
        PROVE  JobsHoldLive'
    <2>1. CASE IngestLoad(j) \/ ImageLoad(j) \/ EmbedLoad(j) \/ EnrichLoad(j)
      BY <1>1, <1>3, <2>1
         DEF IngestLoad, ImageLoad, EmbedLoad, EnrichLoad, Done, Exists, JobRecord
    <2>2. CASE IngestMark(j) \/ ImageMark(j) \/ ImageVisual(j) \/ EmbedDelete(j)
      BY <1>1, <2>2
         DEF IngestMark, ImageMark, ImageVisual, EmbedDelete, At, Goto, JobRecord
    <2>3. CASE IngestSend(j) \/ ImageSend(j)
      <3>1. CASE Then(j, Message("image"))
        BY <1>2, <1>3, <3>1, MessageType
      <3>2. CASE \E t \in Texts : Then(j, EmbedMessage(t))
        BY <1>2, <1>4, <3>2, EmbedMessageType
      <3>3. Extracted(j) \subseteq Texts
        BY <1>1 DEF Extracted, JobRecord, Row
      <3> QED  BY <2>3, <3>1, <3>2, <3>3 DEF IngestSend, ImageSend
    <2>4. CASE EmbedSave(j) \/ EnrichSave(j)
      BY <1>2, <1>3, <2>4, MessageType DEF EmbedSave, EnrichSave
    <2>5. CASE JobFails(j)
      BY <1>3, <2>5 DEF JobFails, Done
    <2>6. CASE JobRetries(j)
      BY <1>1, <2>6 DEF JobRetries, Again, JobRecord
    <2>7. CASE WorkerLost(j)
      BY <1>1, <2>7 DEF WorkerLost, Again, JobRecord
    <2> QED  BY <1>5, <2>1, <2>2, <2>3, <2>4, <2>5, <2>6, <2>7 DEF JobStep
  <1>6. ASSUME NEW u \in Users, UserStep(u)
        PROVE  JobsHoldLive'
    <2>1. CASE Queue(u)
      BY <1>3, <2>1 DEF Queue
    <2>2. CASE UNCHANGED job
      BY <2>2
    <2> QED
      BY <1>6, <2>1, <2>2 DEF UserStep, UserWrites, EditLoad, ReprocessLoad, EditSave,
         BulkMark, RequestEnds, Delete
  <1>7. CASE UNCHANGED vars
    BY <1>7 DEF vars
  <1> QED  BY <1>5, <1>6, <1>7 DEF Next

\* So does an edit.
LEMMA EditsHoldStep ==
    ASSUME TypeInv, EditsHoldLive, [Next]_vars
    PROVE  EditsHoldLive'
  <1> USE DEF EditsHoldLive, TypeInv, TypeOK
  <1>1. \A u \in Users : req[u] \in RequestRecord
    OBVIOUS
  <1>2. ASSUME NEW j \in Jobs, JobStep(j)
        PROVE  UNCHANGED req
    BY <1>2 DEF JobStep, IngestLoad, IngestMark, IngestSend, ImageLoad, ImageMark, ImageVisual,
       ImageSend, EmbedLoad, EmbedDelete, EmbedSave, EnrichLoad, EnrichSave, JobFails,
       JobRetries, WorkerLost
  <1>3. ASSUME NEW u \in Users, UserStep(u)
        PROVE  EditsHoldLive'
    <2>1. ASSUME NEW t \in EditTexts, EditLoad(u, t)
          PROVE  EditsHoldLive'
      BY <1>1, <2>1 DEF EditLoad, Request, Exists
    <2>2. CASE ReprocessLoad(u) \/ BulkMark(u)
      BY <1>1, <2>2 DEF ReprocessLoad, BulkMark, Request
    <2>3. CASE EditSave(u) \/ Queue(u) \/ RequestEnds(u) \/ Delete(u)
      BY <1>1, <2>3 DEF EditSave, Queue, RequestEnds, Delete, ReqGoto, RequestRecord
    <2> QED  BY <1>3, <2>1, <2>2, <2>3 DEF UserStep, UserWrites
  <1>4. CASE UNCHANGED vars
    BY <1>4 DEF vars
  <1> QED  BY <1>2, <1>3, <1>4 DEF Next

\* Only a deletion leaves a document GONE, and it leaves nothing else.
LEMMA GoneIsEmptyStep ==
    ASSUME TypeInv, DeletedInv, [Next]_vars
    PROVE  GoneIsEmpty'
  <1> SUFFICES ASSUME doc.status # "GONE", doc' # doc
               PROVE  GoneIsEmpty'
    BY GoneStep DEF GoneIsEmpty, DeletedInv
  <1> USE DEF GoneIsEmpty, TypeInv, TypeOK
  <1>1. ASSUME NEW copy \in Row, NEW s \in Status
        PROVE  With(copy, s).status = s
    BY DEF With, Row
  <1>2. ASSUME NEW j \in Jobs, JobStep(j)
        PROVE  GoneIsEmpty'
    <2>1. job[j].copy \in Row
      BY DEF JobRecord
    <2>2. CASE IngestMark(j) \/ ImageMark(j) \/ ImageVisual(j)
      BY <1>1, <2>1, <2>2 DEF IngestMark, ImageMark, ImageVisual, Status
    <2>3. CASE EmbedSave(j)
      BY <2>3 DEF EmbedSave
    <2>4. CASE EnrichSave(j)
      BY <2>4 DEF EnrichSave, At, DeletedInv, JobsHoldLive
    <2>5. CASE JobFails(j)
      BY <1>1, <2>5 DEF JobFails, Status
    <2> QED
      BY <1>2, <2>2, <2>3, <2>4, <2>5 DEF JobStep, IngestLoad, IngestSend, ImageLoad, ImageSend,
         EmbedLoad, EmbedDelete, EnrichLoad, JobRetries, WorkerLost
  <1>3. ASSUME NEW u \in Users, UserStep(u)
        PROVE  GoneIsEmpty'
    <2>1. req[u].copy \in Row
      BY DEF RequestRecord
    <2>2. CASE EditSave(u)
      BY <2>2 DEF EditSave, DeletedInv, EditsHoldLive
    <2>3. CASE BulkMark(u) \/ Queue(u)
      BY <1>1, <2>1, <2>3 DEF BulkMark, Queue, Status
    <2>4. CASE Delete(u)
      BY <2>4 DEF Delete
    <2> QED
      BY <1>3, <2>2, <2>3, <2>4 DEF UserStep, UserWrites, EditLoad, ReprocessLoad, RequestEnds
  <1> QED  BY <1>2, <1>3 DEF Next, vars

\* DeletedInv holds in every reachable state.
LEMMA DeletedInvariance == Spec => []DeletedInv
  <1>1. Init => DeletedInv
    BY DEF Init, DeletedInv, GoneIsEmpty, JobsHoldLive, EditsHoldLive, Free, Request
  <1>2. TypeInv /\ DeletedInv /\ [Next]_vars => DeletedInv'
    BY JobsHoldStep, EditsHoldStep, GoneIsEmptyStep DEF DeletedInv
  <1> QED  BY <1>1, <1>2, TypeInvariance, PTL DEF Spec

\* A deleted document stays deleted, with nothing left to find.
THEOREM DeletionIsFinal == Spec => DeletedStaysDeleted
  <1>1. DeletedInv /\ [Next]_vars => [doc.status = "GONE" => doc' = doc /\ chunks' = {}]_vars
    BY GoneStep DEF DeletedInv
  <1> QED  BY <1>1, DeletedInvariance, PTL DEF Spec, DeletedStaysDeleted

-----------------------------------------------------------------------------
(* What jobs and requests are like.                                        *)

\* A job does what its kind does; only pictures need OCR, and only the embedding job of a
\* note compares texts.
Shape(m) ==
    /\ m.kind = "none" <=> m.pc = "free"
    /\ m.kind = "ingest" => m.pc \in {"sent", "mark", "extract"}
    /\ m.kind = "image"  => m.pc \in {"sent", "mark", "ocr", "send"} /\ type = "IMAGE"
    /\ m.kind = "embed"  => m.pc \in {"sent", "embed", "save"}
    /\ m.kind = "enrich" => m.pc \in {"sent", "save"}
    /\ m.check <=> (m.kind = "embed" /\ type = "TEXT")

\* Every job is in the shape of its place.
JobsInShape == \A j \in Jobs : Shape(job[j])

\* Only notes are edited; one that is emptied is READY.
EditsInShape ==
    \A u \in Users : req[u].pc = "save" =>
        /\ type = "TEXT"
        /\ req[u].copy.content = NoText => req[u].copy.status = "READY"

\* The shapes of jobs and edits.
ShapeInv == JobsInShape /\ EditsInShape

\* The messages that the actions send are in shape.
LEMMA MessagesInShape ==
    /\ Shape(Free)
    /\ \A kind \in {"ingest", "enrich"} : Shape(Message(kind))
    /\ type = "IMAGE" => Shape(Message("image"))
    /\ \A t \in Texts : Shape(EmbedMessage(t))
  <1>1. Shape(Free)
    BY DEF Shape, Free
  <1>2. ASSUME NEW kind \in {"ingest", "enrich", "image", "embed"}
        PROVE  /\ Message(kind).kind = kind /\ Message(kind).pc = "sent"
               /\ Message(kind).check = FALSE
    BY DEF Message, Free
  <1>3. ASSUME NEW t \in Texts
        PROVE  /\ EmbedMessage(t).kind = "embed" /\ EmbedMessage(t).pc = "sent"
               /\ EmbedMessage(t).check = (type = "TEXT")
    BY DEF EmbedMessage, Message, Free
  <1> QED  BY <1>1, <1>2, <1>3 DEF Shape

\* Job j becomes m, and perhaps sends n.
LEMMA ShapeOfTwo ==
    ASSUME TypeInv, JobsInShape, UNCHANGED type, NEW j \in Jobs, NEW m, Shape(m),
           \/ job' = [job EXCEPT ![j] = m]
           \/ \E k \in Jobs : \E n : Shape(n) /\ job' = [job EXCEPT ![j] = m, ![k] = n]
    PROVE  JobsInShape'
  <1>1. \A n : Shape(n) => Shape(n)'
    BY DEF Shape
  <1>2. \A k \in Jobs : Shape(job'[k])
    BY DEF TypeInv, TypeOK, JobsInShape
  <1> QED  BY <1>2 DEF JobsInShape, Shape

\* So is a message that is delivered again.
LEMMA AgainInShape ==
    ASSUME TypeInv, JobsInShape, NEW j \in Jobs, job[j].pc # "free"
    PROVE  Shape(Again(j))
  <1>1. job[j] \in JobRecord
    BY DEF TypeInv, TypeOK
  <1>2. /\ Again(j).pc = "sent" /\ Again(j).kind = job[j].kind
        /\ Again(j).check = job[j].check
    BY <1>1 DEF Again, JobRecord
  <1> QED  BY <1>2 DEF JobsInShape, Shape

\* A job that sends its next message, and its worker perhaps lost after that, leaves all in shape.
LEMMA ThenInShape ==
    ASSUME TypeInv, JobsInShape, UNCHANGED type, NEW j \in Jobs, job[j].pc # "free",
           NEW m, Shape(m), Then(j, m)
    PROVE  JobsInShape'
  <1>1. CASE job' = [job EXCEPT ![j] = m]
    BY <1>1, ShapeOfTwo
  <1>2. CASE \E k \in FreeJobs : job' = [job EXCEPT ![j] = Again(j), ![k] = m]
    BY <1>2, AgainInShape, ShapeOfTwo DEF FreeJobs
  <1> QED  BY <1>1, <1>2 DEF Then

\* Jobs stay in shape.
LEMMA JobsInShapeStep ==
    ASSUME TypeInv, JobsInShape, [Next]_vars
    PROVE  JobsInShape'
  <1> USE DEF TypeInv, TypeOK
  <1>1. \A j \in Jobs : job[j] \in JobRecord /\ Shape(job[j])
    BY DEF JobsInShape
  <1>2. ASSUME NEW j \in Jobs, JobStep(j)
        PROVE  JobsInShape'
    <2>1. ASSUME UNCHANGED type,
                 NEW pc \in {"mark", "extract", "ocr", "send", "embed", "save"},
                 job'[j] = [job[j] EXCEPT !.pc = pc, !.copy = job'[j].copy, !.old = job'[j].old],
                 \A k \in Jobs \ {j} : job'[k] = job[k],
                 Shape([job[j] EXCEPT !.pc = pc])
          PROVE  JobsInShape'
      <3>1. Shape(job'[j])
        BY <1>1, <2>1, ZenonT(30) DEF Shape, JobRecord
      <3> QED  BY <1>1, <2>1, <3>1 DEF JobsInShape, Shape
    <2>2. CASE IngestLoad(j)
      <3>1. Shape([job[j] EXCEPT !.pc = "mark"])
        BY <1>1, <2>2 DEF IngestLoad, At, Shape, JobRecord
      <3>2. CASE Exists
        <4>1. job' = [job EXCEPT ![j].pc = "mark", ![j].copy = doc] /\ UNCHANGED type
          BY <2>2, <3>2 DEF IngestLoad
        <4> QED  BY <1>1, <2>1, <3>1, <4>1 DEF JobRecord
      <3>3. CASE ~(Exists)
        <4>1. job' = [job EXCEPT ![j] = Free] /\ UNCHANGED type
          BY <2>2, <3>3 DEF IngestLoad, Done
        <4> QED  BY <1>1, <4>1, MessagesInShape, ShapeOfTwo
      <3> QED  BY <3>2, <3>3
    <2>3. CASE ImageLoad(j)
      <3>1. Shape([job[j] EXCEPT !.pc = "mark"])
        BY <1>1, <2>3 DEF ImageLoad, At, Shape, JobRecord
      <3>2. CASE Exists
        <4>1. job' = [job EXCEPT ![j].pc = "mark", ![j].copy = doc] /\ UNCHANGED type
          BY <2>3, <3>2 DEF ImageLoad
        <4> QED  BY <1>1, <2>1, <3>1, <4>1 DEF JobRecord
      <3>3. CASE ~(Exists)
        <4>1. job' = [job EXCEPT ![j] = Free] /\ UNCHANGED type
          BY <2>3, <3>3 DEF ImageLoad, Done
        <4> QED  BY <1>1, <4>1, MessagesInShape, ShapeOfTwo
      <3> QED  BY <3>2, <3>3
    <2>4. CASE EmbedLoad(j)
      <3>1. Shape([job[j] EXCEPT !.pc = "embed"])
        BY <1>1, <2>4 DEF EmbedLoad, At, Shape, JobRecord
      <3>2. CASE Exists /\ ~Stale(j)
        <4>1. job' = [job EXCEPT ![j].pc = "embed", ![j].copy = doc] /\ UNCHANGED type
          BY <2>4, <3>2 DEF EmbedLoad
        <4> QED  BY <1>1, <2>1, <3>1, <4>1 DEF JobRecord
      <3>3. CASE ~(Exists /\ ~Stale(j))
        <4>1. job' = [job EXCEPT ![j] = Free] /\ UNCHANGED type
          BY <2>4, <3>3 DEF EmbedLoad, Done
        <4> QED  BY <1>1, <4>1, MessagesInShape, ShapeOfTwo
      <3> QED  BY <3>2, <3>3
    <2>5. CASE EnrichLoad(j)
      <3>1. Shape([job[j] EXCEPT !.pc = "save"])
        BY <1>1, <2>5 DEF EnrichLoad, At, Shape, JobRecord
      <3>2. CASE Exists
        <4>1. job' = [job EXCEPT ![j].pc = "save", ![j].copy = doc] /\ UNCHANGED type
          BY <2>5, <3>2 DEF EnrichLoad
        <4> QED  BY <1>1, <2>1, <3>1, <4>1 DEF JobRecord
      <3>3. CASE ~(Exists)
        <4>1. job' = [job EXCEPT ![j] = Free] /\ UNCHANGED type
          BY <2>5, <3>3 DEF EnrichLoad, Done
        <4> QED  BY <1>1, <4>1, MessagesInShape, ShapeOfTwo
      <3> QED  BY <3>2, <3>3
    <2>6. CASE IngestMark(j)
      <3>1. Shape([job[j] EXCEPT !.pc = "extract"])
        BY <1>1, <2>6 DEF IngestMark, At, Shape, JobRecord
      <3> QED  BY <1>1, <2>6, <3>1, ShapeOfTwo DEF IngestMark, Goto
    <2>7. CASE ImageMark(j)
      <3>1. Shape([job[j] EXCEPT !.pc = "ocr"])
        BY <1>1, <2>7 DEF ImageMark, At, Shape, JobRecord
      <3> QED  BY <1>1, <2>7, <3>1, ShapeOfTwo DEF ImageMark, Goto
    <2>8. CASE ImageVisual(j)
      <3>1. Shape([job[j] EXCEPT !.pc = "send"])
        BY <1>1, <2>8 DEF ImageVisual, At, Shape, JobRecord
      <3> QED  BY <1>1, <2>8, <3>1, ShapeOfTwo DEF ImageVisual, Goto
    <2>9. CASE EmbedDelete(j)
      <3>1. Shape([job[j] EXCEPT !.pc = "save"])
        BY <1>1, <2>9 DEF EmbedDelete, At, Shape, JobRecord
      <3> QED  BY <1>1, <2>1, <2>9, <3>1 DEF EmbedDelete, JobRecord
    <2>10. CASE IngestSend(j)
      <3>1. \E m : Shape(m) /\ Then(j, m)
        <4>1. Extracted(j) \subseteq Texts
          BY <1>1 DEF Extracted, JobRecord, Row
        <4> QED  BY <2>10, <4>1, MessagesInShape DEF IngestSend
      <3> QED  BY <2>10, <3>1, ThenInShape DEF IngestSend, At
    <2>11. CASE ImageSend(j)
      BY <2>11, MessagesInShape, ThenInShape DEF ImageSend, At
    <2>12. CASE EmbedSave(j)
      BY <2>12, MessagesInShape, ThenInShape DEF EmbedSave, At
    <2>13. CASE EnrichSave(j)
      BY <2>13, MessagesInShape, ThenInShape DEF EnrichSave, At
    <2>14. CASE JobFails(j)
      BY <2>14, MessagesInShape, ShapeOfTwo DEF JobFails, Done
    <2>15. CASE JobRetries(j)
      <3>1. Shape(Again(j)) /\ Again(j) \in JobRecord
        BY <2>15, AgainInShape, AgainType DEF JobRetries, Raises, JobType
      <3>2. Shape([Again(j) EXCEPT !.retries = @ + 1])
        BY <3>1 DEF Shape, JobRecord
      <3> QED  BY <2>15, <3>2, ShapeOfTwo DEF JobRetries
    <2>16. CASE WorkerLost(j)
      BY <2>16, AgainInShape, ShapeOfTwo DEF WorkerLost
    <2> QED
      BY <1>2, <2>2, <2>3, <2>4, <2>5, <2>6, <2>7, <2>8, <2>9, <2>10, <2>11, <2>12, <2>13,
         <2>14, <2>15, <2>16 DEF JobStep
  <1>3. ASSUME NEW u \in Users, UserStep(u)
        PROVE  JobsInShape'
    <2>1. type' = type
      BY <1>3 DEF UserStep, UserWrites, EditLoad, ReprocessLoad, EditSave, BulkMark, Queue,
         RequestEnds, Delete
    <2>2. CASE Queue(u)
      <3>1. \A j \in Jobs : Shape(job'[j])
        BY <1>1, <2>2, MessagesInShape DEF Queue
      <3> QED  BY <2>1, <3>1 DEF JobsInShape, Shape
    <2>3. CASE UNCHANGED job
      BY <2>1, <2>3 DEF JobsInShape, Shape
    <2> QED
      BY <1>3, <2>2, <2>3 DEF UserStep, UserWrites, EditLoad, ReprocessLoad, EditSave,
         BulkMark, RequestEnds, Delete
  <1>4. CASE UNCHANGED vars
    BY <1>4 DEF vars, JobsInShape, Shape
  <1> QED  BY <1>2, <1>3, <1>4 DEF Next

\* So do edits.
LEMMA EditsInShapeStep ==
    ASSUME TypeInv, EditsInShape, [Next]_vars
    PROVE  EditsInShape'
  <1> USE DEF EditsInShape, TypeInv, TypeOK
  <1>1. \A u \in Users : req[u] \in RequestRecord
    OBVIOUS
  <1>2. ASSUME NEW j \in Jobs, JobStep(j)
        PROVE  UNCHANGED <<req, type>>
    BY <1>2 DEF JobStep, IngestLoad, IngestMark, IngestSend, ImageLoad, ImageMark, ImageVisual,
       ImageSend, EmbedLoad, EmbedDelete, EmbedSave, EnrichLoad, EnrichSave, JobFails,
       JobRetries, WorkerLost
  <1>3. ASSUME NEW u \in Users, UserStep(u)
        PROVE  EditsInShape'
    <2>1. ASSUME NEW t \in EditTexts, EditLoad(u, t)
          PROVE  EditsInShape'
      BY <1>1, <2>1 DEF EditLoad, Request
    <2>2. CASE ReprocessLoad(u) \/ BulkMark(u)
      BY <1>1, <2>2 DEF ReprocessLoad, BulkMark, Request
    <2>3. CASE EditSave(u) \/ Queue(u) \/ RequestEnds(u) \/ Delete(u)
      BY <1>1, <2>3 DEF EditSave, Queue, RequestEnds, Delete, ReqGoto, RequestRecord
    <2> QED  BY <1>3, <2>1, <2>2, <2>3 DEF UserStep, UserWrites
  <1>4. CASE UNCHANGED vars
    BY <1>4 DEF vars
  <1> QED  BY <1>2, <1>3, <1>4 DEF Next

\* Jobs and edits are in shape in every reachable state.
LEMMA ShapeInvariance == Spec => []ShapeInv
  <1>1. Init => ShapeInv
    BY MessagesInShape DEF Init, ShapeInv, JobsInShape, EditsInShape, Request
  <1>2. TypeInv /\ ShapeInv /\ [Next]_vars => ShapeInv'
    BY JobsInShapeStep, EditsInShapeStep DEF ShapeInv
  <1> QED  BY <1>1, <1>2, TypeInvariance, PTL DEF Spec

-----------------------------------------------------------------------------
(* A result in the end.                                                    *)

\* An enrichment that keeps apart writes READY back.
EnrichesReady ==
    "enrich" \notin clash => \A j \in Jobs : At(j, "enrich", "save") => job[j].copy.status = "READY"

\* Job j leads to a result, whatever happens to it: it, or the job it sends, is not taken for
\* one of an older text.
Attends(j) ==
    \/ At(j, "ingest", "sent") \/ At(j, "ingest", "mark")
    \/ At(j, "ingest", "extract") /\ (type = "TEXT" => job[j].copy.content = doc.content)
    \/ job[j].kind = "image"
    \/ job[j].kind = "embed" /\ ~Stale(j)

\* A document without a result is waited for by a request, or by such a job.
Attended ==
    (lost = 0 /\ "enrich" \notin clash /\ ~HasResult) =>
        Waiting # {} \/ \E j \in Jobs : Attends(j)

\* What settles is attended to.
FinalInv == EnrichesReady /\ Attended

\* Nobody takes a name from the history of clashes.
LEMMA ClashGrows == [Next]_vars => clash \subseteq clash'
  <1>1. ASSUME NEW j \in Jobs, JobStep(j)
        PROVE  clash \subseteq clash'
    BY <1>1 DEF JobStep, IngestLoad, IngestMark, IngestSend, ImageLoad, ImageMark, ImageVisual,
       ImageSend, EmbedLoad, EmbedDelete, EmbedSave, EnrichLoad, EnrichSave, JobFails,
       JobRetries, WorkerLost, JobClash, EnrichClash, Clash
  <1>2. ASSUME NEW u \in Users, UserStep(u)
        PROVE  clash \subseteq clash'
    BY <1>2 DEF UserStep, UserWrites, EditLoad, ReprocessLoad, EditSave, BulkMark, Queue,
       RequestEnds, Delete, UserReadClash, UserWriteClash, Clash
  <1> QED  BY <1>1, <1>2 DEF Next, vars

\* As long as no worker is lost, a job that sends a message is over.
LEMMA ThenKept ==
    ASSUME TypeInv, NEW j \in Jobs, NEW m, Then(j, m), lost' = 0
    PROVE  job' = [job EXCEPT ![j] = m] /\ lost = 0
  BY DEF Then, TypeInv, TypeOK

\* Losses do not go away.
LEMMA LostGrows == TypeInv /\ [Next]_vars /\ lost' = 0 => lost = 0
  <1> SUFFICES ASSUME TypeInv, [Next]_vars, lost' = 0
               PROVE  lost = 0
    OBVIOUS
  <1>1. ASSUME NEW j \in Jobs, JobStep(j)
        PROVE  lost = 0
    BY <1>1, ThenKept DEF JobStep, IngestLoad, IngestMark, IngestSend, ImageLoad, ImageMark,
       ImageVisual, ImageSend, EmbedLoad, EmbedDelete, EmbedSave, EnrichLoad, EnrichSave,
       JobFails, JobRetries, WorkerLost, NoBudget, TypeInv, TypeOK
  <1>2. ASSUME NEW u \in Users, UserStep(u)
        PROVE  lost = 0
    <2>1. UNCHANGED lost \/ lost' = lost + 1
      BY <1>2 DEF UserStep, UserWrites, EditLoad, ReprocessLoad, EditSave, BulkMark, Queue,
         RequestEnds, Delete, NoBudget
    <2> QED  BY <2>1 DEF TypeInv, TypeOK
  <1> QED  BY <1>1, <1>2 DEF Next, vars

\* Nobody else brings a job to write for the enrichment, and its own copy was READY.
LEMMA EnrichesReadyStep ==
    ASSUME TypeInv, EnrichesReady, [Next]_vars
    PROVE  EnrichesReady'
  <1> USE DEF TypeInv, TypeOK
  <1> SUFFICES ASSUME "enrich" \notin clash', NEW k \in Jobs, At(k, "enrich", "save")'
               PROVE  job'[k].copy.status = "READY"
    BY DEF EnrichesReady
  <1>1. \A j \in Jobs : At(j, "enrich", "save") => job[j].copy.status = "READY"
    BY ClashGrows DEF EnrichesReady
  <1>2. \A j \in Jobs : job[j] \in JobRecord
    OBVIOUS
  <1>3. job'[k].kind = "enrich" /\ job'[k].pc = "save"
    BY DEF At
  <1>4. CASE job'[k] = job[k]
    BY <1>1, <1>3, <1>4 DEF At
  <1>5. ASSUME NEW j \in Jobs, JobStep(j), job'[k] # job[k]
        PROVE  job'[k].copy.status = "READY"
    <2>1. ASSUME NEW m, m.pc # "save", Then(j, m)
          PROVE  FALSE
      <3>1. Again(j).pc # "save"
        BY <1>2 DEF Again, JobRecord
      <3> QED  BY <1>3, <1>5, <2>1, <3>1 DEF Then, FreeJobs
    <2>2. \A t \in Texts : EmbedMessage(t).pc = "sent"
      BY DEF EmbedMessage, Message, Free
    <2>3. Free.pc = "free" /\ \A kind \in {"ingest", "image", "enrich"} : Message(kind).pc = "sent"
      BY DEF Free, Message
    <2>4. CASE EnrichLoad(j)
      <3>1. Exists /\ doc.status = "READY" /\ k = j /\ job'[k].copy = doc
        BY <1>2, <1>3, <1>5, <2>3, <2>4 DEF EnrichLoad, EnrichClash, Clash, Done, JobRecord
      <3> QED  BY <3>1
    <2>5. CASE \/ IngestLoad(j) \/ ImageLoad(j) \/ EmbedLoad(j) \/ IngestMark(j) \/ ImageMark(j)
               \/ ImageVisual(j) \/ EmbedDelete(j)
      BY <1>2, <1>3, <1>5, <2>3, <2>5
         DEF IngestLoad, ImageLoad, EmbedLoad, IngestMark, ImageMark, ImageVisual, EmbedDelete,
             Done, Goto, At, JobRecord
    <2>6. CASE IngestSend(j) \/ ImageSend(j) \/ EmbedSave(j) \/ EnrichSave(j)
      <3>1. Extracted(j) \subseteq Texts
        BY <1>2 DEF Extracted, JobRecord, Row
      <3> QED
        BY <2>1, <2>2, <2>3, <2>6, <3>1 DEF IngestSend, ImageSend, EmbedSave, EnrichSave
    <2>7. CASE JobFails(j) \/ JobRetries(j) \/ WorkerLost(j)
      <3>1. Again(j) \in JobRecord /\ Again(j).pc = "sent"
        BY <1>2, AgainType, ZenonT(30) DEF Again, JobType, JobRecord
      <3>2. [Again(j) EXCEPT !.retries = @ + 1].pc = "sent"
        BY <3>1 DEF JobRecord
      <3>3. job'[k] \in {job[k], Free, Again(j), [Again(j) EXCEPT !.retries = @ + 1]}
        BY <2>7 DEF JobFails, JobRetries, WorkerLost, Done
      <3> QED  BY <1>3, <1>5, <2>3, <3>1, <3>2, <3>3
    <2> QED  BY <1>5, <2>4, <2>5, <2>6, <2>7 DEF JobStep
  <1>6. ASSUME NEW u \in Users, UserStep(u), job'[k] # job[k]
        PROVE  FALSE
    <2>1. CASE Queue(u)
      BY <1>3, <1>6, <2>1 DEF Queue, Message, Free
    <2> QED
      BY <1>6, <2>1 DEF UserStep, UserWrites, EditLoad, ReprocessLoad, EditSave, BulkMark,
         RequestEnds, Delete
  <1> QED  BY <1>4, <1>5, <1>6 DEF Next, vars

\* While nobody else writes, whoever attended to the document and did nothing still does.
LEMMA AttendedKept ==
    ASSUME TypeInv, Attended, lost = 0, "enrich" \notin clash, ~HasResult,
           NEW j \in Jobs, UNCHANGED <<type, doc, req>>,
           \A k \in Jobs \ {j} : job'[k] = job[k],
           Attends(j) => Attends(j)'
    PROVE  Waiting' # {} \/ \E k \in Jobs : Attends(k)'
  <1>1. Waiting' = Waiting
    BY DEF Waiting
  <1>2. ASSUME NEW k \in Jobs, Attends(k), k # j
        PROVE  Attends(k)'
    BY <1>2 DEF Attends, At, Stale
  <1> QED  BY <1>1, <1>2 DEF Attended

\* A job that ends without a result was not attending, or left one that does.
LEMMA JobStepAttended ==
    ASSUME TypeInv, ShapeInv, FinalInv, NEW j \in Jobs, JobStep(j),
           lost = 0, lost' = 0, "enrich" \notin clash, ~HasResult'
    PROVE  Waiting' # {} \/ \E k \in Jobs : Attends(k)'
  <1> USE DEF TypeInv, TypeOK, ShapeInv, JobsInShape, FinalInv
  <1>1. /\ job[j] \in JobRecord /\ Shape(job[j]) /\ job[j].copy \in Row
    BY DEF JobRecord
  <1>2. ASSUME HasResult, UNCHANGED doc
        PROVE  FALSE
    BY <1>2 DEF HasResult
  <1>3. ASSUME NEW s \in Status
        PROVE  With(job[j].copy, s).status = s /\ With(job[j].copy, s).content = job[j].copy.content
    BY <1>1 DEF With, Row
  <1>4. ~Exists => HasResult
    BY DEF Exists, HasResult
  <1>5. CASE IngestLoad(j)
    <2>1. Attends(j) => Attends(j)'
      BY <1>1, <1>2, <1>4, <1>5 DEF IngestLoad, Attends, At, JobRecord
    <2> QED  BY <1>2, <1>5, <2>1, AttendedKept DEF IngestLoad, Done
  <1>6. CASE IngestMark(j)
    <2>1. Attends(j)'
      BY <1>1, <1>3, <1>6 DEF IngestMark, Goto, Attends, At, JobRecord, Status
    <2> QED  BY <2>1
  <1>7. CASE IngestSend(j)
    <2>1. ASSUME Attends(j)
          PROVE  Attends(j)'
      <3>1. CASE type = "IMAGE"
        <4>1. job' = [job EXCEPT ![j] = Message("image")]
          BY <1>7, <3>1, ThenKept DEF IngestSend
        <4>2. job'[j].kind = "image"
          BY <4>1 DEF Message, Free
        <4> QED  BY <4>2 DEF Attends
      <3>2. CASE type = "TEXT"
        <4>1. job[j].copy.content = doc.content
          BY <1>7, <2>1, <3>2 DEF IngestSend, Attends, At
        <4>2. PICK t \in {doc.content} : Then(j, EmbedMessage(t))
          BY <1>7, <3>2, <4>1 DEF IngestSend, Extracted
        <4>3. job' = [job EXCEPT ![j] = EmbedMessage(doc.content)]
          BY <4>2, ThenKept
        <4>4. job'[j].kind = "embed" /\ job'[j].text = doc.content
          BY <4>3 DEF EmbedMessage, Message, Free
        <4> QED  BY <1>7, <4>4 DEF IngestSend, Attends, Stale
      <3>3. CASE type = "URL"
        <4>1. PICK t \in Texts : Then(j, EmbedMessage(t))
          BY <1>7, <3>3 DEF IngestSend, Extracted
        <4>2. job' = [job EXCEPT ![j] = EmbedMessage(t)]
          BY <4>1, ThenKept
        <4>3. job'[j].kind = "embed" /\ job'[j].check = FALSE
          BY <1>7, <3>3, <4>2 DEF IngestSend, EmbedMessage, Message, Free
        <4> QED  BY <4>3 DEF Attends, Stale
      <3> QED  BY <3>1, <3>2, <3>3 DEF AllTypes
    <2>2. \A k \in Jobs \ {j} : job'[k] = job[k]
      <3>1. PICK m : Then(j, m)
        BY <1>7 DEF IngestSend
      <3> QED  BY <3>1, ThenKept
    <2> QED  BY <1>2, <1>7, <2>1, <2>2, AttendedKept DEF IngestSend
  <1>8. CASE ImageLoad(j)
    <2>1. Attends(j) => Attends(j)'
      BY <1>1, <1>2, <1>4, <1>8 DEF ImageLoad, Attends, At, JobRecord
    <2> QED  BY <1>2, <1>8, <2>1, AttendedKept DEF ImageLoad, Done
  <1>9. CASE ImageMark(j) \/ ImageVisual(j)
    <2>1. Attends(j)'
      BY <1>1, <1>9 DEF ImageMark, ImageVisual, Goto, Attends, At, JobRecord
    <2> QED  BY <2>1
  <1>10. CASE ImageSend(j)
    <2>1. type = "IMAGE"
      BY <1>1, <1>10 DEF ImageSend, At, Shape
    <2>2. PICK t \in Texts : Then(j, EmbedMessage(t))
      BY <1>10 DEF ImageSend
    <2>3. job' = [job EXCEPT ![j] = EmbedMessage(t)]
      BY <2>2, ThenKept
    <2>4. job'[j].kind = "embed" /\ job'[j].check = FALSE
      BY <1>10, <2>1, <2>3 DEF ImageSend, EmbedMessage, Message, Free
    <2>5. Attends(j)'
      BY <2>4 DEF Attends, Stale
    <2> QED  BY <2>5
  <1>11. CASE EmbedLoad(j)
    <2>1. ASSUME Attends(j)
          PROVE  Attends(j)'
      <3>1. job[j].kind = "embed" /\ ~Stale(j)
        BY <1>11, <2>1 DEF EmbedLoad, Attends, At
      <3>2. job' = [job EXCEPT ![j].pc = "embed", ![j].copy = doc]
        BY <1>2, <1>4, <1>11, <3>1 DEF EmbedLoad
      <3>3. /\ job'[j].kind = "embed" /\ job'[j].check = job[j].check
            /\ job'[j].text = job[j].text
        BY <1>1, <3>1, <3>2 DEF JobRecord
      <3> QED  BY <1>11, <3>1, <3>3 DEF EmbedLoad, Attends, Stale
    <2> QED  BY <1>2, <1>11, <2>1, AttendedKept DEF EmbedLoad, Done
  <1>12. CASE EmbedDelete(j)
    <2>1. /\ job'[j].kind = job[j].kind /\ job'[j].check = job[j].check
          /\ job'[j].text = job[j].text
      BY <1>1, <1>12 DEF EmbedDelete, JobRecord
    <2>2. Attends(j) => Attends(j)'
      BY <1>12, <2>1 DEF EmbedDelete, Attends, At, Stale
    <2> QED  BY <1>2, <1>12, <2>2, AttendedKept DEF EmbedDelete
  <1>13. CASE EmbedSave(j)
    BY <1>13 DEF EmbedSave, HasResult
  <1>14. CASE EnrichLoad(j)
    <2>1. ~Attends(j)
      BY <1>14 DEF EnrichLoad, Attends, At
    <2> QED  BY <1>2, <1>14, <2>1, AttendedKept DEF EnrichLoad, Done
  <1>15. CASE EnrichSave(j)
    BY <1>15 DEF EnrichSave, EnrichesReady, HasResult
  <1>16. CASE JobFails(j)
    <2>1. CASE Exists /\ job[j].kind # "enrich"
      BY <1>16, <2>1 DEF JobFails, With, Row, HasResult
    <2>2. CASE ~(Exists /\ job[j].kind # "enrich")
      <3>1. ~HasResult /\ Exists /\ doc' = doc
        BY <1>2, <1>4, <1>16, <2>2 DEF JobFails
      <3>2. ~Attends(j)
        BY <2>2, <3>1 DEF Attends, At
      <3> QED  BY <1>16, <3>1, <3>2, AttendedKept DEF JobFails, Done
    <2> QED  BY <2>1, <2>2
  <1>17. CASE JobRetries(j)
    <2>1. /\ job'[j].kind = job[j].kind /\ job'[j].check = job[j].check
          /\ job'[j].text = job[j].text /\ job'[j].pc = "sent"
      BY <1>1, <1>17 DEF JobRetries, Again, JobRecord
    <2>2. Attends(j) => Attends(j)'
      BY <1>17, <2>1 DEF JobRetries, Attends, At, Stale
    <2> QED  BY <1>2, <1>17, <2>2, AttendedKept DEF JobRetries
  <1>18. CASE WorkerLost(j)
    BY <1>18 DEF WorkerLost
  <1> QED
    BY <1>5, <1>6, <1>7, <1>8, <1>9, <1>10, <1>11, <1>12, <1>13, <1>14, <1>15, <1>16, <1>17,
       <1>18 DEF JobStep

\* A request that ends leaves a result or a message.
LEMMA UserStepAttended ==
    ASSUME TypeInv, ShapeInv, FinalInv, NEW u \in Users, UserStep(u),
           lost = 0, lost' = 0, ~HasResult'
    PROVE  Waiting' # {} \/ \E k \in Jobs : Attends(k)'
  <1> USE DEF TypeInv, TypeOK, ShapeInv
  <1>1. req[u] \in RequestRecord
    OBVIOUS
  <1>2. ASSUME req'[u].pc \in {"save", "queue"}
        PROVE  Waiting' # {}
    BY <1>2 DEF Waiting
  <1>3. CASE (\E t \in EditTexts : EditLoad(u, t)) \/ ReprocessLoad(u) \/ BulkMark(u)
    <2>1. \E op, copy : \E pc \in {"save", "queue"} : req' = [req EXCEPT ![u] = Request(op, pc, copy)]
      BY <1>3 DEF EditLoad, ReprocessLoad, BulkMark
    <2>2. req'[u].pc \in {"save", "queue"}
      BY <2>1 DEF Request
    <2> QED  BY <1>2, <2>2
  <1>4. CASE EditSave(u)
    <2>1. CASE req[u].copy.content = NoText
      BY <1>4, <2>1 DEF EditSave, EditsInShape, HasResult
    <2>2. CASE req[u].copy.content # NoText
      <3>1. req'[u].pc = "queue"
        BY <1>1, <1>4, <2>2 DEF EditSave, ReqGoto, RequestRecord
      <3> QED  BY <1>2, <3>1
    <2> QED  BY <2>1, <2>2
  <1>5. CASE Queue(u)
    <2>1. PICK J \in SUBSET FreeJobs :
             /\ Cardinality(J) \in 1..MaxDeliveries
             /\ job' = [j \in Jobs |-> IF j \in J THEN Message("ingest") ELSE job[j]]
      BY <1>5 DEF Queue
    <2>2. J # {}
      BY <2>1, FS_EmptySet
    <2>3. PICK k \in J : TRUE
      BY <2>2
    <2>4. k \in Jobs /\ job'[k] = Message("ingest")
      BY <2>1, <2>3 DEF FreeJobs
    <2>5. Attends(k)'
      BY <2>4 DEF Attends, At, Message, Free
    <2> QED  BY <2>4, <2>5
  <1>6. CASE RequestEnds(u)
    BY <1>6 DEF RequestEnds, Exists, HasResult
  <1>7. CASE Delete(u)
    BY <1>7 DEF Delete, NoCopy, HasResult
  <1> QED  BY <1>3, <1>4, <1>5, <1>6, <1>7 DEF UserStep, UserWrites

\* FinalInv holds in every reachable state.
LEMMA FinalInvariance == Spec => []FinalInv
  <1>1. Init => FinalInv
    <2> SUFFICES ASSUME Init
                 PROVE  FinalInv
      OBVIOUS
    <2>1. EnrichesReady
      BY DEF Init, EnrichesReady, At, Free
    <2>2. Waiting # {}
      BY DEF Init, Waiting, Request
    <2> QED  BY <2>1, <2>2 DEF FinalInv, Attended
  <1>2. TypeInv /\ ShapeInv /\ FinalInv /\ [Next]_vars => FinalInv'
    <2> SUFFICES ASSUME TypeInv, ShapeInv, FinalInv, [Next]_vars
                 PROVE  FinalInv'
      OBVIOUS
    <2>1. EnrichesReady'
      BY EnrichesReadyStep DEF FinalInv
    <2>2. ASSUME lost' = 0, "enrich" \notin clash', ~HasResult'
          PROVE  Waiting' # {} \/ \E k \in Jobs : Attends(k)'
      <3>1. lost = 0 /\ "enrich" \notin clash
        BY <2>2, LostGrows, ClashGrows
      <3>2. CASE UNCHANGED vars
        <4>1. Waiting # {} \/ \E k \in Jobs : Attends(k)
          BY <2>2, <3>1, <3>2 DEF FinalInv, Attended, HasResult, vars
        <4> QED  BY <3>2, <4>1 DEF Waiting, Attends, At, Stale, vars
      <3> QED  BY <2>2, <3>1, <3>2, JobStepAttended, UserStepAttended DEF Next
    <2> QED  BY <2>1, <2>2 DEF FinalInv, Attended
  <1> QED  BY <1>1, <1>2, TypeInvariance, ShapeInvariance, PTL DEF Spec

\* When all is done the owner sees a result, unless a worker was lost or an enrichment did not
\* keep apart.
THEOREM ResultsAreFinal == Spec => []SettledIsFinal
  <1>1. ShapeInv /\ FinalInv => SettledIsFinal
    <2> SUFFICES ASSUME ShapeInv, FinalInv, Settled, lost = 0, "enrich" \notin clash, ~HasResult
                 PROVE  FALSE
      BY DEF SettledIsFinal
    <2>1. PICK j \in Jobs : Attends(j)
      BY DEF FinalInv, Attended, Settled
    <2>2. job[j].pc = "free" /\ job[j].kind = "none"
      BY DEF Settled, FreeJobs, ShapeInv, JobsInShape, Shape
    <2> QED  BY <2>1, <2>2 DEF Attends, At
  <1> QED  BY <1>1, ShapeInvariance, FinalInvariance, PTL

-----------------------------------------------------------------------------
(* What the index says.                                                    *)

\* Nobody has written over anybody else, and the note is still there.
Apart == type = "TEXT" /\ "users" \notin clash /\ lost = 0 /\ Exists

\* The document shows READY, or would once a copy of it is written back.
MayShow == doc.status = "READY" \/ \E j \in Holding : job[j].copy.status = "READY"

\* Jobs work on the text the note has, and a request queues it with that text.
SameText ==
    /\ \A j \in Holding : /\ job[j].copy.content = doc.content
                          /\ job[j].kind = "embed" => job[j].text = doc.content
    /\ \A u \in Users : req[u].pc = "queue" => req[u].copy.content = doc.content

\* An empty note has no chunks, and nobody is to make any.
EmptyIsBare == doc.content = NoText => chunks = {} /\ \A j \in Jobs : job[j].kind # "embed"

\* What a job that is about to save has not seen is of the text it saves.
Swept == \A j \in Jobs : At(j, "embed", "save") => \A b \in chunks \ job[j].old : b.of = doc.content

\* A note that shows READY, with nobody about to change it, is found by its text.
ShownIsIndexed == Waiting = {} /\ MayShow => IndexedAs(doc.content)

\* As long as nobody wrote into a running job.
TextInv == Apart => SameText /\ EmptyIsBare /\ Swept /\ ShownIsIndexed

\* What was fetched or read by a machine and shows READY has chunks.
FoundInv == type # "TEXT" /\ "users" \notin clash /\ Exists /\ MayShow => chunks # {}

\* What a job holds it held before, unchanged, or it has just read the document.
LEMMA HeldBefore ==
    ASSUME TypeInv, NEW j \in Jobs, JobStep(j), NEW k \in Holding'
    PROVE  /\ job'[k].kind = job[k].kind /\ job'[k].text = job[k].text
           /\ \/ k \in Holding /\ job'[k].copy = job[k].copy
              \/ /\ k = j /\ job'[k].copy = doc /\ Exists
                 /\ job[k].kind = "embed" => ~Stale(k)
  <1> USE DEF TypeInv, TypeOK
  <1>1. k \in Jobs /\ job'[k].pc \notin {"free", "sent"} /\ job[k] \in JobRecord
    BY DEF Holding
  <1>2. CASE job'[k] = job[k]
    BY <1>1, <1>2 DEF Holding
  <1>3. CASE job'[k] # job[k]
    <2>1. Free.pc = "free" /\ \A kind : Message(kind).pc = "sent"
      BY DEF Free, Message
    <2>2. \A t : EmbedMessage(t).pc = "sent"
      BY DEF EmbedMessage, Message, Free
    <2>3. Again(j).pc = "sent" /\ [Again(j) EXCEPT !.retries = @ + 1].pc = "sent"
      BY AgainType DEF Again, JobType, JobRecord
    <2>4. ASSUME NEW m, m.pc \in {"free", "sent"}, Then(j, m)
          PROVE  FALSE
      BY <1>1, <1>3, <2>3, <2>4 DEF Then, FreeJobs
    <2>5. CASE IngestLoad(j) \/ ImageLoad(j) \/ EmbedLoad(j) \/ EnrichLoad(j)
      <3>1. k = j /\ job'[k].copy = doc /\ Exists
        BY <1>1, <1>3, <2>1, <2>5 DEF IngestLoad, ImageLoad, EmbedLoad, EnrichLoad, Done, JobRecord
      <3>2. job'[k].kind = job[k].kind /\ job'[k].text = job[k].text
        BY <1>1, <1>3, <2>1, <2>5 DEF IngestLoad, ImageLoad, EmbedLoad, EnrichLoad, Done, JobRecord
      <3>3. job[k].kind = "embed" => ~Stale(k)
        BY <1>1, <2>1, <2>5, <3>1
           DEF IngestLoad, ImageLoad, EmbedLoad, EnrichLoad, Done, At
      <3> QED  BY <3>1, <3>2, <3>3
    <2>6. CASE IngestMark(j) \/ ImageMark(j) \/ ImageVisual(j) \/ EmbedDelete(j)
      BY <1>1, <1>3, <2>6 DEF IngestMark, ImageMark, ImageVisual, EmbedDelete, Goto, At, Holding,
         JobRecord
    <2>7. CASE IngestSend(j) \/ ImageSend(j) \/ EmbedSave(j) \/ EnrichSave(j)
      BY <2>1, <2>2, <2>4, <2>7 DEF IngestSend, ImageSend, EmbedSave, EnrichSave
    <2>8. CASE JobFails(j) \/ JobRetries(j) \/ WorkerLost(j)
      BY <1>1, <1>3, <2>1, <2>3, <2>8 DEF JobFails, JobRetries, WorkerLost, Done
    <2> QED  BY <2>5, <2>6, <2>7, <2>8 DEF JobStep
  <1> QED  BY <1>2, <1>3

\* An embedding job is about to save only when it has just deleted.
LEMMA SaveAfterDelete ==
    ASSUME TypeInv, NEW j \in Jobs, JobStep(j), ~EmbedDelete(j),
           NEW k \in Jobs, At(k, "embed", "save")'
    PROVE  job'[k] = job[k]
  <1> SUFFICES ASSUME job'[k] # job[k]
               PROVE  FALSE
    OBVIOUS
  <1> USE DEF TypeInv, TypeOK
  <1>1. job'[k].kind = "embed" /\ job'[k].pc = "save" /\ job[k] \in JobRecord
    BY DEF At
  <1>2. Free.pc = "free" /\ \A kind : Message(kind).pc = "sent"
    BY DEF Free, Message
  <1>3. \A t : EmbedMessage(t).pc = "sent"
    BY DEF EmbedMessage, Message, Free
  <1>4. Again(j).pc = "sent" /\ [Again(j) EXCEPT !.retries = @ + 1].pc = "sent"
    BY AgainType DEF Again, JobType, JobRecord
  <1>5. ASSUME NEW m, m.pc \in {"free", "sent"}, Then(j, m)
        PROVE  FALSE
    BY <1>1, <1>4, <1>5 DEF Then, FreeJobs
  <1>6. CASE \/ IngestLoad(j) \/ ImageLoad(j) \/ EmbedLoad(j) \/ EnrichLoad(j)
             \/ IngestMark(j) \/ ImageMark(j) \/ ImageVisual(j)
    BY <1>1, <1>2, <1>6 DEF IngestLoad, ImageLoad, EmbedLoad, EnrichLoad, IngestMark, ImageMark,
       ImageVisual, Done, Goto, At, JobRecord
  <1>7. CASE IngestSend(j) \/ ImageSend(j) \/ EmbedSave(j) \/ EnrichSave(j)
    BY <1>2, <1>3, <1>5, <1>7 DEF IngestSend, ImageSend, EmbedSave, EnrichSave
  <1>8. CASE JobFails(j) \/ JobRetries(j) \/ WorkerLost(j)
    BY <1>1, <1>2, <1>4, <1>8 DEF JobFails, JobRetries, WorkerLost, Done
  <1> QED  BY <1>6, <1>7, <1>8 DEF JobStep

\* Only the end of an embedding writes chunks.
LEMMA OnlyEmbedSaves ==
    ASSUME NEW j \in Jobs, JobStep(j)
    PROVE  UNCHANGED <<type, req>> /\ (UNCHANGED chunks \/ EmbedSave(j))
  BY DEF JobStep, IngestLoad, IngestMark, IngestSend, ImageLoad, ImageMark, ImageVisual, ImageSend,
     EmbedLoad, EmbedDelete, EmbedSave, EnrichLoad, EnrichSave, JobFails, JobRetries, WorkerLost

\* A document does not come to show READY before its embedding is saved.
LEMMA OnlyEmbedShows ==
    ASSUME TypeInv, NEW j \in Jobs, JobStep(j), MayShow'
    PROVE  MayShow \/ EmbedSave(j)
  <1> SUFFICES ASSUME ~EmbedSave(j)
               PROVE  MayShow
    OBVIOUS
  <1>1. ASSUME NEW k \in Holding', job'[k].copy.status = "READY"
        PROVE  MayShow
    BY <1>1, HeldBefore DEF MayShow
  <1>2. ASSUME doc'.status = "READY", doc' # doc
        PROVE  MayShow
    <2>1. ASSUME NEW copy \in Row, NEW s \in Status
          PROVE  With(copy, s).status = s
      BY DEF With, Row
    <2>2. job[j].copy \in Row /\ doc \in Row
      BY DEF TypeInv, TypeOK, JobRecord
    <2>3. CASE IngestMark(j) \/ ImageMark(j) \/ ImageVisual(j)
      BY <1>2, <2>1, <2>2, <2>3 DEF IngestMark, ImageMark, ImageVisual, Status
    <2>4. CASE EnrichSave(j)
      BY <1>2, <2>4 DEF EnrichSave, At, Holding, MayShow
    <2>5. CASE JobFails(j)
      BY <1>2, <2>1, <2>2, <2>5 DEF JobFails, Status
    <2> QED
      BY <1>2, <2>3, <2>4, <2>5 DEF JobStep, IngestLoad, IngestSend, ImageLoad, ImageSend,
         EmbedLoad, EmbedDelete, EnrichLoad, JobRetries, WorkerLost
  <1> QED  BY <1>1, <1>2 DEF MayShow

\* Keeping apart, and being there, are lost once and for all.
LEMMA StaysApart ==
    ASSUME TypeInv, DeletedInv, [Next]_vars
    PROVE  /\ UNCHANGED type
           /\ Exists' => Exists
           /\ "users" \notin clash' => "users" \notin clash
           /\ Apart' => Apart
  <1>1. UNCHANGED type
    <2>1. ASSUME NEW u \in Users, UserStep(u)
          PROVE  UNCHANGED type
      BY <2>1 DEF UserStep, UserWrites, EditLoad, ReprocessLoad, EditSave, BulkMark, Queue,
         RequestEnds, Delete
    <2> QED  BY <2>1, OnlyEmbedSaves DEF Next, vars
  <1>2. Exists' => Exists
    BY GoneStep DEF Exists, DeletedInv
  <1>3. "users" \notin clash' => "users" \notin clash
    BY ClashGrows
  <1> QED  BY <1>1, <1>2, <1>3, LostGrows DEF Apart

\* Jobs do not change what a note says.
LEMMA JobsKeepText ==
    ASSUME TypeInv, Apart, SameText, NEW j \in Jobs, JobStep(j)
    PROVE  doc'.content = doc.content
  <1> USE DEF TypeInv, TypeOK
  <1>1. job[j].copy \in Row /\ doc \in Row
    BY DEF JobRecord
  <1>2. ASSUME NEW copy \in Row, NEW s \in Status
        PROVE  With(copy, s).content = copy.content
    BY DEF With, Row
  <1>3. j \in Holding => job[j].copy.content = doc.content
    BY DEF SameText
  <1>4. CASE IngestMark(j) \/ ImageMark(j) \/ ImageVisual(j)
    BY <1>1, <1>2, <1>3, <1>4 DEF IngestMark, ImageMark, ImageVisual, At, Holding, Status
  <1>5. CASE EmbedSave(j)
    BY <1>5 DEF EmbedSave, At, Holding, SameText
  <1>6. CASE EnrichSave(j)
    BY <1>3, <1>6 DEF EnrichSave, At, Holding
  <1>7. CASE JobFails(j)
    BY <1>1, <1>2, <1>7 DEF JobFails, Status
  <1> QED
    BY <1>4, <1>5, <1>6, <1>7 DEF JobStep, IngestLoad, IngestSend, ImageLoad, ImageSend,
       EmbedLoad, EmbedDelete, EnrichLoad, JobRetries, WorkerLost

\* A step of a job in a note whose owner keeps apart.
LEMMA JobStepTexts ==
    ASSUME TypeInv, ShapeInv, Apart, TextInv, NEW j \in Jobs, JobStep(j), lost' = 0
    PROVE  SameText' /\ EmptyIsBare' /\ Swept' /\ ShownIsIndexed'
  <1> USE DEF TypeInv, TypeOK, ShapeInv, JobsInShape
  <1>1. SameText /\ EmptyIsBare /\ Swept /\ ShownIsIndexed
    BY DEF TextInv
  <1>2. doc'.content = doc.content /\ UNCHANGED <<type, req>>
    BY <1>1, JobsKeepText, OnlyEmbedSaves
  <1>3. type = "TEXT"
    BY DEF Apart
  <1>4. \A k \in Jobs : Shape(job[k]) /\ job[k] \in JobRecord /\ job[k] \in JobType
    OBVIOUS
  <1>5. SameText'
    <2>1. ASSUME NEW k \in Holding'
          PROVE  /\ job'[k].copy.content = doc'.content
                 /\ job'[k].kind = "embed" => job'[k].text = doc'.content
      <3>1. /\ job'[k].kind = job[k].kind /\ job'[k].text = job[k].text /\ k \in Jobs
            /\ \/ k \in Holding /\ job'[k].copy = job[k].copy
               \/ /\ job'[k].copy = doc
                  /\ job[k].kind = "embed" => ~Stale(k)
        BY HeldBefore DEF Holding
      <3>2. CASE k \in Holding /\ job'[k].copy = job[k].copy
        BY <1>1, <1>2, <3>1, <3>2 DEF SameText
      <3>3. CASE job'[k].copy = doc /\ (job[k].kind = "embed" => ~Stale(k))
        BY <1>1, <1>2, <1>3, <1>4, <3>1, <3>3 DEF Stale, Shape, EmptyIsBare
      <3> QED  BY <3>1, <3>2, <3>3
    <2> QED  BY <1>1, <1>2, <2>1 DEF SameText
  <1>6. CASE EmbedSave(j)
    <2>1. /\ At(j, "embed", "save") /\ j \in Holding /\ job[j].text = doc.content
          /\ job[j].text \in Texts
      BY <1>1, <1>4, <1>6 DEF EmbedSave, At, Holding, SameText, JobType
    <2>2. chunks' = (chunks \ job[j].old) \cup {[by |-> j, of |-> job[j].text]}
      BY <1>6 DEF EmbedSave
    <2>3. \A b \in chunks \ job[j].old : b.of = doc.content
      BY <1>1, <2>1 DEF Swept
    <2>4. \A b \in chunks' : b.of = doc'.content
      BY <1>2, <2>1, <2>2, <2>3
    <2>5. chunks' # {} /\ doc'.content # NoText
      BY <1>2, <2>1, <2>2, PipelineAssumption DEF PipelineAssumption
    <2>6. IndexedAs(doc.content)'
      BY <2>4, <2>5 DEF IndexedAs
    <2> QED  BY <1>5, <2>4, <2>5, <2>6 DEF EmptyIsBare, Swept, ShownIsIndexed
  <1>7. CASE ~EmbedSave(j)
    <2>1. UNCHANGED chunks
      BY <1>7, OnlyEmbedSaves
    <2>2. EmptyIsBare'
      <3> SUFFICES ASSUME doc.content = NoText, NEW k \in Jobs, job'[k].kind = "embed"
                   PROVE  FALSE
        BY <1>1, <1>2, <2>1 DEF EmptyIsBare
      <3>1. job[k].kind # "embed"
        BY <1>1 DEF EmptyIsBare
      <3>2. Message("enrich").kind = "enrich" /\ Free.kind = "none"
        BY DEF Message, Free
      <3>3. Again(j).kind = job[j].kind /\ [Again(j) EXCEPT !.retries = @ + 1].kind = job[j].kind
        BY <1>4, AgainType DEF Again, JobType, JobRecord
      <3>4. CASE IngestSend(j)
        <4>1. job[j].copy.content = NoText
          BY <1>1, <3>4 DEF IngestSend, At, Holding, SameText
        <4> QED  BY <1>3, <3>4, <4>1 DEF IngestSend, Extracted
      <3>5. CASE \/ IngestLoad(j) \/ IngestMark(j) \/ ImageLoad(j) \/ ImageMark(j) \/ ImageVisual(j)
                 \/ EmbedLoad(j) \/ EmbedDelete(j) \/ EnrichLoad(j)
        BY <1>1, <1>4, <3>1, <3>2, <3>5 DEF EmptyIsBare, IngestLoad, IngestMark, ImageLoad,
           ImageMark, ImageVisual, EmbedLoad, EmbedDelete, EnrichLoad, Done, Goto, JobRecord
      <3>6. CASE ImageSend(j)
        BY <1>3, <1>4, <3>6 DEF ImageSend, At, Shape
      <3>7. CASE EnrichSave(j)
        <4>1. job' = [job EXCEPT ![j] = Free]
          BY <3>7, ThenKept DEF EnrichSave
        <4> QED  BY <3>1, <3>2, <4>1
      <3>8. CASE JobFails(j) \/ JobRetries(j) \/ WorkerLost(j)
        <4>1. job'[k] \in {job[k], Free, Again(j), [Again(j) EXCEPT !.retries = @ + 1]}
          BY <3>8 DEF JobFails, JobRetries, WorkerLost, Done
        <4>2. job[j].kind # "embed"
          BY <1>1 DEF EmptyIsBare
        <4> QED  BY <3>1, <3>2, <3>3, <4>1, <4>2
      <3> QED  BY <1>7, <3>4, <3>5, <3>6, <3>7, <3>8 DEF JobStep
    <2>3. Swept'
      <3> SUFFICES ASSUME NEW k \in Jobs, At(k, "embed", "save")',
                          NEW b \in chunks, b \notin job'[k].old
                   PROVE  b.of = doc.content
        BY <1>2, <2>1 DEF Swept
      <3>1. CASE job'[k] = job[k]
        BY <1>1, <3>1 DEF Swept, At
      <3>2. CASE EmbedDelete(j)
        BY <1>1, <1>4, <3>2 DEF EmbedDelete, Swept, At, JobRecord
      <3> QED  BY <3>1, <3>2, SaveAfterDelete
    <2>4. ShownIsIndexed'
      <3>1. MayShow' => MayShow
        BY <1>7, OnlyEmbedShows
      <3>2. Waiting' = Waiting
        BY <1>2 DEF Waiting
      <3> QED  BY <1>1, <1>2, <2>1, <3>1, <3>2 DEF ShownIsIndexed, IndexedAs
    <2> QED  BY <1>5, <2>2, <2>3, <2>4
  <1> QED  BY <1>6, <1>7

\* A step of the owner who keeps apart.
LEMMA UserStepTexts ==
    ASSUME TypeInv, ShapeInv, Apart, TextInv, NEW u \in Users, UserStep(u), Apart'
    PROVE  SameText' /\ EmptyIsBare' /\ Swept' /\ ShownIsIndexed'
  <1> USE DEF TypeInv, TypeOK, ShapeInv
  <1>1. SameText /\ EmptyIsBare /\ Swept /\ ShownIsIndexed
    BY DEF TextInv
  <1>2. \A v \in Users : req[v] \in RequestRecord
    OBVIOUS
  <1>3. \A j \in Jobs : job[j] \in JobRecord /\ Shape(job[j])
    BY DEF JobsInShape
  <1>4. "users" \notin clash' /\ Exists' /\ lost' = 0
    BY DEF Apart
  <1>5. ASSUME UNCHANGED <<doc, chunks, job>>, req'[u].pc \in {"save", "queue"},
               \A v \in Users \ {u} : req'[v] = req[v],
               req'[u].pc = "queue" => req'[u].copy.content = doc.content
        PROVE  SameText' /\ EmptyIsBare' /\ Swept' /\ ShownIsIndexed'
    <2>1. u \in Waiting'
      BY <1>5 DEF Waiting
    <2>2. SameText'
      BY <1>1, <1>5 DEF SameText, Holding
    <2> QED  BY <1>1, <1>5, <2>1, <2>2 DEF EmptyIsBare, Swept, ShownIsIndexed, At
  <1>6. CASE \E t \in EditTexts : EditLoad(u, t)
    <2>1. req'[u].pc = "save" /\ UNCHANGED <<doc, chunks, job>>
      BY <1>6 DEF EditLoad, Request
    <2>2. \A v \in Users \ {u} : req'[v] = req[v]
      BY <1>6 DEF EditLoad
    <2> QED  BY <1>5, <2>1, <2>2
  <1>7. CASE ReprocessLoad(u)
    BY <1>5, <1>7 DEF ReprocessLoad, Request
  <1>8. ASSUME UserWriteClash(u)
        PROVE  /\ Holding = {} /\ Waiting \subseteq {u}
               /\ doc'.content = NoText => doc.content = NoText \/ Carrying = {}
    BY <1>4, <1>8 DEF UserWriteClash, Clash
  <1>9. ASSUME Holding = {}
        PROVE  \A j \in Jobs : ~At(j, "embed", "save") /\ (job[j].kind = "embed" => j \in Carrying)
    BY <1>3, <1>9 DEF Holding, At, Carrying, Shape
  <1>10. CASE EditSave(u)
    <2>1. /\ Holding = {} /\ Waiting \subseteq {u} /\ UNCHANGED job
          /\ req[u].pc = "save" /\ doc' = req[u].copy
      BY <1>8, <1>10 DEF EditSave
    <2>2. Holding' = {}
      BY <2>1 DEF Holding
    <2>3. ASSUME NEW v \in Users, v # u
          PROVE  req'[v].pc # "queue"
      BY <1>10, <2>1, <2>3 DEF EditSave, ReqGoto, Waiting
    <2>4. req'[u].copy = req[u].copy
      BY <1>2, <1>10 DEF EditSave, ReqGoto, RequestRecord
    <2>5. SameText'
      BY <2>1, <2>2, <2>3, <2>4 DEF SameText
    <2>6. Swept'
      BY <1>9, <2>1 DEF Swept, At
    <2>7. CASE doc'.content = NoText
      <3>1. chunks' = {}
        BY <1>10, <2>7 DEF EditSave
      <3>2. \A j \in Jobs : job[j].kind # "embed"
        BY <1>1, <1>8, <1>9, <1>10, <2>1, <2>7 DEF EditSave, EmptyIsBare
      <3>3. IndexedAs(doc.content)'
        BY <2>7, <3>1 DEF IndexedAs
      <3> QED  BY <2>1, <2>5, <2>6, <3>1, <3>2, <3>3 DEF EmptyIsBare, ShownIsIndexed
    <2>8. CASE doc'.content # NoText
      <3>1. req'[u].pc = "queue"
        BY <1>2, <1>10, <2>8 DEF EditSave, ReqGoto, RequestRecord
      <3>2. u \in Waiting'
        BY <3>1 DEF Waiting
      <3> QED  BY <2>5, <2>6, <2>8, <3>2 DEF EmptyIsBare, ShownIsIndexed
    <2> QED  BY <2>7, <2>8
  <1>11. CASE BulkMark(u)
    <2>1. /\ Holding = {} /\ Waiting \subseteq {u} /\ UNCHANGED job /\ chunks' = {}
          /\ req' = [req EXCEPT ![u] = Request("bulk", "queue", doc')]
      BY <1>8, <1>11 DEF BulkMark
    <2>2. Holding' = {}
      BY <2>1 DEF Holding
    <2>3. doc'.content = doc.content
      BY <1>11 DEF BulkMark, With, Row
    <2>4. ASSUME NEW v \in Users, v # u
          PROVE  req'[v].pc # "queue"
      BY <2>1, <2>4 DEF Waiting
    <2>5. req'[u].pc = "queue" /\ req'[u].copy = doc'
      BY <2>1 DEF Request
    <2>6. SameText'
      BY <2>2, <2>4, <2>5 DEF SameText
    <2>7. u \in Waiting'
      BY <2>5 DEF Waiting
    <2> QED  BY <1>1, <2>1, <2>3, <2>6, <2>7 DEF EmptyIsBare, Swept, ShownIsIndexed
  <1>12. CASE Queue(u)
    <2>1. /\ Holding = {} /\ Waiting \subseteq {u} /\ UNCHANGED chunks
          /\ doc' = With(req[u].copy, "QUEUED") /\ req[u].pc = "queue"
      BY <1>8, <1>12 DEF Queue
    <2>2. Message("ingest").pc = "sent" /\ Message("ingest").kind = "ingest"
      BY DEF Message, Free
    <2>3. \A j \in Jobs : job'[j] = job[j] \/ job'[j] = Message("ingest")
      BY <1>12 DEF Queue
    <2>4. Holding' = {}
      BY <2>1, <2>2, <2>3 DEF Holding
    <2>5. doc'.content = doc.content /\ doc'.status = "QUEUED"
      <3>1. req[u].copy \in Row
        BY <1>2 DEF RequestRecord
      <3>2. doc'.content = req[u].copy.content /\ doc'.status = "QUEUED"
        BY <2>1, <3>1 DEF With, Row
      <3> QED  BY <1>1, <2>1, <3>2 DEF SameText
    <2>6. \A v \in Users : req'[v].pc # "queue"
      BY <1>2, <1>12, <2>1 DEF Queue, ReqGoto, Waiting, RequestRecord
    <2>7. SameText'
      BY <2>4, <2>6 DEF SameText
    <2>8. Swept'
      BY <1>9, <2>1, <2>2, <2>3 DEF Swept, At
    <2>9. ~MayShow'
      BY <2>4, <2>5 DEF MayShow
    <2>10. EmptyIsBare'
      BY <1>1, <2>1, <2>2, <2>3, <2>5 DEF EmptyIsBare
    <2> QED  BY <2>7, <2>8, <2>9, <2>10 DEF ShownIsIndexed
  <1>13. CASE RequestEnds(u)
    BY <1>4, <1>13 DEF RequestEnds, Exists
  <1>14. CASE Delete(u)
    BY <1>4, <1>14 DEF Delete, NoCopy, Exists
  <1> QED  BY <1>6, <1>7, <1>10, <1>11, <1>12, <1>13, <1>14 DEF UserStep, UserWrites

\* TextInv holds in every reachable state.
LEMMA TextInvariance == Spec => []TextInv
  <1>1. Init => TextInv
    <2> SUFFICES ASSUME Init
                 PROVE  TextInv
      OBVIOUS
    <2>1. Holding = {} /\ \A j \in Jobs : job[j].kind = "none"
      BY DEF Init, Holding, Free
    <2>2. SameText
      BY <2>1 DEF Init, SameText, Request
    <2>3. doc.status = "PENDING" /\ chunks = {}
      BY DEF Init
    <2>4. ~MayShow
      BY <2>1, <2>3 DEF MayShow
    <2> QED  BY <2>1, <2>2, <2>3, <2>4 DEF TextInv, EmptyIsBare, Swept, ShownIsIndexed, At
  <1>2. TypeInv /\ DeletedInv /\ ShapeInv /\ TextInv /\ [Next]_vars => TextInv'
    <2> SUFFICES ASSUME TypeInv, DeletedInv, ShapeInv, TextInv, [Next]_vars, Apart'
                 PROVE  SameText' /\ EmptyIsBare' /\ Swept' /\ ShownIsIndexed'
      BY DEF TextInv
    <2>1. Apart /\ lost' = 0
      BY StaysApart DEF Apart
    <2>2. CASE UNCHANGED vars
      BY <2>1, <2>2 DEF TextInv, vars, SameText, EmptyIsBare, Swept, ShownIsIndexed, MayShow, Holding,
         Waiting, IndexedAs, At
    <2> QED  BY <2>1, <2>2, JobStepTexts, UserStepTexts DEF Next
  <1> QED  BY <1>1, <1>2, TypeInvariance, DeletedInvariance, ShapeInvariance, PTL DEF Spec

\* FoundInv holds in every reachable state.
LEMMA FoundInvariance == Spec => []FoundInv
  <1>1. Init => FoundInv
    <2> SUFFICES ASSUME Init
                 PROVE  ~MayShow
      BY DEF FoundInv
    <2>1. Holding = {} /\ doc.status = "PENDING"
      BY DEF Init, Holding, Free
    <2> QED  BY <2>1 DEF MayShow
  <1>2. TypeInv /\ DeletedInv /\ ShapeInv /\ FoundInv /\ [Next]_vars => FoundInv'
    <2> SUFFICES ASSUME TypeInv, DeletedInv, ShapeInv, FoundInv, [Next]_vars,
                        type' # "TEXT", "users" \notin clash', Exists', MayShow'
                 PROVE  chunks' # {}
      BY DEF FoundInv
    <2> USE DEF TypeInv, TypeOK
    <2>1. type # "TEXT" /\ "users" \notin clash /\ Exists
      BY StaysApart
    <2>2. MayShow => chunks # {}
      BY <2>1 DEF FoundInv
    <2>3. ASSUME NEW j \in Jobs, JobStep(j)
          PROVE  chunks' # {}
      <3>1. EmbedSave(j) => chunks' # {}
        BY DEF EmbedSave
      <3> QED  BY <2>2, <2>3, <3>1, OnlyEmbedShows, OnlyEmbedSaves
    <2>4. ASSUME NEW u \in Users, UserStep(u)
          PROVE  chunks' # {}
      <3>1. CASE (\E t \in EditTexts : EditLoad(u, t)) \/ EditSave(u)
        BY <2>1, <3>1 DEF EditLoad, EditSave, ShapeInv, EditsInShape
      <3>2. CASE UNCHANGED <<doc, chunks, job>>
        BY <2>2, <3>2 DEF MayShow, Holding
      <3>3. CASE BulkMark(u) \/ Queue(u)
        <4>1. Holding = {}
          BY <3>3 DEF BulkMark, Queue, UserWriteClash, Clash
        <4>2. \A j \in Jobs : job'[j] = job[j] \/ job'[j].pc = "sent"
          BY <3>3 DEF BulkMark, Queue, Message, Free
        <4>3. Holding' = {}
          BY <4>1, <4>2 DEF Holding
        <4>4. req[u].copy \in Row
          BY DEF RequestRecord
        <4>5. doc'.status = "QUEUED"
          BY <3>3, <4>4 DEF BulkMark, Queue, With, Row
        <4> QED  BY <4>3, <4>5 DEF MayShow
      <3>4. CASE Delete(u)
        BY <3>4 DEF Delete, NoCopy, Exists
      <3> QED
        BY <2>4, <3>1, <3>2, <3>3, <3>4 DEF UserStep, UserWrites, ReprocessLoad, RequestEnds
    <2>5. CASE UNCHANGED vars
      BY <2>2, <2>5 DEF MayShow, Holding, vars
    <2> QED  BY <2>3, <2>4, <2>5 DEF Next
  <1> QED  BY <1>1, <1>2, TypeInvariance, DeletedInvariance, ShapeInvariance, PTL DEF Spec

\* When all is done a READY document is found: a note by the text it shows, and by no other,
\* what was fetched by something, as long as the owner did not write over a running job.
THEOREM ResultsAreIndexed == Spec => []SettledIsIndexed
  <1>1. TextInv /\ FoundInv => SettledIsIndexed
    <2> SUFFICES ASSUME TextInv, FoundInv, Settled, "users" \notin clash, doc.status = "READY"
                 PROVE  IF type = "TEXT" THEN lost = 0 => IndexedAs(doc.content) ELSE chunks # {}
      BY DEF SettledIsIndexed
    <2>1. Exists /\ MayShow /\ Waiting = {}
      BY DEF Exists, MayShow, Settled
    <2>2. CASE type = "TEXT"
      BY <2>1, <2>2 DEF TextInv, Apart, ShownIsIndexed
    <2>3. CASE type # "TEXT"
      BY <2>1, <2>3 DEF FoundInv
    <2> QED  BY <2>2, <2>3
  <1> QED  BY <1>1, TextInvariance, FoundInvariance, PTL

-----------------------------------------------------------------------------
(* DocumentPipeline implements DocumentLife: every step of a job or a      *)
(* request is one on the row and the copies of it, or none.                *)

\* The copies that jobs and requests work on.
Copies == {job[j].copy : j \in Holding} \cup {req[u].copy : u \in Waiting}

\* A job that changes its slot holds what it held, something of S, or nothing.
LEMMA JobCopies ==
    ASSUME TypeInv, NEW S, NEW j \in Jobs, NEW m, job' = [job EXCEPT ![j] = m], UNCHANGED req,
           \/ m.pc \in {"free", "sent"}
           \/ m.copy \in S
           \/ j \in Holding /\ m.copy = job[j].copy
    PROVE  Copies' \subseteq Copies \cup S
  <1>1. \A k \in Jobs : job'[k] = IF k = j THEN m ELSE job[k]
    BY DEF TypeInv, TypeOK
  <1>2. ASSUME NEW k \in Holding'
        PROVE  job'[k].copy \in Copies \cup S
    <2>1. CASE k = j
      BY <1>1, <1>2, <2>1 DEF Holding, Copies
    <2>2. CASE k # j
      BY <1>1, <1>2, <2>2 DEF Holding, Copies
    <2> QED  BY <2>1, <2>2
  <1> QED  BY <1>2 DEF Copies, Waiting

\* So does a request.
LEMMA RequestCopies ==
    ASSUME TypeInv, NEW S, NEW u \in Users, NEW r, req' = [req EXCEPT ![u] = r], UNCHANGED job,
           \/ r.pc \notin {"save", "queue"}
           \/ r.copy \in S
           \/ u \in Waiting /\ r.copy = req[u].copy
    PROVE  Copies' \subseteq Copies \cup S
  <1>1. \A v \in Users : req'[v] = IF v = u THEN r ELSE req[v]
    BY DEF TypeInv, TypeOK
  <1>2. ASSUME NEW v \in Waiting'
        PROVE  req'[v].copy \in Copies \cup S
    <2>1. CASE v = u
      BY <1>1, <1>2, <2>1 DEF Waiting, Copies
    <2>2. CASE v # u
      BY <1>1, <1>2, <2>2 DEF Waiting, Copies
    <2> QED  BY <2>1, <2>2
  <1> QED  BY <1>2 DEF Copies, Holding

\* Who sends the next message, or starts again, holds nothing.
LEMMA ThenCopies ==
    ASSUME TypeInv, NEW j \in Jobs, NEW m, m.pc \in {"free", "sent"}, Then(j, m), UNCHANGED req
    PROVE  Copies' \subseteq Copies
  <1>1. CASE job' = [job EXCEPT ![j] = m]
    BY <1>1, JobCopies, \A S : S \cup {} = S
  <1>2. CASE \E k \in FreeJobs : job' = [job EXCEPT ![j] = Again(j), ![k] = m]
    <2>1. PICK k \in FreeJobs : job' = [job EXCEPT ![j] = Again(j), ![k] = m]
      BY <1>2
    <2>2. Again(j).pc = "sent"
      BY DEF Again, TypeInv, TypeOK, JobRecord
    <2>3. \A i \in Jobs : \/ job'[i] = job[i] \/ job'[i].pc \in {"free", "sent"}
      BY <2>1, <2>2 DEF TypeInv, TypeOK, FreeJobs
    <2>4. ASSUME NEW i \in Holding'
          PROVE  job'[i].copy \in Copies
      BY <2>3, <2>4 DEF Holding, Copies
    <2> QED  BY <2>4 DEF Copies, Waiting
  <1> QED  BY <1>1, <1>2 DEF Then

\* The document is PENDING and the request that made it holds it.
LEMMA LifeStarts == Init => Life!LifeInit
  <1> SUFFICES ASSUME Init
               PROVE  Life!LifeInit
    OBVIOUS
  <1>1. doc \in Row /\ doc.status = "PENDING" /\ chunks = {}
    BY DEF Init, Row, Status
  <1>2. Holding = {}
    BY DEF Init, Holding, Free
  <1>3. PICK u \in Users : req = [v \in Users |-> IF v = u THEN Request("create", "queue", doc)
                                                  ELSE Request("none", "new", NoCopy)]
    BY DEF Init
  <1>4. Waiting = {u} /\ req[u].copy = doc
    BY <1>3 DEF Waiting, Request
  <1> QED
    BY <1>1, <1>2, <1>4 DEF Life!LifeInit, Life!Rows, Life!Statuses, Row, Status

\* Each step of a job reads, writes or drops a copy.
LEMMA JobLives ==
    ASSUME TypeInv, NEW j \in Jobs, JobStep(j)
    PROVE  Life!LifeNext
  <1> USE DEF TypeInv, TypeOK
  <1>1. job[j] \in JobRecord /\ job[j] \in JobType /\ job[j].copy \in Row
    BY DEF JobRecord
  <1>2. ASSUME NEW S, Copies' \subseteq Copies \cup S, S = {}
        PROVE  Copies' \subseteq Copies
    BY <1>2
  <1>3. ASSUME Done(j), UNCHANGED req
        PROVE  Copies' \subseteq Copies
    <2>1. Free.pc = "free"
      BY DEF Free
    <2>2. Copies' \subseteq Copies \cup {}
      BY <1>3, <2>1, JobCopies DEF Done
    <2> QED  BY <2>2
  <1>4. ASSUME NEW pc, Goto(j, pc), UNCHANGED req, j \in Holding
        PROVE  Copies' \subseteq Copies
    <2>1. job' = [job EXCEPT ![j] = [job[j] EXCEPT !.pc = pc]]
      BY <1>4 DEF Goto
    <2>2. [job[j] EXCEPT !.pc = pc].copy = job[j].copy
      BY <1>1 DEF JobRecord
    <2>3. Copies' \subseteq Copies \cup {}
      BY <1>4, <2>1, <2>2, JobCopies
    <2> QED  BY <2>3
  <1>5. ASSUME j \in Holding
        PROVE  job[j].copy \in Copies
    BY <1>5 DEF Copies
  <1>6. Exists => Life!There
    BY DEF Exists, Life!There, Life!GoneRow
  <1>7. ASSUME UNCHANGED <<doc, chunks>>, Copies' \subseteq Copies
        PROVE  Life!LifeNext
    BY <1>7 DEF Life!LifeNext, Life!Forget, Copies
  <1>8. CASE IngestLoad(j) \/ ImageLoad(j) \/ EmbedLoad(j) \/ EnrichLoad(j)
    <2>1. CASE Done(j)
      BY <1>3, <1>7, <1>8, <2>1 DEF IngestLoad, ImageLoad, EmbedLoad, EnrichLoad
    <2>2. CASE Exists /\ \E pc \in {"mark", "embed", "save"} :
                             job' = [job EXCEPT ![j].pc = pc, ![j].copy = doc]
      <3>1. PICK pc \in {"mark", "embed", "save"} :
                   job' = [job EXCEPT ![j].pc = pc, ![j].copy = doc]
        BY <2>2
      <3> DEFINE m == [job[j] EXCEPT !.pc = pc, !.copy = doc]
      <3>2. job' = [job EXCEPT ![j] = m] /\ m.copy = doc
        BY <1>1, <3>1 DEF JobRecord
      <3>3. UNCHANGED <<req, doc, chunks>>
        BY <1>8 DEF IngestLoad, ImageLoad, EmbedLoad, EnrichLoad
      <3> HIDE DEF m
      <3>4. Copies' \subseteq Copies \cup {doc}
        BY <3>2, <3>3, JobCopies
      <3>5. doc \in Life!Rows
        BY <2>2 DEF Exists, Row, Status, Life!Rows, Life!Statuses
      <3>6. Life!Take
        BY <1>6, <2>2, <3>3, <3>4, <3>5 DEF Life!Take, Copies
      <3> QED  BY <3>6 DEF Life!LifeNext
    <2> QED  BY <1>8, <2>1, <2>2 DEF IngestLoad, ImageLoad, EmbedLoad, EnrichLoad
  <1>9. CASE IngestMark(j) \/ ImageMark(j) \/ ImageVisual(j)
    <2>1. j \in Holding
      BY <1>9 DEF IngestMark, ImageMark, ImageVisual, At, Holding
    <2>2. Copies' \subseteq Copies
      BY <1>4, <1>9, <2>1 DEF IngestMark, ImageMark, ImageVisual
    <2>3. /\ Exists /\ doc' = With(job[j].copy, "PROCESSING") /\ chunks' = chunks
      BY <1>9 DEF IngestMark, ImageMark, ImageVisual
    <2>4. doc' = Life!Restated(job[j].copy, "PROCESSING")
      BY <2>3 DEF With, Life!Restated
    <2>5. Life!Rewrite
      BY <1>5, <1>6, <2>1, <2>2, <2>3, <2>4 DEF Life!Rewrite, Copies
    <2> QED  BY <2>5 DEF Life!LifeNext
  <1>10. CASE IngestSend(j) \/ ImageSend(j)
    <2>1. \E m : m.pc = "sent" /\ Then(j, m)
      <3>1. \A t : EmbedMessage(t).pc = "sent"
        BY DEF EmbedMessage, Message, Free
      <3>2. Message("image").pc = "sent"
        BY DEF Message, Free
      <3> QED  BY <1>10, <3>1, <3>2 DEF IngestSend, ImageSend
    <2>2. Copies' \subseteq Copies
      BY <1>10, <2>1, ThenCopies DEF IngestSend, ImageSend
    <2> QED  BY <1>7, <1>10, <2>2 DEF IngestSend, ImageSend
  <1>11. CASE EmbedDelete(j)
    <2> DEFINE m == [job[j] EXCEPT !.pc = "save", !.old = chunks]
    <2>1. job' = [job EXCEPT ![j] = m] /\ m.copy = job[j].copy
      BY <1>1, <1>11 DEF EmbedDelete, JobRecord
    <2>2. j \in Holding /\ UNCHANGED <<req, doc, chunks>>
      BY <1>11 DEF EmbedDelete, At, Holding
    <2> HIDE DEF m
    <2>3. Copies' \subseteq Copies \cup {}
      BY <2>1, <2>2, JobCopies
    <2> QED  BY <1>7, <2>2, <2>3
  <1>12. CASE EmbedSave(j)
    <2>1. Message("enrich").pc = "sent" /\ Free.pc = "free"
      BY DEF Message, Free
    <2>2. Copies' \subseteq Copies
      BY <1>12, <2>1, ThenCopies DEF EmbedSave
    <2>3. job[j].text \in Texts
      BY <1>1, <1>12 DEF EmbedSave, At, JobType
    <2>4. j \in Holding /\ Exists
      BY <1>12 DEF EmbedSave, At, Holding
    <2>5. doc' \in [status : {"READY"},
                    content : IF job[j].copy.content = NoText THEN Texts ELSE {job[j].copy.content}]
      BY <1>12, <2>3 DEF EmbedSave
    <2>6. (chunks # {})' = TRUE
      BY <1>12 DEF EmbedSave
    <2>7. Life!Index
      BY <1>5, <1>6, <2>2, <2>4, <2>5, <2>6 DEF Life!Index, Copies
    <2> QED  BY <2>7 DEF Life!LifeNext
  <1>13. CASE EnrichSave(j)
    <2>1. Copies' \subseteq Copies
      BY <1>13, ThenCopies DEF EnrichSave, Free
    <2>2. j \in Holding /\ Exists /\ doc' = job[j].copy /\ chunks' = chunks
      BY <1>13 DEF EnrichSave, At, Holding
    <2>3. Life!Rewrite
      BY <1>5, <1>6, <2>1, <2>2 DEF Life!Rewrite, Copies
    <2> QED  BY <2>3 DEF Life!LifeNext
  <1>14. CASE JobFails(j)
    <2>1. Copies' \subseteq Copies /\ chunks' = chunks
      BY <1>3, <1>14 DEF JobFails
    <2>2. CASE doc' = doc
      BY <1>7, <2>1, <2>2
    <2>3. CASE Exists /\ doc' = With(doc, "FAILED")
      <3>1. Life!Fail
        BY <1>6, <2>1, <2>3 DEF Life!Fail, Life!Restated, With, Copies
      <3> QED  BY <3>1 DEF Life!LifeNext
    <2> QED  BY <1>14, <2>2, <2>3 DEF JobFails
  <1>15. CASE JobRetries(j) \/ WorkerLost(j)
    <2>1. \E m : m.pc = "sent" /\ job' = [job EXCEPT ![j] = m]
      <3>1. Again(j).pc = "sent" /\ [Again(j) EXCEPT !.retries = @ + 1].pc = "sent"
        BY <1>1 DEF Again, JobRecord
      <3> QED  BY <1>15, <3>1 DEF JobRetries, WorkerLost
    <2>2. UNCHANGED <<req, doc, chunks>>
      BY <1>15 DEF JobRetries, WorkerLost
    <2>3. Copies' \subseteq Copies \cup {}
      BY <2>1, <2>2, JobCopies
    <2> QED  BY <1>7, <2>2, <2>3
  <1> QED  BY <1>8, <1>9, <1>10, <1>11, <1>12, <1>13, <1>14, <1>15 DEF JobStep

\* So does each step of a request.
LEMMA RequestLives ==
    ASSUME TypeInv, NEW u \in Users, UserStep(u)
    PROVE  Life!LifeNext
  <1> USE DEF TypeInv, TypeOK
  <1>1. req[u] \in RequestRecord /\ req[u].copy \in Row
    BY DEF RequestRecord
  <1>2. ASSUME NEW pc, ReqGoto(u, pc), UNCHANGED job, u \in Waiting \/ pc = "done"
        PROVE  Copies' \subseteq Copies
    <2> DEFINE r == [req[u] EXCEPT !.pc = pc]
    <2>1. req' = [req EXCEPT ![u] = r] /\ r.copy = req[u].copy /\ r.pc = pc
      BY <1>1, <1>2 DEF ReqGoto, RequestRecord
    <2> HIDE DEF r
    <2>2. Copies' \subseteq Copies \cup {}
      BY <1>2, <2>1, RequestCopies
    <2> QED  BY <2>2
  <1>3. Exists => Life!There
    BY DEF Exists, Life!There, Life!GoneRow
  <1>4. ASSUME u \in Waiting
        PROVE  req[u].copy \in Copies
    BY <1>4 DEF Copies
  <1>5. ASSUME NEW op, NEW pc, NEW copy, UNCHANGED job,
               req' = [req EXCEPT ![u] = Request(op, pc, copy)]
        PROVE  Copies' \subseteq Copies \cup {copy}
    <2>1. Request(op, pc, copy).copy = copy
      BY DEF Request
    <2> QED  BY <1>5, <2>1, RequestCopies
  <1>6. ASSUME NEW copy \in Life!Rows, copy.status \in {doc.status, "READY"}, Exists,
               Copies' \subseteq Copies \cup {copy}, UNCHANGED <<doc, chunks>>
        PROVE  Life!LifeNext
    BY <1>3, <1>6 DEF Life!LifeNext, Life!Take, Copies
  <1>7. CASE \E t \in EditTexts : EditLoad(u, t)
    <2>1. PICK t \in EditTexts : EditLoad(u, t)
      BY <1>7
    <2> DEFINE copy == [status |-> IF t = NoText THEN "READY" ELSE doc.status, content |-> t]
    <2>2. Exists /\ UNCHANGED <<doc, chunks, job>>
      BY <2>1 DEF EditLoad
    <2>3. req' = [req EXCEPT ![u] = Request("edit", "save", copy)]
      BY <2>1 DEF EditLoad
    <2>4. copy \in Life!Rows /\ copy.status \in {doc.status, "READY"}
      <3>1. doc.status \in Life!Statuses
        BY <2>2 DEF Exists, Row, Status, Life!Statuses
      <3>0. t \in Texts \cup {NoText}
        BY <2>1, PipelineAssumption DEF PipelineAssumption
      <3>2. (IF t = NoText THEN "READY" ELSE doc.status) \in Life!Statuses
        BY <3>1 DEF Life!Statuses
      <3> QED  BY <3>0, <3>1, <3>2 DEF Life!Rows
    <2> HIDE DEF copy
    <2> QED  BY <1>5, <1>6, <2>2, <2>3, <2>4
  <1>8. CASE ReprocessLoad(u)
    <2>1. Exists /\ UNCHANGED <<doc, chunks, job>>
      BY <1>8 DEF ReprocessLoad
    <2>2. doc \in Life!Rows
      BY <2>1 DEF Exists, Row, Status, Life!Rows, Life!Statuses
    <2>3. Copies' \subseteq Copies \cup {doc}
      BY <1>5, <1>8, <2>1 DEF ReprocessLoad
    <2> QED  BY <1>6, <2>1, <2>2, <2>3
  <1>9. CASE EditSave(u)
    <2>1. u \in Waiting /\ Exists /\ doc' = req[u].copy /\ UNCHANGED job
      BY <1>9 DEF EditSave, Waiting
    <2>2. Copies' \subseteq Copies
      BY <1>2, <1>9, <2>1 DEF EditSave
    <2>3. CASE doc'.content = NoText /\ chunks' = {}
      <3>1. Life!Empty
        BY <1>3, <1>4, <2>1, <2>2, <2>3 DEF Life!Empty, Copies
      <3> QED  BY <3>1 DEF Life!LifeNext
    <2>4. CASE UNCHANGED chunks
      <3>1. Life!Rewrite
        BY <1>3, <1>4, <2>1, <2>2, <2>4 DEF Life!Rewrite, Copies
      <3> QED  BY <3>1 DEF Life!LifeNext
    <2> QED  BY <1>9, <2>3, <2>4 DEF EditSave
  <1>10. CASE BulkMark(u)
    <2>1. Exists /\ doc' = With(doc, "QUEUED") /\ chunks' = {} /\ UNCHANGED job
      BY <1>10 DEF BulkMark
    <2>2. Copies' \subseteq Copies \cup {doc'}
      BY <1>5, <1>10, <2>1 DEF BulkMark
    <2>3. Life!Mark
      BY <1>3, <2>1, <2>2 DEF Life!Mark, Life!Restated, With, Copies
    <2> QED  BY <2>3 DEF Life!LifeNext
  <1>11. CASE Queue(u)
    <2>1. u \in Waiting /\ Exists /\ doc' = With(req[u].copy, "QUEUED") /\ chunks' = chunks
      BY <1>11 DEF Queue, Waiting
    <2>2. Message("ingest").pc = "sent"
      BY DEF Message, Free
    <2>3. \A j \in Jobs : job'[j] = job[j] \/ job'[j].pc = "sent"
      BY <1>11, <2>2 DEF Queue
    <2>4. ASSUME NEW j \in Holding'
          PROVE  job'[j].copy \in Copies
      BY <2>3, <2>4 DEF Holding, Copies
    <2>5. \A v \in Waiting' : v \in Waiting /\ req'[v] = req[v]
      BY <1>11 DEF Queue, ReqGoto, Waiting, RequestRecord
    <2>6. Copies' \subseteq Copies
      BY <2>4, <2>5 DEF Copies
    <2>7. doc' = Life!Restated(req[u].copy, "QUEUED")
      BY <2>1 DEF With, Life!Restated
    <2>8. Life!Rewrite
      BY <1>3, <1>4, <2>1, <2>6, <2>7 DEF Life!Rewrite, Copies
    <2> QED  BY <2>8 DEF Life!LifeNext
  <1>12. CASE RequestEnds(u)
    <2>1. Copies' \subseteq Copies /\ UNCHANGED <<doc, chunks>>
      BY <1>2, <1>12 DEF RequestEnds
    <2> QED  BY <2>1 DEF Life!LifeNext, Life!Forget, Copies
  <1>13. CASE Delete(u)
    <2>1. Copies' \subseteq Copies
      BY <1>2, <1>13 DEF Delete
    <2>2. Life!Remove
      BY <1>3, <1>13, <2>1 DEF Delete, Life!Remove, Life!GoneRow, NoCopy, Copies
    <2> QED  BY <2>2 DEF Life!LifeNext
  <1> QED
    BY <1>7, <1>8, <1>9, <1>10, <1>11, <1>12, <1>13 DEF UserStep, UserWrites

\* What happens to a document is what DocumentLife allows: no job, request, retry or redelivery
\* writes anything but a copy that somebody took, or brings back what was deleted.
THEOREM PipelineImplementsLife == Spec => LifeIsKept
  <1>1. TypeInv /\ [Next]_vars => [Life!LifeNext]_<<doc, Copies, chunks # {}>>
    <2>1. TypeInv /\ Next => Life!LifeNext
      BY JobLives, RequestLives DEF Next
    <2>2. UNCHANGED vars => UNCHANGED <<doc, Copies, chunks # {}>>
      BY DEF vars, Copies, Holding, Waiting
    <2> QED  BY <2>1, <2>2
  <1>2. <<doc, Copies, chunks # {}>> = Life!lifeVars
    BY DEF Life!lifeVars, Copies
  <1>3. TypeInv /\ [Next]_vars => [Life!LifeNext]_(Life!lifeVars)
    BY <1>1, <1>2 DEF Copies, Life!lifeVars
  <1> QED
    BY <1>3, LifeStarts, TypeInvariance, PTL DEF Spec, LifeIsKept, Life!LifeSpec

=============================================================================
