------------------------------ MODULE RepoSync ------------------------------
(***************************************************************************)
(* The synchronisation of one GitHub repository with documents: scheduled  *)
(* and manual runs that fetch the files and record what they found, the    *)
(* outbox in which they leave the documents to process, the drains of that *)
(* outbox, and the jobs that index a document.  Owners may delete the      *)
(* documents, and the repository changes meanwhile.                        *)
(*                                                                         *)
(* A transaction is one step, except that a run reads the items of the     *)
(* repository some time before its transaction commits.                    *)
(***************************************************************************)
EXTENDS Naturals, FiniteSets

CONSTANTS
    Paths,        \* the Markdown files the filters let through
    Versions,     \* contents of a file, standing for their own hashes
    Docs,         \* bound: documents that are in use at a time
    Rows,         \* bound: outbox rows that are in use at a time
    Runs,         \* slots for runs
    Drains,       \* slots for drains of the outbox
    Jobs,         \* bound: slots for messages and the jobs they start
    MaxAttempts,  \* _MAX_OUTBOX_ATTEMPTS
    MaxPushes,    \* bound: changes of a file in the repository
    MaxMishaps,   \* bound: calls that fail, processes lost, documents deleted by their owner
    None

ASSUME RepoSyncAssumption ==
    /\ None \notin Versions /\ None \notin Docs /\ None \notin Rows
    /\ None \notin [sha : Versions, doc : Docs]
    /\ MaxAttempts \in Nat \ {0}
    /\ MaxPushes \in Nat /\ MaxMishaps \in Nat

VARIABLES
    remote,  \* the repository: the version of each file, None where there is no file
    sync,    \* repo_syncs.status
    item,    \* repo_sync_items: the version recorded for a path and its document, or None
    doc,     \* documents: status and raw_content
    index,   \* the version the chunks of a document were made from
    row,     \* repo_sync_outbox: document, status, attempts
    run,     \* the runs
    drain,   \* the drains
    job,     \* the messages and the running jobs
    used,    \* how much of the bounds is used up
    clash    \* history: what changed under a run or a job, a subset of {"push", "job"}

dbVars == <<sync, item, doc, index, row>>
vars == <<remote, dbVars, run, drain, job, used, clash>>

Versions0 == Versions \cup {None}

-----------------------------------------------------------------------------
(* The database.                                                           *)

LiveStatus == {"PENDING", "QUEUED", "PROCESSING", "READY", "FAILED"}
DocRecord  == [status : LiveStatus \cup {"NONE"}, content : Versions0]
Unborn     == [status |-> "NONE", content |-> None]
Exists(d)  == doc[d].status \in LiveStatus

ActiveStatus == {"pending", "processing", "failed"}
RowRecord    == [doc : Docs \cup {None}, status : ActiveStatus \cup {"none", "dispatched", "gone"},
                 attempts : 0..MaxAttempts]
NoRow        == [doc |-> None, status |-> "none", attempts |-> 0]
Active       == {r \in Rows : row[r].status \in ActiveStatus}

Item(sha, d) == [sha |-> sha, doc |-> d]
ItemRecord   == [sha : Versions, doc : Docs]

\* Deleting documents cascades to their items and rows.
Cascade(D) ==
    /\ doc' = [d \in Docs |-> IF d \in D THEN Unborn ELSE doc[d]]
    /\ index' = [d \in Docs |-> IF d \in D THEN None ELSE index[d]]
    /\ item' = [p \in Paths |-> IF item[p] # None /\ item[p].doc \in D THEN None ELSE item[p]]
    /\ row' = [r \in Rows |-> IF row[r].doc \in D THEN [row[r] EXCEPT !.status = "gone"] ELSE row[r]]

Mishap  == used.mishaps < MaxMishaps /\ used' = [used EXCEPT !.mishaps = @ + 1]
NoSpend == UNCHANGED used

-----------------------------------------------------------------------------
(* Runs: RunRepoSyncUseCase.                                               *)

Idle == [pc |-> "idle", tree |-> [p \in Paths |-> None], files |-> [p \in Paths |-> None],
         seen |-> [p \in Paths |-> None]]

RunGoto(u, pc) == run' = [run EXCEPT ![u].pc = pc]
RunEnds(u)     == run' = [run EXCEPT ![u] = Idle]

\* Mutant of Due: a sync that failed is left out as well.
Due_NotFailed == sync \notin {"running", "queueing", "failed"}

\* list_due_for_sync; the interval may have passed at any time.
Due == sync \notin {"running", "queueing"}

RunStart(u) ==
    /\ run[u].pc = "idle"
    /\ sync' = "running"
    /\ RunGoto(u, "tree")
    /\ UNCHANGED <<remote, item, doc, index, row, drain, job, clash>> /\ NoSpend

\* run_due_repo_syncs takes a sync that is due.
RunScheduled(u) == Due /\ RunStart(u)

\* A run the owner asks for does not look at the status; nor does a scheduled one that
\* comes to a sync some time after it was listed.
RunManual(u) == ~Due /\ RunStart(u)

\* The tree of the branch gives the hash of every file.
RunFetchTree(u) ==
    /\ run[u].pc = "tree"
    /\ run' = [run EXCEPT ![u].pc = "files", ![u].tree = remote]
    /\ UNCHANGED <<remote, dbVars, drain, job, clash>> /\ NoSpend

\* The raw files are read one by one afterwards.  One that is gone, too large, beyond
\* max_files or that fails is left out with a warning.
RunFetchFiles(u) ==
    /\ run[u].pc = "files"
    /\ \E S \in SUBSET {p \in Paths : run[u].tree[p] # None /\ remote[p] # None} :
         /\ run' = [run EXCEPT ![u].pc = "read",
                      ![u].files = [p \in Paths |-> IF p \in S THEN remote[p] ELSE None]]
         /\ IF \A p \in Paths \ S : run[u].tree[p] = None \/ remote[p] = None
            THEN NoSpend ELSE Mishap
    /\ UNCHANGED <<remote, dbVars, drain, job>>
    /\ clash' = IF run[u].tree = remote THEN clash ELSE clash \cup {"push"}

\* The transaction of the run reads the items.
RunRead(u) ==
    /\ run[u].pc = "read"
    /\ run' = [run EXCEPT ![u].pc = "commit", ![u].seen = item]
    /\ UNCHANGED <<remote, dbVars, drain, job, clash>> /\ NoSpend

Found(u)   == {p \in Paths : run[u].files[p] # None}
Created(u) == {p \in Found(u) : run[u].seen[p] = None}
Updated(u) == {p \in Found(u) : run[u].seen[p] # None /\ run[u].seen[p].sha # run[u].tree[p]}
\* stale_repo_items
Stale(u)   == {p \in Paths \ Found(u) : run[u].seen[p] # None}

\* Mutant of Refused: (repo_sync_id, path) is not unique.
Refused_NotUnique(u) == \E p \in Updated(u) : ~Exists(run[u].seen[p].doc)

\* The transaction fails when another run has created an item meanwhile, by the unique
\* constraint on the paths, or when a document to update is gone.
Refused(u) ==
    \/ \E p \in Created(u) : item[p] # None
    \/ \E p \in Updated(u) : ~Exists(run[u].seen[p].doc)

\* Mutant of NewItem: an item that is there keeps its hash.
NewItem_KeepHash(u, p, d) ==
    Item(IF run[u].seen[p] = None THEN run[u].tree[p] ELSE run[u].seen[p].sha, d)

\* upsert_item
NewItem(u, p, d) == Item(run[u].tree[p], d)

\* An id is taken again once nobody can tell it from a new one.
FreeRows ==
    {r \in Rows : /\ row[r].status \in {"none", "dispatched", "gone"}
                  /\ \A w \in Drains : drain[w].held[r] = 0}
FreeDocs ==
    {d \in Docs : /\ ~Exists(d)
                  /\ \A j \in Jobs : job[j].doc # d
                  /\ \A r \in Rows : row[r].doc # d \/ r \in FreeRows
                  /\ \A u \in Runs, p \in Paths : run[u].seen[p] # None => run[u].seen[p].doc # d}
ActiveRowOf(d) == {r \in Active : row[r].doc = d}

Holds(j) == job[j].pc \in {"mark", "save"}

Injective(f) == \A x, y \in DOMAIN f : f[x] = f[y] => x = y

\* create_outbox for the documents D, with the rows new for those that have no active one,
\* and the rows of the documents in dead are deleted.
Outbox(D, new, dead) ==
    [r \in Rows |->
        IF \E d \in DOMAIN new : new[d] = r
        THEN [doc |-> CHOOSE d \in DOMAIN new : new[d] = r, status |-> "pending", attempts |-> 0]
        ELSE IF row[r].doc \in dead THEN [row[r] EXCEPT !.status = "gone"]
        ELSE IF r \in Active /\ row[r].doc \in D THEN [row[r] EXCEPT !.status = "pending"]
        ELSE row[r]]

\* _sync_files: files that are new or have another hash get a document with its content
\* and an outbox row, items that were not fetched lose theirs.
Sync(u, docs) ==
    LET target == [p \in Created(u) \cup Updated(u) |->
                     IF p \in Created(u) THEN docs[p] ELSE run[u].seen[p].doc]
        D      == {target[p] : p \in DOMAIN target}
        dead   == {run[u].seen[p].doc : p \in Stale(u)}
        text(d) == run[u].files[CHOOSE p \in DOMAIN target : target[p] = d]
    IN
    /\ \E new \in [{d \in D : ActiveRowOf(d) = {}} -> FreeRows] :
          Injective(new) /\ row' = Outbox(D, new, dead)
    /\ doc' = [d \in Docs |->
                 IF d \in dead THEN Unborn
                 ELSE IF d \in D
                      THEN [status |-> IF Exists(d) THEN doc[d].status ELSE "PENDING", content |-> text(d)]
                      ELSE doc[d]]
    /\ index' = [d \in Docs |-> IF d \in dead THEN None ELSE index[d]]
    /\ item' = [p \in Paths |->
                 IF p \in DOMAIN target THEN NewItem(u, p, target[p])
                 ELSE IF item[p] # None /\ item[p].doc \in dead THEN None ELSE item[p]]
    /\ IF D = {} THEN RunGoto(u, "complete") ELSE RunEnds(u)
    /\ clash' = IF \E j \in Jobs : Holds(j) /\ job[j].doc \in D THEN clash \cup {"job"} ELSE clash

RunCommit(u) ==
    /\ run[u].pc = "commit" /\ ~Refused(u)
    /\ \E docs \in [Created(u) -> FreeDocs] : Injective(docs) /\ Sync(u, docs)
    /\ sync' = "queueing"
    /\ UNCHANGED <<remote, drain, job>> /\ NoSpend

\* Nothing is created or updated: the run completes the sync itself.
RunComplete(u) ==
    /\ run[u].pc = "complete"
    /\ sync' = "completed"
    /\ RunEnds(u)
    /\ UNCHANGED <<remote, item, doc, index, row, drain, job, clash>> /\ NoSpend

RunRaises(u) ==
    /\ \/ run[u].pc \in {"tree", "files", "read", "commit", "complete"} /\ Mishap
       \/ run[u].pc = "commit" /\ Refused(u) /\ NoSpend
    /\ RunGoto(u, "fail")
    /\ UNCHANGED <<remote, dbVars, drain, job, clash>>

\* The status is recorded if the database lets it.
RunFails(u) ==
    /\ run[u].pc = "fail"
    /\ \/ sync' = "failed" /\ NoSpend
       \/ UNCHANGED sync /\ Mishap
    /\ RunEnds(u)
    /\ UNCHANGED <<remote, item, doc, index, row, drain, job, clash>>

RunCrash(u) ==
    /\ run[u].pc # "idle"
    /\ Mishap
    /\ RunEnds(u)
    /\ UNCHANGED <<remote, dbVars, drain, job, clash>>

RunStep(u) ==
    \/ RunFetchTree(u) \/ RunFetchFiles(u) \/ RunRead(u)
    \/ RunCommit(u) \/ RunComplete(u) \/ RunRaises(u) \/ RunFails(u)

-----------------------------------------------------------------------------
(* Drains: DrainRepoSyncOutboxUseCase.                                     *)

Free == [doc |-> None, pc |-> "free", text |-> None, copy |-> Unborn]
FreeJobs == {j \in Jobs : job[j] = Free}
Message(d) == [Free EXCEPT !.doc = d, !.pc = "sent"]

Rest == [pc |-> "idle", cur |-> None, held |-> [r \in Rows |-> 0]]
Held(w) == {r \in Rows : drain[w].held[r] > 0}
DrainGoto(w, pc) == drain' = [drain EXCEPT ![w].pc = pc]

\* Mutant of Claimable: the limit on the attempts is forgotten.
Claimable_AnyAttempts(r) ==
    \/ row[r].status = "pending"
    \/ row[r].status = "processing" /\ \A w \in Drains : r \notin Held(w)

\* Mutant of Claimable: the rows of a drain that died are passed over.
Claimable_PendingOnly(r) == row[r].attempts < MaxAttempts /\ row[r].status = "pending"

\* A lock is stale long after its drain has reached its time limit.
Claimable(r) ==
    /\ row[r].attempts < MaxAttempts
    /\ \/ row[r].status = "pending"
       \/ row[r].status = "processing" /\ \A w \in Drains : r \notin Held(w)

\* The batch limit is far from reached by one repository.
DrainClaim(w) ==
    LET batch == {r \in Rows : Claimable(r)} IN
    /\ drain[w].pc = "idle" /\ batch # {}
    /\ row' = [r \in Rows |->
                 IF r \in batch
                 THEN [row[r] EXCEPT !.status = "processing", !.attempts = @ + 1]
                 ELSE row[r]]
    /\ drain' = [drain EXCEPT ![w] =
                   [pc |-> "next", cur |-> None,
                    held |-> [r \in Rows |-> IF r \in batch THEN row[r].attempts + 1 ELSE 0]]]
    /\ UNCHANGED <<remote, sync, item, doc, index, run, job, clash>> /\ NoSpend

NextItem(w) ==
    drain' = [drain EXCEPT ![w] =
                IF Held(w) = {drain[w].cur} THEN Rest
                ELSE [pc |-> "next", cur |-> None, held |-> [drain[w].held EXCEPT ![drain[w].cur] = 0]]]

\* Mutant of Started: a document that was never sent counts as started.
Started_Any(d) == TRUE

\* The document needs no message: it is gone, or somebody has sent one.
Started(d) == ~Exists(d) \/ doc[d].status \in {"QUEUED", "PROCESSING", "READY"}

DrainLoad(w, r) ==
    /\ drain[w].pc = "next" /\ r \in Held(w)
    /\ drain' = [drain EXCEPT ![w].cur = r,
                              ![w].pc = IF Started(row[r].doc) THEN "mark" ELSE "send"]
    /\ UNCHANGED <<remote, dbVars, run, job, clash>> /\ NoSpend

DrainSend(w) ==
    /\ drain[w].pc = "send"
    /\ \E j \in FreeJobs : job' = [job EXCEPT ![j] = Message(row[drain[w].cur].doc)]
    /\ DrainGoto(w, "queue")
    /\ UNCHANGED <<remote, dbVars, run, clash>> /\ NoSpend

\* The transaction that ends an item: the row is dispatched, the document QUEUED if it
\* was sent, and the sync completed when no other row is active.
DrainMark(w) ==
    LET r == drain[w].cur
        d == row[r].doc
    IN
    /\ drain[w].pc \in {"mark", "queue"}
    /\ row[r].status # "gone"
    /\ row' = [row EXCEPT ![r].status = "dispatched"]
    /\ doc' = IF drain[w].pc = "queue" /\ Exists(d) THEN [doc EXCEPT ![d].status = "QUEUED"] ELSE doc
    /\ sync' = IF Active \subseteq {r} THEN "completed" ELSE sync
    /\ NextItem(w)
    /\ UNCHANGED <<remote, item, index, run, job, clash>> /\ NoSpend

DrainRaises(w) ==
    /\ drain[w].pc \in {"mark", "send", "queue"}
    /\ \/ Mishap
       \/ drain[w].pc # "send" /\ row[drain[w].cur].status = "gone" /\ NoSpend
    /\ DrainGoto(w, "fail")
    /\ UNCHANGED <<remote, dbVars, run, job, clash>>

\* mark_outbox_failed raises when the row is gone, and when a newer row of the document
\* is active.
CanFail(r) == row[r].status # "gone" /\ ActiveRowOf(row[r].doc) \subseteq {r}

DrainFails(w) ==
    LET r == drain[w].cur
        retryable == drain[w].held[r] < MaxAttempts
    IN
    /\ drain[w].pc = "fail" /\ CanFail(r)
    /\ row' = [row EXCEPT ![r].status = IF retryable THEN "pending" ELSE "failed"]
    /\ IF retryable THEN NextItem(w) ELSE DrainGoto(w, "syncfail")
    /\ UNCHANGED <<remote, sync, item, doc, index, run, job, clash>> /\ NoSpend

\* The sync fails with the row, if the database lets it.
DrainFailsSync(w) ==
    /\ drain[w].pc = "syncfail"
    /\ \/ sync' = "failed" /\ NoSpend
       \/ UNCHANGED sync /\ Mishap
    /\ NextItem(w)
    /\ UNCHANGED <<remote, item, doc, index, row, run, job, clash>>

\* The rows not reached stay 'processing'.
DrainEnds(w) ==
    /\ \/ drain[w].pc = "fail" /\ (Mishap \/ (~CanFail(drain[w].cur) /\ NoSpend))
       \/ drain[w].pc # "idle" /\ Mishap
    /\ drain' = [drain EXCEPT ![w] = Rest]
    /\ UNCHANGED <<remote, dbVars, run, job, clash>>

DrainStep(w) ==
    \/ \E r \in Rows : DrainLoad(w, r)
    \/ DrainSend(w) \/ DrainMark(w) \/ DrainRaises(w) \/ DrainFails(w) \/ DrainFailsSync(w)
    \/ DrainEnds(w)

-----------------------------------------------------------------------------
(* Jobs, as in DocumentPipeline: process_document, then the embeddings of  *)
(* the text it read.  Every write is of the whole row.                     *)

JobEnds(j)     == job' = [job EXCEPT ![j] = Free]

JobLoad(j) ==
    /\ job[j].pc = "sent"
    /\ IF Exists(job[j].doc)
       THEN job' = [job EXCEPT ![j].pc = "mark", ![j].copy = doc[job[j].doc]] ELSE JobEnds(j)
    /\ UNCHANGED <<remote, dbVars, run, drain, clash>> /\ NoSpend

JobMark(j) ==
    /\ job[j].pc = "mark" /\ Exists(job[j].doc)
    /\ doc' = [doc EXCEPT ![job[j].doc] = [job[j].copy EXCEPT !.status = "PROCESSING"]]
    /\ job' = [job EXCEPT ![j] = [@ EXCEPT !.pc = "embed", !.text = job[j].copy.content, !.copy = Unborn]]
    /\ UNCHANGED <<remote, sync, item, index, row, run, drain, clash>> /\ NoSpend

\* The embeddings of a text that has changed are skipped.
JobEmbed(j) ==
    /\ job[j].pc = "embed"
    /\ IF doc[job[j].doc].content = job[j].text
       THEN job' = [job EXCEPT ![j].pc = "save", ![j].copy = doc[job[j].doc]] ELSE JobEnds(j)
    /\ UNCHANGED <<remote, dbVars, run, drain, clash>> /\ NoSpend

JobSave(j) ==
    /\ job[j].pc = "save" /\ Exists(job[j].doc)
    /\ doc' = [doc EXCEPT ![job[j].doc] = [job[j].copy EXCEPT !.status = "READY"]]
    /\ index' = [index EXCEPT ![job[j].doc] = job[j].text]
    /\ JobEnds(j)
    /\ UNCHANGED <<remote, sync, item, row, run, drain, clash>> /\ NoSpend

JobFails(j) ==
    /\ Holds(j)
    /\ \/ Mishap
       \/ ~Exists(job[j].doc) /\ NoSpend
    /\ doc' = IF Exists(job[j].doc) THEN [doc EXCEPT ![job[j].doc].status = "FAILED"] ELSE doc
    /\ JobEnds(j)
    /\ UNCHANGED <<remote, sync, item, index, row, run, drain, clash>>

\* Messages are acknowledged late: the job of a lost worker starts again.
JobLost(j) ==
    /\ Holds(j) /\ Mishap
    /\ job' = [job EXCEPT ![j].pc = IF @ = "mark" THEN "sent" ELSE "embed", ![j].copy = Unborn]
    /\ UNCHANGED <<remote, dbVars, run, drain, clash>>

JobStep(j) == JobLoad(j) \/ JobMark(j) \/ JobEmbed(j) \/ JobSave(j) \/ JobFails(j)

-----------------------------------------------------------------------------
(* The repository and the owner.                                           *)

Push(p, v) ==
    /\ remote[p] # v
    /\ used.pushes < MaxPushes /\ used' = [used EXCEPT !.pushes = @ + 1]
    /\ remote' = [remote EXCEPT ![p] = v]
    /\ UNCHANGED <<dbVars, run, drain, job, clash>>

Delete(d) ==
    /\ Exists(d)
    /\ Mishap
    /\ Cascade({d})
    /\ UNCHANGED <<remote, sync, run, drain, job, clash>>

-----------------------------------------------------------------------------

Init ==
    /\ remote \in [Paths -> Versions]
    /\ sync = "idle"
    /\ item = [p \in Paths |-> None]
    /\ doc = [d \in Docs |-> Unborn]
    /\ index = [d \in Docs |-> None]
    /\ row = [r \in Rows |-> NoRow]
    /\ run = [u \in Runs |-> Idle]
    /\ drain = [w \in Drains |-> Rest]
    /\ job = [j \in Jobs |-> Free]
    /\ used = [pushes |-> 0, mishaps |-> 0]
    /\ clash = {}

Next ==
    \/ \E u \in Runs : RunScheduled(u) \/ RunManual(u) \/ RunStep(u) \/ RunCrash(u)
    \/ \E w \in Drains : DrainClaim(w) \/ DrainStep(w)
    \/ \E j \in Jobs : JobStep(j) \/ JobLost(j)
    \/ \E p \in Paths, v \in Versions0 : Push(p, v)
    \/ \E d \in Docs : Delete(d)

Spec == Init /\ [][Next]_vars

\* The beat starts due runs and drains, and what has started goes on.
Fairness ==
    /\ \A u \in Runs : WF_vars(RunScheduled(u)) /\ WF_vars(RunStep(u))
    /\ \A w \in Drains : WF_vars(DrainClaim(w)) /\ WF_vars(DrainStep(w))
    /\ \A j \in Jobs : WF_vars(JobStep(j))

FairSpec == Spec /\ Fairness

-----------------------------------------------------------------------------
(* Properties.                                                             *)

RunRecord ==
    [pc : {"idle", "tree", "files", "read", "commit", "complete", "fail"},
     tree : [Paths -> Versions0], files : [Paths -> Versions0],
     seen : [Paths -> ItemRecord \cup {None}]]

DrainRecord ==
    [pc : {"idle", "next", "mark", "send", "queue", "fail", "syncfail"},
     cur : Rows \cup {None}, held : [Rows -> 0..MaxAttempts]]

JobRecord ==
    [doc : Docs \cup {None}, pc : {"free", "sent", "mark", "embed", "save"},
     text : Versions0, copy : DocRecord]

TypeOK ==
    /\ remote \in [Paths -> Versions0]
    /\ sync \in {"idle", "running", "queueing", "completed", "failed"}
    /\ item \in [Paths -> ItemRecord \cup {None}]
    /\ doc \in [Docs -> DocRecord] /\ index \in [Docs -> Versions0]
    /\ row \in [Rows -> RowRecord]
    /\ run \in [Runs -> RunRecord] /\ drain \in [Drains -> DrainRecord]
    /\ job \in [Jobs -> JobRecord]
    /\ used \in [pushes : Nat, mishaps : Nat]
    /\ clash \subseteq {"push", "job"}

\* Whatever runs overlap, a file has one document and a synced document has its file: no
\* document is left behind without an item, to be found by searches for ever.
OneDocumentPerFile ==
    /\ \A p \in Paths : item[p] # None => Exists(item[p].doc)
    /\ \A d \in Docs : Exists(d) => Cardinality({p \in Paths : item[p] # None /\ item[p].doc = d}) = 1

\* A document nobody has sent yet is still in the outbox, or its row was given up after
\* the last attempt: the message is sent before the row is dispatched.
PendingIsCovered ==
    \A d \in Docs : doc[d].status = "PENDING" =>
        \E r \in ActiveRowOf(d) : row[r].status # "failed" \/ row[r].attempts = MaxAttempts

\* The recorded hash is that of the document's content, unless the file changed between
\* the tree and the raw file, or the run wrote to a document of which a job held a copy.
RecordedIsContent ==
    clash = {} => \A p \in Paths : item[p] # None => doc[item[p].doc].content = item[p].sha

Reflected == \A p \in Paths : IF item[p] = None THEN remote[p] = None ELSE item[p].sha = remote[p]

\* The ways in which a sync is never due again: its run was lost, or it waits for rows
\* that no drain takes, or that are gone.
Abandoned == sync = "running" /\ \A u \in Runs : run[u].pc = "idle"
Waits     == sync = "queueing" /\ \A r \in Active : ~Claimable(r)

\* When nobody pushes any more, the items come to be those of the repository, whichever call
\* fails or process is lost, unless the sync is never due again.
Converges == <>[](Reflected \/ Abandoned \/ Waits)

\* A PENDING document leaves that status, whichever call fails or process is lost, while
\* there are fewer of those than attempts: the crash that loses a document of
\* DocumentOutbox (QueuedIsLeft) does no harm here.
PendingIsLeft ==
    \A d \in Docs : doc[d].status = "PENDING" ~> doc[d].status # "PENDING"

=============================================================================
