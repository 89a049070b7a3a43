---------------------------- MODULE RepoSync_proofs ---------------------------
(***************************************************************************)
(* For any files, documents, runs, drains and jobs, and whatever overlaps, *)
(* fails or is lost: a file has one document and a document its file, a    *)
(* document that waits is in the outbox, and the recorded hash is that of  *)
(* the content.                                                            *)
(***************************************************************************)
EXTENDS RepoSync, TLAPS, FiniteSetTheorems

USE RepoSyncAssumption DEF RepoSyncAssumption

-----------------------------------------------------------------------------
(* The inductive invariant.                                                *)

\* A message has its document, a row in use as well; a drain works on a row it holds, and what
\* it holds was claimed as often as it knows.
Aimed ==
    /\ \A j \in Jobs : job[j].pc # "free" => job[j].doc \in Docs
    /\ \A r \in Rows : row[r].status # "none" => row[r].doc \in Docs
    /\ \A w \in Drains : drain[w].pc \in {"mark", "send", "queue", "fail", "syncfail"} =>
          drain[w].cur \in Held(w)
    /\ \A w \in Drains : \A r \in Held(w) :
          row[r].status # "none" /\ drain[w].held[r] <= row[r].attempts

\* The types, with what they leave out of messages and rows.
TypeInv == TypeOK /\ Aimed

\* Items and documents belong to each other, and what a run has seen of a document that exists
\* is still so.
ItemLives == \A p \in Paths : item[p] # None => Exists(item[p].doc)
ItemOwn   == \A p, q \in Paths :
                item[p] # None /\ item[q] # None /\ item[p].doc = item[q].doc => p = q
DocFiled  == \A d \in Docs : Exists(d) => \E p \in Paths : item[p] # None /\ item[p].doc = d
SeenLives == \A u \in Runs : \A p \in Paths :
                run[u].seen[p] # None /\ Exists(run[u].seen[p].doc) =>
                    item[p] # None /\ item[p].doc = run[u].seen[p].doc
FileInv   == ItemLives /\ ItemOwn /\ DocFiled /\ SeenLives

\* A drain that only marks its row has seen that the document is no longer waiting.
MarkInv  == \A w \in Drains :
               drain[w].pc = "mark" => doc[row[drain[w].cur].doc].status # "PENDING"
\* The part about documents that wait, ...
CoverInv == PendingIsCovered /\ MarkInv

\* What was fetched is what the tree said, and a copy has the content of its document.
FetchedInv == \A u \in Runs : \A p \in Paths :
                 run[u].pc \in {"read", "commit"} /\ run[u].files[p] # None =>
                     run[u].files[p] = run[u].tree[p]
CopyInv    == \A j \in Jobs :
                 Holds(j) /\ Exists(job[j].doc) => doc[job[j].doc].content = job[j].copy.content
Recorded   == \A p \in Paths : item[p] # None => doc[item[p].doc].content = item[p].sha
\* ... the part about contents, ...
ContentInv == clash = {} => FetchedInv /\ CopyInv /\ Recorded

\* ... and all of it.
SyncInv == TypeInv /\ FileInv /\ CoverInv /\ ContentInv

-----------------------------------------------------------------------------

\* What runs, drains and jobs are before they begin.
LEMMA Constants ==
    /\ Idle \in RunRecord /\ \A p \in Paths : Idle.seen[p] = None
    /\ Idle.pc = "idle"
    /\ Rest \in DrainRecord /\ \A r \in Rows : Rest.held[r] = 0
    /\ Rest.pc = "idle"
    /\ Free \in JobRecord /\ Free.pc = "free"
    /\ Unborn \in DocRecord /\ Unborn.status = "NONE" /\ Unborn.content = None
    /\ NoRow \in RowRecord /\ NoRow.status = "none"
<1>1. Idle \in RunRecord /\ (\A p \in Paths : Idle.seen[p] = None) /\ Idle.pc = "idle"
  BY DEF Idle, RunRecord, Versions0
<1>2. Rest \in DrainRecord /\ (\A r \in Rows : Rest.held[r] = 0) /\ Rest.pc = "idle"
  BY DEF Rest, DrainRecord
<1>3. Unborn \in DocRecord /\ Unborn.status = "NONE" /\ Unborn.content = None
  BY DEF Unborn, DocRecord, Versions0
<1>4. Free \in JobRecord /\ Free.pc = "free"
  BY <1>3 DEF Free, JobRecord, Versions0
<1>5. NoRow \in RowRecord /\ NoRow.status = "none"
  BY DEF NoRow, RowRecord
<1> QED BY <1>1, <1>2, <1>3, <1>4, <1>5

\* A mishap is counted.
LEMMA SpendTypes ==
    ASSUME TypeOK, Mishap \/ NoSpend
    PROVE  used' \in [pushes : Nat, mishaps : Nat]
BY DEF TypeOK, Mishap, NoSpend

\* Nothing is synchronised at first.
LEMMA InitInv == Init => SyncInv
<1> SUFFICES ASSUME Init PROVE SyncInv
  OBVIOUS
<1>1. TypeOK
  <2>1. /\ remote \in [Paths -> Versions0] /\ item \in [Paths -> ItemRecord \cup {None}]
        /\ index \in [Docs -> Versions0] /\ used \in [pushes : Nat, mishaps : Nat]
    BY DEF Init, Versions0
  <2>2. /\ doc \in [Docs -> DocRecord] /\ row \in [Rows -> RowRecord]
        /\ run \in [Runs -> RunRecord] /\ drain \in [Drains -> DrainRecord]
        /\ job \in [Jobs -> JobRecord]
    BY Constants DEF Init
  <2> QED BY <2>1, <2>2 DEF Init, TypeOK
<1>2. Aimed
  BY Constants DEF Init, Aimed, Held
<1>3. FileInv
  <2>1. \A d \in Docs : ~Exists(d)
    BY Constants DEF Init, Exists, LiveStatus
  <2> QED BY <2>1, Constants DEF Init, FileInv, ItemLives, ItemOwn, DocFiled, SeenLives
<1>4. CoverInv
  BY Constants DEF Init, CoverInv, PendingIsCovered, MarkInv
<1>5. ContentInv
  BY Constants DEF Init, ContentInv, FetchedInv, CopyInv, Recorded, Holds
<1> QED BY <1>1, <1>2, <1>3, <1>4, <1>5 DEF SyncInv, TypeInv

-----------------------------------------------------------------------------
(* The steps of a run before and after its transaction.                    *)

\* What a run has fetched changes, and of what it has seen nothing, or all to the items.
LEMMA QuietRun ==
    ASSUME SyncInv, NEW u \in Runs, NEW r \in RunRecord, run' = [run EXCEPT ![u] = r],
           UNCHANGED <<remote, item, doc, index, row, drain, job>>,
           sync' \in {"idle", "running", "queueing", "completed", "failed"},
           used' \in [pushes : Nat, mishaps : Nat],
           r.seen = run[u].seen \/ r.seen = item \/ \A p \in Paths : r.seen[p] = None,
           clash \subseteq clash', clash' \subseteq {"push", "job"},
           clash' = {} /\ r.pc \in {"read", "commit"} =>
               \A p \in Paths : r.files[p] # None => r.files[p] = r.tree[p]
    PROVE  SyncInv'
<1>1. TypeOK /\ Aimed
  BY DEF SyncInv, TypeInv
<1>2. run' \in [Runs -> RunRecord] /\ run'[u] = r /\ \A v \in Runs \ {u} : run'[v] = run[v]
  BY <1>1 DEF TypeOK
<1>3. TypeOK'
  BY <1>1, <1>2 DEF TypeOK
<1>4. Aimed'
  BY <1>1 DEF Aimed, Held
<1>5. SeenLives'
  <2>1. SeenLives
    BY DEF SyncInv, FileInv
  <2> QED BY <1>2, <2>1 DEF SeenLives, Exists
<1>6. FileInv'
  BY <1>5 DEF SyncInv, FileInv, ItemLives, ItemOwn, DocFiled, Exists
<1>7. CoverInv'
  BY DEF SyncInv, CoverInv, PendingIsCovered, MarkInv, ActiveRowOf, Active
<1>8. ASSUME clash' = {} PROVE FetchedInv' /\ CopyInv' /\ Recorded'
  <2>1. FetchedInv /\ CopyInv /\ Recorded
    BY <1>8 DEF SyncInv, ContentInv
  <2>2. FetchedInv'
    BY <1>2, <1>8, <2>1 DEF FetchedInv
  <2> QED BY <2>1, <2>2 DEF CopyInv, Recorded, Holds, Exists
<1> QED BY <1>3, <1>4, <1>6, <1>7, <1>8 DEF SyncInv, TypeInv, ContentInv

\* Many steps of a run change where it is, and nothing of what it knows.
LEMMA RunGoes ==
    ASSUME SyncInv, NEW u \in Runs, NEW pc \in {"tree", "complete", "fail"}, RunGoto(u, pc),
           UNCHANGED <<remote, item, doc, index, row, drain, job, clash>>,
           sync' \in {"idle", "running", "queueing", "completed", "failed"},
           Mishap \/ NoSpend
    PROVE  SyncInv'
<1> DEFINE r == [run[u] EXCEPT !.pc = pc]
<1>1. TypeOK /\ run \in [Runs -> RunRecord] /\ clash \subseteq {"push", "job"}
  BY DEF SyncInv, TypeInv, TypeOK
<1>2. run' = [run EXCEPT ![u] = r]
  BY <1>1 DEF RunGoto
<1>3. r \in RunRecord /\ r.seen = run[u].seen /\ r.pc = pc
  BY <1>1 DEF RunRecord
<1>4. used' \in [pushes : Nat, mishaps : Nat]
  BY <1>1, SpendTypes
<1> HIDE DEF r
<1> QED BY <1>1, <1>2, <1>3, <1>4, QuietRun

\* A run that ends leaves files and documents as they are.
LEMMA RunIsOver ==
    ASSUME SyncInv, NEW u \in Runs, RunEnds(u),
           UNCHANGED <<remote, item, doc, index, row, drain, job, clash>>,
           sync' \in {"idle", "running", "queueing", "completed", "failed"},
           Mishap \/ NoSpend
    PROVE  SyncInv'
<1>1. TypeOK /\ clash \subseteq {"push", "job"}
  BY DEF SyncInv, TypeInv, TypeOK
<1>2. used' \in [pushes : Nat, mishaps : Nat]
  BY <1>1, SpendTypes
<1> QED BY <1>1, <1>2, Constants, QuietRun DEF RunEnds

\* A run fetches the tree; ...
LEMMA RunFetchTreeInv == ASSUME SyncInv, NEW u \in Runs, RunFetchTree(u) PROVE SyncInv'
<1> DEFINE r == [run[u] EXCEPT !.pc = "files", !.tree = remote]
<1>1. TypeOK /\ run \in [Runs -> RunRecord] /\ clash \subseteq {"push", "job"}
         /\ remote \in [Paths -> Versions0]
  BY DEF SyncInv, TypeInv, TypeOK
<1>2. run' = [run EXCEPT ![u] = r]
  BY <1>1 DEF RunFetchTree
<1>3. r \in RunRecord /\ r.seen = run[u].seen /\ r.pc = "files"
  BY <1>1 DEF RunRecord
<1>4. used' \in [pushes : Nat, mishaps : Nat]
  BY <1>1, SpendTypes DEF RunFetchTree
<1>5. UNCHANGED <<remote, sync, item, doc, index, row, drain, job, clash>>
  BY DEF RunFetchTree, dbVars
<1>6. sync' \in {"idle", "running", "queueing", "completed", "failed"}
  BY <1>1, <1>5 DEF TypeOK
<1> HIDE DEF r
<1> QED BY <1>1, <1>2, <1>3, <1>4, <1>5, <1>6, QuietRun

\* A push between tree and files is remembered.
LEMMA RunFetchFilesInv == ASSUME SyncInv, NEW u \in Runs, RunFetchFiles(u) PROVE SyncInv'
<1>1. TypeOK /\ run \in [Runs -> RunRecord] /\ clash \subseteq {"push", "job"}
         /\ remote \in [Paths -> Versions0]
  BY DEF SyncInv, TypeInv, TypeOK
<1>2. PICK S \in SUBSET Paths :
          /\ run' = [run EXCEPT ![u].pc = "read",
                       ![u].files = [p \in Paths |-> IF p \in S THEN remote[p] ELSE None]]
          /\ Mishap \/ NoSpend
  BY DEF RunFetchFiles
<1> DEFINE files == [p \in Paths |-> IF p \in S THEN remote[p] ELSE None]
           r == [run[u] EXCEPT !.pc = "read", !.files = files]
<1>3. run' = [run EXCEPT ![u] = r]
  BY <1>1, <1>2
<1>4. files \in [Paths -> Versions0]
  BY <1>1 DEF Versions0
<1>5. clash' = IF run[u].tree = remote THEN clash ELSE clash \cup {"push"}
  BY DEF RunFetchFiles
<1>6. \A p \in Paths : files[p] # None => files[p] = remote[p]
  OBVIOUS
<1> HIDE DEF files
<1>7. r \in RunRecord /\ r.seen = run[u].seen /\ r.files = files /\ r.tree = run[u].tree
  BY <1>1, <1>4 DEF RunRecord
<1>8. UNCHANGED <<remote, sync, item, doc, index, row, drain, job>>
  BY DEF RunFetchFiles, dbVars
<1>9. /\ sync' \in {"idle", "running", "queueing", "completed", "failed"}
      /\ used' \in [pushes : Nat, mishaps : Nat]
  BY <1>1, <1>2, <1>8, SpendTypes DEF TypeOK
<1>10. clash \subseteq clash' /\ clash' \subseteq {"push", "job"} /\ (clash' = {} => run[u].tree = remote)
  BY <1>1, <1>5
<1> HIDE DEF r
<1> QED BY <1>3, <1>6, <1>7, <1>8, <1>9, <1>10, QuietRun

\* ... reads the items and documents it will compare with, ...
LEMMA RunReadInv == ASSUME SyncInv, NEW u \in Runs, RunRead(u) PROVE SyncInv'
<1> DEFINE r == [run[u] EXCEPT !.pc = "commit", !.seen = item]
<1>1. TypeOK /\ run \in [Runs -> RunRecord] /\ clash \subseteq {"push", "job"}
         /\ item \in [Paths -> ItemRecord \cup {None}]
  BY DEF SyncInv, TypeInv, TypeOK
<1>2. run' = [run EXCEPT ![u] = r]
  BY <1>1 DEF RunRead
<1>3. r \in RunRecord /\ r.seen = item /\ r.files = run[u].files /\ r.tree = run[u].tree
  BY <1>1 DEF RunRecord
<1>4. UNCHANGED <<remote, sync, item, doc, index, row, drain, job, clash>>
  BY DEF RunRead, dbVars
<1>5. /\ sync' \in {"idle", "running", "queueing", "completed", "failed"}
      /\ used' \in [pushes : Nat, mishaps : Nat]
  BY <1>1, <1>4, SpendTypes DEF TypeOK, RunRead
<1>6. clash = {} => \A p \in Paths : run[u].files[p] # None => run[u].files[p] = run[u].tree[p]
  BY DEF RunRead, SyncInv, ContentInv, FetchedInv
<1> HIDE DEF r
<1> QED BY <1>1, <1>2, <1>3, <1>4, <1>5, <1>6, QuietRun

\* ... and otherwise changes nothing but itself.
LEMMA RunQuietInv ==
    ASSUME SyncInv, NEW u \in Runs,
           \/ RunStart(u) \/ RunFetchTree(u) \/ RunFetchFiles(u) \/ RunRead(u)
           \/ RunComplete(u) \/ RunRaises(u) \/ RunFails(u) \/ RunCrash(u)
    PROVE  SyncInv'
<1>1. sync \in {"idle", "running", "queueing", "completed", "failed"}
  BY DEF SyncInv, TypeInv, TypeOK
<1>2. CASE RunStart(u)
  BY <1>2, RunGoes DEF RunStart
<1>3. CASE RunComplete(u)
  BY <1>3, RunIsOver DEF RunComplete
<1>4. CASE RunRaises(u)
  BY <1>1, <1>4, RunGoes DEF RunRaises, dbVars
<1>5. CASE RunFails(u)
  BY <1>1, <1>5, RunIsOver DEF RunFails
<1>6. CASE RunCrash(u)
  BY <1>1, <1>6, RunIsOver DEF RunCrash, dbVars
<1> QED BY <1>2, <1>3, <1>4, <1>5, <1>6, RunFetchTreeInv, RunFetchFilesInv, RunReadInv

-----------------------------------------------------------------------------
(* Drains.  They change rows and statuses, and leave items, contents and   *)
(* the documents of the rows alone.                                        *)

\* Where a drain works on a row.
AtWork == {"mark", "send", "queue", "fail", "syncfail"}

\* A step of one drain, by what it may write: its own state, rows it holds, and messages.
LEMMA DrainChanges ==
    ASSUME SyncInv, NEW w \in Drains, NEW n \in DrainRecord, drain' = [drain EXCEPT ![w] = n],
           UNCHANGED <<remote, item, index, run, clash>>,
           sync' \in {"idle", "running", "queueing", "completed", "failed"},
           used' \in [pushes : Nat, mishaps : Nat],
           job' \in [Jobs -> JobRecord],
           \A j \in Jobs : job'[j] = job[j] \/ (job'[j].pc = "sent" /\ job'[j].doc \in Docs),
           row' \in [Rows -> RowRecord],
           \A r \in Rows : /\ row'[r].doc = row[r].doc /\ row[r].attempts <= row'[r].attempts
                           /\ row[r].status = "none" <=> row'[r].status = "none",
           doc' \in [Docs -> DocRecord],
           \A d \in Docs : /\ doc'[d].content = doc[d].content
                           /\ Exists(d)' <=> Exists(d)
                           /\ doc'[d].status = "PENDING" => doc[d].status = "PENDING",
           n.pc \in AtWork => n.cur \in Rows /\ n.held[n.cur] > 0,
           \A r \in Rows : n.held[r] > 0 =>
               row'[r].status # "none" /\ n.held[r] <= row'[r].attempts,
           n.pc = "mark" => doc'[row'[n.cur].doc].status # "PENDING",
           PendingIsCovered'
    PROVE  SyncInv'
<1>1. TypeOK /\ Aimed /\ FileInv /\ CoverInv
  BY DEF SyncInv, TypeInv
<1>2. drain' \in [Drains -> DrainRecord] /\ drain'[w] = n /\ \A v \in Drains \ {w} : drain'[v] = drain[v]
  BY <1>1 DEF TypeOK
<1>3. TypeOK'
  BY <1>1, <1>2 DEF TypeOK
<1>4. Aimed'
  <2>1. \A j \in Jobs : job'[j].pc # "free" => job'[j].doc \in Docs
    BY <1>1 DEF Aimed
  <2>2. \A r \in Rows : row'[r].status # "none" => row'[r].doc \in Docs
    BY <1>1 DEF Aimed
  <2>3. \A v \in Drains : drain'[v].pc \in AtWork => drain'[v].cur \in Held(v)'
    BY <1>1, <1>2 DEF Aimed, Held, AtWork
  <2>4. ASSUME NEW v \in Drains, NEW r \in Held(v)'
        PROVE  row'[r].status # "none" /\ drain'[v].held[r] <= row'[r].attempts
    <3>1. CASE v = w
      BY <1>2, <2>4, <3>1 DEF Held
    <3>2. CASE v # w
      <4>1. r \in Held(v) /\ drain'[v] = drain[v] /\ r \in Rows
        BY <1>2, <2>4, <3>2 DEF Held
      <4>2. row[r].status # "none" /\ drain[v].held[r] <= row[r].attempts
        BY <1>1, <4>1 DEF Aimed
      <4>3. drain[v].held[r] \in Nat /\ row[r].attempts \in Nat /\ row'[r].attempts \in Nat
        BY <1>1, <4>1 DEF TypeOK, DrainRecord, RowRecord
      <4> QED BY <4>1, <4>2, <4>3
    <3> QED BY <3>1, <3>2
  <2> QED BY <2>1, <2>2, <2>3, <2>4 DEF Aimed, AtWork
<1>5. FileInv'
  <2>1. \A p \in Paths : item[p] # None => item[p].doc \in Docs
    BY <1>1 DEF TypeOK, ItemRecord
  <2>2. \A u \in Runs, p \in Paths : run[u].seen[p] # None => run[u].seen[p].doc \in Docs
    BY <1>1 DEF TypeOK, RunRecord, ItemRecord
  <2> QED BY <1>1, <2>1, <2>2 DEF FileInv, ItemLives, ItemOwn, DocFiled, SeenLives
<1>6. MarkInv'
  <2> SUFFICES ASSUME NEW v \in Drains, drain'[v].pc = "mark"
               PROVE  doc'[row'[drain'[v].cur].doc].status # "PENDING"
    BY DEF MarkInv
  <2>1. CASE v = w
    BY <1>2, <2>1
  <2>2. CASE v # w
    <3>1. drain'[v] = drain[v] /\ drain[v].cur \in Held(v)
      BY <1>1, <1>2, <2>2 DEF Aimed
    <3>2. /\ drain[v].cur \in Rows /\ row[drain[v].cur].doc \in Docs
          /\ doc[row[drain[v].cur].doc].status # "PENDING"
      BY <1>1, <3>1 DEF Aimed, Held, CoverInv, MarkInv
    <3> QED BY <3>1, <3>2
  <2> QED BY <2>1, <2>2
<1>7. ASSUME clash = {} PROVE FetchedInv' /\ CopyInv' /\ Recorded'
  <2>1. FetchedInv /\ CopyInv /\ Recorded
    BY <1>7 DEF SyncInv, ContentInv
  <2>2. FetchedInv'
    BY <2>1 DEF FetchedInv
  <2>3. CopyInv'
    BY <1>1, <2>1 DEF CopyInv, Holds, Aimed
  <2>4. Recorded'
    BY <1>1, <2>1 DEF Recorded, TypeOK, ItemRecord
  <2> QED BY <2>2, <2>3, <2>4
<1> QED BY <1>3, <1>4, <1>5, <1>6, <1>7 DEF SyncInv, TypeInv, CoverInv, ContentInv

\* A drain that only goes on, or drops some of what it holds.
LEMMA QuietDrain ==
    ASSUME SyncInv, NEW w \in Drains, NEW n \in DrainRecord, drain' = [drain EXCEPT ![w] = n],
           UNCHANGED <<remote, item, doc, index, row, run, job, clash>>,
           sync' \in {"idle", "running", "queueing", "completed", "failed"},
           used' \in [pushes : Nat, mishaps : Nat],
           n.pc \in AtWork => n.cur \in Rows /\ n.held[n.cur] > 0,
           \A r \in Rows : n.held[r] \in {0, drain[w].held[r]},
           n.pc = "mark" => doc[row[n.cur].doc].status # "PENDING"
    PROVE  SyncInv'
<1>1. TypeOK /\ Aimed /\ PendingIsCovered
  BY DEF SyncInv, TypeInv, CoverInv
<1>2. \A r \in Rows : row[r].attempts \in Nat
  BY <1>1 DEF TypeOK, RowRecord
<1>3. \A r \in Rows : n.held[r] > 0 => row[r].status # "none" /\ n.held[r] <= row[r].attempts
  BY <1>1 DEF Aimed, Held
<1>4. PendingIsCovered'
  BY <1>1 DEF PendingIsCovered, ActiveRowOf, Active
<1>5. job' \in [Jobs -> JobRecord] /\ row' \in [Rows -> RowRecord] /\ doc' \in [Docs -> DocRecord]
  BY <1>1 DEF TypeOK
<1>6. \A d \in Docs : /\ doc'[d].content = doc[d].content
                      /\ Exists(d)' <=> Exists(d)
                      /\ doc'[d].status = "PENDING" => doc[d].status = "PENDING"
  BY DEF Exists
<1>7. \A r \in Rows : /\ row'[r].doc = row[r].doc /\ row[r].attempts <= row'[r].attempts
                      /\ row[r].status = "none" <=> row'[r].status = "none"
  BY <1>2
<1>8. \A r \in Rows : n.held[r] > 0 =>
          row'[r].status # "none" /\ n.held[r] <= row'[r].attempts
  BY <1>3
<1>9. \A j \in Jobs : job'[j] = job[j] \/ (job'[j].pc = "sent" /\ job'[j].doc \in Docs)
  OBVIOUS
<1>10. n.pc = "mark" => doc'[row'[n.cur].doc].status # "PENDING"
  OBVIOUS
<1> QED BY <1>4, <1>5, <1>6, <1>7, <1>8, <1>9, <1>10, DrainChanges

\* What a drain is after it is done with a row.
After(w) == IF Held(w) = {drain[w].cur} THEN Rest
            ELSE [pc |-> "next", cur |-> None, held |-> [drain[w].held EXCEPT ![drain[w].cur] = 0]]

\* A drain lets go of a row and takes the next one, if it holds another.
LEMMA AfterItem ==
    ASSUME TypeOK, NEW w \in Drains
    PROVE  /\ After(w) \in DrainRecord /\ After(w).pc \in {"idle", "next"}
           /\ \A r \in Rows : After(w).held[r] \in {0, drain[w].held[r]}
           /\ NextItem(w) => drain' = [drain EXCEPT ![w] = After(w)]
<1> DEFINE held == [drain[w].held EXCEPT ![drain[w].cur] = 0]
<1>1. held \in [Rows -> 0..MaxAttempts] /\ \A r \in Rows : held[r] \in {0, drain[w].held[r]}
  <2>1. drain[w].held \in [Rows -> 0..MaxAttempts] /\ 0 \in 0..MaxAttempts
    BY DEF TypeOK, DrainRecord
  <2> QED BY <2>1
<1> HIDE DEF held
<1>2. [pc |-> "next", cur |-> None, held |-> held] \in DrainRecord
  BY <1>1 DEF DrainRecord
<1>3. After(w) = Rest \/ After(w) = [pc |-> "next", cur |-> None, held |-> held]
  BY DEF After, held
<1>4. NextItem(w) => drain' = [drain EXCEPT ![w] = After(w)]
  BY DEF NextItem, After
<1> QED BY <1>1, <1>2, <1>3, <1>4, Constants

\* What only moves w from step to step of the same row.
LEMMA DrainGoes ==
    ASSUME SyncInv, NEW w \in Drains, NEW pc \in {"queue", "fail", "syncfail"}
    PROVE  LET n == [drain[w] EXCEPT !.pc = pc] IN
           /\ n \in DrainRecord /\ n.pc = pc /\ n.cur = drain[w].cur /\ n.held = drain[w].held
           /\ DrainGoto(w, pc) => drain' = [drain EXCEPT ![w] = n]
           /\ drain[w].pc \in AtWork => n.cur \in Rows /\ n.held[n.cur] > 0
<1>1. drain \in [Drains -> DrainRecord] /\ Aimed
  BY DEF SyncInv, TypeInv, TypeOK
<1>2. drain[w].pc \in AtWork => drain[w].cur \in Rows /\ drain[w].held[drain[w].cur] > 0
  BY <1>1 DEF Aimed, AtWork, Held
<1> QED BY <1>1, <1>2 DEF DrainRecord, DrainGoto

\* A drain claims rows, ...
LEMMA DrainClaimInv == ASSUME SyncInv, NEW w \in Drains, DrainClaim(w) PROVE SyncInv'
<1> DEFINE batch == {r \in Rows : Claimable(r)}
           held == [r \in Rows |-> IF r \in batch THEN row[r].attempts + 1 ELSE 0]
           n == [pc |-> "next", cur |-> None, held |-> held]
<1>1. TypeOK /\ Aimed /\ PendingIsCovered
  BY DEF SyncInv, TypeInv, CoverInv
<1>2. /\ row' = [r \in Rows |-> IF r \in batch
                    THEN [row[r] EXCEPT !.status = "processing", !.attempts = @ + 1] ELSE row[r]]
      /\ drain' = [drain EXCEPT ![w] = n]
      /\ UNCHANGED <<remote, sync, item, doc, index, run, job, clash, used>>
  BY DEF DrainClaim, NoSpend
<1>3. \A r \in Rows : row[r] \in RowRecord /\ row[r].attempts \in 0..MaxAttempts
  BY <1>1 DEF TypeOK, RowRecord
<1>4. \A r \in batch : /\ row[r].attempts + 1 \in 0..MaxAttempts /\ row[r].status # "none"
                       /\ row[r].status \in ActiveStatus
  BY <1>3 DEF Claimable, ActiveStatus
<1> HIDE DEF batch
<1>5. held \in [Rows -> 0..MaxAttempts]
  BY <1>4
<1>6. ASSUME NEW r \in Rows
      PROVE  /\ row'[r] \in RowRecord
             /\ row'[r].doc = row[r].doc
             /\ row'[r].attempts = IF r \in batch THEN row[r].attempts + 1 ELSE row[r].attempts
             /\ row'[r].status = IF r \in batch THEN "processing" ELSE row[r].status
  BY <1>2, <1>3, <1>4 DEF RowRecord, ActiveStatus
<1>7. row' \in [Rows -> RowRecord]
  BY <1>2, <1>6
<1>8. \A r \in Rows : held[r] > 0 => row'[r].status # "none" /\ held[r] <= row'[r].attempts
  BY <1>3, <1>6
<1>9. \A r \in Rows : /\ row[r].attempts <= row'[r].attempts
                      /\ row[r].status = "none" <=> row'[r].status = "none"
  BY <1>3, <1>4, <1>6
<1> HIDE DEF held
<1>10. n \in DrainRecord /\ n.pc = "next" /\ n.held = held
  BY <1>5 DEF DrainRecord
<1> HIDE DEF n
<1>11. PendingIsCovered'
  <2> SUFFICES ASSUME NEW d \in Docs, doc[d].status = "PENDING"
               PROVE  \E r \in ActiveRowOf(d)' : row'[r].status # "failed" \/ row'[r].attempts = MaxAttempts
    BY <1>2 DEF PendingIsCovered
  <2>1. PICK r \in ActiveRowOf(d) : row[r].status # "failed" \/ row[r].attempts = MaxAttempts
    BY <1>1 DEF PendingIsCovered
  <2>2. r \in Rows /\ row[r].doc = d /\ row[r].status \in ActiveStatus
    BY DEF ActiveRowOf, Active
  <2>3. row'[r].doc = d /\ row'[r].status \in ActiveStatus
    BY <1>6, <2>2 DEF ActiveStatus
  <2>4. row'[r].status # "failed" \/ row'[r].attempts = MaxAttempts
    BY <1>6, <2>1, <2>2
  <2> QED BY <2>2, <2>3, <2>4 DEF ActiveRowOf, Active
<1>12. /\ sync' \in {"idle", "running", "queueing", "completed", "failed"}
       /\ used' \in [pushes : Nat, mishaps : Nat] /\ job' \in [Jobs -> JobRecord]
       /\ doc' \in [Docs -> DocRecord]
  BY <1>1, <1>2 DEF TypeOK
<1>13. \A d \in Docs : Exists(d)' <=> Exists(d)
  BY <1>2 DEF Exists
<1> QED BY <1>2, <1>6, <1>7, <1>8, <1>9, <1>10, <1>11, <1>12, <1>13, DrainChanges DEF AtWork

\* ... looks at a document, ...
LEMMA DrainLoadInv ==
    ASSUME SyncInv, NEW w \in Drains, NEW r \in Rows, DrainLoad(w, r)
    PROVE  SyncInv'
<1> DEFINE pc == IF Started(row[r].doc) THEN "mark" ELSE "send"
           n == [drain[w] EXCEPT !.cur = r, !.pc = pc]
<1>1. TypeOK /\ drain \in [Drains -> DrainRecord] /\ Aimed /\ r \in Held(w)
  BY DEF SyncInv, TypeInv, TypeOK, DrainLoad
<1>2. drain' = [drain EXCEPT ![w] = n]
  BY <1>1 DEF DrainLoad
<1>3. pc \in {"mark", "send"} /\ (pc = "mark" => doc[row[r].doc].status # "PENDING")
  BY DEF Started, Exists, LiveStatus
<1>4. n \in DrainRecord /\ n.pc = pc /\ n.cur = r /\ n.held = drain[w].held
  <2> HIDE DEF pc
  <2> QED BY <1>1, <1>3 DEF DrainRecord
<1>5. UNCHANGED <<remote, sync, item, doc, index, row, run, job, clash, used>>
  BY DEF DrainLoad, dbVars, NoSpend
<1>6. /\ sync' \in {"idle", "running", "queueing", "completed", "failed"}
      /\ used' \in [pushes : Nat, mishaps : Nat]
  BY <1>1, <1>5 DEF TypeOK
<1> HIDE DEF n, pc
<1> QED BY <1>1, <1>2, <1>3, <1>4, <1>5, <1>6, QuietDrain DEF Held

\* ... sends its message, ...
LEMMA DrainSendInv == ASSUME SyncInv, NEW w \in Drains, DrainSend(w) PROVE SyncInv'
<1> DEFINE d == row[drain[w].cur].doc
           n == [drain[w] EXCEPT !.pc = "queue"]
<1>1. TypeOK /\ Aimed /\ PendingIsCovered /\ drain[w].pc \in AtWork
  BY DEF SyncInv, TypeInv, CoverInv, DrainSend, AtWork
<1>2. d \in Docs
  BY <1>1 DEF Aimed, Held, AtWork
<1>3. PICK j \in Jobs : job' = [job EXCEPT ![j] = Message(d)]
  BY DEF DrainSend, FreeJobs
<1>4. UNCHANGED <<remote, sync, item, doc, index, row, run, clash, used>> /\ DrainGoto(w, "queue")
  BY DEF DrainSend, dbVars, NoSpend
<1> HIDE DEF d
<1>5. Message(d) \in JobRecord /\ Message(d).pc = "sent" /\ Message(d).doc = d
  BY <1>2, Constants DEF Message, Free, JobRecord, Versions0
<1>6. /\ job' \in [Jobs -> JobRecord]
      /\ \A x \in Jobs : job'[x] = job[x] \/ (job'[x].pc = "sent" /\ job'[x].doc \in Docs)
  BY <1>1, <1>2, <1>3, <1>5 DEF TypeOK
<1>7. /\ n \in DrainRecord /\ n.pc = "queue" /\ n.held = drain[w].held
      /\ drain' = [drain EXCEPT ![w] = n]
      /\ n.cur \in Rows /\ n.held[n.cur] > 0
  BY <1>1, <1>4, DrainGoes
<1> HIDE DEF n
<1>8. PendingIsCovered'
  BY <1>1, <1>4 DEF PendingIsCovered, ActiveRowOf, Active
<1>9. /\ sync' \in {"idle", "running", "queueing", "completed", "failed"}
      /\ used' \in [pushes : Nat, mishaps : Nat]
      /\ doc' \in [Docs -> DocRecord] /\ row' \in [Rows -> RowRecord]
  BY <1>1, <1>4 DEF TypeOK
<1>10. \A x \in Docs : /\ doc'[x].content = doc[x].content
                       /\ Exists(x)' <=> Exists(x)
                       /\ doc'[x].status = "PENDING" => doc[x].status = "PENDING"
  BY <1>4 DEF Exists
<1>11. \A r \in Rows : row[r].attempts \in Nat
  BY <1>1 DEF TypeOK, RowRecord
<1>12. \A r \in Rows : n.held[r] > 0 =>
           row'[r].status # "none" /\ n.held[r] <= row'[r].attempts
  BY <1>1, <1>4, <1>7 DEF Aimed, Held
<1>13. \A r \in Rows : /\ row'[r].doc = row[r].doc /\ row[r].attempts <= row'[r].attempts
                       /\ row[r].status = "none" <=> row'[r].status = "none"
  BY <1>4, <1>11
<1> QED BY <1>4, <1>6, <1>7, <1>8, <1>9, <1>10, <1>12, <1>13, DrainChanges

\* A document that is marked was sent or is no longer waiting: it needs no row any more.
LEMMA DrainMarkInv == ASSUME SyncInv, NEW w \in Drains, DrainMark(w) PROVE SyncInv'
<1> DEFINE r == drain[w].cur
           d == row[r].doc
           n == After(w)
<1>1. TypeOK /\ Aimed /\ CoverInv /\ drain[w].pc \in {"mark", "queue"}
  BY DEF SyncInv, TypeInv, DrainMark
<1>2. r \in Rows /\ row[r].status # "none" /\ d \in Docs
  BY <1>1 DEF Aimed, Held
<1>3. /\ row' = [row EXCEPT ![r].status = "dispatched"]
      /\ doc' = IF drain[w].pc = "queue" /\ Exists(d) THEN [doc EXCEPT ![d].status = "QUEUED"] ELSE doc
      /\ sync' \in {"completed", sync} /\ NextItem(w)
      /\ UNCHANGED <<remote, item, index, run, job, clash, used>>
  BY DEF DrainMark, NoSpend
<1>4. /\ n \in DrainRecord /\ n.pc \in {"idle", "next"}
      /\ \A x \in Rows : n.held[x] \in {0, drain[w].held[x]}
      /\ drain' = [drain EXCEPT ![w] = n]
  BY <1>1, <1>3, AfterItem
<1> HIDE DEF n
<1>5. /\ row' \in [Rows -> RowRecord] /\ row'[r].status = "dispatched"
      /\ \A x \in Rows : /\ row'[x].doc = row[x].doc /\ row'[x].attempts = row[x].attempts
                         /\ x # r => row'[x] = row[x]
  BY <1>1, <1>2, <1>3 DEF TypeOK, RowRecord
<1>6. /\ doc' \in [Docs -> DocRecord]
      /\ \A x \in Docs : /\ doc'[x].content = doc[x].content
                         /\ Exists(x)' <=> Exists(x)
                         /\ doc'[x].status = "PENDING" => doc[x].status = "PENDING"
  BY <1>1, <1>2, <1>3 DEF TypeOK, DocRecord, Exists, LiveStatus
<1>7. doc'[d].status # "PENDING"
  <2>1. CASE drain[w].pc = "mark"
    BY <1>1, <1>3, <2>1 DEF CoverInv, MarkInv
  <2>2. CASE drain[w].pc = "queue" /\ Exists(d)
    BY <1>1, <1>2, <1>3, <2>2 DEF TypeOK, DocRecord
  <2>3. CASE ~Exists(d)
    BY <1>3, <2>3 DEF Exists, LiveStatus
  <2> QED BY <1>1, <2>1, <2>2, <2>3
<1>8. PendingIsCovered'
  <2> SUFFICES ASSUME NEW x \in Docs, doc'[x].status = "PENDING"
               PROVE  \E y \in ActiveRowOf(x)' : row'[y].status # "failed" \/ row'[y].attempts = MaxAttempts
    BY DEF PendingIsCovered
  <2>1. doc[x].status = "PENDING" /\ x # d
    BY <1>6, <1>7
  <2>2. PICK y \in ActiveRowOf(x) : row[y].status # "failed" \/ row[y].attempts = MaxAttempts
    BY <1>1, <2>1 DEF CoverInv, PendingIsCovered
  <2>3. y \in Rows /\ row[y].doc = x /\ row[y].status \in ActiveStatus /\ y # r
    BY <2>1 DEF ActiveRowOf, Active
  <2> QED BY <1>5, <2>2, <2>3 DEF ActiveRowOf, Active
<1>9. \A x \in Rows : /\ row[x].attempts \in Nat
                      /\ n.held[x] > 0 => row'[x].status # "none" /\ n.held[x] <= row'[x].attempts
                      /\ row[x].status = "none" <=> row'[x].status = "none"
  BY <1>1, <1>2, <1>4, <1>5 DEF Aimed, Held, TypeOK, RowRecord
<1>10. /\ sync' \in {"idle", "running", "queueing", "completed", "failed"}
       /\ used' \in [pushes : Nat, mishaps : Nat] /\ job' \in [Jobs -> JobRecord]
  BY <1>1, <1>3 DEF TypeOK
<1>11. \A x \in Rows : row[x].attempts <= row'[x].attempts
  BY <1>5, <1>9
<1> QED BY <1>3, <1>4, <1>5, <1>6, <1>8, <1>9, <1>10, <1>11, DrainChanges DEF AtWork

\* A row is given up after its last attempt only.
LEMMA DrainFailsInv == ASSUME SyncInv, NEW w \in Drains, DrainFails(w) PROVE SyncInv'
<1> DEFINE r == drain[w].cur
           retryable == drain[w].held[r] < MaxAttempts
           status == IF retryable THEN "pending" ELSE "failed"
           n == IF retryable THEN After(w) ELSE [drain[w] EXCEPT !.pc = "syncfail"]
<1>1. TypeOK /\ Aimed /\ PendingIsCovered /\ drain[w].pc = "fail"
  BY DEF SyncInv, TypeInv, CoverInv, DrainFails
<1>2. /\ r \in Rows /\ row[r].status # "none" /\ drain[w].held[r] <= row[r].attempts
      /\ drain[w].held[r] \in 0..MaxAttempts /\ row[r].attempts \in 0..MaxAttempts
  BY <1>1 DEF Aimed, Held, TypeOK, DrainRecord, RowRecord
<1>3. /\ row' = [row EXCEPT ![r].status = status]
      /\ IF retryable THEN NextItem(w) ELSE DrainGoto(w, "syncfail")
      /\ UNCHANGED <<remote, sync, item, doc, index, run, job, clash, used>>
  BY DEF DrainFails, NoSpend
<1>4. /\ n \in DrainRecord /\ n.pc \in {"idle", "next", "syncfail"}
      /\ \A x \in Rows : n.held[x] \in {0, drain[w].held[x]}
      /\ drain' = [drain EXCEPT ![w] = n]
      /\ n.pc = "syncfail" => n.cur \in Rows /\ n.held[n.cur] > 0
  <2>1. CASE retryable
    <3>1. n = After(w)
      BY <2>1
    <3> QED BY <1>1, <1>3, <2>1, <3>1, AfterItem
  <2>2. CASE ~retryable
    <3>1. n = [drain[w] EXCEPT !.pc = "syncfail"]
      BY <2>2
    <3> QED BY <1>1, <1>3, <2>2, <3>1, DrainGoes DEF AtWork
  <2> QED BY <2>1, <2>2
<1> HIDE DEF n
<1>5. status \in {"pending", "failed"} /\ (status = "failed" => row[r].attempts = MaxAttempts)
  BY <1>2
<1> HIDE DEF status, retryable
<1>6. /\ row' \in [Rows -> RowRecord] /\ row'[r].status = status
      /\ \A x \in Rows : /\ row'[x].doc = row[x].doc /\ row'[x].attempts = row[x].attempts
                         /\ x # r => row'[x] = row[x]
  BY <1>1, <1>2, <1>3, <1>5 DEF TypeOK, RowRecord, ActiveStatus
<1>7. PendingIsCovered'
  <2> SUFFICES ASSUME NEW x \in Docs, doc[x].status = "PENDING"
               PROVE  \E y \in ActiveRowOf(x)' : row'[y].status # "failed" \/ row'[y].attempts = MaxAttempts
    BY <1>3 DEF PendingIsCovered
  <2>1. PICK y \in ActiveRowOf(x) : row[y].status # "failed" \/ row[y].attempts = MaxAttempts
    BY <1>1 DEF PendingIsCovered
  <2>2. y \in Rows /\ row[y].doc = x /\ row[y].status \in ActiveStatus
    BY DEF ActiveRowOf, Active
  <2>3. row'[y].doc = x /\ row'[y].status \in ActiveStatus
           /\ (row'[y].status # "failed" \/ row'[y].attempts = MaxAttempts)
    BY <1>5, <1>6, <2>1, <2>2 DEF ActiveStatus
  <2> QED BY <2>2, <2>3 DEF ActiveRowOf, Active
<1>8. \A x \in Rows : /\ row[x].attempts \in Nat
                      /\ n.held[x] > 0 => row'[x].status # "none" /\ n.held[x] <= row'[x].attempts
                      /\ row[x].status = "none" <=> row'[x].status = "none"
                      /\ row[x].attempts <= row'[x].attempts
  BY <1>1, <1>2, <1>4, <1>5, <1>6 DEF Aimed, Held, TypeOK, RowRecord
<1>9. /\ sync' \in {"idle", "running", "queueing", "completed", "failed"}
      /\ used' \in [pushes : Nat, mishaps : Nat] /\ job' \in [Jobs -> JobRecord]
      /\ doc' \in [Docs -> DocRecord]
  BY <1>1, <1>3 DEF TypeOK
<1>10. \A x \in Docs : Exists(x)' <=> Exists(x)
  BY <1>3 DEF Exists
<1> QED BY <1>3, <1>4, <1>6, <1>7, <1>8, <1>9, <1>10, DrainChanges DEF AtWork

\* ... and ends or fails.
LEMMA DrainQuietInv ==
    ASSUME SyncInv, NEW w \in Drains, DrainRaises(w) \/ DrainFailsSync(w) \/ DrainEnds(w)
    PROVE  SyncInv'
<1>1. /\ TypeOK /\ sync \in {"idle", "running", "queueing", "completed", "failed"}
      /\ drain \in [Drains -> DrainRecord]
  BY DEF SyncInv, TypeInv, TypeOK
<1>2. Mishap \/ NoSpend
  BY DEF DrainRaises, DrainFailsSync, DrainEnds
<1>3. used' \in [pushes : Nat, mishaps : Nat]
  BY <1>1, <1>2, SpendTypes
<1>4. /\ UNCHANGED <<remote, item, doc, index, row, run, job, clash>>
      /\ sync' \in {"idle", "running", "queueing", "completed", "failed"}
  BY <1>1 DEF DrainRaises, DrainFailsSync, DrainEnds, dbVars
<1>5. CASE DrainRaises(w)
  <2> DEFINE n == [drain[w] EXCEPT !.pc = "fail"]
  <2>1. drain[w].pc \in AtWork /\ DrainGoto(w, "fail")
    BY <1>5 DEF DrainRaises, AtWork
  <2>2. /\ n \in DrainRecord /\ n.pc = "fail" /\ n.held = drain[w].held
        /\ drain' = [drain EXCEPT ![w] = n]
        /\ n.cur \in Rows /\ n.held[n.cur] > 0
    BY <2>1, DrainGoes
  <2> HIDE DEF n
  <2> QED BY <1>3, <1>4, <2>2, QuietDrain
<1>6. CASE DrainFailsSync(w)
  <2>1. NextItem(w)
    BY <1>6 DEF DrainFailsSync
  <2> QED BY <1>1, <1>3, <1>4, <2>1, AfterItem, QuietDrain DEF AtWork
<1>7. CASE DrainEnds(w)
  <2>1. drain' = [drain EXCEPT ![w] = Rest]
    BY <1>7 DEF DrainEnds
  <2>2. /\ Rest \in DrainRecord /\ Rest.pc \notin AtWork /\ Rest.pc # "mark"
        /\ \A r \in Rows : Rest.held[r] \in {0, drain[w].held[r]}
    BY Constants DEF AtWork
  <2> QED BY <1>3, <1>4, <2>1, <2>2, QuietDrain
<1> QED BY <1>5, <1>6, <1>7

\* So every step of a drain keeps the invariant.
LEMMA DrainInv ==
    ASSUME SyncInv, NEW w \in Drains, DrainClaim(w) \/ DrainStep(w)
    PROVE  SyncInv'
BY DrainClaimInv, DrainLoadInv, DrainSendInv, DrainMarkInv, DrainFailsInv, DrainQuietInv
   DEF DrainStep

-----------------------------------------------------------------------------
(* Jobs.  They write whole rows of documents that exist.                   *)

\* A step of one job, by what it may write: its own state, its document and its index.
LEMMA JobChanges ==
    ASSUME SyncInv, NEW j \in Jobs, NEW n \in JobRecord, job' = [job EXCEPT ![j] = n],
           UNCHANGED <<remote, sync, item, row, run, drain, clash>>,
           used' \in [pushes : Nat, mishaps : Nat],
           index' \in [Docs -> Versions0],
           n.pc # "free" => n.doc \in Docs,
           doc' \in [Docs -> DocRecord],
           \A d \in Docs : /\ Exists(d)' <=> Exists(d)
                           /\ doc'[d].status = "PENDING" => doc[d].status = "PENDING"
                           /\ clash = {} /\ Exists(d) => doc'[d].content = doc[d].content,
           clash = {} /\ n.pc \in {"mark", "save"} /\ Exists(n.doc) =>
               n.copy.content = doc[n.doc].content
    PROVE  SyncInv'
<1>1. TypeOK /\ Aimed /\ FileInv /\ CoverInv
  BY DEF SyncInv, TypeInv
<1>2. job' \in [Jobs -> JobRecord] /\ job'[j] = n /\ \A x \in Jobs \ {j} : job'[x] = job[x]
  BY <1>1 DEF TypeOK
<1>3. TypeOK'
  BY <1>1, <1>2 DEF TypeOK
<1>4. Aimed'
  BY <1>1, <1>2 DEF Aimed, Held
<1>5. \A p \in Paths : item[p] # None => item[p].doc \in Docs
  BY <1>1 DEF TypeOK, ItemRecord
<1>6. FileInv'
  <2>1. \A u \in Runs, p \in Paths : run[u].seen[p] # None => run[u].seen[p].doc \in Docs
    BY <1>1 DEF TypeOK, RunRecord, ItemRecord
  <2> QED BY <1>1, <1>5, <2>1 DEF FileInv, ItemLives, ItemOwn, DocFiled, SeenLives
<1>7. PendingIsCovered'
  BY <1>1 DEF CoverInv, PendingIsCovered, ActiveRowOf, Active
<1>8. MarkInv'
  <2> SUFFICES ASSUME NEW w \in Drains, drain[w].pc = "mark"
               PROVE  doc'[row[drain[w].cur].doc].status # "PENDING"
    BY DEF MarkInv
  <2>1. row[drain[w].cur].doc \in Docs
    BY <1>1 DEF Aimed, Held
  <2> QED BY <1>1, <2>1 DEF CoverInv, MarkInv
<1>9. ASSUME clash = {} PROVE FetchedInv' /\ CopyInv' /\ Recorded'
  <2>1. FetchedInv /\ CopyInv /\ Recorded
    BY <1>9 DEF SyncInv, ContentInv
  <2>2. FetchedInv'
    BY <2>1 DEF FetchedInv
  <2>3. CopyInv'
    <3> SUFFICES ASSUME NEW x \in Jobs, job'[x].pc \in {"mark", "save"},
                        doc'[job'[x].doc].status \in LiveStatus
                 PROVE  doc'[job'[x].doc].content = job'[x].copy.content
      BY DEF CopyInv, Holds, Exists
    <3>1. job'[x].doc \in Docs
      BY <1>4 DEF Aimed
    <3>2. Exists(job'[x].doc) /\ doc'[job'[x].doc].content = doc[job'[x].doc].content
      BY <1>9, <3>1 DEF Exists
    <3>3. CASE x = j
      BY <1>2, <1>9, <3>2, <3>3
    <3>4. CASE x # j
      BY <1>2, <2>1, <3>2, <3>4 DEF CopyInv, Holds
    <3> QED BY <3>3, <3>4
  <2>4. Recorded'
    BY <1>1, <1>5, <1>9, <2>1 DEF Recorded, FileInv, ItemLives
  <2> QED BY <2>2, <2>3, <2>4
<1> QED BY <1>3, <1>4, <1>6, <1>7, <1>8, <1>9 DEF SyncInv, TypeInv, CoverInv, ContentInv

\* A job that only moves, or ends.
LEMMA QuietJob ==
    ASSUME SyncInv, NEW j \in Jobs, NEW n \in JobRecord, job' = [job EXCEPT ![j] = n],
           UNCHANGED <<remote, dbVars, run, drain, clash>>, Mishap \/ NoSpend,
           n.pc # "free" => n.doc \in Docs,
           clash = {} /\ n.pc \in {"mark", "save"} /\ Exists(n.doc) =>
               n.copy.content = doc[n.doc].content
    PROVE  SyncInv'
<1>1. TypeOK /\ doc \in [Docs -> DocRecord] /\ index \in [Docs -> Versions0]
  BY DEF SyncInv, TypeInv, TypeOK
<1>2. used' \in [pushes : Nat, mishaps : Nat]
  BY <1>1, SpendTypes
<1>3. UNCHANGED <<sync, item, doc, index, row>>
  BY DEF dbVars
<1>4. \A d \in Docs : /\ Exists(d)' <=> Exists(d)
                      /\ doc'[d].status = "PENDING" => doc[d].status = "PENDING"
                      /\ clash = {} /\ Exists(d) => doc'[d].content = doc[d].content
  BY <1>3 DEF Exists
<1>5. doc' \in [Docs -> DocRecord] /\ index' \in [Docs -> Versions0]
  BY <1>1, <1>3
<1> QED BY <1>2, <1>3, <1>4, <1>5, JobChanges

\* A job loads its document and embeds it, ...
LEMMA JobLoadInv == ASSUME SyncInv, NEW j \in Jobs, JobLoad(j) \/ JobEmbed(j) PROVE SyncInv'
<1>1. /\ job \in [Jobs -> JobRecord] /\ doc \in [Docs -> DocRecord]
      /\ job[j].pc \in {"sent", "embed"} /\ job[j].doc \in Docs
  BY DEF SyncInv, TypeInv, TypeOK, Aimed, JobLoad, JobEmbed
<1>2. UNCHANGED <<remote, dbVars, run, drain, clash>> /\ NoSpend
  BY DEF JobLoad, JobEmbed
<1>3. CASE JobEnds(j)
  BY <1>2, <1>3, Constants, QuietJob DEF JobEnds
<1>4. ASSUME NEW pc \in {"mark", "save"},
             job' = [job EXCEPT ![j].pc = pc, ![j].copy = doc[job[j].doc]]
      PROVE  SyncInv'
  <2> DEFINE n == [job[j] EXCEPT !.pc = pc, !.copy = doc[job[j].doc]]
  <2>1. job' = [job EXCEPT ![j] = n]
    BY <1>1, <1>4
  <2>2. n \in JobRecord /\ n.doc = job[j].doc /\ n.copy = doc[job[j].doc]
    BY <1>1 DEF JobRecord
  <2> HIDE DEF n
  <2> QED BY <1>1, <1>2, <2>1, <2>2, QuietJob
<1> QED BY <1>3, <1>4 DEF JobLoad, JobEmbed

\* The copy that goes back has the content of the row, unless a run wrote meanwhile.
LEMMA JobWritesInv == ASSUME SyncInv, NEW j \in Jobs, JobMark(j) \/ JobSave(j) PROVE SyncInv'
<1> DEFINE d == job[j].doc
           copy == job[j].copy
<1>1. /\ TypeOK /\ job \in [Jobs -> JobRecord] /\ doc \in [Docs -> DocRecord]
      /\ index \in [Docs -> Versions0]
      /\ Holds(j) /\ Exists(d) /\ d \in Docs
  BY DEF SyncInv, TypeInv, TypeOK, Aimed, JobMark, JobSave, Holds
<1>2. copy \in DocRecord /\ job[j].text \in Versions0 /\ copy.content \in Versions0
  BY <1>1 DEF JobRecord, DocRecord
<1>3. UNCHANGED <<remote, sync, item, row, run, drain, clash>> /\ NoSpend
  BY DEF JobMark, JobSave
<1>4. clash = {} => copy.content = doc[d].content
  BY <1>1 DEF SyncInv, ContentInv, CopyInv
<1>5. used' \in [pushes : Nat, mishaps : Nat]
  BY <1>1, <1>3, SpendTypes
<1>6. ASSUME NEW status \in {"PROCESSING", "READY"}, doc' = [doc EXCEPT ![d] = [copy EXCEPT !.status = status]]
      PROVE  /\ doc' \in [Docs -> DocRecord]
             /\ \A x \in Docs : /\ Exists(x)' <=> Exists(x)
                                /\ doc'[x].status = "PENDING" => doc[x].status = "PENDING"
                                /\ clash = {} /\ Exists(x) => doc'[x].content = doc[x].content
  <2>1. /\ [copy EXCEPT !.status = status] \in DocRecord
        /\ [copy EXCEPT !.status = status].status = status
        /\ [copy EXCEPT !.status = status].content = copy.content
    BY <1>2 DEF DocRecord, LiveStatus
  <2>2. doc'[d] = [copy EXCEPT !.status = status] /\ \A x \in Docs \ {d} : doc'[x] = doc[x]
    BY <1>1, <1>6
  <2> QED BY <1>1, <1>4, <1>6, <2>1, <2>2 DEF Exists, LiveStatus
<1>7. CASE JobMark(j)
  <2> DEFINE n == [job[j] EXCEPT !.pc = "embed", !.text = copy.content, !.copy = Unborn]
  <2>1. /\ job' = [job EXCEPT ![j] = n] /\ doc' = [doc EXCEPT ![d] = [copy EXCEPT !.status = "PROCESSING"]]
        /\ index' = index
    BY <1>7 DEF JobMark
  <2>2. n \in JobRecord /\ n.doc = d /\ n.pc = "embed"
    BY <1>1, <1>2, Constants DEF JobRecord
  <2> HIDE DEF n, d, copy
  <2> QED BY <1>1, <1>3, <1>5, <1>6, <2>1, <2>2, JobChanges
<1>8. CASE JobSave(j)
  <2>1. /\ job' = [job EXCEPT ![j] = Free] /\ doc' = [doc EXCEPT ![d] = [copy EXCEPT !.status = "READY"]]
        /\ index' \in [Docs -> Versions0]
    BY <1>1, <1>2, <1>8 DEF JobSave, JobEnds
  <2> HIDE DEF d, copy
  <2> QED BY <1>3, <1>5, <1>6, <2>1, Constants, JobChanges
<1> QED BY <1>7, <1>8

\* ... fails, ...
LEMMA JobFailsInv == ASSUME SyncInv, NEW j \in Jobs, JobFails(j) PROVE SyncInv'
<1> DEFINE d == job[j].doc
<1>1. /\ TypeOK /\ doc \in [Docs -> DocRecord] /\ index \in [Docs -> Versions0] /\ d \in Docs
  BY DEF SyncInv, TypeInv, TypeOK, Aimed, JobFails, Holds
<1>2. /\ UNCHANGED <<remote, sync, item, index, row, run, drain, clash>> /\ (Mishap \/ NoSpend)
      /\ job' = [job EXCEPT ![j] = Free]
      /\ doc' = IF Exists(d) THEN [doc EXCEPT ![d].status = "FAILED"] ELSE doc
  BY DEF JobFails, JobEnds
<1>3. used' \in [pushes : Nat, mishaps : Nat]
  BY <1>1, <1>2, SpendTypes
<1>4. /\ doc' \in [Docs -> DocRecord]
      /\ \A x \in Docs : /\ Exists(x)' <=> Exists(x)
                         /\ doc'[x].status = "PENDING" => doc[x].status = "PENDING"
                         /\ clash = {} /\ Exists(x) => doc'[x].content = doc[x].content
  BY <1>1, <1>2 DEF DocRecord, Exists, LiveStatus
<1> HIDE DEF d
<1>5. index' \in [Docs -> Versions0]
  BY <1>1, <1>2
<1> QED BY <1>2, <1>3, <1>4, <1>5, Constants, JobChanges

\* ... or is lost.
LEMMA JobLostInv == ASSUME SyncInv, NEW j \in Jobs, JobLost(j) PROVE SyncInv'
<1> DEFINE pc == IF job[j].pc = "mark" THEN "sent" ELSE "embed"
           n == [job[j] EXCEPT !.pc = pc, !.copy = Unborn]
<1>1. job \in [Jobs -> JobRecord] /\ job[j].doc \in Docs
  BY DEF SyncInv, TypeInv, TypeOK, Aimed, JobLost, Holds
<1>2. job' = [job EXCEPT ![j] = n]
  BY <1>1 DEF JobLost
<1>3. pc \in {"sent", "embed"}
  OBVIOUS
<1> HIDE DEF pc
<1>4. n \in JobRecord /\ n.doc = job[j].doc /\ n.pc = pc
  BY <1>1, <1>3, Constants DEF JobRecord
<1> HIDE DEF n
<1> QED BY <1>1, <1>2, <1>3, <1>4, QuietJob DEF JobLost

\* So every step of a job keeps the invariant.
LEMMA JobInv == ASSUME SyncInv, NEW j \in Jobs, JobStep(j) \/ JobLost(j) PROVE SyncInv'
BY JobLoadInv, JobWritesInv, JobFailsInv, JobLostInv DEF JobStep

-----------------------------------------------------------------------------
(* The repository and the owner.                                           *)

\* A push changes the repository alone.
LEMMA PushInv ==
    ASSUME SyncInv, NEW p \in Paths, NEW v \in Versions0, Push(p, v)
    PROVE  SyncInv'
<1>1. UNCHANGED <<sync, item, doc, index, row, run, drain, job, clash>>
  BY DEF Push, dbVars
<1>2. TypeOK'
  <2>1. TypeOK /\ remote' = [remote EXCEPT ![p] = v] /\ used' = [used EXCEPT !.pushes = @ + 1]
    BY DEF SyncInv, TypeInv, Push
  <2>2. remote' \in [Paths -> Versions0] /\ used' \in [pushes : Nat, mishaps : Nat]
    BY <2>1 DEF TypeOK
  <2> QED BY <1>1, <2>1, <2>2 DEF TypeOK
<1>3. Aimed'
  BY <1>1 DEF SyncInv, TypeInv, Aimed, Held
<1>4. FileInv'
  BY <1>1 DEF SyncInv, FileInv, ItemLives, ItemOwn, DocFiled, SeenLives, Exists
<1>5. CoverInv'
  BY <1>1 DEF SyncInv, CoverInv, PendingIsCovered, MarkInv, ActiveRowOf, Active
<1>6. ContentInv'
  BY <1>1 DEF SyncInv, ContentInv, FetchedInv, CopyInv, Recorded, Holds, Exists
<1> QED BY <1>2, <1>3, <1>4, <1>5, <1>6 DEF SyncInv, TypeInv

\* The owner deletes a document: its item and its row go with it.
LEMMA DeleteInv == ASSUME SyncInv, NEW d \in Docs, Delete(d) PROVE SyncInv'
<1>1. TypeOK /\ Aimed /\ FileInv /\ CoverInv
  BY DEF SyncInv, TypeInv
<1>2. /\ doc' = [x \in Docs |-> IF x \in {d} THEN Unborn ELSE doc[x]]
      /\ index' = [x \in Docs |-> IF x \in {d} THEN None ELSE index[x]]
      /\ item' = [p \in Paths |-> IF item[p] # None /\ item[p].doc \in {d} THEN None ELSE item[p]]
      /\ row' = [r \in Rows |-> IF row[r].doc \in {d} THEN [row[r] EXCEPT !.status = "gone"] ELSE row[r]]
      /\ UNCHANGED <<remote, sync, run, drain, job, clash>>
  BY DEF Delete, Cascade
<1>3. /\ \A x \in Docs : IF x = d THEN doc'[x] = Unborn ELSE doc'[x] = doc[x]
      /\ \A p \in Paths : item'[p] = IF item[p] # None /\ item[p].doc = d THEN None ELSE item[p]
      /\ \A r \in Rows : row[r] \in RowRecord /\ row'[r].doc = row[r].doc
                            /\ row'[r].attempts = row[r].attempts
                            /\ row'[r].status = IF row[r].doc = d THEN "gone" ELSE row[r].status
  BY <1>1, <1>2 DEF TypeOK, RowRecord
<1>4. \A x \in Docs : Exists(x)' <=> Exists(x) /\ x # d
  BY <1>3, Constants DEF Exists, LiveStatus
<1>5. TypeOK'
  <2>1. used' \in [pushes : Nat, mishaps : Nat]
    BY <1>1, SpendTypes DEF Delete
  <2>2. doc' \in [Docs -> DocRecord] /\ item' \in [Paths -> ItemRecord \cup {None}]
    BY <1>1, <1>2, Constants DEF TypeOK
  <2>3. index' \in [Docs -> Versions0]
    BY <1>1, <1>2 DEF TypeOK, Versions0
  <2>4. row' \in [Rows -> RowRecord]
    BY <1>1, <1>2 DEF TypeOK, RowRecord
  <2> QED BY <1>1, <1>2, <2>1, <2>2, <2>3, <2>4 DEF TypeOK
<1>6. Aimed'
  <2>1. \A r \in Rows : row'[r].status # "none" => row'[r].doc \in Docs
    BY <1>1, <1>3 DEF Aimed
  <2>2. \A w \in Drains : \A r \in Held(w) :
            row'[r].status # "none" /\ drain[w].held[r] <= row'[r].attempts
    BY <1>1, <1>3 DEF Aimed, Held
  <2> QED BY <1>1, <1>2, <2>1, <2>2 DEF Aimed, Held
<1>7. FileInv'
  <2>1. \A p \in Paths : item[p] # None => item[p].doc \in Docs
    BY <1>1 DEF TypeOK, ItemRecord
  <2>2. \A u \in Runs, p \in Paths : run[u].seen[p] # None => run[u].seen[p].doc \in Docs
    BY <1>1 DEF TypeOK, RunRecord, ItemRecord
  <2>3. ItemLives'
    BY <1>1, <1>3, <1>4, <2>1 DEF FileInv, ItemLives
  <2>4. ItemOwn'
    BY <1>1, <1>3 DEF FileInv, ItemOwn
  <2>5. DocFiled'
    BY <1>1, <1>3, <1>4, <2>1 DEF FileInv, DocFiled
  <2>6. SeenLives'
    BY <1>1, <1>2, <1>3, <1>4, <2>2 DEF FileInv, SeenLives
  <2> QED BY <2>3, <2>4, <2>5, <2>6 DEF FileInv
<1>8. PendingIsCovered'
  <2> SUFFICES ASSUME NEW x \in Docs, doc'[x].status = "PENDING"
               PROVE  \E r \in ActiveRowOf(x)' : row'[r].status # "failed" \/ row'[r].attempts = MaxAttempts
    BY DEF PendingIsCovered
  <2>1. x # d /\ doc[x].status = "PENDING"
    BY <1>3, Constants
  <2>2. PICK r \in ActiveRowOf(x) : row[r].status # "failed" \/ row[r].attempts = MaxAttempts
    BY <1>1, <2>1 DEF CoverInv, PendingIsCovered
  <2>3. r \in Rows /\ row[r].doc = x /\ row[r].status \in ActiveStatus
    BY DEF ActiveRowOf, Active
  <2> QED BY <1>3, <2>1, <2>2, <2>3 DEF ActiveRowOf, Active
<1>9. MarkInv'
  <2> SUFFICES ASSUME NEW w \in Drains, drain[w].pc = "mark"
               PROVE  doc'[row'[drain[w].cur].doc].status # "PENDING"
    BY <1>2 DEF MarkInv
  <2>1. drain[w].cur \in Rows /\ row[drain[w].cur].doc \in Docs
    BY <1>1 DEF Aimed, Held
  <2> QED BY <1>1, <1>3, <2>1, Constants DEF CoverInv, MarkInv
<1>10. ASSUME clash' = {} PROVE FetchedInv' /\ CopyInv' /\ Recorded'
  <2>1. FetchedInv /\ CopyInv /\ Recorded
    BY <1>2, <1>10 DEF SyncInv, ContentInv
  <2>2. FetchedInv'
    BY <1>2, <2>1 DEF FetchedInv
  <2>3. CopyInv'
    <3> SUFFICES ASSUME NEW j \in Jobs, Holds(j), doc'[job[j].doc].status \in LiveStatus
                 PROVE  doc'[job[j].doc].content = job[j].copy.content
      BY <1>2 DEF CopyInv, Holds, Exists
    <3>1. job[j].doc \in Docs
      BY <1>1 DEF Aimed, Holds
    <3>2. job[j].doc # d /\ Exists(job[j].doc)
      BY <1>4, <3>1 DEF Exists
    <3> QED BY <1>3, <2>1, <3>1, <3>2 DEF CopyInv
  <2>4. Recorded'
    BY <1>1, <1>3, <2>1 DEF Recorded, TypeOK, ItemRecord
  <2> QED BY <2>2, <2>3, <2>4
<1> QED BY <1>5, <1>6, <1>7, <1>8, <1>9, <1>10 DEF SyncInv, TypeInv, CoverInv, ContentInv

-----------------------------------------------------------------------------
(* The transaction of a run.  Files that are new get free documents, files *)
(* that have changed write to the document they have, and the documents of *)
(* the others go.                                                          *)

\* The files a run writes, their documents, those that are gone, and who needs a row.
Targets(u)         == Created(u) \cup Updated(u)
Target(u, docs, p) == IF p \in Created(u) THEN docs[p] ELSE run[u].seen[p].doc
Touched(u, docs)   == {Target(u, docs, p) : p \in Targets(u)}
Dead(u)            == {run[u].seen[p].doc : p \in Stale(u)}
Needing(D)         == {d \in D : ActiveRowOf(d) = {}}

\* Whom the transaction writes to: the items were not changed since they were read, or it fails.
LEMMA CommitAims ==
    ASSUME SyncInv, NEW u \in Runs, ~Refused(u), NEW docs \in [Created(u) -> FreeDocs],
           Injective(docs)
    PROVE  /\ Targets(u) \subseteq Paths /\ Dead(u) \subseteq Docs
           /\ Touched(u, docs) \subseteq Docs
           /\ \A p \in Created(u) : /\ Target(u, docs, p) \in FreeDocs /\ item[p] = None
                                    /\ run[u].files[p] # None
           /\ \A p \in Updated(u) : /\ Exists(Target(u, docs, p)) /\ item[p] # None
                                    /\ item[p].doc = Target(u, docs, p)
                                    /\ run[u].files[p] # None
           /\ \A p, q \in Targets(u) : Target(u, docs, p) = Target(u, docs, q) => p = q
           /\ Touched(u, docs) \cap Dead(u) = {}
           /\ \A d \in Dead(u) : Exists(d) => \E p \in Paths \ Targets(u) :
                                                 item[p] # None /\ item[p].doc = d
<1>1. TypeOK /\ ItemOwn /\ SeenLives
  BY DEF SyncInv, TypeInv, FileInv
<1>2. run[u] \in RunRecord /\ \A p \in Paths : run[u].seen[p] # None => run[u].seen[p].doc \in Docs
  BY <1>1 DEF TypeOK, RunRecord, ItemRecord
<1>3. Targets(u) \subseteq Paths /\ Created(u) \cap Updated(u) = {}
  BY DEF Targets, Created, Updated, Found
<1>4. \A p \in Created(u) : /\ Target(u, docs, p) = docs[p] /\ docs[p] \in FreeDocs
                            /\ item[p] = None /\ run[u].files[p] # None
  BY DEF Target, Refused, Created, Found
<1>5. \A p \in Updated(u) : /\ Target(u, docs, p) = run[u].seen[p].doc
                            /\ run[u].seen[p] # None /\ Exists(run[u].seen[p].doc)
                            /\ run[u].files[p] # None /\ p \in Paths
  BY <1>3 DEF Target, Refused, Updated, Found
<1>6. \A p \in Updated(u) : item[p] # None /\ item[p].doc = Target(u, docs, p)
  BY <1>1, <1>5 DEF SeenLives
<1>7. \A d \in FreeDocs : /\ d \in Docs /\ ~Exists(d)
                          /\ \A p \in Paths : run[u].seen[p] # None => run[u].seen[p].doc # d
  BY DEF FreeDocs
<1>8. Dead(u) \subseteq Docs
  BY <1>2 DEF Dead, Stale
<1>9. \A p \in Targets(u) : Target(u, docs, p) \in Docs
  BY <1>2, <1>4, <1>5, <1>7 DEF Targets
<1>10. \A p, q \in Targets(u) : Target(u, docs, p) = Target(u, docs, q) => p = q
  <2> SUFFICES ASSUME NEW p \in Targets(u), NEW q \in Targets(u),
                      Target(u, docs, p) = Target(u, docs, q)
               PROVE  p = q
    OBVIOUS
  <2>1. CASE p \in Created(u) /\ q \in Created(u)
    <3>1. docs[p] = docs[q] /\ p \in DOMAIN docs /\ q \in DOMAIN docs
      BY <1>4, <2>1
    <3> QED BY <3>1 DEF Injective
  <2>2. CASE p \in Updated(u) /\ q \in Updated(u)
    BY <1>1, <1>5, <1>6, <2>2 DEF ItemOwn
  <2>3. CASE p \in Created(u) /\ q \in Updated(u)
    BY <1>4, <1>5, <1>7, <2>3
  <2>4. CASE p \in Updated(u) /\ q \in Created(u)
    BY <1>4, <1>5, <1>7, <2>4
  <2> QED BY <2>1, <2>2, <2>3, <2>4 DEF Targets
<1>11. \A p \in Stale(u) : p \in Paths \ Targets(u) /\ run[u].seen[p] # None
  BY DEF Stale, Targets, Created, Updated
<1>12. \A d \in Dead(u) : Exists(d) => \E p \in Paths \ Targets(u) : item[p] # None /\ item[p].doc = d
  BY <1>1, <1>11 DEF Dead, SeenLives
<1>13. Touched(u, docs) \cap Dead(u) = {}
  <2> SUFFICES ASSUME NEW p \in Targets(u), Target(u, docs, p) \in Dead(u) PROVE FALSE
    BY DEF Touched
  <2>1. CASE p \in Created(u)
    BY <1>4, <1>7, <1>11, <2>1 DEF Dead
  <2>2. CASE p \in Updated(u)
    <3>1. PICK q \in Paths \ Targets(u) : item[q] # None /\ item[q].doc = Target(u, docs, p)
      BY <1>5, <1>12, <2>2
    <3> QED BY <1>1, <1>3, <1>6, <2>2, <3>1 DEF ItemOwn
  <2> QED BY <2>1, <2>2 DEF Targets
<1> QED BY <1>3, <1>4, <1>5, <1>6, <1>8, <1>9, <1>10, <1>12, <1>13 DEF Touched

\* What it does to items and documents.
LEMMA CommitWrites ==
    ASSUME SyncInv, NEW u \in Runs, ~Refused(u), NEW docs \in [Created(u) -> FreeDocs],
           Injective(docs), Sync(u, docs)
    PROVE  /\ \A p \in Targets(u) :
                 /\ item'[p] = Item(run[u].tree[p], Target(u, docs, p))
                 /\ doc'[Target(u, docs, p)] =
                        [status  |-> IF Exists(Target(u, docs, p))
                                     THEN doc[Target(u, docs, p)].status ELSE "PENDING",
                         content |-> run[u].files[p]]
           /\ \A p \in Paths \ Targets(u) :
                 item'[p] = IF item[p] # None /\ item[p].doc \in Dead(u) THEN None ELSE item[p]
           /\ \A d \in Dead(u) : doc'[d] = Unborn
           /\ \A d \in Docs \ (Dead(u) \cup Touched(u, docs)) : doc'[d] = doc[d]
           /\ DOMAIN doc' = Docs /\ DOMAIN item' = Paths
           /\ doc' = [d \in Docs |-> doc'[d]] /\ item' = [p \in Paths |-> item'[p]]
           /\ index' = [d \in Docs |-> IF d \in Dead(u) THEN None ELSE index[d]]
           /\ RunGoto(u, "complete") \/ RunEnds(u)
           /\ clash' = IF \E j \in Jobs : Holds(j) /\ job[j].doc \in Touched(u, docs)
                       THEN clash \cup {"job"} ELSE clash
           /\ \E new \in [Needing(Touched(u, docs)) -> FreeRows] :
                 Injective(new) /\ row' = Outbox(Touched(u, docs), new, Dead(u))
<1> DEFINE target == [p \in Created(u) \cup Updated(u) |->
                         IF p \in Created(u) THEN docs[p] ELSE run[u].seen[p].doc]
           D == {target[p] : p \in DOMAIN target}
           text(d) == run[u].files[CHOOSE p \in DOMAIN target : target[p] = d]
<1>1. DOMAIN target = Targets(u) /\ \A p \in Targets(u) : target[p] = Target(u, docs, p)
  BY DEF Targets, Target
<1>2. D = Touched(u, docs)
  BY <1>1 DEF Touched
<1>3. /\ Targets(u) \subseteq Paths /\ Touched(u, docs) \subseteq Docs /\ Dead(u) \subseteq Docs
      /\ \A p, q \in Targets(u) : Target(u, docs, p) = Target(u, docs, q) => p = q
      /\ Touched(u, docs) \cap Dead(u) = {}
  BY CommitAims
<1>4. \A p \in Targets(u) : text(Target(u, docs, p)) = run[u].files[p]
  <2> SUFFICES ASSUME NEW p \in Targets(u)
               PROVE  (CHOOSE q \in DOMAIN target : target[q] = Target(u, docs, p)) = p
    OBVIOUS
  <2> HIDE DEF target
  <2> QED BY <1>1, <1>3
<1>5. /\ \E new \in [{d \in D : ActiveRowOf(d) = {}} -> FreeRows] :
             Injective(new) /\ row' = Outbox(D, new, Dead(u))
      /\ doc' = [d \in Docs |->
                    IF d \in Dead(u) THEN Unborn
                    ELSE IF d \in D
                         THEN [status |-> IF Exists(d) THEN doc[d].status ELSE "PENDING", content |-> text(d)]
                         ELSE doc[d]]
      /\ index' = [d \in Docs |-> IF d \in Dead(u) THEN None ELSE index[d]]
      /\ item' = [p \in Paths |->
                    IF p \in DOMAIN target THEN NewItem(u, p, target[p])
                    ELSE IF item[p] # None /\ item[p].doc \in Dead(u) THEN None ELSE item[p]]
      /\ IF D = {} THEN RunGoto(u, "complete") ELSE RunEnds(u)
      /\ clash' = IF \E j \in Jobs : Holds(j) /\ job[j].doc \in D THEN clash \cup {"job"} ELSE clash
  BY DEF Sync, Dead
<1> HIDE DEF target, D, text
<1>6. \A p \in Targets(u) : item'[p] = Item(run[u].tree[p], Target(u, docs, p))
  BY <1>1, <1>3, <1>5 DEF NewItem
<1>7. \A p \in Targets(u) : Target(u, docs, p) \in Touched(u, docs)
  BY DEF Touched
<1>8. \A p \in Targets(u) :
          doc'[Target(u, docs, p)] =
              [status  |-> IF Exists(Target(u, docs, p))
                           THEN doc[Target(u, docs, p)].status ELSE "PENDING",
               content |-> run[u].files[p]]
  BY <1>2, <1>3, <1>4, <1>5, <1>7
<1>9. \A p \in Paths \ Targets(u) :
          item'[p] = IF item[p] # None /\ item[p].doc \in Dead(u) THEN None ELSE item[p]
  BY <1>1, <1>5
<1>10. /\ \A d \in Dead(u) : doc'[d] = Unborn
       /\ \A d \in Docs \ (Dead(u) \cup Touched(u, docs)) : doc'[d] = doc[d]
  BY <1>2, <1>3, <1>5
<1>11. /\ DOMAIN doc' = Docs /\ DOMAIN item' = Paths
       /\ doc' = [d \in Docs |-> doc'[d]] /\ item' = [p \in Paths |-> item'[p]]
  BY <1>5
<1> QED BY <1>2, <1>5, <1>6, <1>8, <1>9, <1>10, <1>11 DEF Needing

\* What it does to the rows: one that is held stays what it is, one that is active stays active
\* while its document is there, and every document that is touched waits in one.
RowsGo(D, dead) ==
    /\ row' \in [Rows -> RowRecord]
    /\ \A r \in Rows : row'[r].status # "none" => row'[r].doc \in Docs
    /\ \A r \in Rows \ FreeRows :
          /\ row'[r].doc = row[r].doc /\ row'[r].attempts = row[r].attempts
          /\ row[r].status # "none" => row'[r].status # "none"
    /\ \A r \in Active : row[r].doc \notin dead =>
          /\ row'[r].doc = row[r].doc /\ row'[r].attempts = row[r].attempts
          /\ row'[r].status \in {row[r].status, "pending"}
    /\ \A d \in D : \E r \in Rows : row'[r].doc = d /\ row'[r].status = "pending"

\* What the transaction does to the outbox.
LEMMA CommitRows ==
    ASSUME TypeOK, Aimed, NEW D \in SUBSET Docs, NEW dead \in SUBSET Docs,
           NEW new \in [Needing(D) -> FreeRows], Injective(new),
           row' = Outbox(D, new, dead), D \cap dead = {}
    PROVE  RowsGo(D, dead)
<1> DEFINE N == Needing(D)
           owner(r) == CHOOSE d \in DOMAIN new : new[d] = r
<1>1. DOMAIN new = N /\ N \subseteq D /\ \A d \in N : new[d] \in FreeRows
  BY DEF Needing
<1>2. \A r \in Rows : (\E d \in DOMAIN new : new[d] = r) =>
          owner(r) \in N /\ new[owner(r)] = r /\ r \in FreeRows
  BY <1>1
<1>3. FreeRows \subseteq Rows /\ FreeRows \cap Active = {}
  BY DEF FreeRows, Active, ActiveStatus
<1>4. \A r \in Rows : row[r] \in RowRecord /\ (row[r].status # "none" => row[r].doc \in Docs)
  BY DEF TypeOK, Aimed
<1>5. row' = [r \in Rows |->
          IF \E d \in DOMAIN new : new[d] = r
          THEN [doc |-> owner(r), status |-> "pending", attempts |-> 0]
          ELSE IF row[r].doc \in dead THEN [row[r] EXCEPT !.status = "gone"]
          ELSE IF r \in Active /\ row[r].doc \in D THEN [row[r] EXCEPT !.status = "pending"]
          ELSE row[r]]
  BY DEF Outbox
<1> HIDE DEF owner
<1>6. ASSUME NEW r \in Rows
      PROVE  \/ /\ \E d \in DOMAIN new : new[d] = r
                /\ row'[r] = [doc |-> owner(r), status |-> "pending", attempts |-> 0]
                /\ owner(r) \in Docs /\ r \in FreeRows
             \/ /\ row[r].doc \in dead \/ (r \in Active /\ row[r].doc \in D) \/ row'[r] = row[r]
                /\ row'[r].doc = row[r].doc /\ row'[r].attempts = row[r].attempts
                /\ row'[r].status \in {row[r].status, "gone", "pending"}
                /\ row'[r].status = "gone" => row[r].doc \in dead \/ row[r].status = "gone"
                /\ row'[r].status = "pending" => row[r].status # "none"
  <2>1. CASE \E d \in DOMAIN new : new[d] = r
    BY <1>1, <1>2, <1>5, <2>1
  <2>2. CASE ~(\E d \in DOMAIN new : new[d] = r) /\ row[r].doc \in dead
    <3>1. row'[r] = [row[r] EXCEPT !.status = "gone"]
      BY <1>5, <2>2
    <3> QED BY <1>4, <2>2, <3>1 DEF RowRecord
  <2>3. CASE ~(\E d \in DOMAIN new : new[d] = r) /\ row[r].doc \notin dead /\ r \in Active /\ row[r].doc \in D
    <3>1. row'[r] = [row[r] EXCEPT !.status = "pending"]
      BY <1>5, <2>3
    <3> QED BY <1>4, <2>3, <3>1 DEF RowRecord, Active, ActiveStatus
  <2>4. CASE ~(\E d \in DOMAIN new : new[d] = r) /\ row[r].doc \notin dead /\ ~(r \in Active /\ row[r].doc \in D)
    BY <1>5, <2>4
  <2> QED BY <2>1, <2>2, <2>3, <2>4
<1>7. row' \in [Rows -> RowRecord] /\ \A r \in Rows : row'[r].status # "none" => row'[r].doc \in Docs
  <2>1. ASSUME NEW r \in Rows
        PROVE  row'[r] \in RowRecord /\ (row'[r].status # "none" => row'[r].doc \in Docs)
    <3>1. CASE \E d \in DOMAIN new : new[d] = r
      <4>1. row'[r] = [doc |-> owner(r), status |-> "pending", attempts |-> 0] /\ owner(r) \in Docs
        BY <1>1, <1>2, <1>5, <3>1
      <4> QED BY <4>1 DEF RowRecord, ActiveStatus
    <3>2. CASE ~(\E d \in DOMAIN new : new[d] = r) /\ row[r].doc \in dead
      <4>1. row'[r] = [row[r] EXCEPT !.status = "gone"]
        BY <1>5, <3>2
      <4> QED BY <1>4, <3>2, <4>1 DEF RowRecord
    <3>3. CASE /\ ~(\E d \in DOMAIN new : new[d] = r) /\ row[r].doc \notin dead
               /\ r \in Active /\ row[r].doc \in D
      <4>1. row'[r] = [row[r] EXCEPT !.status = "pending"]
        BY <1>5, <3>3
      <4> QED BY <1>4, <3>3, <4>1 DEF RowRecord, ActiveStatus
    <3>4. CASE /\ ~(\E d \in DOMAIN new : new[d] = r) /\ row[r].doc \notin dead
               /\ ~(r \in Active /\ row[r].doc \in D)
      <4>1. row'[r] = row[r]
        BY <1>5, <3>4
      <4> QED BY <1>4, <4>1
    <3> QED BY <3>1, <3>2, <3>3, <3>4
  <2>2. row' = [r \in Rows |-> row'[r]]
    BY <1>5
  <2> QED BY <2>1, <2>2
<1>8. \A r \in Rows \ FreeRows :
          /\ row'[r].doc = row[r].doc /\ row'[r].attempts = row[r].attempts
          /\ row[r].status # "none" => row'[r].status # "none"
  BY <1>6
<1>9. \A r \in Active : row[r].doc \notin dead =>
          /\ row'[r].doc = row[r].doc /\ row'[r].attempts = row[r].attempts
          /\ row'[r].status \in {row[r].status, "pending"}
  BY <1>3, <1>6 DEF Active, ActiveStatus
<1>10. ASSUME NEW d \in D PROVE \E r \in Rows : row'[r].doc = d /\ row'[r].status = "pending"
  <2>1. CASE ActiveRowOf(d) = {}
    <3>1. d \in DOMAIN new /\ new[d] \in FreeRows /\ new[d] \in Rows
      BY <1>1, <1>3, <2>1 DEF Needing
    <3>2. owner(new[d]) = d
      BY <1>1, <1>2, <3>1 DEF Injective
    <3>3. row'[new[d]] = [doc |-> owner(new[d]), status |-> "pending", attempts |-> 0]
      BY <1>5, <3>1
    <3> QED BY <3>1, <3>2, <3>3
  <2>2. ASSUME NEW r \in ActiveRowOf(d) PROVE row'[r].doc = d /\ row'[r].status = "pending" /\ r \in Rows
    <3>1. r \in Active /\ r \in Rows /\ row[r].doc = d
      BY <2>2 DEF ActiveRowOf, Active
    <3>2. row'[r] = [row[r] EXCEPT !.status = "pending"]
      BY <1>2, <1>3, <1>5, <3>1
    <3> QED BY <1>4, <3>1, <3>2 DEF RowRecord
  <2> QED BY <2>1, <2>2
<1> QED BY <1>7, <1>8, <1>9, <1>10 DEF RowsGo

-----------------------------------------------------------------------------
(* What is fetched is in the tree that was fetched before.                 *)

\* A file that was fetched is in the tree.
FoundInv == \A u \in Runs : \A p \in Paths :
               run[u].pc \in {"read", "commit"} /\ run[u].files[p] # None => run[u].tree[p] # None

\* That stays so.
LEMMA FoundStep ==
    ASSUME TypeOK, FoundInv, [Next]_vars
    PROVE  FoundInv'
<1>1. run \in [Runs -> RunRecord]
  BY DEF TypeOK
<1>2. CASE run' = run
  BY <1>2 DEF FoundInv
<1>3. ASSUME NEW u \in Runs, NEW r, run' = [run EXCEPT ![u] = r],
             r.pc \in {"read", "commit"} => \A p \in Paths : r.files[p] # None => r.tree[p] # None
      PROVE  FoundInv'
  BY <1>1, <1>3 DEF FoundInv
<1>4. ASSUME NEW u \in Runs, NEW pc \in {"tree", "complete", "fail"}, RunGoto(u, pc)
      PROVE  FoundInv'
  <2> DEFINE r == [run[u] EXCEPT !.pc = pc]
  <2>1. run' = [run EXCEPT ![u] = r]
    BY <1>1, <1>4 DEF RunGoto
  <2>2. r.pc = pc
    BY <1>1 DEF RunRecord
  <2> HIDE DEF r
  <2> QED BY <1>3, <2>1, <2>2
<1>5. ASSUME NEW u \in Runs, RunEnds(u) PROVE FoundInv'
  BY <1>3, <1>5, Constants DEF RunEnds
<1>6. ASSUME NEW u \in Runs, RunFetchTree(u) PROVE FoundInv'
  <2> DEFINE r == [run[u] EXCEPT !.pc = "files", !.tree = remote]
  <2>1. run' = [run EXCEPT ![u] = r]
    BY <1>1, <1>6 DEF RunFetchTree
  <2>2. r.pc = "files"
    BY <1>1 DEF RunRecord
  <2> HIDE DEF r
  <2> QED BY <1>3, <2>1, <2>2
<1>7. ASSUME NEW u \in Runs, RunFetchFiles(u) PROVE FoundInv'
  <2>1. PICK S \in SUBSET {p \in Paths : run[u].tree[p] # None /\ remote[p] # None} :
            run' = [run EXCEPT ![u].pc = "read",
                      ![u].files = [p \in Paths |-> IF p \in S THEN remote[p] ELSE None]]
    BY <1>7 DEF RunFetchFiles
  <2> DEFINE r == [run[u] EXCEPT !.pc = "read",
                      !.files = [p \in Paths |-> IF p \in S THEN remote[p] ELSE None]]
  <2>2. run' = [run EXCEPT ![u] = r]
    BY <1>1, <2>1
  <2>3. \A p \in Paths : r.files[p] # None => r.tree[p] # None
    BY <1>1 DEF RunRecord
  <2> HIDE DEF r
  <2> QED BY <1>3, <2>2, <2>3
<1>8. ASSUME NEW u \in Runs, RunRead(u) PROVE FoundInv'
  <2> DEFINE r == [run[u] EXCEPT !.pc = "commit", !.seen = item]
  <2>1. run' = [run EXCEPT ![u] = r]
    BY <1>1, <1>8 DEF RunRead
  <2>2. r.files = run[u].files /\ r.tree = run[u].tree
    BY <1>1 DEF RunRecord
  <2>3. \A p \in Paths : run[u].files[p] # None => run[u].tree[p] # None
    BY <1>8 DEF FoundInv, RunRead
  <2> HIDE DEF r
  <2> QED BY <1>3, <2>1, <2>2, <2>3
<1>9. ASSUME NEW u \in Runs, RunScheduled(u) \/ RunManual(u) \/ RunStep(u) \/ RunCrash(u)
      PROVE  FoundInv'
  <2>1. CASE RunScheduled(u) \/ RunManual(u)
    BY <1>4, <2>1 DEF RunScheduled, RunManual, RunStart
  <2>2. CASE RunCommit(u)
    BY <1>4, <1>5, <2>2 DEF RunCommit, Sync
  <2>3. CASE RunComplete(u) \/ RunFails(u) \/ RunCrash(u)
    BY <1>5, <2>3 DEF RunComplete, RunFails, RunCrash
  <2>4. CASE RunRaises(u)
    BY <1>4, <2>4 DEF RunRaises
  <2> QED BY <1>6, <1>7, <1>8, <1>9, <2>1, <2>2, <2>3, <2>4 DEF RunStep
<1>10. ASSUME NEW w \in Drains, DrainClaim(w) \/ DrainStep(w) PROVE run' = run
  BY <1>10 DEF DrainClaim, DrainStep, DrainLoad, DrainSend, DrainMark, DrainRaises, DrainFails,
               DrainFailsSync, DrainEnds
<1>11. ASSUME NEW j \in Jobs, JobStep(j) \/ JobLost(j) PROVE run' = run
  BY <1>11 DEF JobStep, JobLoad, JobMark, JobEmbed, JobSave, JobFails, JobLost
<1>12. ASSUME \/ \E p \in Paths, v \in Versions0 : Push(p, v)
              \/ \E d \in Docs : Delete(d)
              \/ UNCHANGED vars
       PROVE  run' = run
  BY <1>12 DEF Push, Delete, vars
<1> QED BY <1>2, <1>9, <1>10, <1>11, <1>12 DEF Next

\* The transaction of a run keeps the invariant.
LEMMA CommitInv ==
    ASSUME SyncInv, FoundInv, NEW u \in Runs, RunCommit(u)
    PROVE  SyncInv'
<1>1. PICK docs \in [Created(u) -> FreeDocs] : Injective(docs) /\ Sync(u, docs)
  BY DEF RunCommit
<1> DEFINE D == Touched(u, docs)
           T(p) == Target(u, docs, p)
<1>2. /\ TypeOK /\ Aimed /\ FileInv /\ CoverInv /\ ~Refused(u) /\ run[u].pc = "commit"
      /\ run[u] \in RunRecord
      /\ sync' = "queueing" /\ UNCHANGED <<remote, drain, job, used>>
  BY DEF SyncInv, TypeInv, TypeOK, RunCommit, NoSpend
<1>3. /\ Targets(u) \subseteq Paths /\ Dead(u) \subseteq Docs /\ D \subseteq Docs
      /\ \A p \in Created(u) : T(p) \in FreeDocs /\ item[p] = None /\ run[u].files[p] # None
      /\ \A p \in Updated(u) : /\ Exists(T(p)) /\ item[p] # None /\ item[p].doc = T(p)
                               /\ run[u].files[p] # None
      /\ \A p, q \in Targets(u) : T(p) = T(q) => p = q
      /\ D \cap Dead(u) = {}
  BY <1>1, <1>2, CommitAims
<1>4. /\ \A p \in Targets(u) :
           /\ item'[p] = Item(run[u].tree[p], T(p))
           /\ doc'[T(p)] = [status  |-> IF Exists(T(p)) THEN doc[T(p)].status ELSE "PENDING",
                            content |-> run[u].files[p]]
  BY <1>1, <1>2, CommitWrites
<1>5. /\ doc' = [d \in Docs |-> doc'[d]] /\ item' = [p \in Paths |-> item'[p]]
      /\ index' = [d \in Docs |-> IF d \in Dead(u) THEN None ELSE index[d]]
  BY <1>1, <1>2, CommitWrites
<1>6. \A p \in Targets(u) :
         /\ item'[p].doc = T(p) /\ item'[p].sha = run[u].tree[p]
         /\ doc'[T(p)].status = IF Exists(T(p)) THEN doc[T(p)].status ELSE "PENDING"
         /\ doc'[T(p)].content = run[u].files[p]
  <2> SUFFICES ASSUME NEW p \in Targets(u)
               PROVE  /\ item'[p].doc = T(p) /\ item'[p].sha = run[u].tree[p]
                      /\ doc'[T(p)].status = IF Exists(T(p)) THEN doc[T(p)].status ELSE "PENDING"
                      /\ doc'[T(p)].content = run[u].files[p]
    OBVIOUS
  <2> DEFINE s == IF Exists(T(p)) THEN doc[T(p)].status ELSE "PENDING"
  <2>1. item'[p] = [sha |-> run[u].tree[p], doc |-> T(p)]
    BY <1>4 DEF Item
  <2>2. doc'[T(p)] = [status |-> s, content |-> run[u].files[p]]
    BY <1>4
  <2> HIDE DEF s, T
  <2>3. item'[p].doc = T(p) /\ item'[p].sha = run[u].tree[p]
    BY <2>1
  <2>4. doc'[T(p)].status = s /\ doc'[T(p)].content = run[u].files[p]
    BY <2>2
  <2> QED BY <2>3, <2>4 DEF s
<1>7. /\ \A p \in Paths \ Targets(u) :
            item'[p] = IF item[p] # None /\ item[p].doc \in Dead(u) THEN None ELSE item[p]
      /\ \A d \in Dead(u) : doc'[d] = Unborn
      /\ \A d \in Docs \ (Dead(u) \cup D) : doc'[d] = doc[d]
      /\ RunGoto(u, "complete") \/ RunEnds(u)
      /\ clash' = IF \E j \in Jobs : Holds(j) /\ job[j].doc \in D THEN clash \cup {"job"} ELSE clash
  BY <1>1, <1>2, CommitWrites
<1>8. /\ row' \in [Rows -> RowRecord]
      /\ \A r \in Rows : row'[r].status # "none" => row'[r].doc \in Docs
      /\ \A r \in Rows \ FreeRows :
            /\ row'[r].doc = row[r].doc /\ row'[r].attempts = row[r].attempts
            /\ row[r].status # "none" => row'[r].status # "none"
      /\ \A r \in Active : row[r].doc \notin Dead(u) =>
            /\ row'[r].doc = row[r].doc /\ row'[r].attempts = row[r].attempts
            /\ row'[r].status \in {row[r].status, "pending"}
      /\ \A d \in D : \E r \in Rows : row'[r].doc = d /\ row'[r].status = "pending"
  <2>1. PICK new \in [Needing(D) -> FreeRows] :
            Injective(new) /\ row' = Outbox(D, new, Dead(u))
    BY <1>1, <1>2, CommitWrites
  <2>2. D \in SUBSET Docs /\ Dead(u) \in SUBSET Docs /\ D \cap Dead(u) = {}
    BY <1>3
  <2>3. TypeOK /\ Aimed /\ Injective(new) /\ row' = Outbox(D, new, Dead(u))
    BY <1>2, <2>1
  <2>4. RowsGo(D, Dead(u))
    <3> HIDE DEF D
    <3> QED BY <2>2, <2>3, CommitRows
  <2> QED BY <2>4 DEF RowsGo
<1>9. \A d \in D : \E p \in Targets(u) : d = T(p)
  BY DEF Touched
<1>10. \A p \in Targets(u) : T(p) \in D
  BY DEF Touched
<1>11. \A d \in FreeDocs : /\ d \in Docs /\ ~Exists(d)
                           /\ \A r \in Rows : row[r].doc # d \/ r \in FreeRows
                           /\ \A v \in Runs, p \in Paths : run[v].seen[p] # None => run[v].seen[p].doc # d
  BY DEF FreeDocs
<1>12. \A p \in Targets(u) : p \in Created(u) \/ p \in Updated(u)
  BY DEF Targets
<1> HIDE DEF D, T
<1>13. \A d \in Docs : Exists(d)' <=> d \notin Dead(u) /\ (Exists(d) \/ d \in D)
  <2> SUFFICES ASSUME NEW d \in Docs
               PROVE  doc'[d].status \in LiveStatus <=> d \notin Dead(u) /\ (Exists(d) \/ d \in D)
    BY DEF Exists
  <2>1. CASE d \in Dead(u)
    BY <1>7, <2>1, Constants DEF LiveStatus
  <2>2. CASE d \in D
    <3>1. PICK p \in Targets(u) : d = T(p)
      BY <1>9, <2>2
    <3>2. doc'[d].status = IF Exists(d) THEN doc[d].status ELSE "PENDING"
      BY <1>6, <3>1
    <3>3. doc'[d].status \in LiveStatus
      BY <3>2 DEF Exists, LiveStatus
    <3> QED BY <1>3, <2>2, <3>3
  <2>3. CASE d \notin Dead(u) \cup D
    BY <1>7, <2>3 DEF Exists
  <2> QED BY <2>1, <2>2, <2>3
<1>14. \A p \in Paths : item[p] # None => item[p].doc \in Docs /\ Exists(item[p].doc)
  BY <1>2 DEF FileInv, ItemLives, TypeOK, ItemRecord
<1>15. \A p \in Paths \ Targets(u) : item[p] # None => item[p].doc \notin D
  <2> SUFFICES ASSUME NEW p \in Paths \ Targets(u), item[p] # None, item[p].doc \in D
               PROVE  FALSE
    OBVIOUS
  <2>1. PICK q \in Targets(u) : item[p].doc = T(q)
    BY <1>9
  <2>2. CASE q \in Created(u)
    BY <1>3, <1>11, <1>14, <2>1, <2>2
  <2>3. CASE q \in Updated(u)
    BY <1>2, <1>3, <2>1, <2>3 DEF FileInv, ItemOwn
  <2> QED BY <1>12, <2>2, <2>3
<1>16. TypeOK'
  <2>1. ASSUME NEW p \in Targets(u)
        PROVE  item'[p] \in ItemRecord /\ run[u].files[p] \in Versions0
    <3>1. run[u].files[p] # None /\ run[u].tree[p] \in Versions /\ run[u].files[p] \in Versions0
      BY <1>2, <1>3, <1>12 DEF FoundInv, RunRecord, Versions0
    <3>2. item'[p] = [sha |-> run[u].tree[p], doc |-> T(p)] /\ T(p) \in Docs
      BY <1>3, <1>10, <1>4 DEF Item
    <3> QED BY <3>1, <3>2 DEF ItemRecord
  <2>2. item' \in [Paths -> ItemRecord \cup {None}]
    <3>1. \A p \in Paths : item'[p] \in ItemRecord \cup {None}
      BY <1>2, <1>7, <2>1 DEF TypeOK
    <3> QED BY <1>5, <3>1
  <2>3. doc' \in [Docs -> DocRecord]
    <3>1. ASSUME NEW d \in Docs PROVE doc'[d] \in DocRecord
      <4>1. CASE d \in Dead(u)
        BY <1>7, <4>1, Constants
      <4>2. CASE d \in D
        <5>1. PICK p \in Targets(u) : d = T(p)
          BY <1>9, <4>2
        <5>2. (IF Exists(d) THEN doc[d].status ELSE "PENDING") \in LiveStatus \cup {"NONE"}
          BY DEF Exists, LiveStatus
        <5>3. doc'[d] = [status  |-> IF Exists(d) THEN doc[d].status ELSE "PENDING",
                         content |-> run[u].files[p]]
          BY <1>4, <5>1
        <5> QED BY <2>1, <5>2, <5>3 DEF DocRecord
      <4>3. CASE d \notin Dead(u) \cup D
        BY <1>2, <1>7, <4>3 DEF TypeOK
      <4> QED BY <4>1, <4>2, <4>3
    <3> QED BY <1>5, <3>1
  <2>4. index' \in [Docs -> Versions0]
    BY <1>2, <1>5 DEF TypeOK, Versions0
  <2>5. run' \in [Runs -> RunRecord]
    <3>1. CASE RunGoto(u, "complete")
      BY <1>2, <3>1 DEF TypeOK, RunGoto, RunRecord
    <3>2. CASE RunEnds(u)
      BY <1>2, <3>2, Constants DEF TypeOK, RunEnds
    <3> QED BY <1>7, <3>1, <3>2
  <2>6. clash' \subseteq {"push", "job"}
    BY <1>2, <1>7 DEF TypeOK
  <2> QED BY <1>2, <1>8, <2>2, <2>3, <2>4, <2>5, <2>6 DEF TypeOK
<1>17. \A p \in Targets(u) : item'[p] # None
  <2> SUFFICES ASSUME NEW p \in Targets(u) PROVE item'[p] # None
    OBVIOUS
  <2>1. run[u].files[p] # None /\ run[u].tree[p] \in Versions
    BY <1>2, <1>3, <1>12 DEF FoundInv, RunRecord, Versions0
  <2>2. item'[p] = [sha |-> run[u].tree[p], doc |-> T(p)] /\ T(p) \in Docs
    BY <1>3, <1>10, <1>4 DEF Item
  <2> QED BY <2>1, <2>2
<1>18. \A w \in Drains : \A r \in Held(w) : r \in Rows \ FreeRows
  BY DEF Held, FreeRows
<1>19. Aimed'
  <2>1. \A w \in Drains : \A r \in Held(w) :
            row'[r].status # "none" /\ drain[w].held[r] <= row'[r].attempts
    BY <1>2, <1>8, <1>18 DEF Aimed
  <2> QED BY <1>2, <1>8, <2>1 DEF Aimed, Held
<1>20. FileInv'
  <2>1. ItemLives'
    <3> SUFFICES ASSUME NEW p \in Paths, item'[p] # None
                 PROVE  doc'[item'[p].doc].status \in LiveStatus
      BY DEF ItemLives, Exists
    <3>1. CASE p \in Targets(u)
      <4>1. item'[p].doc = T(p) /\ T(p) \in D /\ T(p) \in Docs /\ T(p) \notin Dead(u)
        BY <1>3, <1>10, <1>6, <3>1
      <4> QED BY <1>13, <4>1 DEF Exists
    <3>2. CASE p \notin Targets(u)
      <4>1. item'[p] = item[p] /\ item[p].doc \notin Dead(u) /\ item[p].doc \in Docs /\ Exists(item[p].doc)
        BY <1>7, <1>14, <3>2
      <4> QED BY <1>13, <4>1 DEF Exists
    <3> QED BY <3>1, <3>2
  <2>2. \A p \in Targets(u) : item'[p].doc = T(p) /\ T(p) \in D
    BY <1>10, <1>6
  <2>3. \A p \in Paths \ Targets(u) : item'[p] # None => item'[p] = item[p] /\ item[p].doc \notin D
    BY <1>7, <1>15
  <2>4. ItemOwn'
    <3> SUFFICES ASSUME NEW p \in Paths, NEW q \in Paths, item'[p] # None, item'[q] # None,
                        item'[p].doc = item'[q].doc
                 PROVE  p = q
      BY DEF ItemOwn
    <3> QED BY <1>2, <1>3, <2>2, <2>3 DEF FileInv, ItemOwn
  <2>5. DocFiled'
    <3> SUFFICES ASSUME NEW d \in Docs, doc'[d].status \in LiveStatus
                 PROVE  \E p \in Paths : item'[p] # None /\ item'[p].doc = d
      BY DEF DocFiled, Exists
    <3>1. d \notin Dead(u) /\ (Exists(d) \/ d \in D)
      BY <1>13 DEF Exists
    <3>2. CASE d \in D
      <4>1. PICK p \in Targets(u) : d = T(p)
        BY <1>9, <3>2
      <4>2. item'[p] # None
        BY <1>17, <4>1
      <4> QED BY <1>3, <2>2, <4>1, <4>2
    <3>3. CASE d \notin D
      <4>1. PICK p \in Paths : item[p] # None /\ item[p].doc = d
        BY <1>2, <3>1, <3>3 DEF FileInv, DocFiled
      <4>2. p \notin Targets(u)
        BY <1>3, <1>10, <1>12, <3>3, <4>1
      <4> QED BY <1>7, <3>1, <4>1, <4>2
    <3> QED BY <3>2, <3>3
  <2>6. SeenLives'
    <3> SUFFICES ASSUME NEW v \in Runs, NEW p \in Paths, run'[v].seen[p] # None,
                        doc'[run'[v].seen[p].doc].status \in LiveStatus
                 PROVE  item'[p] # None /\ item'[p].doc = run'[v].seen[p].doc
      BY DEF SeenLives, Exists
    <3>1. run'[v].seen[p] = run[v].seen[p]
      <4>1. CASE RunGoto(u, "complete")
        BY <1>2, <4>1 DEF TypeOK, RunGoto, RunRecord
      <4>2. CASE RunEnds(u)
        BY <1>2, <4>2, Constants DEF TypeOK, RunEnds
      <4> QED BY <1>7, <4>1, <4>2
    <3>2. run[v].seen[p].doc \in Docs
      BY <1>2, <3>1 DEF TypeOK, RunRecord, ItemRecord
    <3>3. run[v].seen[p].doc \notin Dead(u) /\ (Exists(run[v].seen[p].doc) \/ run[v].seen[p].doc \in D)
      BY <1>13, <3>1, <3>2 DEF Exists
    <3>4. Exists(run[v].seen[p].doc)
      <4> SUFFICES ASSUME run[v].seen[p].doc \in D PROVE Exists(run[v].seen[p].doc)
        BY <3>3
      <4>1. PICK q \in Targets(u) : run[v].seen[p].doc = T(q)
        BY <1>9
      <4>2. ASSUME q \in Created(u) PROVE FALSE
        <5>1. T(q) \in FreeDocs
          BY <1>3, <4>2
        <5>2. run[v].seen[p].doc \notin FreeDocs
          BY <3>1 DEF FreeDocs
        <5> QED BY <4>1, <5>1, <5>2
      <4> QED BY <1>3, <1>12, <4>1, <4>2
    <3>5. item[p] # None /\ item[p].doc = run[v].seen[p].doc
      BY <1>2, <3>1, <3>4 DEF FileInv, SeenLives
    <3>6. CASE p \in Targets(u)
      <4>1. p \in Updated(u)
        BY <1>3, <1>12, <3>5, <3>6
      <4>2. item'[p] # None
        BY <1>17, <3>6
      <4> QED BY <1>3, <2>2, <3>1, <3>5, <3>6, <4>1, <4>2
    <3>7. CASE p \notin Targets(u)
      BY <1>7, <3>1, <3>3, <3>5, <3>7
    <3> QED BY <3>6, <3>7
  <2> QED BY <2>1, <2>4, <2>5, <2>6 DEF FileInv
<1>21. PendingIsCovered'
  <2> SUFFICES ASSUME NEW d \in Docs, doc'[d].status = "PENDING"
               PROVE  \E r \in ActiveRowOf(d)' : row'[r].status # "failed" \/ row'[r].attempts = MaxAttempts
    BY DEF PendingIsCovered
  <2>1. CASE d \in D
    BY <1>8, <2>1 DEF ActiveRowOf, Active, ActiveStatus
  <2>2. CASE d \notin D
    <3>1. d \notin Dead(u) /\ doc[d].status = "PENDING"
      BY <1>7, <2>2, Constants
    <3>2. PICK r \in ActiveRowOf(d) : row[r].status # "failed" \/ row[r].attempts = MaxAttempts
      BY <1>2, <3>1 DEF CoverInv, PendingIsCovered
    <3>3. r \in Active /\ r \in Rows /\ row[r].doc = d /\ row[r].status \in ActiveStatus
      BY DEF ActiveRowOf, Active
    <3>4. /\ row'[r].doc = d /\ row'[r].attempts = row[r].attempts
          /\ row'[r].status \in {row[r].status, "pending"}
      BY <1>8, <3>1, <3>3
    <3> QED BY <3>2, <3>3, <3>4 DEF ActiveRowOf, Active, ActiveStatus
  <2> QED BY <2>1, <2>2
<1>22. MarkInv'
  <2> SUFFICES ASSUME NEW w \in Drains, drain[w].pc = "mark"
               PROVE  doc'[row'[drain[w].cur].doc].status # "PENDING"
    BY <1>2 DEF MarkInv
  <2>1. PICK r \in Rows \ FreeRows : r = drain[w].cur /\ row[r].status # "none" /\ row[r].doc \in Docs
    BY <1>2, <1>18 DEF Aimed
  <2>2. PICK d \in Docs : d = row[r].doc
    BY <2>1
  <2>3. row'[r].doc = d /\ doc[d].status # "PENDING"
    BY <1>2, <1>8, <2>1, <2>2 DEF CoverInv, MarkInv
  <2>4. d \notin FreeDocs
    BY <1>11, <2>1, <2>2
  <2>5. CASE d \in Dead(u)
    <3>1. doc'[d] = Unborn
      BY <1>7, <2>5
    <3> QED BY <2>1, <2>3, <3>1, Constants
  <2>6. CASE d \in D
    <3>1. PICK p \in Targets(u) : d = T(p)
      BY <1>9, <2>6
    <3>2. Exists(d)
      BY <1>3, <1>12, <2>4, <3>1
    <3>3. doc'[d].status = doc[d].status
      BY <1>6, <3>1, <3>2
    <3> QED BY <2>1, <2>3, <3>3
  <2>7. CASE d \notin Dead(u) \cup D
    <3>1. doc'[d] = doc[d]
      BY <1>7, <2>7
    <3> QED BY <2>1, <2>3, <3>1
  <2> QED BY <2>5, <2>6, <2>7
<1>23. ASSUME clash' = {} PROVE FetchedInv' /\ CopyInv' /\ Recorded'
  <2>1. /\ clash = {} /\ FetchedInv /\ CopyInv /\ Recorded
        /\ \A j \in Jobs : Holds(j) => job[j].doc \notin D
    BY <1>7, <1>23 DEF SyncInv, ContentInv
  <2>2. FetchedInv'
    <3>1. CASE RunGoto(u, "complete")
      <4>1. run'[u].pc = "complete" /\ \A v \in Runs \ {u} : run'[v] = run[v]
        BY <1>2, <3>1 DEF TypeOK, RunGoto, RunRecord
      <4> QED BY <2>1, <4>1 DEF FetchedInv
    <3>2. CASE RunEnds(u)
      <4>1. run'[u].pc = "idle" /\ \A v \in Runs \ {u} : run'[v] = run[v]
        BY <1>2, <3>2, Constants DEF TypeOK, RunEnds
      <4> QED BY <2>1, <4>1 DEF FetchedInv
    <3> QED BY <1>7, <3>1, <3>2
  <2>3. CopyInv'
    <3> SUFFICES ASSUME NEW j \in Jobs, Holds(j), doc'[job[j].doc].status \in LiveStatus
                 PROVE  doc'[job[j].doc].content = job[j].copy.content
      BY <1>2 DEF CopyInv, Holds, Exists
    <3>1. job[j].doc \in Docs /\ job[j].doc \notin D
      BY <1>2, <2>1 DEF Aimed, Holds
    <3>2. job[j].doc \notin Dead(u) /\ Exists(job[j].doc)
      BY <1>13, <3>1 DEF Exists
    <3> QED BY <1>7, <2>1, <3>1, <3>2 DEF CopyInv
  <2>4. Recorded'
    <3> SUFFICES ASSUME NEW p \in Paths, item'[p] # None
                 PROVE  doc'[item'[p].doc].content = item'[p].sha
      BY DEF Recorded
    <3>1. CASE p \in Targets(u)
      <4>1. item'[p].doc = T(p) /\ item'[p].sha = run[u].tree[p] /\ doc'[T(p)].content = run[u].files[p]
        BY <1>6, <3>1
      <4>2. run[u].files[p] = run[u].tree[p]
        BY <1>2, <1>3, <1>12, <2>1, <3>1 DEF FetchedInv
      <4> QED BY <4>1, <4>2
    <3>2. CASE p \notin Targets(u)
      <4>1. /\ item'[p] = item[p] /\ item[p].doc \notin Dead(u) /\ item[p].doc \notin D
            /\ item[p].doc \in Docs
        BY <1>7, <1>14, <1>15, <3>2
      <4> QED BY <1>7, <2>1, <4>1 DEF Recorded
    <3> QED BY <3>1, <3>2
  <2> QED BY <2>2, <2>3, <2>4
<1> QED BY <1>16, <1>19, <1>20, <1>21, <1>22, <1>23 DEF SyncInv, TypeInv, CoverInv, ContentInv

-----------------------------------------------------------------------------
(* The theorems.                                                           *)

\* So does every step, ...
LEMMA NextInv ==
    ASSUME SyncInv, FoundInv, [Next]_vars
    PROVE  SyncInv' /\ FoundInv'
<1>1. FoundInv'
  BY FoundStep DEF SyncInv, TypeInv
<1>2. CASE UNCHANGED vars
  <2>1. UNCHANGED <<remote, sync, item, doc, index, row, run, drain, job, used, clash>>
    BY <1>2 DEF vars, dbVars
  <2>2. TypeOK' /\ Aimed'
    BY <2>1 DEF SyncInv, TypeInv, TypeOK, Aimed, Held
  <2>3. FileInv'
    BY <2>1 DEF SyncInv, FileInv, ItemLives, ItemOwn, DocFiled, SeenLives, Exists
  <2>4. CoverInv'
    BY <2>1 DEF SyncInv, CoverInv, PendingIsCovered, MarkInv, ActiveRowOf, Active
  <2>5. ContentInv'
    BY <2>1 DEF SyncInv, ContentInv, FetchedInv, CopyInv, Recorded, Holds, Exists
  <2> QED BY <1>1, <2>2, <2>3, <2>4, <2>5 DEF SyncInv, TypeInv
<1>3. ASSUME NEW u \in Runs, RunScheduled(u) \/ RunManual(u) \/ RunStep(u) \/ RunCrash(u)
      PROVE  SyncInv'
  BY <1>3, RunQuietInv, CommitInv DEF RunScheduled, RunManual, RunStep
<1>4. ASSUME NEW w \in Drains, DrainClaim(w) \/ DrainStep(w) PROVE SyncInv'
  BY <1>4, DrainInv
<1>5. ASSUME NEW j \in Jobs, JobStep(j) \/ JobLost(j) PROVE SyncInv'
  BY <1>5, JobInv
<1> QED BY <1>1, <1>2, <1>3, <1>4, <1>5, PushInv, DeleteInv DEF Next

\* ... and it holds always.
LEMMA SyncIsInvariant == Spec => [](SyncInv /\ FoundInv)
<1>1. Init => SyncInv /\ FoundInv
  <2> SUFFICES ASSUME Init PROVE FoundInv
    BY InitInv
  <2> QED BY Constants DEF Init, FoundInv
<1>2. SyncInv /\ FoundInv /\ [Next]_vars => (SyncInv /\ FoundInv)'
  BY NextInv
<1> QED BY <1>1, <1>2, PTL DEF Spec

\* The variables keep to their types: no row is claimed more often than MaxAttempts, and what an
\* item or a row names is a document.
THEOREM TypeCorrect == Spec => []TypeOK
<1>1. SyncInv => TypeOK
  BY DEF SyncInv, TypeInv
<1> QED BY <1>1, SyncIsInvariant, PTL

\* However runs, deletions and lost processes overlap, a path has at most one document and every
\* document of the repository has exactly one path.
THEOREM FilesHaveOneDocument == Spec => []OneDocumentPerFile
<1>1. ASSUME SyncInv PROVE OneDocumentPerFile
  <2>1. FileInv
    BY <1>1 DEF SyncInv
  <2>2. ASSUME NEW d \in Docs, Exists(d)
        PROVE  Cardinality({p \in Paths : item[p] # None /\ item[p].doc = d}) = 1
    <3>1. PICK p \in Paths : item[p] # None /\ item[p].doc = d
      BY <2>1, <2>2 DEF FileInv, DocFiled
    <3>2. {q \in Paths : item[q] # None /\ item[q].doc = d} = {p}
      BY <2>1, <3>1 DEF FileInv, ItemOwn
    <3> QED BY <3>2, FS_Singleton
  <2> QED BY <2>1, <2>2 DEF OneDocumentPerFile, FileInv, ItemLives
<1> QED BY <1>1, SyncIsInvariant, PTL

\* A document that waits is in the outbox, or its row used up the attempts.
THEOREM WaitingIsCovered == Spec => []PendingIsCovered
<1>1. SyncInv => PendingIsCovered
  BY DEF SyncInv, CoverInv
<1> QED BY <1>1, SyncIsInvariant, PTL

\* Without a push between tree and file, and without a job that holds a copy while a run writes,
\* the recorded hash is that of the content.
THEOREM HashIsOfContent == Spec => []RecordedIsContent
<1>1. SyncInv => RecordedIsContent
  BY DEF SyncInv, ContentInv, RecordedIsContent, Recorded
<1> QED BY <1>1, SyncIsInvariant, PTL

=============================================================================
