----------------------- MODULE DocumentOutbox_proofs -----------------------
(***************************************************************************)
(* What the outbox guarantees for any number of documents, requests and    *)
(* drains, any number of failing calls and crashes, and any limits.        *)
(***************************************************************************)
EXTENDS DocumentOutbox, TLAPS

USE OutboxAssumption

\* Once past its transaction a request knows its row, and a drain that handles an
\* item holds it.
Known ==
    /\ \A c \in Requests : rpc[c] \in {"queued", "marked", "unsent"} => rrow[c] \in Requests
    /\ \A w \in Drains :
          dpc[w] \in {"mark", "queue", "send", "fail", "docfail"} =>
             dcur[w] \in Requests /\ held[w][dcur[w]] > 0

\* The types, and what they leave out.
TypeInv == TypeOK /\ Known

\* A row is not there, and in nobody's hands, before its request inserts it.
Fresh ==
    \A c \in Requests :
        rpc[c] \in {"new", "loaded"} =>
            row[c].status = "none" /\ \A w \in Drains : held[w][c] = 0

\* A drain's copy of a row is not newer than the row.
HeldBound ==
    \A w \in Drains, r \in Requests : RowExists(r) => held[w][r] <= row[r].attempts

\* The inductive invariant of claims and rows.
ClaimInv == Fresh /\ HeldBound /\ ClaimExclusive /\ FailedIsExhausted /\ OneActiveRow

-----------------------------------------------------------------------------
(* How the row of an outbox item changes.                                  *)

\* An update of the status of one row keeps its attempts, and the other rows.
LEMMA StatusUpdate ==
    ASSUME NEW r \in Requests, NEW s \in RowStatus, row \in [Requests -> Row],
           row' = [row EXCEPT ![r].status = s]
    PROVE  /\ row' \in [Requests -> Row]
           /\ row'[r].status = s
           /\ \A q \in Requests : row'[q].attempts = row[q].attempts
           /\ \A q \in Requests : q # r => row'[q] = row[q]
  BY DEF Row

\* What QueueTxn makes of the rows: a new row, or one active row back to pending.
LEMMA CreateOutboxUpdate ==
    ASSUME NEW c \in Requests, row \in [Requests -> Row],
           rrow \in [Requests -> Requests \cup {NoRow}], CreateOutbox(c)
    PROVE  \E r \in Requests :
             /\ rrow' = [rrow EXCEPT ![c] = r]
             /\ row' \in [Requests -> Row]
             /\ row'[r].status = "pending"
             /\ \A q \in Requests : q # r => row'[q] = row[q]
             /\ \/ ActiveRowsOf(rdoc[c]) = {} /\ r = c /\ row'[r].attempts = 0
                \/ r \in ActiveRowsOf(rdoc[c]) /\ row'[r].attempts = row[r].attempts
  <1>1. CASE ActiveRowsOf(rdoc[c]) = {}
    BY <1>1 DEF CreateOutbox, Row, RowStatus, ActiveStatus
  <1>2. CASE ActiveRowsOf(rdoc[c]) # {}
    <2>1. PICK r \in ActiveRowsOf(rdoc[c]) :
             /\ row' = [row EXCEPT ![r].status = "pending"]
             /\ rrow' = [rrow EXCEPT ![c] = r]
      BY <1>2 DEF CreateOutbox
    <2>2. r \in Requests /\ "pending" \in RowStatus
      BY DEF ActiveRowsOf, RowStatus, ActiveStatus
    <2> QED  BY <2>1, <2>2, StatusUpdate
  <1> QED  BY <1>1, <1>2

-----------------------------------------------------------------------------
(* Types.                                                                  *)

\* The initial states have the right types and no request knows a row or a document.
LEMMA InitType == Init => TypeInv
  BY DEF Init, TypeInv, TypeOK, Known, DocStatus, LiveStatus, Row, RowStatus, ActiveStatus

\* Every step of a request keeps the types.
LEMMA RequestType ==
    ASSUME TypeInv, NEW c \in Requests, RequestStep(c) \/ RequestCrash(c)
    PROVE  TypeInv'
  <1> USE DEF TypeInv, TypeOK, Known, Goto, Raise, RaiseStep, NoBudget, UseFault,
              requestVars, drainVars, brokerVars, budgetVars, dbVars
  <1>1. CASE QueueTxn(c)
    <2>1. PICK r \in Requests : rrow' = [rrow EXCEPT ![c] = r] /\ row' \in [Requests -> Row]
      BY <1>1, CreateOutboxUpdate DEF QueueTxn
    <2> QED  BY <1>1, <2>1 DEF QueueTxn, SetStatus, DocStatus, LiveStatus
  <1>2. CASE QueueTxnFails(c)
    BY <1>2 DEF QueueTxnFails
  <1>3. CASE KickMark(c)
    <2>1. row' \in [Requests -> Row]
      BY <1>3, StatusUpdate DEF KickMark, MarkDispatched, RowStatus
    <2> QED  BY <1>3, <2>1 DEF KickMark
  <1>4. CASE KickMarkFails(c)
    BY <1>4 DEF KickMarkFails
  <1>5. CASE KickSend(c)
    BY <1>5 DEF KickSend
  <1>6. CASE KickSendFails(c)
    BY <1>6 DEF KickSendFails
  <1>7. CASE KickUndo(c)
    <2>1. row' \in [Requests -> Row]
      BY <1>7, StatusUpdate DEF KickUndo, MarkFailed, RowStatus, ActiveStatus
    <2>2. faults' \in 0..MaxFaults /\ crashes' = crashes /\ deletes' = deletes
      <3>1. \/ UNCHANGED budgetVars
            \/ UseFault /\ UNCHANGED <<crashes, deletes>>
        BY <1>7, Zenon DEF KickUndo
      <3> HIDE <1>7
      <3> QED  BY <3>1
    <2>3. /\ rpc' = [rpc EXCEPT ![c] = IF rkind[c] = "ingest" THEN "fallback" ELSE "done"]
          /\ UNCHANGED <<doc, rdoc, rrow, rkind, dpc, dcur, held, msgs, running>>
      BY <1>7 DEF KickUndo
    <2> HIDE <1>7
    <2> QED  BY <2>1, <2>2, <2>3
  <1>8. CASE FallbackQueue(c)
    BY <1>8 DEF FallbackQueue, SetStatusIfExists, DocStatus, LiveStatus
  <1>9. CASE FallbackSend(c)
    BY <1>9 DEF FallbackSend
  <1>10. CASE FallbackSendFails(c)
    BY <1>10 DEF FallbackSendFails
  <1>11. CASE FallbackFail(c)
    BY <1>11 DEF FallbackFail, SetStatusIfExists, DocStatus, LiveStatus
  <1>12. CASE RequestCrash(c)
    BY <1>12 DEF RequestCrash
  <1> QED
    BY <1>1, <1>2, <1>3, <1>4, <1>5, <1>6, <1>7, <1>8, <1>9, <1>10, <1>11, <1>12
    DEF RequestStep

\* The two ways in which a drain leaves an item.
LEMMA ItemDoneType ==
    ASSUME TypeInv, NEW w \in Drains, dcur[w] \in Requests, ItemDone(w)
    PROVE  /\ dpc' \in [Drains -> {"idle", "next", "mark", "queue", "send", "fail", "docfail"}]
           /\ dcur' \in [Drains -> Requests \cup {NoRow}]
           /\ held' \in [Drains -> [Requests -> 0..MaxAttempts]]
           /\ dpc'[w] \in {"idle", "next"}
           /\ \A v \in Drains : v # w => /\ dpc'[v] = dpc[v]
                                         /\ dcur'[v] = dcur[v]
                                         /\ held'[v] = held[v]
           /\ \A r \in Requests : held'[w][r] = IF r = dcur[w] THEN 0 ELSE held[w][r]
  BY DEF ItemDone, DrainGoto, TypeInv, TypeOK

\* A drain that ends, for whatever reason, leaves the types right.
LEMMA AbortType ==
    ASSUME TypeInv, NEW w \in Drains, Abort(w)
    PROVE  /\ dpc' \in [Drains -> {"idle", "next", "mark", "queue", "send", "fail", "docfail"}]
           /\ dcur' \in [Drains -> Requests \cup {NoRow}]
           /\ held' \in [Drains -> [Requests -> 0..MaxAttempts]]
           /\ dpc'[w] = "idle"
           /\ \A v \in Drains : v # w => /\ dpc'[v] = dpc[v]
                                         /\ dcur'[v] = dcur[v]
                                         /\ held'[v] = held[v]
           /\ \A r \in Requests : held'[w][r] = 0
  BY DEF Abort, DrainGoto, TypeInv, TypeOK

\* Claiming a batch keeps the types: the limit on the attempts bounds the new count.
LEMMA ClaimType ==
    ASSUME TypeInv, NEW w \in Drains, NEW S \in SUBSET Requests, Claim(w, S)
    PROVE  /\ TypeInv'
           /\ \A r \in S : /\ row[r].status \in {"pending", "processing"}
                           /\ row'[r].status = "processing"
                           /\ row'[r].attempts = row[r].attempts + 1
                           /\ held'[w][r] = row[r].attempts + 1
           /\ \A r \in Requests \ S : row'[r] = row[r] /\ held'[w][r] = 0
           /\ \A v \in Drains : v # w => held'[v] = held[v]
  <1> USE DEF TypeInv, TypeOK, Known, Claim
  <1>1. \A r \in S : /\ row[r].status \in {"pending", "processing"}
                     /\ row[r].attempts < MaxAttempts
                     /\ row[r].attempts \in 0..MaxAttempts
    BY DEF Batch, ClaimableRows, Claimable, Row
  <1>2. row' \in [Requests -> Row]
    BY <1>1 DEF Row, RowStatus, ActiveStatus
  <1>3. held' \in [Drains -> [Requests -> 0..MaxAttempts]]
    BY <1>1
  <1>4. dpc' = [dpc EXCEPT ![w] = "next"]
    BY DEF DrainGoto
  <1>5. Known'
    <2>1. \A v \in Drains : v # w => held'[v] = held[v] /\ dpc'[v] = dpc[v]
      BY <1>4
    <2>2. dpc'[w] = "next" /\ dcur' = dcur /\ rpc' = rpc /\ rrow' = rrow
      BY <1>4 DEF requestVars
    <2> QED  BY <2>1, <2>2
  <1>6. TypeOK'
    BY <1>2, <1>3, <1>4 DEF requestVars, brokerVars, budgetVars
  <1> QED  BY <1>1, <1>5, <1>6

\* Every step of a drain on a claimed row keeps the types.
LEMMA DrainType ==
    ASSUME TypeInv, NEW w \in Drains, DrainStep(w) \/ DrainCrash(w)
    PROVE  TypeInv'
  <1> USE DEF TypeInv, TypeOK, Known, NoBudget, UseFault,
              requestVars, drainVars, brokerVars, budgetVars, dbVars
  <1>1. CASE \E r \in Requests : DrainLoad(w, r)
    BY <1>1 DEF DrainLoad, DrainGoto, Held
  <1>2. CASE DrainMark(w)
    <2>1. row' \in [Requests -> Row]
      BY <1>2, StatusUpdate DEF DrainMark, MarkDispatched, RowStatus
    <2> QED  BY <1>2, <2>1, ItemDoneType DEF DrainMark
  <1>3. CASE DrainQueue(w)
    <2>1. row' \in [Requests -> Row]
      BY <1>3, StatusUpdate DEF DrainQueue, MarkDispatched, RowStatus
    <2> QED  BY <1>3, <2>1 DEF DrainQueue, DrainGoto, SetStatusIfExists, DocStatus, LiveStatus
  <1>4. CASE DrainSend(w)
    <2>1. msgs' \in [Requests -> Nat]
      BY <1>4 DEF DrainSend
    <2> QED  BY <1>4, <2>1, ItemDoneType DEF DrainSend
  <1>5. CASE DrainRaises(w)
    BY <1>5 DEF DrainRaises, DrainGoto
  <1>6. CASE DrainFail(w)
    <2>1. row' \in [Requests -> Row]
      BY <1>6, StatusUpdate DEF DrainFail, MarkFailed, RowStatus, ActiveStatus
    <2>2. CASE Retryable(w)
      BY <1>6, <2>1, <2>2, ItemDoneType DEF DrainFail
    <2>3. CASE ~Retryable(w)
      BY <1>6, <2>1, <2>3 DEF DrainFail, DrainGoto
    <2> QED  BY <2>2, <2>3
  <1>7. CASE DrainAborts(w)
    <2>1. faults' \in 0..MaxFaults /\ UNCHANGED <<row, doc, requestVars, brokerVars, crashes, deletes>>
      BY <1>7 DEF DrainAborts
    <2>2. Abort(w)
      BY <1>7 DEF DrainAborts
    <2> HIDE <1>7
    <2> QED  BY <2>1, <2>2, AbortType
  <1>8. CASE DrainFailDoc(w)
    <2>1. faults' \in 0..MaxFaults /\ UNCHANGED <<row, requestVars, brokerVars, crashes, deletes>>
      BY <1>8 DEF DrainFailDoc
    <2>2. dcur[w] \in Requests /\ ItemDone(w)
      BY <1>8 DEF DrainFailDoc
    <2>3. doc' \in [Docs -> DocStatus]
      BY <1>8 DEF DrainFailDoc, SetStatusIfExists, DocStatus, LiveStatus
    <2> HIDE <1>8
    <2> QED  BY <2>1, <2>2, <2>3, ItemDoneType
  <1>9. CASE DrainCrash(w)
    BY <1>9, AbortType DEF DrainCrash
  <1> QED
    BY <1>1, <1>2, <1>3, <1>4, <1>5, <1>6, <1>7, <1>8, <1>9 DEF DrainStep

\* The steps of users, workers and crashes keep the types.
LEMMA OtherType ==
    ASSUME TypeInv,
           \/ \E c \in Requests, k \in Kinds, d \in Docs : Begin(c, k, d)
           \/ \E t \in Requests : WorkerStep(t) \/ WorkerCrash(t)
           \/ \E d \in Docs : DeleteDocument(d)
           \/ UNCHANGED vars
    PROVE  TypeInv'
  <1> USE DEF TypeInv, TypeOK, Known,
              requestVars, drainVars, brokerVars, budgetVars, dbVars
  <1>1. ASSUME NEW c \in Requests, NEW k \in Kinds, NEW d \in Docs, Begin(c, k, d)
        PROVE  TypeInv'
    BY <1>1 DEF Begin, Goto, SetStatus, DocStatus, LiveStatus
  <1>2. ASSUME NEW t \in Requests, WorkerStep(t) \/ WorkerCrash(t)
        PROVE  TypeInv'
    <2>1. CASE StartJob(t)
      <3>1. msgs' \in [Requests -> Nat] /\ running' \in [Requests -> Nat]
        BY <2>1 DEF StartJob
      <3>2. doc' \in [Docs -> DocStatus]
        BY <2>1 DEF StartJob, SetStatusIfExists, DocStatus, LiveStatus
      <3> QED  BY <2>1, <3>1, <3>2 DEF StartJob
    <2>2. ASSUME NEW s \in {"READY", "FAILED"}, FinishJob(t, s)
          PROVE  TypeInv'
      <3>1. running' \in [Requests -> Nat]
        BY <2>2 DEF FinishJob
      <3>2. doc' \in [Docs -> DocStatus]
        BY <2>2 DEF FinishJob, SetStatusIfExists, DocStatus, LiveStatus
      <3> QED  BY <2>2, <3>1, <3>2 DEF FinishJob
    <2>3. CASE WorkerCrash(t)
      <3>1. msgs' \in [Requests -> Nat] /\ running' \in [Requests -> Nat]
        BY <2>3 DEF WorkerCrash
      <3> QED  BY <2>3, <3>1 DEF WorkerCrash
    <2> QED  BY <1>2, <2>1, <2>2, <2>3 DEF WorkerStep
  <1>3. ASSUME NEW d \in Docs, DeleteDocument(d)
        PROVE  TypeInv'
    BY <1>3 DEF DeleteDocument, SetStatus, DocStatus, Row, RowStatus
  <1>4. CASE UNCHANGED vars
    BY <1>4 DEF vars
  <1> QED  BY <1>1, <1>2, <1>3, <1>4

\* TypeInv is inductive.
LEMMA NextType == TypeInv /\ [Next]_vars => TypeInv'
  BY RequestType, ClaimType, DrainType, OtherType DEF Next

\* TypeInv holds in every reachable state.
LEMMA TypeInvariance == Spec => []TypeInv
  BY InitType, NextType, PTL DEF Spec

\* The variables keep their types: no attempt count exceeds the limit, however the
\* requests and the drains take turns.
THEOREM TypeCorrect == Spec => []TypeOK
  BY TypeInvariance, PTL DEF TypeInv

-----------------------------------------------------------------------------
(* Claims.                                                                 *)

\* What every step but a claim does to the drains' copies: keep them or drop them.
HeldShrinks ==
    \A v \in Drains, r \in Requests : held'[v][r] = held[v][r] \/ held'[v][r] = 0

\* No request goes back to before its transaction.
FreshShrinks ==
    \A c \in Requests : rpc'[c] \in {"new", "loaded"} => rpc[c] \in {"new", "loaded"}

\* ClaimInv holds initially: there are no rows.
LEMMA InitClaim == Init => ClaimInv
  BY DEF Init, ClaimInv, Fresh, HeldBound, ClaimExclusive, FailedIsExhausted,
         OneActiveRow, ActiveRowsOf, ActiveStatus, RowExists

\* Dropping copies endangers neither the bound nor the exclusion.
LEMMA ShrinkStep ==
    ASSUME TypeInv, TypeInv', HeldBound, ClaimExclusive, HeldShrinks,
           \A r \in Requests : /\ RowExists(r)' => RowExists(r)
                               /\ RowExists(r)' => row'[r].attempts = row[r].attempts
    PROVE  HeldBound' /\ ClaimExclusive'
  <1>1. \A v \in Drains, r \in Requests : held[v][r] \in Nat /\ held'[v][r] \in Nat
    BY DEF TypeInv, TypeOK
  <1>2. \A r \in Requests : row[r].attempts \in Nat /\ row'[r].attempts \in Nat
    BY DEF TypeInv, TypeOK, Row
  <1>3. ASSUME NEW v \in Drains, NEW r \in Requests, RowExists(r)'
        PROVE  held'[v][r] <= row'[r].attempts
    <2>1. held[v][r] <= row[r].attempts /\ row'[r].attempts = row[r].attempts
      BY <1>3 DEF HeldBound
    <2>2. held'[v][r] = held[v][r] \/ held'[v][r] = 0
      BY DEF HeldShrinks
    <2> QED  BY <1>1, <1>2, <2>1, <2>2
  <1>4. ASSUME NEW u \in Drains, NEW v \in Drains, NEW r \in Requests,
               u # v, held'[u][r] > 0
        PROVE  held'[u][r] # held'[v][r]
    <2>1. /\ held'[u][r] = held[u][r] \/ held'[u][r] = 0
          /\ held'[v][r] = held[v][r] \/ held'[v][r] = 0
      BY DEF HeldShrinks
    <2>2. held[u][r] > 0 => held[u][r] # held[v][r]
      BY <1>4 DEF ClaimExclusive
    <2> QED  BY <1>1, <1>4, <2>1, <2>2
  <1> QED  BY <1>3, <1>4 DEF HeldBound, ClaimExclusive

\* A step that changes no row, claim or document of a row keeps ClaimInv.
LEMMA QuietStep ==
    ASSUME TypeInv, TypeInv', ClaimInv, HeldShrinks, FreshShrinks, row' = row, rdoc' = rdoc
    PROVE  ClaimInv'
  <1> USE DEF ClaimInv, TypeInv, TypeOK, HeldShrinks
  <1>1. Fresh'
    BY DEF Fresh, FreshShrinks
  <1>2. HeldBound' /\ ClaimExclusive'
    BY ShrinkStep DEF RowExists
  <1>3. FailedIsExhausted' /\ OneActiveRow'
    BY DEF FailedIsExhausted, OneActiveRow, ActiveRowsOf
  <1> QED  BY <1>1, <1>2, <1>3

\* The status of a row that is there changes, to an active one only where the unique
\* index allows it and to 'failed' only after the last attempt.
LEMMA StatusStep ==
    ASSUME TypeInv, TypeInv', ClaimInv, HeldShrinks, FreshShrinks, rdoc' = rdoc,
           NEW r \in Requests, NEW s \in {"pending", "failed", "dispatched"},
           row' = [row EXCEPT ![r].status = s],
           RowExists(r),
           s # "dispatched" => IndexAllows(r),
           s = "failed" => row[r].attempts = MaxAttempts
    PROVE  ClaimInv'
  <1> USE DEF ClaimInv, TypeInv, TypeOK, HeldShrinks
  <1>1. /\ row'[r].status = s
        /\ \A q \in Requests : row'[q].attempts = row[q].attempts
        /\ \A q \in Requests : q # r => row'[q] = row[q]
    BY StatusUpdate DEF RowStatus, ActiveStatus
  <1>2. Fresh'
    <2> SUFFICES ASSUME NEW c \in Requests, rpc'[c] \in {"new", "loaded"}
                 PROVE  row'[c].status = "none" /\ \A w \in Drains : held'[w][c] = 0
      BY DEF Fresh
    <2>1. row[c].status = "none" /\ \A w \in Drains : held[w][c] = 0
      BY DEF Fresh, FreshShrinks
    <2> QED  BY <1>1, <2>1 DEF RowExists
  <1>3. RowExists(r)' /\ \A q \in Requests : RowExists(q)' => RowExists(q)
    BY <1>1 DEF RowExists
  <1>4. HeldBound' /\ ClaimExclusive'
    BY <1>1, <1>3, ShrinkStep
  <1>5. FailedIsExhausted'
    BY <1>1 DEF FailedIsExhausted
  <1>6. OneActiveRow'
    <2> SUFFICES ASSUME NEW d \in Docs, NEW p \in ActiveRowsOf(d)', NEW q \in ActiveRowsOf(d)'
                 PROVE  p = q
      BY DEF OneActiveRow
    <2>1. CASE p = r \/ q = r
      BY <1>1, <2>1 DEF IndexAllows, ActiveRowsOf, ActiveStatus
    <2>2. CASE p # r /\ q # r
      BY <1>1, <2>2 DEF OneActiveRow, ActiveRowsOf
    <2> QED  BY <2>1, <2>2
  <1> QED  BY <1>2, <1>3, <1>4, <1>5, <1>6

\* The insertion or the upsert of QueueTxn: a new row is in nobody's hands, an old one
\* keeps its attempts.
LEMMA QueueStep ==
    ASSUME TypeInv, TypeInv', ClaimInv, NEW c \in Requests, QueueTxn(c)
    PROVE  ClaimInv'
  <1> USE DEF ClaimInv, TypeInv, TypeOK
  <1>1. PICK r \in Requests :
             /\ row'[r].status = "pending"
             /\ \A q \in Requests : q # r => row'[q] = row[q]
             /\ \/ ActiveRowsOf(rdoc[c]) = {} /\ r = c /\ row'[r].attempts = 0
                \/ r \in ActiveRowsOf(rdoc[c]) /\ row'[r].attempts = row[r].attempts
    BY CreateOutboxUpdate DEF QueueTxn
  <1>2. /\ rpc[c] = "loaded" /\ rpc' = [rpc EXCEPT ![c] = "queued"]
        /\ rdoc' = rdoc /\ held' = held
    BY DEF QueueTxn, Goto, drainVars
  <1>3. row[c].status = "none" /\ \A w \in Drains : held[w][c] = 0
    BY <1>2 DEF Fresh
  <1>4. Fresh'
    BY <1>1, <1>2 DEF Fresh, ActiveRowsOf, ActiveStatus
  <1>5. HeldBound'
    <2> SUFFICES ASSUME NEW v \in Drains, NEW q \in Requests, RowExists(q)'
                 PROVE  held'[v][q] <= row'[q].attempts
      BY DEF HeldBound
    <2>1. CASE q # r
      BY <1>1, <1>2, <2>1 DEF HeldBound, RowExists
    <2>2. CASE q = r /\ r \in ActiveRowsOf(rdoc[c])
      <3>1. RowExists(q)
        BY <2>2 DEF RowExists, ActiveRowsOf, ActiveStatus
      <3>2. held[v][q] <= row[q].attempts
        BY <3>1 DEF HeldBound
      <3>3. row'[q].attempts = row[q].attempts
        BY <1>1, <2>2
      <3> QED  BY <1>2, <3>2, <3>3
    <2>3. CASE q = r /\ r = c /\ row'[r].attempts = 0
      BY <1>2, <1>3, <2>3
    <2> QED  BY <1>1, <2>1, <2>2, <2>3
  <1>6. ClaimExclusive'
    BY <1>2 DEF ClaimExclusive
  <1>7. FailedIsExhausted'
    BY <1>1 DEF FailedIsExhausted
  <1>8. OneActiveRow'
    <2> SUFFICES ASSUME NEW d \in Docs, NEW p \in ActiveRowsOf(d)', NEW q \in ActiveRowsOf(d)'
                 PROVE  p = q
      BY DEF OneActiveRow
    <2>1. CASE p # r /\ q # r
      BY <1>1, <1>2, <2>1 DEF OneActiveRow, ActiveRowsOf
    <2>2. CASE ActiveRowsOf(rdoc[c]) = {} /\ r = c
      BY <1>1, <1>2, <2>1, <2>2 DEF ActiveRowsOf
    <2>3. CASE r \in ActiveRowsOf(rdoc[c])
      BY <1>1, <1>2, <2>1, <2>3 DEF OneActiveRow, ActiveRowsOf
    <2> QED  BY <1>1, <2>2, <2>3
  <1> QED  BY <1>4, <1>5, <1>6, <1>7, <1>8

\* A claim gives its rows an attempt newer than every copy of them.
LEMMA ClaimStep ==
    ASSUME TypeInv, TypeInv', ClaimInv, NEW w \in Drains, NEW S \in SUBSET Requests, Claim(w, S)
    PROVE  ClaimInv'
  <1> USE DEF ClaimInv, TypeInv, TypeOK
  <1>1. /\ \A r \in S : /\ row[r].status \in {"pending", "processing"}
                        /\ row'[r].status = "processing"
                        /\ row'[r].attempts = row[r].attempts + 1
                        /\ held'[w][r] = row[r].attempts + 1
        /\ \A r \in Requests \ S : row'[r] = row[r] /\ held'[w][r] = 0
        /\ \A v \in Drains : v # w => held'[v] = held[v]
    BY ClaimType
  <1>2. rpc' = rpc /\ rdoc' = rdoc
    BY DEF Claim, requestVars
  <1>3. \A r \in Requests : row[r].attempts \in Nat /\ \A v \in Drains : held[v][r] \in Nat
    BY DEF Row
  <1>4. \A r \in S, v \in Drains : held[v][r] <= row[r].attempts
    BY <1>1 DEF HeldBound, RowExists
  <1>5. Fresh'
    <2> SUFFICES ASSUME NEW c \in Requests, rpc[c] \in {"new", "loaded"}
                 PROVE  row'[c].status = "none" /\ \A v \in Drains : held'[v][c] = 0
      BY <1>2 DEF Fresh
    <2>1. row[c].status = "none" /\ \A v \in Drains : held[v][c] = 0
      BY DEF Fresh
    <2>2. c \notin S
      BY <1>1, <2>1
    <2> QED  BY <1>1, <2>1, <2>2
  <1> HIDE DEF TypeInv, TypeOK
  <1>6. HeldBound'
    <2> SUFFICES ASSUME NEW v \in Drains, NEW r \in Requests, RowExists(r)'
                 PROVE  held'[v][r] <= row'[r].attempts
      BY DEF HeldBound
    <2>1. CASE r \in S
      <3>1. held[v][r] <= row[r].attempts /\ row'[r].attempts = row[r].attempts + 1
        BY <1>1, <1>4, <2>1
      <3>2. held'[v][r] = held[v][r] \/ held'[v][r] = row[r].attempts + 1
        BY <1>1, <2>1
      <3> QED  BY <1>3, <3>1, <3>2
    <2>2. CASE r \notin S
      <3>1. row'[r] = row[r] /\ (held'[v][r] = held[v][r] \/ held'[v][r] = 0)
        BY <1>1, <2>2
      <3>2. held[v][r] <= row[r].attempts
        BY <3>1 DEF HeldBound, RowExists
      <3> QED  BY <1>3, <3>1, <3>2
    <2> QED  BY <2>1, <2>2
  <1>7. ClaimExclusive'
    <2> SUFFICES ASSUME NEW u \in Drains, NEW v \in Drains, NEW r \in Requests,
                        u # v, held'[u][r] > 0
                 PROVE  held'[u][r] # held'[v][r]
      BY DEF ClaimExclusive
    <2>1. CASE r \in S
      <3>1. \A x \in {u, v} : IF x = w THEN held'[x][r] = row[r].attempts + 1
                                       ELSE /\ held'[x][r] = held[x][r]
                                            /\ held[x][r] <= row[r].attempts
        BY <1>1, <1>4, <2>1
      <3>2. held[u][r] > 0 => held[u][r] # held[v][r]
        BY DEF ClaimExclusive
      <3> QED  BY <1>3, <3>1, <3>2
    <2>2. CASE r \notin S
      <3>1. \A x \in {u, v} : held'[x][r] = IF x = w THEN 0 ELSE held[x][r]
        BY <1>1, <2>2
      <3>2. held[u][r] > 0 => held[u][r] # held[v][r]
        BY DEF ClaimExclusive
      <3> QED  BY <1>3, <3>1, <3>2
    <2> QED  BY <2>1, <2>2
  <1>8. FailedIsExhausted'
    BY <1>1 DEF FailedIsExhausted
  <1>9. OneActiveRow'
    BY <1>1, <1>2 DEF OneActiveRow, ActiveRowsOf, ActiveStatus
  <1> QED  BY <1>5, <1>6, <1>7, <1>8, <1>9

\* Every step of a request keeps ClaimInv.
LEMMA RequestClaim ==
    ASSUME TypeInv, TypeInv', ClaimInv, NEW c \in Requests, RequestStep(c) \/ RequestCrash(c)
    PROVE  ClaimInv'
  <1>1. CASE QueueTxn(c)
    BY <1>1, QueueStep
  <1> SUFFICES ASSUME ~QueueTxn(c)
               PROVE  ClaimInv'
    BY <1>1
  <1>2. rdoc' = rdoc /\ held' = held
    BY DEF RequestStep, RequestCrash, QueueTxnFails, KickMark, KickMarkFails, KickSend,
           KickSendFails, KickUndo, FallbackQueue, FallbackSend, FallbackSendFails,
           FallbackFail, drainVars
  <1>3. \E s \in {"queued", "marked", "unsent", "fallback", "direct", "giveup", "done"} :
            rpc' = [rpc EXCEPT ![c] = s]
    BY DEF RequestStep, RequestCrash, QueueTxnFails, KickMark, KickMarkFails, KickSend,
           KickSendFails, KickUndo, FallbackQueue, FallbackSend, FallbackSendFails,
           FallbackFail, Goto, Raise, RaiseStep
  <1>4. HeldShrinks /\ FreshShrinks
    BY <1>2, <1>3 DEF HeldShrinks, FreshShrinks, TypeInv, TypeOK
  <1>5. CASE KickMark(c)
    <2>1. rrow[c] \in Requests /\ RowExists(rrow[c])
          /\ row' = [row EXCEPT ![rrow[c]].status = "dispatched"]
      BY <1>5 DEF KickMark, MarkDispatched, TypeInv, Known
    <2> QED  BY <1>2, <1>4, <2>1, StatusStep
  <1>6. CASE KickUndo(c)
    <2>1. rrow[c] \in Requests
      BY <1>6 DEF KickUndo, TypeInv, Known
    <2>2. CASE CanMarkFailed(rrow[c]) /\ MarkFailed(rrow[c], TRUE)
      <3>1. row' = [row EXCEPT ![rrow[c]].status = "pending"]
        BY <2>2 DEF MarkFailed
      <3>2. RowExists(rrow[c]) /\ IndexAllows(rrow[c])
        BY <2>2 DEF CanMarkFailed
      <3> QED  BY <1>2, <1>4, <2>1, <3>1, <3>2, StatusStep
    <2>3. CASE row' = row
      BY <1>2, <1>4, <2>3, QuietStep
    <2> QED  BY <1>6, <2>2, <2>3, Zenon DEF KickUndo
  <1>7. CASE ~KickMark(c) /\ ~KickUndo(c)
    <2>1. row' = row
      BY <1>7 DEF RequestStep, RequestCrash, QueueTxnFails, KickMarkFails, KickSend,
             KickSendFails, FallbackQueue, FallbackSend, FallbackSendFails,
             FallbackFail, dbVars
    <2> QED  BY <1>2, <1>4, <2>1, QuietStep
  <1> QED  BY <1>5, <1>6, <1>7

\* A step of a drain leaves an item or goes on with it.
LEMMA DrainHeld ==
    ASSUME TypeInv, NEW w \in Drains, DrainStep(w) \/ DrainCrash(w)
    PROVE  HeldShrinks
  <1>1. CASE held' = held
    BY <1>1 DEF HeldShrinks
  <1>2. CASE dcur[w] \in Requests /\ ItemDone(w)
    BY <1>2 DEF ItemDone, HeldShrinks, TypeInv, TypeOK
  <1>3. CASE Abort(w)
    BY <1>3 DEF Abort, HeldShrinks, TypeInv, TypeOK
  <1> QED
    BY <1>1, <1>2, <1>3
    DEF DrainStep, DrainCrash, DrainLoad, DrainMark, DrainQueue, DrainSend, DrainRaises,
        DrainFail, DrainAborts, DrainFailDoc, drainVars, TypeInv, Known

\* Every step of a drain on a claimed row keeps ClaimInv.
LEMMA DrainClaim ==
    ASSUME TypeInv, TypeInv', ClaimInv, NEW w \in Drains, DrainStep(w) \/ DrainCrash(w)
    PROVE  ClaimInv'
  <1>1. HeldShrinks
    BY DrainHeld
  <1>2. rdoc' = rdoc /\ rpc' = rpc
    BY DEF DrainStep, DrainCrash, DrainLoad, DrainMark, DrainQueue, DrainSend,
           DrainRaises, DrainFail, DrainAborts, DrainFailDoc, requestVars
  <1>3. FreshShrinks
    BY <1>2 DEF FreshShrinks
  <1>4. CASE DrainMark(w) \/ DrainQueue(w)
    <2>1. /\ dcur[w] \in Requests /\ RowExists(dcur[w])
          /\ row' = [row EXCEPT ![dcur[w]].status = "dispatched"]
      BY <1>4 DEF DrainMark, DrainQueue, MarkDispatched, TypeInv, Known
    <2> QED  BY <1>1, <1>2, <1>3, <2>1, StatusStep
  <1>5. CASE DrainFail(w)
    <2> DEFINE r == dcur[w]
               s == IF Retryable(w) THEN "pending" ELSE "failed"
    <2>1. /\ r \in Requests /\ held[w][r] > 0 /\ RowExists(r) /\ IndexAllows(r)
          /\ row' = [row EXCEPT ![r].status = s]
      BY <1>5 DEF DrainFail, CanMarkFailed, MarkFailed, TypeInv, Known
    <2>2. s = "failed" => row[r].attempts = MaxAttempts
      <3>1. held[w][r] <= row[r].attempts
        BY <2>1 DEF ClaimInv, HeldBound
      <3>2. held[w][r] \in 0..MaxAttempts /\ row[r].attempts \in 0..MaxAttempts
        BY <2>1 DEF TypeInv, TypeOK, Row
      <3> QED  BY <3>1, <3>2 DEF Retryable
    <2>3. s \in {"pending", "failed", "dispatched"}
      OBVIOUS
    <2> HIDE DEF r, s
    <2> QED  BY <1>1, <1>2, <1>3, <2>1, <2>2, <2>3, StatusStep
  <1>6. CASE ~DrainMark(w) /\ ~DrainQueue(w) /\ ~DrainFail(w)
    <2>1. row' = row
      BY <1>6 DEF DrainStep, DrainCrash, DrainLoad, DrainSend, DrainRaises, DrainAborts,
             DrainFailDoc, dbVars
    <2> QED  BY <1>1, <1>2, <1>3, <2>1, QuietStep
  <1> QED  BY <1>4, <1>5, <1>6

\* The steps of users, workers and crashes, and claims, keep ClaimInv.
LEMMA OtherClaim ==
    ASSUME TypeInv, TypeInv', ClaimInv,
           \/ \E c \in Requests, k \in Kinds, d \in Docs : Begin(c, k, d)
           \/ \E t \in Requests : WorkerStep(t) \/ WorkerCrash(t)
           \/ \E d \in Docs : DeleteDocument(d)
           \/ UNCHANGED vars
    PROVE  ClaimInv'
  <1>1. ASSUME NEW c \in Requests, NEW k \in Kinds, NEW d \in Docs, Begin(c, k, d)
        PROVE  ClaimInv'
    <2> USE DEF TypeInv, TypeOK, ClaimInv
    <2>1. /\ row' = row /\ held' = held /\ rpc[c] = "new"
          /\ rpc' = [rpc EXCEPT ![c] = "loaded"] /\ rdoc' = [rdoc EXCEPT ![c] = d]
      BY <1>1 DEF Begin, Goto, drainVars
    <2>2. row[c].status = "none"
      BY <2>1 DEF Fresh
    <2>3. Fresh'
      BY <2>1 DEF Fresh
    <2>4. HeldBound' /\ ClaimExclusive' /\ FailedIsExhausted'
      BY <2>1 DEF HeldBound, ClaimExclusive, FailedIsExhausted, RowExists
    <2>5. OneActiveRow'
      BY <2>1, <2>2 DEF OneActiveRow, ActiveRowsOf, ActiveStatus
    <2> QED  BY <2>3, <2>4, <2>5
  <1>2. ASSUME NEW t \in Requests, WorkerStep(t) \/ WorkerCrash(t)
        PROVE  ClaimInv'
    <2>1. row' = row /\ held' = held /\ rpc' = rpc /\ rdoc' = rdoc
      BY <1>2 DEF WorkerStep, WorkerCrash, StartJob, FinishJob, requestVars, drainVars, dbVars
    <2> QED  BY <2>1, QuietStep DEF HeldShrinks, FreshShrinks
  <1>3. ASSUME NEW d \in Docs, DeleteDocument(d)
        PROVE  ClaimInv'
    <2> USE DEF TypeInv, TypeOK, ClaimInv
    <2>1. /\ held' = held /\ rpc' = rpc /\ rdoc' = rdoc
          /\ \A r \in Requests : \/ row'[r] = row[r]
                                 \/ row'[r].status = "none"
      BY <1>3 DEF DeleteDocument, requestVars, drainVars
    <2>2. Fresh'
      BY <2>1 DEF Fresh
    <2>3. HeldBound' /\ ClaimExclusive'
      BY <2>1, ShrinkStep DEF HeldShrinks, RowExists
    <2>4. FailedIsExhausted'
      BY <2>1 DEF FailedIsExhausted
    <2>5. \A e \in Docs : ActiveRowsOf(e)' \subseteq ActiveRowsOf(e)
      BY <2>1 DEF ActiveRowsOf, ActiveStatus
    <2>6. OneActiveRow'
      BY <2>5 DEF OneActiveRow
    <2> QED  BY <2>2, <2>3, <2>4, <2>6
  <1>4. CASE UNCHANGED vars
    BY <1>4, QuietStep DEF vars, dbVars, requestVars, drainVars, HeldShrinks, FreshShrinks
  <1> QED  BY <1>1, <1>2, <1>3, <1>4

\* ClaimInv is inductive relative to TypeInv.
LEMMA NextClaim == TypeInv /\ ClaimInv /\ [Next]_vars => ClaimInv'
  <1> SUFFICES ASSUME TypeInv, ClaimInv, [Next]_vars
               PROVE  ClaimInv'
    OBVIOUS
  <1>1. TypeInv'
    BY NextType
  <1> QED  BY <1>1, RequestClaim, ClaimStep, DrainClaim, OtherClaim DEF Next

\* ClaimInv holds in every reachable state.
LEMMA ClaimInvariance == Spec => []ClaimInv
  BY InitClaim, NextClaim, TypeInvariance, PTL DEF Spec

\* Two drains never work on the same claim of a row.
THEOREM ClaimsAreExclusive == Spec => []ClaimExclusive
  BY ClaimInvariance, PTL DEF ClaimInv

\* A row is given up only after the last of its attempts.
THEOREM FailedRowsAreExhausted == Spec => []FailedIsExhausted
  BY ClaimInvariance, PTL DEF ClaimInv

\* A document has one active row at most.
THEOREM ActiveRowIsUnique == Spec => []OneActiveRow
  BY ClaimInvariance, PTL DEF ClaimInv

=============================================================================
