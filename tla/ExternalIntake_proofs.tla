----------------------- MODULE ExternalIntake_proofs -----------------------
(***************************************************************************)
(* What the intake guarantees for any number of keys, deliveries, retries  *)
(* and lost calls.                                                         *)
(***************************************************************************)
EXTENDS ExternalIntake, TLAPS

USE ExternalIntakeAssumption DEF Calls

\* Where a call is at work on its record.
Active == {"ingest", "mark", "fail"}

\* A call that works on a record knows it, and has a document exactly when it is about to mark.
CallInv ==
    \A c \in Calls :
        /\ call[c].pc \in Active => call[c].item \in Items
        /\ call[c].pc \in {"new", "create", "ingest", "fail"} => doc[c] = "none"
        /\ call[c].pc = "mark" => doc[c] # "none"
        /\ c \in Retries => call[c].pc # "create"
        /\ doc[c] # "none" => call[c].item \in Items

\* A record belongs to the delivery that inserted it, and only that works on it.
OwnerInv ==
    /\ \A r \in Deliveries :
         (call[r].pc \in Active \/ doc[r] # "none") => call[r].item = r
    /\ \A i \in Items :
         call[i].item = i /\ item[i].key = call[i].key /\ call[i].pc \notin {"new", "create"}

\* No two records share an idempotency key.
KeyInv == \A i, j \in Items : item[i].key = item[j].key /\ item[i].key # None => i = j

\* Retries work on records that have left RECEIVED, deliveries on those that have not.
StatusInv ==
    /\ \A i \in Items : call[i].pc \in Active => item[i].status = "RECEIVED"
    /\ \A c \in Retries :
         (call[c].pc \in Active \/ doc[c] # "none") => item[call[c].item].status # "RECEIVED"

\* An undisturbed record has one retry at a time; it is FAILED meanwhile, and a FAILED record has
\* no document but the one such a retry is about to mark.
RetryInv ==
    \A i \in Items \ disturbed :
        /\ \A c, d \in Retrying(i) : c = d
        /\ Retrying(i) # {} => item[i].status = "FAILED"
        /\ item[i].status = "FAILED" => \A c \in Made(i) : c \in Retries /\ call[c].pc = "mark"

\* The inductive invariant.
IntakeInv ==
    /\ TypeOK /\ CallInv /\ OwnerInv /\ KeyInv /\ StatusInv /\ RetryInv
    /\ OneDocumentPerItem /\ LinkIsSound /\ SettledIsAnswered

-----------------------------------------------------------------------------
(* Types.                                                                  *)

\* The actions of one call, and of the owner on the document it made.
CallStep(c) ==
    \/ MakeDocument(c) \/ IngestRaises(c) \/ MarkQueued(c) \/ MarkRefused(c) \/ MarkFailed(c)
    \/ Lost(c) \/ Delete(c)

\* Each step keeps the types, since a call that works on a record knows it.
LEMMA StepType == IntakeInv /\ [Next]_vars => TypeOK'
  <1> SUFFICES ASSUME IntakeInv, [Next]_vars
               PROVE  TypeOK'
    OBVIOUS
  <1> USE DEF IntakeInv, TypeOK
  <1>1. ASSUME NEW c \in Calls, call[c].pc \in Active
        PROVE  call[c].item \in Deliveries
    BY <1>1 DEF CallInv, Items
  <1>2. ASSUME NEW c \in Calls, NEW pc \in Running \cup {"done", "raised", "lost"}, Goto(c, pc)
        PROVE  call' \in [Calls -> CallRecord]
    BY <1>2 DEF Goto, CallRecord, Running
  <1>3. ASSUME NEW c \in Calls, NEW pc \in {"ingest", "done"}, NEW i \in Deliveries,
               call' = [call EXCEPT ![c].pc = pc, ![c].item = i]
        PROVE  call' \in [Calls -> CallRecord]
    <2>1. call[c] \in CallRecord
      OBVIOUS
    <2> QED  BY <1>3, <2>1 DEF CallRecord, Running
  <1>4. ASSUME NEW c \in Calls, Disturb(c)
        PROVE  disturbed' \subseteq Deliveries
    BY <1>1, <1>4 DEF Disturb, Active
  <1>5. ASSUME NEW r \in Deliveries, Deliver(r)
        PROVE  TypeOK'
    BY <1>5 DEF Deliver, WithKey, Items, CallRecord, Running
  <1>6. ASSUME NEW r \in Deliveries, Create(r)
        PROVE  TypeOK'
    <2>1. call[r] \in CallRecord
      OBVIOUS
    <2>2. [status |-> "RECEIVED", key |-> call[r].key, doc |-> None] \in Record
      BY <2>1 DEF CallRecord, Record
    <2>3. item' \in [Deliveries -> Record]
      BY <1>6, <2>2 DEF Create
    <2>4. call' \in [Calls -> CallRecord]
      BY <1>6, <1>3 DEF Create, Conflict, WithKey, Items
    <2> QED  BY <1>6, <2>3, <2>4 DEF Create
  <1>7. ASSUME NEW c \in Retries, NEW i \in Deliveries, Retry(c, i)
        PROVE  TypeOK'
    <2>1. call' \in [Calls -> CallRecord]
      BY <1>7, <1>3 DEF Retry
    <2> QED  BY <1>7, <2>1 DEF Retry
  <1>8. ASSUME NEW c \in Calls, CallStep(c)
        PROVE  TypeOK'
    <2>1. CASE MakeDocument(c)
      BY <2>1, <1>2 DEF MakeDocument, Running
    <2>2. CASE IngestRaises(c)
      BY <2>2, <1>2 DEF IngestRaises, Running
    <2>3. CASE MarkQueued(c)
      <3>1. item' \in [Deliveries -> Record]
        BY <2>3, ZenonT(30) DEF MarkQueued, Record
      <3> QED  BY <2>3, <3>1, <1>2 DEF MarkQueued
    <2>4. CASE MarkRefused(c)
      BY <2>4, <1>2, <1>4 DEF MarkRefused
    <2>5. CASE MarkFailed(c)
      <3>1. item' \in [Deliveries -> Record]
        BY <2>5 DEF MarkFailed, Record
      <3> QED  BY <2>5, <3>1, <1>2 DEF MarkFailed
    <2>6. CASE Lost(c)
      BY <2>6, <1>2, <1>4 DEF Lost
    <2>7. CASE Delete(c)
      <3>1. item' \in [Deliveries -> Record]
        BY <2>7 DEF Delete, Unlinked, Record
      <3> QED  BY <2>7, <3>1 DEF Delete
    <2> QED  BY <1>8, <2>1, <2>2, <2>3, <2>4, <2>5, <2>6, <2>7 DEF CallStep
  <1>9. CASE UNCHANGED vars
    BY <1>9 DEF vars
  <1> QED  BY <1>5, <1>6, <1>7, <1>8, <1>9 DEF Next, CallStep

-----------------------------------------------------------------------------
(* The conjuncts.                                                          *)

\* A call keeps hold of its record, and no call makes a document twice.
LEMMA StepCall == IntakeInv /\ [Next]_vars => CallInv'
  <1> SUFFICES ASSUME IntakeInv, [Next]_vars
               PROVE  CallInv'
    OBVIOUS
  <1> USE DEF IntakeInv, TypeOK, CallInv, Items, Record, CallRecord, Active
  <1>1. ASSUME NEW r \in Deliveries, Deliver(r)
        PROVE  CallInv'
    BY <1>1 DEF Deliver, WithKey
  <1>2. ASSUME NEW r \in Deliveries, Create(r)
        PROVE  CallInv'
    BY <1>2 DEF Create, Conflict, WithKey
  <1>3. ASSUME NEW c \in Retries, NEW i \in Deliveries, Retry(c, i)
        PROVE  CallInv'
    BY <1>3 DEF Retry, Retryable
  <1>4. ASSUME NEW c \in Calls, MakeDocument(c)
        PROVE  CallInv'
    BY <1>4 DEF MakeDocument, Goto
  <1>5. ASSUME NEW c \in Calls, IngestRaises(c)
        PROVE  CallInv'
    BY <1>5 DEF IngestRaises, Goto
  <1>6. ASSUME NEW c \in Calls, MarkQueued(c)
        PROVE  CallInv'
    BY <1>6 DEF MarkQueued, Goto
  <1>7. ASSUME NEW c \in Calls, MarkRefused(c)
        PROVE  CallInv'
    BY <1>7 DEF MarkRefused, Goto, Disturb
  <1>8. ASSUME NEW c \in Calls, MarkFailed(c)
        PROVE  CallInv'
    BY <1>8 DEF MarkFailed, Goto
  <1>9. ASSUME NEW c \in Calls, Lost(c)
        PROVE  CallInv'
    BY <1>9 DEF Lost, Goto, Disturb, Running
  <1>10. ASSUME NEW c \in Calls, Delete(c)
        PROVE  CallInv'
    BY <1>10 DEF Delete, Unlinked
  <1>11. CASE UNCHANGED vars
    BY <1>11 DEF vars
  <1> QED  BY <1>1, <1>2, <1>3, <1>4, <1>5, <1>6, <1>7, <1>8, <1>9, <1>10, <1>11 DEF Next

\* Records stay with the delivery that inserted them.
LEMMA StepOwner == IntakeInv /\ [Next]_vars => OwnerInv'
  <1> SUFFICES ASSUME IntakeInv, [Next]_vars
               PROVE  OwnerInv'
    OBVIOUS
  <1> USE DEF IntakeInv, TypeOK, CallInv, OwnerInv, Items, Record, CallRecord, Active
  <1>1. ASSUME NEW r \in Deliveries, Deliver(r)
        PROVE  OwnerInv'
    BY <1>1 DEF Deliver, WithKey
  <1>2. ASSUME NEW r \in Deliveries, Create(r)
        PROVE  OwnerInv'
    BY <1>2 DEF Create, Conflict, WithKey
  <1>3. ASSUME NEW c \in Retries, NEW i \in Deliveries, Retry(c, i)
        PROVE  OwnerInv'
    BY <1>3 DEF Retry, Retryable
  <1>4. ASSUME NEW c \in Calls, MakeDocument(c)
        PROVE  OwnerInv'
    BY <1>4 DEF MakeDocument, Goto
  <1>5. ASSUME NEW c \in Calls, IngestRaises(c)
        PROVE  OwnerInv'
    BY <1>5 DEF IngestRaises, Goto
  <1>6. ASSUME NEW c \in Calls, MarkQueued(c)
        PROVE  OwnerInv'
    BY <1>6 DEF MarkQueued, Goto
  <1>7. ASSUME NEW c \in Calls, MarkRefused(c)
        PROVE  OwnerInv'
    BY <1>7 DEF MarkRefused, Goto, Disturb
  <1>8. ASSUME NEW c \in Calls, MarkFailed(c)
        PROVE  OwnerInv'
    BY <1>8 DEF MarkFailed, Goto
  <1>9. ASSUME NEW c \in Calls, Lost(c)
        PROVE  OwnerInv'
    BY <1>9 DEF Lost, Goto, Disturb, Running
  <1>10. ASSUME NEW c \in Calls, Delete(c)
        PROVE  OwnerInv'
    BY <1>10 DEF Delete, Unlinked
  <1>11. CASE UNCHANGED vars
    BY <1>11 DEF vars
  <1> QED  BY <1>1, <1>2, <1>3, <1>4, <1>5, <1>6, <1>7, <1>8, <1>9, <1>10, <1>11 DEF Next

\* The unique index keeps the keys apart: a delivery that finds its key taken inserts nothing.
LEMMA StepKey == IntakeInv /\ [Next]_vars => KeyInv'
  <1> SUFFICES ASSUME IntakeInv, [Next]_vars
               PROVE  KeyInv'
    OBVIOUS
  <1> USE DEF IntakeInv, TypeOK, CallInv, KeyInv, OwnerInv, Items, Record, CallRecord, Active
  <1>1. ASSUME NEW r \in Deliveries, Deliver(r)
        PROVE  KeyInv'
    BY <1>1 DEF Deliver, WithKey
  <1>2. ASSUME NEW r \in Deliveries, Create(r)
        PROVE  KeyInv'
    BY <1>2 DEF Create, Conflict, WithKey
  <1>3. ASSUME NEW c \in Retries, NEW i \in Deliveries, Retry(c, i)
        PROVE  KeyInv'
    BY <1>3 DEF Retry, Retryable
  <1>4. ASSUME NEW c \in Calls, MakeDocument(c)
        PROVE  KeyInv'
    BY <1>4 DEF MakeDocument, Goto
  <1>5. ASSUME NEW c \in Calls, IngestRaises(c)
        PROVE  KeyInv'
    BY <1>5 DEF IngestRaises, Goto
  <1>6. ASSUME NEW c \in Calls, MarkQueued(c)
        PROVE  KeyInv'
    BY <1>6 DEF MarkQueued, Goto
  <1>7. ASSUME NEW c \in Calls, MarkRefused(c)
        PROVE  KeyInv'
    BY <1>7 DEF MarkRefused, Goto, Disturb
  <1>8. ASSUME NEW c \in Calls, MarkFailed(c)
        PROVE  KeyInv'
    BY <1>8 DEF MarkFailed, Goto
  <1>9. ASSUME NEW c \in Calls, Lost(c)
        PROVE  KeyInv'
    BY <1>9 DEF Lost, Goto, Disturb, Running
  <1>10. ASSUME NEW c \in Calls, Delete(c)
        PROVE  KeyInv'
    BY <1>10 DEF Delete, Unlinked
  <1>11. CASE UNCHANGED vars
    BY <1>11 DEF vars
  <1> QED  BY <1>1, <1>2, <1>3, <1>4, <1>5, <1>6, <1>7, <1>8, <1>9, <1>10, <1>11 DEF Next

\* Only the delivery itself takes a record out of RECEIVED, and nothing puts it back.
LEMMA StepStatus == IntakeInv /\ [Next]_vars => StatusInv'
  <1> SUFFICES ASSUME IntakeInv, [Next]_vars
               PROVE  StatusInv'
    OBVIOUS
  <1> USE DEF IntakeInv, TypeOK, CallInv, OwnerInv, StatusInv, Items, Record, CallRecord, Active
  <1>1. ASSUME NEW r \in Deliveries, Deliver(r)
        PROVE  StatusInv'
    BY <1>1 DEF Deliver, WithKey
  <1>2. ASSUME NEW r \in Deliveries, Create(r)
        PROVE  StatusInv'
    <2>1. r \notin Items /\ doc[r] = "none" /\ r \notin Retries
      BY <1>2 DEF Create
    <2>2. \A c \in Calls : c # r => call'[c] = call[c]
      BY <1>2 DEF Create
    <2>3. \A i \in Deliveries : i # r => item'[i] = item[i]
      BY <1>2 DEF Create
    <2>4. UNCHANGED <<doc, disturbed>>
      BY <1>2 DEF Create
    <2>5. CASE item' = [item EXCEPT ![r] = [status |-> "RECEIVED", key |-> call[r].key, doc |-> None]]
      BY <2>1, <2>2, <2>3, <2>4, <2>5
    <2>6. CASE UNCHANGED item
      BY <2>1, <2>2, <2>3, <2>4, <2>6
    <2> QED  BY <1>2, <2>5, <2>6 DEF Create
  <1>3. ASSUME NEW c \in Retries, NEW i \in Deliveries, Retry(c, i)
        PROVE  StatusInv'
    BY <1>3 DEF Retry, Retryable
  <1>4. ASSUME NEW c \in Calls, MakeDocument(c)
        PROVE  StatusInv'
    BY <1>4 DEF MakeDocument, Goto
  <1>5. ASSUME NEW c \in Calls, IngestRaises(c)
        PROVE  StatusInv'
    BY <1>5 DEF IngestRaises, Goto
  <1>6. ASSUME NEW c \in Calls, MarkQueued(c)
        PROVE  StatusInv'
    BY <1>6 DEF MarkQueued, Goto
  <1>7. ASSUME NEW c \in Calls, MarkRefused(c)
        PROVE  StatusInv'
    BY <1>7 DEF MarkRefused, Goto, Disturb
  <1>8. ASSUME NEW c \in Calls, MarkFailed(c)
        PROVE  StatusInv'
    BY <1>8 DEF MarkFailed, Goto
  <1>9. ASSUME NEW c \in Calls, Lost(c)
        PROVE  StatusInv'
    BY <1>9 DEF Lost, Goto, Disturb, Running
  <1>10. ASSUME NEW c \in Calls, Delete(c)
        PROVE  StatusInv'
    BY <1>10 DEF Delete, Unlinked
  <1>11. CASE UNCHANGED vars
    BY <1>11 DEF vars
  <1> QED  BY <1>1, <1>2, <1>3, <1>4, <1>5, <1>6, <1>7, <1>8, <1>9, <1>10, <1>11 DEF Next

\* Until a record is disturbed its retries follow one another, each from FAILED without a document.
LEMMA StepRetry == IntakeInv /\ [Next]_vars => RetryInv'
  <1> SUFFICES ASSUME IntakeInv, [Next]_vars
               PROVE  RetryInv'
    OBVIOUS
  <1> USE DEF IntakeInv, TypeOK, CallInv, OwnerInv, StatusInv, RetryInv,
              Made, Retrying, Items, Record, CallRecord, Active, Running
  <1>1. ASSUME NEW r \in Deliveries, Deliver(r)
        PROVE  RetryInv'
    BY <1>1 DEF Deliver, WithKey
  <1>2. ASSUME NEW r \in Deliveries, Create(r)
        PROVE  RetryInv'
    <2>1. r \notin Items /\ doc[r] = "none" /\ r \notin Retries
      BY <1>2 DEF Create
    <2>2. \A c \in Calls : c # r => call'[c] = call[c]
      BY <1>2 DEF Create
    <2>3. \A i \in Deliveries : i # r => item'[i] = item[i]
      BY <1>2 DEF Create
    <2>4. UNCHANGED <<doc, disturbed>>
      BY <1>2 DEF Create
    <2>5. CASE item' = [item EXCEPT ![r] = [status |-> "RECEIVED", key |-> call[r].key, doc |-> None]]
      <3>1. \A i \in Deliveries : Retrying(i)' = Retrying(i) /\ Made(i)' = Made(i)
        BY <2>1, <2>2, <2>4
      <3>2. Retrying(r) = {}
        BY <2>1
      <3>3. Items' = Items \cup {r} /\ item'[r].status = "RECEIVED"
        BY <2>5
      <3> QED  BY <2>1, <2>2, <2>3, <2>4, <3>1, <3>2, <3>3
    <2>6. CASE UNCHANGED item
      BY <2>1, <2>2, <2>3, <2>4, <2>6
    <2> QED  BY <1>2, <2>5, <2>6 DEF Create
  <1>3. ASSUME NEW c \in Retries, NEW i \in Deliveries, Retry(c, i)
        PROVE  RetryInv'
    BY <1>3 DEF Retry, Retryable
  <1>4. ASSUME NEW c \in Calls, MakeDocument(c)
        PROVE  RetryInv'
    BY <1>4 DEF MakeDocument, Goto
  <1>5. ASSUME NEW c \in Calls, IngestRaises(c)
        PROVE  RetryInv'
    BY <1>5 DEF IngestRaises, Goto
  <1>6. ASSUME NEW c \in Calls, MarkQueued(c)
        PROVE  RetryInv'
    BY <1>6 DEF MarkQueued, Goto
  <1>7. ASSUME NEW c \in Calls, MarkRefused(c)
        PROVE  RetryInv'
    BY <1>7 DEF MarkRefused, Goto, Disturb
  <1>8. ASSUME NEW c \in Calls, MarkFailed(c)
        PROVE  RetryInv'
    BY <1>8 DEF MarkFailed, Goto
  <1>9. ASSUME NEW c \in Calls, Lost(c)
        PROVE  RetryInv'
    BY <1>9 DEF Lost, Goto, Disturb, Running
  <1>10. ASSUME NEW c \in Calls, Delete(c)
        PROVE  RetryInv'
    BY <1>10 DEF Delete, Unlinked
  <1>11. CASE UNCHANGED vars
    BY <1>11 DEF vars
  <1> QED  BY <1>1, <1>2, <1>3, <1>4, <1>5, <1>6, <1>7, <1>8, <1>9, <1>10, <1>11 DEF Next

\* A retry that makes a document finds none, and a delivery makes the first.
LEMMA StepOne == IntakeInv /\ [Next]_vars => OneDocumentPerItem'
  <1> SUFFICES ASSUME IntakeInv, [Next]_vars
               PROVE  OneDocumentPerItem'
    OBVIOUS
  <1> USE DEF IntakeInv, TypeOK, CallInv, OwnerInv, StatusInv, RetryInv, OneDocumentPerItem,
              Made, Retrying, Items, Record, CallRecord, Active, Running
  <1>1. ASSUME NEW r \in Deliveries, Deliver(r)
        PROVE  OneDocumentPerItem'
    BY <1>1 DEF Deliver, WithKey
  <1>2. ASSUME NEW r \in Deliveries, Create(r)
        PROVE  OneDocumentPerItem'
    BY <1>2, SMTT(30) DEF Create, Conflict, WithKey
  <1>3. ASSUME NEW c \in Retries, NEW i \in Deliveries, Retry(c, i)
        PROVE  OneDocumentPerItem'
    BY <1>3 DEF Retry, Retryable
  <1>4. ASSUME NEW c \in Calls, MakeDocument(c)
        PROVE  OneDocumentPerItem'
    BY <1>4 DEF MakeDocument, Goto
  <1>5. ASSUME NEW c \in Calls, IngestRaises(c)
        PROVE  OneDocumentPerItem'
    BY <1>5 DEF IngestRaises, Goto
  <1>6. ASSUME NEW c \in Calls, MarkQueued(c)
        PROVE  OneDocumentPerItem'
    BY <1>6 DEF MarkQueued, Goto
  <1>7. ASSUME NEW c \in Calls, MarkRefused(c)
        PROVE  OneDocumentPerItem'
    BY <1>7 DEF MarkRefused, Goto, Disturb
  <1>8. ASSUME NEW c \in Calls, MarkFailed(c)
        PROVE  OneDocumentPerItem'
    BY <1>8 DEF MarkFailed, Goto
  <1>9. ASSUME NEW c \in Calls, Lost(c)
        PROVE  OneDocumentPerItem'
    BY <1>9 DEF Lost, Goto, Disturb, Running
  <1>10. ASSUME NEW c \in Calls, Delete(c)
        PROVE  OneDocumentPerItem'
    BY <1>10 DEF Delete, Unlinked
  <1>11. CASE UNCHANGED vars
    BY <1>11 DEF vars
  <1> QED  BY <1>1, <1>2, <1>3, <1>4, <1>5, <1>6, <1>7, <1>8, <1>9, <1>10, <1>11 DEF Next

\* Marks link a document that is there, and its deletion unlinks it.
LEMMA StepLink == IntakeInv /\ [Next]_vars => LinkIsSound'
  <1> SUFFICES ASSUME IntakeInv, [Next]_vars
               PROVE  LinkIsSound'
    OBVIOUS
  <1> USE DEF IntakeInv, TypeOK, CallInv, OwnerInv, LinkIsSound, Made, Items, Record, CallRecord, Active
  <1>1. ASSUME NEW r \in Deliveries, Deliver(r)
        PROVE  LinkIsSound'
    BY <1>1 DEF Deliver, WithKey
  <1>2. ASSUME NEW r \in Deliveries, Create(r)
        PROVE  LinkIsSound'
    BY <1>2 DEF Create, Conflict, WithKey
  <1>3. ASSUME NEW c \in Retries, NEW i \in Deliveries, Retry(c, i)
        PROVE  LinkIsSound'
    <2>1. \A d \in Calls : doc[d] # "none" => call'[d] = call[d]
      BY <1>3 DEF Retry
    <2> QED  BY <1>3, <2>1 DEF Retry
  <1>4. ASSUME NEW c \in Calls, MakeDocument(c)
        PROVE  LinkIsSound'
    BY <1>4 DEF MakeDocument, Goto
  <1>5. ASSUME NEW c \in Calls, IngestRaises(c)
        PROVE  LinkIsSound'
    BY <1>5 DEF IngestRaises, Goto
  <1>6. ASSUME NEW c \in Calls, MarkQueued(c)
        PROVE  LinkIsSound'
    BY <1>6 DEF MarkQueued, Goto
  <1>7. ASSUME NEW c \in Calls, MarkRefused(c)
        PROVE  LinkIsSound'
    BY <1>7 DEF MarkRefused, Goto, Disturb
  <1>8. ASSUME NEW c \in Calls, MarkFailed(c)
        PROVE  LinkIsSound'
    BY <1>8 DEF MarkFailed, Goto
  <1>9. ASSUME NEW c \in Calls, Lost(c)
        PROVE  LinkIsSound'
    BY <1>9 DEF Lost, Goto, Disturb, Running
  <1>10. ASSUME NEW c \in Calls, Delete(c)
        PROVE  LinkIsSound'
    BY <1>10 DEF Delete, Unlinked
  <1>11. CASE UNCHANGED vars
    BY <1>11 DEF vars
  <1> QED  BY <1>1, <1>2, <1>3, <1>4, <1>5, <1>6, <1>7, <1>8, <1>9, <1>10, <1>11 DEF Next

\* A delivery that ends with neither mark was lost or refused for a deleted document.
LEMMA StepSettled == IntakeInv /\ [Next]_vars => SettledIsAnswered'
  <1> SUFFICES ASSUME IntakeInv, [Next]_vars
               PROVE  SettledIsAnswered'
    OBVIOUS
  <1> USE DEF IntakeInv, TypeOK, CallInv, OwnerInv, SettledIsAnswered, Items, Record, CallRecord, Active, Running
  <1>1. ASSUME NEW r \in Deliveries, Deliver(r)
        PROVE  SettledIsAnswered'
    BY <1>1 DEF Deliver, WithKey
  <1>2. ASSUME NEW r \in Deliveries, Create(r)
        PROVE  SettledIsAnswered'
    BY <1>2 DEF Create, Conflict, WithKey
  <1>3. ASSUME NEW c \in Retries, NEW i \in Deliveries, Retry(c, i)
        PROVE  SettledIsAnswered'
    BY <1>3 DEF Retry, Retryable
  <1>4. ASSUME NEW c \in Calls, MakeDocument(c)
        PROVE  SettledIsAnswered'
    BY <1>4 DEF MakeDocument, Goto
  <1>5. ASSUME NEW c \in Calls, IngestRaises(c)
        PROVE  SettledIsAnswered'
    BY <1>5 DEF IngestRaises, Goto
  <1>6. ASSUME NEW c \in Calls, MarkQueued(c)
        PROVE  SettledIsAnswered'
    BY <1>6 DEF MarkQueued, Goto
  <1>7. ASSUME NEW c \in Calls, MarkRefused(c)
        PROVE  SettledIsAnswered'
    BY <1>7 DEF MarkRefused, Goto, Disturb
  <1>8. ASSUME NEW c \in Calls, MarkFailed(c)
        PROVE  SettledIsAnswered'
    BY <1>8 DEF MarkFailed, Goto
  <1>9. ASSUME NEW c \in Calls, Lost(c)
        PROVE  SettledIsAnswered'
    BY <1>9 DEF Lost, Goto, Disturb, Running
  <1>10. ASSUME NEW c \in Calls, Delete(c)
        PROVE  SettledIsAnswered'
    BY <1>10 DEF Delete, Unlinked
  <1>11. CASE UNCHANGED vars
    BY <1>11 DEF vars
  <1> QED  BY <1>1, <1>2, <1>3, <1>4, <1>5, <1>6, <1>7, <1>8, <1>9, <1>10, <1>11 DEF Next

-----------------------------------------------------------------------------
(* The theorems.                                                           *)

\* At first there are no records, and no call has begun.
LEMMA InitInv == Init => IntakeInv
  <1> SUFFICES ASSUME Init
               PROVE  IntakeInv
    OBVIOUS
  <1> USE DEF Init, NoItem, NewCall
  <1>1. TypeOK
    BY DEF TypeOK, Record, CallRecord
  <1>2. Items = {}
    BY DEF Items
  <1>3. CallInv /\ OwnerInv /\ KeyInv /\ StatusInv /\ RetryInv
    BY <1>2 DEF CallInv, OwnerInv, KeyInv, StatusInv, RetryInv, Active
  <1>4. OneDocumentPerItem /\ LinkIsSound /\ SettledIsAnswered
    BY <1>2 DEF OneDocumentPerItem, LinkIsSound, SettledIsAnswered, Made
  <1> QED  BY <1>1, <1>3, <1>4 DEF IntakeInv

\* The inductive invariant.
THEOREM IntakeIsInductive == Spec => []IntakeInv
  <1>1. IntakeInv /\ [Next]_vars => IntakeInv'
    BY StepType, StepCall, StepOwner, StepKey, StepStatus, StepRetry, StepOne, StepLink, StepSettled
       DEF IntakeInv
  <1> QED  BY <1>1, InitInv, PTL DEF Spec

\* Every variable keeps its type, whatever calls interleave.
THEOREM TypeCorrect == Spec => []TypeOK
  BY IntakeIsInductive, PTL DEF IntakeInv

\* However often an item is delivered with one idempotency key, and whatever is lost, its
\* deliveries make one document.
THEOREM DeliveryIsIdempotent == Spec => []DeliveredOnce
  <1>1. IntakeInv => DeliveredOnce
    <2> SUFFICES ASSUME IntakeInv, NEW r \in Deliveries, NEW s \in Deliveries,
                        doc[r] # "none", doc[s] # "none",
                        call[r].key = call[s].key, call[r].key # None
                 PROVE  r = s
      BY DEF DeliveredOnce
    <2>1. r \in Items /\ s \in Items
      BY DEF IntakeInv, CallInv, OwnerInv
    <2>2. item[r].key = call[r].key /\ item[s].key = call[s].key
      BY <2>1 DEF IntakeInv, OwnerInv
    <2> QED  BY <2>1, <2>2 DEF IntakeInv, KeyInv
  <1> QED  BY <1>1, IntakeIsInductive, PTL

\* Retries that follow one another never make a second document of a record.
THEOREM RetriesAreIdempotent == Spec => []OneDocumentPerItem
  BY IntakeIsInductive, PTL DEF IntakeInv

\* No record points to a document that is gone or was made for another record.
THEOREM LinksAreSound == Spec => []LinkIsSound
  BY IntakeIsInductive, PTL DEF IntakeInv

\* A record that stays RECEIVED had its delivery lost, or its document deleted at once.
THEOREM EveryDeliveryIsAnswered == Spec => []SettledIsAnswered
  BY IntakeIsInductive, PTL DEF IntakeInv

=============================================================================
