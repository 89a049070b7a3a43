--------------------------- MODULE Knowledge_proofs ---------------------------
(*****************************************************************************)
(* What the system says of documents, for any of them: their status, the     *)
(* conflicts and the graph between them, the comparison of two collections,  *)
(* the gaps of one, the sources of an answer; and what the program says of   *)
(* itself, by its metrics and its evaluations.                               *)
(*****************************************************************************)
EXTENDS Conflicts, StatusCache, KnowledgeGraph, Compare, Statistics, CollectionView, Metrics,
        Extraction, Chunker, Answering, Evaluation, Integers, FiniteSetTheorems, SequenceTheorems, WellFoundedInduction, TLAPS

-----------------------------------------------------------------------------

(* The inductive invariant: while no text has changed, what a detection    *)
(* carries is what the documents it read say, what is kept for a living    *)
(* document of a conflict is all it says, and a conflict names documents   *)
(* that say both things.                                                   *)

\* Claims a document makes, as pairs.
Said(docs) == {f \in docs \X Polarity : f[2] \in stance[f[1]]}

\* What a detection carries is what the texts it read say; ...
CarriedInv ==
    \A k \in Detections : detection[k].pc \in {"check", "persist"} =>
        detection[k].found = Said(detection[k].read)

\* ... what the model confirmed has claims of both polarities; ...
ConfirmedInv ==
    \A k \in Detections :
        detection[k].pc = "persist" /\ detection[k].real => Opposed(detection[k].found)

\* ... the claims of what is kept are stored; ...
KeptInv ==
    \A s \in Scopes : \A d \in conflict[s] \cap alive : \A p \in stance[d] :
        [document |-> d, polarity |-> p] \in claims

\* ... and the documents that a conflict names take both sides.
NamedInv ==
    \A s \in Scopes : conflict[s] # {} =>
        \A p \in Polarity : \E d \in conflict[s] : p \in stance[d]

\* The invariant; an edit of a text unsettles what was detected in it.
Settled == CarriedInv /\ ConfirmedInv /\ KeptInv /\ NamedInv

ConflictsInv == ConflictsTypeOK /\ (unsettled \/ Settled)

-----------------------------------------------------------------------------

\* What Scan collects document by document is what its documents say.
LEMMA CollectedIsSaid ==
    ASSUME ConflictsTypeOK, NEW docs \in SUBSET Sources
    PROVE  UNION {{d} \X stance[d] : d \in docs} = Said(docs)
<1>1. \A d \in docs : stance[d] \subseteq Polarity
  BY DEF ConflictsTypeOK
<1>2. ASSUME NEW f \in UNION {{d} \X stance[d] : d \in docs}
      PROVE  f \in Said(docs)
  <2>1. PICK d \in docs : f \in {d} \X stance[d]
    OBVIOUS
  <2> QED BY <2>1, <1>1 DEF Said
<1>3. ASSUME NEW f \in Said(docs)
      PROVE  f \in UNION {{d} \X stance[d] : d \in docs}
  <2>1. f \in docs \X Polarity /\ f[2] \in stance[f[1]]
    BY DEF Said
  <2>2. f = <<f[1], f[2]>> /\ f[1] \in docs
    BY <2>1
  <2>3. f \in {f[1]} \X stance[f[1]]
    BY <2>1, <2>2
  <2> QED BY <2>2, <2>3
<1> QED BY <1>2, <1>3

\* Whom a detection names makes a claim, and has been read.
LEMMA NamedIsRead ==
    ASSUME NEW docs \in SUBSET Sources, NEW d
    PROVE  d \in Named(Said(docs)) <=> d \in docs /\ \E p \in Polarity : p \in stance[d]
<1>1. ASSUME d \in Named(Said(docs))
      PROVE  d \in docs /\ \E p \in Polarity : p \in stance[d]
  <2>1. PICK f \in Said(docs) : d = f[1]
    BY <1>1 DEF Named
  <2>2. f \in docs \X Polarity /\ f[2] \in stance[f[1]]
    BY DEF Said
  <2> QED BY <2>1, <2>2
<1>2. ASSUME d \in docs, NEW p \in Polarity, p \in stance[d]
      PROVE  d \in Named(Said(docs))
  <2>1. <<d, p>> \in Said(docs) /\ <<d, p>>[1] = d
    BY <1>2 DEF Said
  <2> QED BY <2>1 DEF Named
<1> QED BY <1>1, <1>2

-----------------------------------------------------------------------------
(* Types.                                                                  *)

\* The types: at first, ...
LEMMA InitTypes == ConflictsInit => ConflictsTypeOK
<1> SUFFICES ASSUME ConflictsInit PROVE ConflictsTypeOK
  OBVIOUS
<1>1. NewDetection \in [pc : {"new", "check", "persist", "done"}, scope : Scopes,
          read : SUBSET Sources, found : SUBSET (Sources \X Polarity), real : BOOLEAN]
  BY DEF NewDetection, Scopes
<1> QED BY <1>1 DEF ConflictsInit, ConflictsTypeOK

\* ... when a detection reads the claims, ...
LEMMA ScanTypes ==
    ASSUME ConflictsTypeOK, NEW k \in Detections, NEW s \in Scopes, Scan(k, s)
    PROVE  ConflictsTypeOK'
<1> DEFINE docs == {d \in alive : s \in {binder[d], Everything}}
           r == [NewDetection EXCEPT !.pc = "check", !.scope = s, !.read = docs,
                     !.found = UNION {{d} \X stance[d] : d \in docs}]
<1>1. docs \in SUBSET Sources
  BY DEF ConflictsTypeOK
<1>2. UNION {{d} \X stance[d] : d \in docs} \in SUBSET (Sources \X Polarity)
  <2> HIDE DEF docs
  <2> QED BY <1>1, CollectedIsSaid DEF Said
<1>3. r \in [pc : {"new", "check", "persist", "done"}, scope : Scopes,
          read : SUBSET Sources, found : SUBSET (Sources \X Polarity), real : BOOLEAN]
  <2> HIDE DEF docs
  <2> QED BY <1>1, <1>2 DEF NewDetection
<1>4. detection' = [detection EXCEPT ![k] = r]
  BY DEF Scan
<1>5. UNCHANGED <<stance, alive, binder, claims, conflict, unsettled>>
  BY DEF Scan
<1> HIDE DEF r
<1> QED BY <1>3, <1>4, <1>5 DEF ConflictsTypeOK

\* ... judges them, ...
LEMMA JudgeTypes ==
    ASSUME ConflictsTypeOK, NEW k \in Detections, Judge(k)
    PROVE  ConflictsTypeOK'
<1> DEFINE T == [pc : {"new", "check", "persist", "done"}, scope : Scopes,
                 read : SUBSET Sources, found : SUBSET (Sources \X Polarity), real : BOOLEAN]
<1>1. detection \in [Detections -> T] /\ Opposed(detection[k].found) \in BOOLEAN
  BY DEF ConflictsTypeOK, Opposed
<1>2. detection' \in [Detections -> T]
  <2>1. ASSUME NEW confirmed \in BOOLEAN,
               detection' = [detection EXCEPT ![k].pc = "persist", ![k].real = confirmed]
        PROVE  detection' \in [Detections -> T]
    <3>1. [detection[k] EXCEPT !.pc = "persist", !.real = confirmed] \in T
      BY <1>1
    <3>2. detection' = [detection EXCEPT ![k] = [detection[k] EXCEPT !.pc = "persist", !.real = confirmed]]
      BY <1>1, <2>1
    <3> QED BY <1>1, <3>1, <3>2
  <2>2. ASSUME detection' = [detection EXCEPT ![k] = [NewDetection EXCEPT !.pc = "done"]]
        PROVE  detection' \in [Detections -> T]
    <3>1. [NewDetection EXCEPT !.pc = "done"] \in T
      BY DEF NewDetection, Scopes
    <3> QED BY <1>1, <2>2, <3>1
  <2> QED BY <1>1, <2>1, <2>2 DEF Judge
<1> QED BY <1>2 DEF Judge, ConflictsTypeOK

\* ... writes conflicts, ...
LEMMA PersistTypes ==
    ASSUME ConflictsTypeOK, NEW k \in Detections, Persist(k)
    PROVE  ConflictsTypeOK'
<1> DEFINE T == [pc : {"new", "check", "persist", "done"}, scope : Scopes,
                 read : SUBSET Sources, found : SUBSET (Sources \X Polarity), real : BOOLEAN]
           carried == detection[k].found
<1>1. detection \in [Detections -> T]
  BY DEF ConflictsTypeOK
<1>2. detection' \in [Detections -> T]
  <2>1. [NewDetection EXCEPT !.pc = "done"] \in T
    BY DEF NewDetection, Scopes
  <2> QED BY <1>1, <2>1 DEF Persist
<1>3. carried \in SUBSET (Sources \X Polarity) /\ detection[k].scope \in Scopes
  BY <1>1
<1>4. Named(carried) \in SUBSET Sources
  BY <1>3 DEF Named
<1>5. {[document |-> f[1], polarity |-> f[2]] : f \in carried} \subseteq Claim
  BY <1>3 DEF Claim
<1>6. claims' \subseteq Claim
  BY <1>5 DEF Persist, ConflictsTypeOK
<1>7. conflict' \in [Scopes -> SUBSET Sources]
  <2> DEFINE new == IF detection[k].real THEN Named(carried) ELSE {}
  <2>1. new \in SUBSET Sources
    BY <1>4
  <2>2. conflict' = conflict \/ conflict' = [conflict EXCEPT ![detection[k].scope] = new]
    BY DEF Persist
  <2> HIDE DEF new
  <2> QED BY <2>1, <2>2, <1>3 DEF ConflictsTypeOK
<1> QED BY <1>2, <1>6, <1>7 DEF Persist, ConflictsTypeOK

\* ... and when the owner does something.
LEMMA OwnerTypes ==
    ASSUME ConflictsTypeOK, NEW d \in Sources,
           \/ RemoveSource(d)
           \/ \E s \in SUBSET Polarity : EditSource(d, s)
           \/ \E b \in Binders : MoveSource(d, b)
    PROVE  ConflictsTypeOK'
<1>1. CASE RemoveSource(d)
  BY <1>1 DEF RemoveSource, ConflictsTypeOK
<1>2. ASSUME NEW s \in SUBSET Polarity, EditSource(d, s) PROVE ConflictsTypeOK'
  BY <1>2 DEF EditSource, ConflictsTypeOK
<1>3. ASSUME NEW b \in Binders, MoveSource(d, b) PROVE ConflictsTypeOK'
  BY <1>3 DEF MoveSource, ConflictsTypeOK
<1> QED BY <1>1, <1>2, <1>3

-----------------------------------------------------------------------------
(* The steps that leave every text as it is keep the invariant.            *)

\* A detection carries what the documents it reads say.
LEMMA ScanSettled ==
    ASSUME ConflictsTypeOK, Settled, NEW k \in Detections, NEW s \in Scopes, Scan(k, s)
    PROVE  Settled'
<1> DEFINE docs == {d \in alive : s \in {binder[d], Everything}}
<1>1. docs \in SUBSET Sources
  BY DEF ConflictsTypeOK
<1>2. UNION {{d} \X stance[d] : d \in docs} = Said(docs)
  <2> HIDE DEF docs
  <2> QED BY <1>1, CollectedIsSaid
<1>3. detection' = [detection EXCEPT ![k] = [NewDetection EXCEPT !.pc = "check", !.scope = s,
          !.read = docs, !.found = Said(docs)]]
  BY <1>2 DEF Scan
<1>4. UNCHANGED <<stance, alive, claims, conflict>>
  BY DEF Scan
<1> HIDE DEF docs
<1>5. \A x \in Detections : detection'[x] = IF x = k
          THEN [NewDetection EXCEPT !.pc = "check", !.scope = s, !.read = docs, !.found = Said(docs)]
          ELSE detection[x]
  BY <1>3 DEF ConflictsTypeOK
<1>6. ASSUME NEW x \in Detections, detection'[x].pc \in {"check", "persist"}
      PROVE  detection'[x].found = {f \in detection'[x].read \X Polarity : f[2] \in stance[f[1]]}
  <2>1. CASE x = k
    <3>1. detection'[x].read = docs /\ detection'[x].found = Said(docs)
      BY <1>5, <2>1 DEF NewDetection
    <3> QED BY <3>1 DEF Said
  <2>2. CASE x # k
    BY <1>5, <1>6, <2>2 DEF Settled, CarriedInv, Said
  <2> QED BY <2>1, <2>2
<1>7. CarriedInv'
  BY <1>4, <1>6 DEF CarriedInv, Said
<1>8. ConfirmedInv'
  BY <1>5 DEF Settled, ConfirmedInv, NewDetection, Opposed
<1> QED BY <1>4, <1>7, <1>8 DEF Settled, KeptInv, NamedInv

\* What it confirms are conflicts among them.
LEMMA JudgeSettled ==
    ASSUME ConflictsTypeOK, Settled, NEW k \in Detections, Judge(k)
    PROVE  Settled'
<1>1. UNCHANGED <<stance, alive, claims, conflict>>
  BY DEF Judge
<1>2. \A x \in Detections \ {k} : detection'[x] = detection[x]
  BY DEF Judge, ConflictsTypeOK
<1>3. \/ /\ detection'[k].pc = "persist" /\ detection'[k].found = detection[k].found
         /\ detection'[k].read = detection[k].read
         /\ detection'[k].real => Opposed(detection[k].found)
      \/ detection'[k].pc = "done"
  <2>1. ASSUME NEW confirmed \in {FALSE, Opposed(detection[k].found)},
               detection' = [detection EXCEPT ![k].pc = "persist", ![k].real = confirmed]
        PROVE  /\ detection'[k].pc = "persist" /\ detection'[k].found = detection[k].found
               /\ detection'[k].read = detection[k].read
               /\ detection'[k].real => Opposed(detection[k].found)
    BY <2>1 DEF ConflictsTypeOK
  <2>2. ASSUME detection' = [detection EXCEPT ![k] = [NewDetection EXCEPT !.pc = "done"]]
        PROVE  detection'[k].pc = "done"
    BY <2>2 DEF ConflictsTypeOK, NewDetection
  <2> QED BY <2>1, <2>2 DEF Judge
<1>4. detection[k].pc = "check"
  BY DEF Judge
<1>5. CarriedInv'
  BY <1>1, <1>2, <1>3, <1>4 DEF Settled, CarriedInv, Said
<1>6. ConfirmedInv'
  BY <1>2, <1>3 DEF Settled, ConfirmedInv, Opposed
<1> QED BY <1>1, <1>5, <1>6 DEF Settled, KeptInv, NamedInv

\* The claims of the documents read are replaced by all they say; those of others stay.
LEMMA PersistSettled ==
    ASSUME ConflictsTypeOK, Settled, NEW k \in Detections, Persist(k)
    PROVE  Settled'
<1> DEFINE read == detection[k].read
           carried == detection[k].found
<1>1. /\ UNCHANGED <<stance, alive>>
      /\ read \in SUBSET Sources /\ detection[k].scope \in Scopes
  BY DEF Persist, ConflictsTypeOK
<1>2. carried = Said(read)
  BY DEF Persist, Settled, CarriedInv
<1>3. \A x \in Detections : IF x = k THEN detection'[x].pc = "done" ELSE detection'[x] = detection[x]
  BY DEF Persist, ConflictsTypeOK, NewDetection
<1>4. CarriedInv' /\ ConfirmedInv'
  BY <1>1, <1>3 DEF Settled, CarriedInv, ConfirmedInv, Said, Opposed
<1>5. CASE ~(Named(carried) \subseteq alive)
  <2>1. UNCHANGED <<claims, conflict>>
    BY <1>5 DEF Persist
  <2> QED BY <1>1, <1>4, <2>1 DEF Settled, KeptInv, NamedInv
<1>6. CASE Named(carried) \subseteq alive
  <2>1. /\ claims' = (claims \ Replaced(k)) \cup {[document |-> f[1], polarity |-> f[2]] : f \in carried}
        /\ conflict' = [conflict EXCEPT ![detection[k].scope] =
               IF detection[k].real THEN Named(carried) ELSE {}]
    BY <1>6 DEF Persist
  <2>2. \A d \in read : \A p \in stance[d] : [document |-> d, polarity |-> p] \in claims'
    <3> SUFFICES ASSUME NEW d \in read, NEW p \in stance[d]
                 PROVE  [document |-> d, polarity |-> p] \in claims'
      OBVIOUS
    <3>1. p \in Polarity
      BY <1>1 DEF ConflictsTypeOK
    <3>2. <<d, p>> \in carried
      BY <1>2, <3>1 DEF Said
    <3> QED BY <2>1, <3>2
  <2>3. \A d : d \notin read => \A p : [document |-> d, polarity |-> p] \in claims =>
                                       [document |-> d, polarity |-> p] \in claims'
    BY <2>1 DEF Replaced
  <2>4. \A s \in Scopes : conflict'[s] = conflict[s] \/ conflict'[s] = {}
            \/ (conflict'[s] = Named(carried) /\ detection[k].real)
    BY <2>1, <1>1 DEF ConflictsTypeOK
  <2>5. Named(carried) \subseteq read
    BY <1>1, <1>2, NamedIsRead
  <2>6. KeptInv'
    BY <1>1, <2>2, <2>3, <2>4, <2>5 DEF Settled, KeptInv
  <2>7. ASSUME detection[k].real PROVE \A p \in Polarity : \E d \in Named(carried) : p \in stance[d]
    <3>1. {f[2] : f \in carried} = Polarity
      BY <2>7 DEF Persist, Settled, ConfirmedInv, Opposed
    <3> SUFFICES ASSUME NEW p \in Polarity PROVE \E d \in Named(carried) : p \in stance[d]
      OBVIOUS
    <3>2. PICK f \in carried : f[2] = p
      BY <3>1
    <3>3. f[2] \in stance[f[1]]
      BY <1>2 DEF Said
    <3>4. f[1] \in Named(carried)
      BY DEF Named
    <3> QED BY <3>2, <3>3, <3>4
  <2>8. NamedInv'
    BY <1>1, <2>4, <2>7 DEF Settled, NamedInv
  <2> QED BY <1>4, <2>6, <2>8 DEF Settled
<1> QED BY <1>5, <1>6

\* A document that is removed or filed elsewhere takes its claims along.
LEMMA OwnerSettled ==
    ASSUME ConflictsTypeOK, Settled, NEW d \in Sources,
           RemoveSource(d) \/ \E b \in Binders : MoveSource(d, b)
    PROVE  Settled'
<1>1. CASE RemoveSource(d)
  <2>1. /\ UNCHANGED <<stance, conflict, detection>> /\ alive' = alive \ {d}
        /\ claims' = {c \in claims : c.document # d}
    BY <1>1 DEF RemoveSource
  <2>2. KeptInv'
    BY <2>1 DEF Settled, KeptInv
  <2> QED BY <2>1, <2>2 DEF Settled, CarriedInv, ConfirmedInv, NamedInv, Said, Opposed
<1>2. ASSUME NEW b \in Binders, MoveSource(d, b) PROVE Settled'
  <2>1. UNCHANGED <<stance, alive, claims, conflict, detection>>
    BY <1>2 DEF MoveSource
  <2> QED BY <2>1 DEF Settled, CarriedInv, ConfirmedInv, KeptInv, NamedInv, Said, Opposed
<1> QED BY <1>1, <1>2

-----------------------------------------------------------------------------

\* Nothing is known at first.
LEMMA ConflictsStart == ConflictsInit => ConflictsInv
<1> SUFFICES ASSUME ConflictsInit PROVE ConflictsInv
  OBVIOUS
<1>1. Settled
  BY DEF ConflictsInit, Settled, CarriedInv, ConfirmedInv, KeptInv, NamedInv, NewDetection
<1> QED BY <1>1, InitTypes DEF ConflictsInv

\* One step for each action; an edit unsettles everything.
LEMMA ConflictsStep ==
    ASSUME ConflictsInv, [ConflictsNext]_conflictsVars
    PROVE  ConflictsInv'
<1>1. ConflictsTypeOK /\ (unsettled \/ Settled)
  BY DEF ConflictsInv
<1>2. ASSUME NEW k \in Detections, NEW s \in Scopes, Scan(k, s) PROVE ConflictsInv'
  <2>1. unsettled' = unsettled
    BY <1>2 DEF Scan
  <2> QED BY <1>1, <1>2, <2>1, ScanTypes, ScanSettled DEF ConflictsInv
<1>3. ASSUME NEW k \in Detections, Judge(k) PROVE ConflictsInv'
  <2>1. unsettled' = unsettled
    BY <1>3 DEF Judge
  <2> QED BY <1>1, <1>3, <2>1, JudgeTypes, JudgeSettled DEF ConflictsInv
<1>4. ASSUME NEW k \in Detections, Persist(k) PROVE ConflictsInv'
  <2>1. unsettled' = unsettled
    BY <1>4 DEF Persist
  <2> QED BY <1>1, <1>4, <2>1, PersistTypes, PersistSettled DEF ConflictsInv
<1>5. ASSUME NEW d \in Sources, RemoveSource(d) \/ \E b \in Binders : MoveSource(d, b)
      PROVE  ConflictsInv'
  <2>1. unsettled' = unsettled
    BY <1>5 DEF RemoveSource, MoveSource
  <2> QED BY <1>1, <1>5, <2>1, OwnerTypes, OwnerSettled DEF ConflictsInv
<1>6. ASSUME NEW d \in Sources, NEW s \in SUBSET Polarity, EditSource(d, s) PROVE ConflictsInv'
  <2>1. unsettled'
    BY <1>6 DEF EditSource
  <2> QED BY <1>1, <1>6, <2>1, OwnerTypes DEF ConflictsInv
<1>7. ASSUME UNCHANGED conflictsVars PROVE ConflictsInv'
  BY <1>1, <1>7 DEF conflictsVars, ConflictsInv, ConflictsTypeOK, Settled, CarriedInv,
     ConfirmedInv, KeptInv, NamedInv, Said, Opposed
<1> QED BY <1>2, <1>3, <1>4, <1>5, <1>6, <1>7 DEF ConflictsNext

\* What the invariant says of a conflict: its living documents say both things.
LEMMA InvIsBacked == ConflictsInv => ConflictsAreBacked
<1> SUFFICES ASSUME ConflictsInv, ~unsettled, NEW s \in Scopes,
                    conflict[s] # {}, conflict[s] \subseteq alive
             PROVE  {c.polarity : c \in {x \in claims : x.document \in conflict[s]}} = Polarity
  BY DEF ConflictsAreBacked
<1>1. Settled /\ claims \subseteq Claim
  BY DEF ConflictsInv, ConflictsTypeOK
<1>2. \A c \in claims : c.polarity \in Polarity
  BY <1>1 DEF Claim
<1>3. ASSUME NEW p \in Polarity
      PROVE  \E c \in claims : c.document \in conflict[s] /\ c.polarity = p
  <2>1. PICK d \in conflict[s] : p \in stance[d]
    BY <1>1 DEF Settled, NamedInv
  <2>2. [document |-> d, polarity |-> p] \in claims
    BY <1>1, <2>1 DEF Settled, KeptInv
  <2> QED BY <2>2
<1> QED BY <1>2, <1>3

-----------------------------------------------------------------------------

\* Every conflict kept for a collection or for all documents is backed by claims of both
\* polarities of the documents it names, whatever other detections, moves and deletions do
\* between the reading of the documents and the transaction that replaces claims and conflict.
THEOREM KeptConflictsAreBacked == ConflictsSpec => []ConflictsAreBacked
<1>1. ConflictsInit => ConflictsInv
  BY ConflictsStart
<1>2. ConflictsInv /\ [ConflictsNext]_conflictsVars => ConflictsInv'
  BY ConflictsStep
<1>3. ConflictsInv => ConflictsAreBacked
  BY InvIsBacked
<1> QED BY <1>1, <1>2, <1>3, PTL DEF ConflictsSpec

-----------------------------------------------------------------------------

USE StatusCacheAssumption DEF StatusCacheAssumption

(* The status in two places.                                               *)

\* A drain, an enrichment: each only goes through its own steps.
WorkFits ==
    \A w \in Working :
        /\ work[w].message.kind = "drain" => work[w].pc \in {"begin", "mark"}
        /\ work[w].message.kind = "enrich" => work[w].pc \in {"begin", "done"}

\* Where nothing overlaps, the document is in one pair of hands: a request, a message or a
\* job; a sync that has sent its message has to mark the row before the job begins.
OneHand ==
    /\ \A r, s \in Asking : r = s
    /\ \A v, w \in Working : v = w
    /\ \A m, n \in messages : m = n
    /\ Asking # {} => Working = {}
    /\ Working # {} => messages = {}
    /\ \A r \in Asking : IF asked[r].pc = "late" THEN \E m \in messages : m.kind = "process"
                                                 ELSE messages = {}

\* The value is the row, or has lapsed.
Agrees == value \in {"none", row}

\* A processing makes both agree in the end, whatever they are; a drain and an enrichment
\* leave one of them alone.
Suits(kind) ==
    /\ kind = "drain" => row = "QUEUED"
    /\ kind = "enrich" => row = "READY" /\ Agrees

\* A job has the row as it is, and its message suits it.
JobSuits(w) ==
    /\ Suits(work[w].message.kind)
    /\ work[w].message.kind # "process" => work[w].copy = row
    /\ work[w].pc = "done" => row = "READY"
    /\ work[w].pc = "tell" => row = "FAILED"

\* A request does what the row as it is allows.
RequestSuits(r) ==
    /\ asked[r].pc = "row" => asked[r].op # "sync"
    /\ asked[r].pc \in {"value", "send"} /\ asked[r].op # "sync" => asked[r].op = "queue" /\ row = "QUEUED"
    /\ asked[r].pc = "value" /\ asked[r].op = "sync" => Agrees

\* With one hand at work, all suits.
InStep ==
    /\ Quiet => Agrees
    /\ \A m \in messages : Suits(m.kind)
    /\ \A w \in Working : JobSuits(w)
    /\ \A r \in Asking : RequestSuits(r)

\* The invariant; where something went astray it says no more than the types.
CacheInv == CacheTypeOK /\ WorkFits /\ (astray # {} \/ (OneHand /\ InStep))

\* Types of a request's step.
LEMMA AskTypes ==
    ASSUME CacheTypeOK, NEW r \in Requests, AskNext(r)
    PROVE  CacheTypeOK' /\ UNCHANGED work
  <1> USE DEF CacheTypeOK
  <1>1. ASSUME NEW pc \in AskedPc, Step(r, pc)
        PROVE  asked' \in [Requests -> [op : {"queue", "sync", "clear"}, pc : AskedPc]]
    BY <1>1 DEF Step
  <1>2. \A hit : \A reason \in Reasons : Stray(reason, hit) => astray' \subseteq Reasons
    BY DEF Stray
  <1>3. Mishap => mishaps' \in 0..MaxCacheFaults
    BY DEF Mishap
  <1>4. \A kind \in Kinds : Fresh(kind) \in Message
    BY DEF Fresh, Message
  <1>5. ASSUME NEW op \in {"queue", "sync", "clear"}, AskBegin(r, op)
        PROVE  CacheTypeOK' /\ UNCHANGED work
    <2>1. asked' \in [Requests -> [op : {"queue", "sync", "clear"}, pc : AskedPc]]
      BY <1>5 DEF AskBegin, AskedPc
    <2> QED  BY <1>2, <1>5, <2>1 DEF AskBegin, Reasons
  <1>6. CASE AskRow(r)
    BY <1>1, <1>2, <1>6 DEF AskRow, AskedPc, Reasons, RowStatus
  <1>7. CASE AskValue(r)
    BY <1>1, <1>3, <1>7 DEF AskValue, SetStatus, AskedPc, RowStatus
  <1>8. CASE AskSend(r)
    BY <1>1, <1>3, <1>4, <1>8 DEF AskSend, AskedPc, Kinds
  <1>9. CASE AskLate(r)
    BY <1>1, <1>2, <1>9 DEF AskLate, AskedPc, Reasons, RowStatus
  <1> QED  BY <1>5, <1>6, <1>7, <1>8, <1>9 DEF AskNext

\* Types of a job's step.
LEMMA WorkTypes ==
    ASSUME CacheTypeOK, WorkFits, NEW w \in Workers, WorkNext(w)
    PROVE  CacheTypeOK' /\ WorkFits' /\ UNCHANGED asked
  <1> USE DEF CacheTypeOK
  <1> DEFINE Job == [message : Message, pc : WorkPc, copy : RowStatus]
  <1>1. ASSUME NEW j \in Job, work' = [work EXCEPT ![w] = j],
               j.message.kind = "drain" /\ j.pc # "free" => j.pc \in {"begin", "mark"},
               j.message.kind = "enrich" /\ j.pc # "free" => j.pc \in {"begin", "done"}
        PROVE  work' \in [Workers -> Job] /\ WorkFits'
    BY <1>1 DEF WorkFits, Working
  <1>2. \A kind \in Kinds : Fresh(kind) \in Message /\ Fresh(kind).kind = kind
    BY DEF Fresh, Message
  <1>3. FreeWorker \in Job /\ FreeWorker.pc = "free"
    BY <1>2 DEF FreeWorker, Kinds, WorkPc, RowStatus
  <1>4. work[w] \in Job /\ work[w].message \in Message /\ work[w].message.kind \in Kinds
    BY DEF Message
  <1>5. End(w) => work' \in [Workers -> Job] /\ WorkFits'
    BY <1>1, <1>3 DEF End
  <1>6. ASSUME NEW pc \in WorkPc, Turn(w, pc),
               work[w].message.kind = "drain" => pc \in {"begin", "mark"},
               work[w].message.kind = "enrich" => pc \in {"begin", "done"}
        PROVE  work' \in [Workers -> Job] /\ WorkFits'
    <2> DEFINE j == [work[w] EXCEPT !.pc = pc]
    <2>1. j \in Job /\ j.pc = pc /\ j.message = work[w].message
      BY <1>4
    <2>2. work' = [work EXCEPT ![w] = j]
      BY <1>6 DEF Turn
    <2> HIDE DEF j
    <2> QED  BY <1>1, <1>6, <2>1, <2>2
  <1>7. \A hit : \A reason \in Reasons : Stray(reason, hit) => astray' \subseteq Reasons
    BY DEF Stray
  <1>8. Mishap => mishaps' \in 0..MaxCacheFaults
    BY DEF Mishap
  <1>9. ASSUME NEW m \in messages, WorkBegin(w, m)
        PROVE  CacheTypeOK' /\ WorkFits' /\ UNCHANGED asked
    <2> DEFINE j == [message |-> m, pc |-> "begin", copy |-> row]
    <2>1. j \in Job /\ j.pc = "begin"
      BY DEF WorkPc
    <2>2. work' = [work EXCEPT ![w] = j]
      BY <1>9 DEF WorkBegin
    <2> HIDE DEF j
    <2>3. work' \in [Workers -> Job] /\ WorkFits'
      BY <1>1, <2>1, <2>2
    <2> QED  BY <1>7, <1>9, <2>3 DEF WorkBegin, Reasons
  <1>10. CASE DrainMark(w) \/ DrainSend(w)
    BY <1>2, <1>5, <1>6, <1>10 DEF DrainMark, DrainSend, Does, SetStatus, WorkPc, RowStatus, Kinds
  <1>11. CASE ProcessBegin(w) \/ ProcessMark(w) \/ ProcessRun(w) \/ ProcessFinish(w)
    BY <1>6, <1>11 DEF ProcessBegin, ProcessMark, ProcessRun, ProcessFinish, Does, SetStatus, WorkPc,
       RowStatus
  <1>12. CASE ProcessDone(w)
    BY <1>2, <1>5, <1>12 DEF ProcessDone, SetStatus, RowStatus, Kinds
  <1>13. CASE ProcessFault(w)
    <2>1. work[w].message.retries < MaxJobRetries =>
             [work[w].message EXCEPT !.retries = @ + 1] \in Message
      BY <1>4 DEF Message
    <2> QED  BY <1>5, <1>6, <1>8, <1>13, <2>1 DEF ProcessFault, WorkPc
  <1>14. CASE FailRow(w)
    <2>1. w \in Working
      BY <1>14 DEF FailRow, Working
    <2> QED  BY <1>6, <1>14, <2>1 DEF FailRow, WorkFits, WorkPc, RowStatus
  <1>15. CASE FailTell(w)
    BY <1>5, <1>7, <1>8, <1>15 DEF FailTell, SetStatus, Reasons, RowStatus
  <1>16. CASE EnrichRow(w)
    BY <1>4, <1>5, <1>6, <1>8, <1>16 DEF EnrichRow, Does, WorkPc
  <1>17. CASE EnrichDone(w)
    BY <1>5, <1>17 DEF EnrichDone, SetStatus, RowStatus
  <1>18. CASE WorkLost(w)
    BY <1>4, <1>5, <1>8, <1>18 DEF WorkLost
  <1> QED
    BY <1>9, <1>10, <1>11, <1>12, <1>13, <1>14, <1>15, <1>16, <1>17, <1>18 DEF WorkNext

\* A request's step, where nothing overlaps.
LEMMA AskInStep ==
    ASSUME CacheTypeOK, OneHand, InStep, NEW r \in Requests, AskNext(r), astray' = {}
    PROVE  OneHand' /\ InStep'
  <1> USE DEF CacheTypeOK
  <1>1. UNCHANGED work /\ Working' = Working
    BY AskTypes DEF Working
  <1>2. ASSUME NEW reason, NEW hit, Stray(reason, hit)
        PROVE  ~hit
    BY <1>2 DEF Stray
  <1>3. ASSUME NEW op \in {"queue", "sync", "clear"}, AskBegin(r, op)
        PROVE  OneHand' /\ InStep'
    <2>1. Asking = {} /\ Working = {} /\ messages = {}
      BY <1>2, <1>3 DEF AskBegin
    <2>2. /\ asked'[r] = [op |-> op, pc |-> IF op = "sync" THEN "value" ELSE "row"]
          /\ \A s \in Requests \ {r} : asked'[s] = asked[s]
          /\ UNCHANGED <<row, value, messages>>
      BY <1>3 DEF AskBegin
    <2>3. Asking' = {r}
      BY <2>1, <2>2 DEF Asking
    <2>4. Agrees
      BY <2>1 DEF InStep, Quiet
    <2> QED
      BY <1>1, <2>1, <2>2, <2>3, <2>4 DEF OneHand, InStep, Quiet, RequestSuits, Agrees
  <1>4. ASSUME asked[r].pc \in {"row", "value", "send", "late"}
        PROVE  /\ Asking = {r} /\ Working = {} /\ RequestSuits(r)
               /\ IF asked[r].pc = "late"
                  THEN \E m \in Message : messages = {m} /\ m.kind = "process"
                  ELSE messages = {}
    <2>1. r \in Asking
      BY <1>4 DEF Asking
    <2> QED  BY <2>1 DEF OneHand, InStep
  <1>5. ASSUME NEW pc \in {"value", "send", "late", "done"}, Step(r, pc),
               asked[r].pc \in {"row", "value", "send", "late"}
        PROVE  /\ asked'[r].op = asked[r].op /\ asked'[r].pc = pc
               /\ Asking' = IF pc = "done" THEN {} ELSE {r}
    <2>1. /\ asked'[r].op = asked[r].op /\ asked'[r].pc = pc
          /\ \A s \in Requests \ {r} : asked'[s] = asked[s]
      BY <1>5 DEF Step
    <2> QED  BY <1>4, <1>5, <2>1 DEF Asking
  <1>6. CASE AskRow(r)
    <2>1. /\ asked[r].pc = "row" /\ asked[r].op = "queue" /\ row' = "QUEUED" /\ Step(r, "value")
          /\ UNCHANGED <<value, messages>>
      BY <1>2, <1>4, <1>6 DEF AskRow, RequestSuits
    <2> QED  BY <1>1, <1>4, <1>5, <2>1 DEF OneHand, InStep, Quiet, RequestSuits
  <1>7. CASE AskValue(r)
    <2>1. asked[r].pc = "value" /\ UNCHANGED <<row, messages>>
      BY <1>7 DEF AskValue
    <2>2. CASE Step(r, "send")
      <3>1. asked'[r].op = asked[r].op /\ asked'[r].pc = "send" /\ Asking' = {r}
        BY <1>5, <2>1, <2>2
      <3>2. RequestSuits(r)'
        BY <1>4, <2>1, <3>1 DEF RequestSuits
      <3> QED  BY <1>1, <1>4, <2>1, <3>1, <3>2 DEF OneHand, InStep, Quiet
    <2>3. CASE UNCHANGED value /\ asked[r].op = "sync" /\ Step(r, "done")
      BY <1>1, <1>4, <1>5, <2>1, <2>3 DEF OneHand, InStep, Quiet, RequestSuits, Agrees
    <2> QED  BY <1>7, <2>2, <2>3 DEF AskValue, SetStatus
  <1>8. CASE AskSend(r)
    <2>1. asked[r].pc = "send" /\ UNCHANGED <<row, value>> /\ messages = {}
      BY <1>4, <1>8 DEF AskSend
    <2>2. \A kind : Fresh(kind).kind = kind
      BY DEF Fresh
    <2>3. CASE asked[r].op = "sync"
      BY <1>1, <1>4, <1>5, <1>8, <2>1, <2>2, <2>3
         DEF AskSend, OneHand, InStep, Quiet, RequestSuits, Suits
    <2>4. CASE asked[r].op # "sync"
      <3>1. Step(r, "done") /\ Asking' = {}
        BY <1>5, <1>8, <2>1, <2>4 DEF AskSend
      <3>2. PICK kind \in {"process", "drain"} : messages' = {Fresh(kind)}
        BY <1>8, <2>1 DEF AskSend
      <3>3. row = "QUEUED"
        BY <1>4, <2>1, <2>4 DEF RequestSuits
      <3> QED  BY <1>1, <1>4, <2>1, <2>2, <3>1, <3>2, <3>3 DEF OneHand, InStep, Quiet, Suits
    <2> QED  BY <2>3, <2>4
  <1>9. CASE AskLate(r)
    <2>1. asked[r].pc = "late" /\ Step(r, "done") /\ UNCHANGED <<value, messages>>
      BY <1>9 DEF AskLate
    <2>2. PICK m \in Message : messages = {m} /\ m.kind = "process"
      BY <1>4, <2>1
    <2> QED  BY <1>1, <1>4, <1>5, <2>1, <2>2 DEF OneHand, InStep, Quiet, Suits
  <1> QED  BY <1>3, <1>6, <1>7, <1>8, <1>9 DEF AskNext

\* A job's step, where nothing overlaps.
LEMMA WorkInStep ==
    ASSUME CacheTypeOK, WorkFits, OneHand, InStep, NEW w \in Workers, WorkNext(w), astray' = {}
    PROVE  OneHand' /\ InStep'
  <1> USE DEF CacheTypeOK
  <1>1. UNCHANGED asked /\ Asking' = Asking
    BY WorkTypes DEF Asking
  <1>2. \A kind : Fresh(kind).kind = kind
    BY DEF Fresh
  <1>3. PICK message \in Message : message = work[w].message
    OBVIOUS
  <1>4. ASSUME NEW m \in messages, WorkBegin(w, m)
        PROVE  OneHand' /\ InStep'
    <2>1. /\ Asking = {} /\ Working = {} /\ messages = {m}
          /\ messages' = {} /\ UNCHANGED <<row, value>>
      BY <1>4 DEF WorkBegin, Stray, OneHand
    <2>2. /\ work'[w].message = m /\ work'[w].pc = "begin" /\ work'[w].copy = row
          /\ \A v \in Workers \ {w} : work'[v] = work[v]
      BY <1>4 DEF WorkBegin
    <2>3. Working' = {w}
      BY <2>1, <2>2 DEF Working
    <2>4. Suits(m.kind)
      BY DEF InStep
    <2> QED  BY <1>1, <2>1, <2>2, <2>3, <2>4 DEF OneHand, InStep, Quiet, JobSuits, Suits, Agrees
  <1>5. ASSUME work[w].pc # "free"
        PROVE  Asking = {} /\ Working = {w} /\ messages = {} /\ JobSuits(w)
    <2>1. w \in Working
      BY <1>5 DEF Working
    <2> QED  BY <2>1 DEF OneHand, InStep
  <1>6. ASSUME work[w].pc # "free", NEW pc \in WorkPc \ {"free"}, Turn(w, pc), UNCHANGED messages,
               (pc = "done" => row' = "READY") /\ (pc = "tell" => row' = "FAILED"),
               message.kind # "process" => work[w].copy = row',
               Suits(message.kind)'
        PROVE  OneHand' /\ InStep'
    <2>1. /\ work'[w].message = work[w].message /\ work'[w].pc = pc
          /\ work'[w].copy = work[w].copy
          /\ \A v \in Workers \ {w} : work'[v] = work[v]
      BY <1>6 DEF Turn
    <2>2. Working' = {w}
      BY <1>5, <1>6, <2>1 DEF Working
    <2>4. JobSuits(w)'
      BY <1>3, <1>6, <2>1 DEF JobSuits, Suits, Agrees
    <2> QED  BY <1>1, <1>5, <1>6, <2>2, <2>4 DEF OneHand, InStep, Quiet
  <1>7. ASSUME work[w].pc # "free", End(w)
        PROVE  Asking' = {} /\ Working' = {}
    <2>1. FreeWorker.pc = "free"
      BY DEF FreeWorker
    <2> QED  BY <1>1, <1>5, <1>7, <2>1 DEF End, Working
  <1>8. ASSUME work[w].pc # "free", End(w), NEW m, messages' = {m}, Suits(m.kind)'
        PROVE  OneHand' /\ InStep'
    <2>1. Asking' = {} /\ Working' = {}
      BY <1>7, <1>8
    <2>2. \A n \in messages' : Suits(n.kind)'
      BY <1>8 DEF Suits, Agrees
    <2> QED  BY <1>8, <2>1, <2>2 DEF OneHand, InStep, Quiet
  <1>9. ASSUME work[w].pc # "free", End(w), messages' = {}, Agrees'
        PROVE  OneHand' /\ InStep'
    <2>1. Asking' = {} /\ Working' = {}
      BY <1>7, <1>9
    <2> QED  BY <1>9, <2>1 DEF OneHand, InStep, Quiet
  <1>10. CASE DrainMark(w)
    <2>1. /\ message.kind = "drain" /\ work[w].pc = "begin" /\ row' = row
          /\ row = "QUEUED" /\ work[w].copy = "QUEUED"
      BY <1>3, <1>5, <1>10 DEF DrainMark, Does, JobSuits, Suits
    <2>2. Turn(w, "mark") /\ UNCHANGED messages
      BY <1>10, <2>1 DEF DrainMark
    <2> QED  BY <1>6, <2>1, <2>2 DEF Suits, WorkPc
  <1>11. CASE DrainSend(w)
    <2>1. work[w].pc # "free" /\ End(w) /\ messages' = {Fresh("process")}
      BY <1>5, <1>11 DEF DrainSend, Does
    <2>2. Suits(Fresh("process").kind)'
      BY <1>2 DEF Suits
    <2> QED  BY <1>8, <2>1, <2>2
  <1>12. CASE ProcessBegin(w) \/ ProcessMark(w) \/ ProcessRun(w) \/ ProcessFinish(w)
    <2>1. message.kind = "process" /\ work[w].pc # "free" /\ UNCHANGED messages
      BY <1>3, <1>12 DEF ProcessBegin, ProcessMark, ProcessRun, ProcessFinish, Does
    <2>2. Suits(message.kind)'
      BY <2>1 DEF Suits
    <2>3. PICK pc \in {"mark", "run", "finish", "done"} : Turn(w, pc) /\ (pc = "done" => row' = "READY")
      BY <1>12 DEF ProcessBegin, ProcessMark, ProcessRun, ProcessFinish
    <2> QED  BY <1>6, <2>1, <2>2, <2>3 DEF WorkPc
  <1>13. CASE ProcessDone(w)
    <2>1. work[w].pc = "done" /\ End(w) /\ messages' = {Fresh("enrich")} /\ row' = row /\ value' = "READY"
      BY <1>5, <1>13 DEF ProcessDone, Does, SetStatus
    <2>2. Suits(Fresh("enrich").kind)'
      BY <1>2, <1>5, <2>1 DEF JobSuits, Suits, Agrees
    <2> QED  BY <1>8, <2>1, <2>2
  <1>14. CASE ProcessFault(w)
    <2>1. message.kind = "process" /\ work[w].pc # "free" /\ messages = {}
      BY <1>3, <1>5, <1>14 DEF ProcessFault
    <2>2. CASE Turn(w, "failed") /\ UNCHANGED messages
      BY <1>6, <2>1, <2>2 DEF Suits, WorkPc
    <2>3. CASE /\ messages' = messages \cup {[work[w].message EXCEPT !.retries = @ + 1]}
               /\ End(w)
      <3>1. [message EXCEPT !.retries = @ + 1].kind = "process"
        BY <2>1 DEF Message
      <3>2. messages' = {[message EXCEPT !.retries = @ + 1]}
        BY <1>3, <2>1, <2>3
      <3>3. Suits([message EXCEPT !.retries = @ + 1].kind)'
        BY <3>1 DEF Suits
      <3> QED  BY <1>8, <2>1, <2>3, <3>2, <3>3
    <2> QED  BY <1>14, <2>2, <2>3 DEF ProcessFault
  <1>15. CASE FailRow(w)
    <2>1. work[w].pc = "failed" /\ Turn(w, "tell") /\ row' = "FAILED" /\ UNCHANGED messages
      BY <1>15 DEF FailRow
    <2>2. message.kind = "process"
      BY <1>3, <1>5, <2>1 DEF WorkFits, Message, Kinds
    <2> QED  BY <1>6, <2>1, <2>2 DEF Suits, WorkPc
  <1>16. CASE FailTell(w)
    <2>1. work[w].pc = "tell" /\ End(w) /\ messages' = {} /\ row' = row
      BY <1>5, <1>16 DEF FailTell
    <2>2. value' = "FAILED"
      BY <1>16 DEF FailTell, SetStatus, Stray
    <2>3. Agrees'
      BY <1>5, <2>1, <2>2 DEF JobSuits, Agrees
    <2> QED  BY <1>9, <2>1, <2>3
  <1>17. CASE EnrichRow(w)
    <2>1. /\ message.kind = "enrich" /\ work[w].pc = "begin" /\ UNCHANGED <<value, messages>>
          /\ messages = {} /\ work[w].copy = row /\ row = "READY" /\ Agrees
      BY <1>3, <1>5, <1>17 DEF EnrichRow, Does, JobSuits, Suits
    <2>2. row' = row
      BY <1>17, <2>1 DEF EnrichRow
    <2>3. Agrees'
      BY <2>1, <2>2 DEF Agrees
    <2>4. CASE Turn(w, "done")
      BY <1>6, <2>1, <2>2, <2>3, <2>4 DEF Suits, WorkPc
    <2>5. CASE End(w)
      BY <1>9, <2>1, <2>3, <2>5
    <2> QED  BY <1>17, <2>4, <2>5 DEF EnrichRow
  <1>18. CASE EnrichDone(w)
    <2>1. /\ work[w].pc = "done" /\ End(w) /\ value' = "READY" /\ row' = row /\ messages' = {}
          /\ row = "READY"
      BY <1>5, <1>18 DEF EnrichDone, Does, SetStatus, JobSuits
    <2> QED  BY <1>9, <2>1 DEF Agrees
  <1>19. CASE WorkLost(w)
    <2>1. work[w].pc # "free" /\ End(w) /\ messages' = {message} /\ UNCHANGED <<row, value>>
      BY <1>3, <1>5, <1>19 DEF WorkLost
    <2>2. Suits(message.kind)'
      BY <1>3, <1>5, <2>1 DEF JobSuits, Suits, Agrees
    <2> QED  BY <1>8, <2>1, <2>2
  <1> QED
    BY <1>4, <1>10, <1>11, <1>12, <1>13, <1>14, <1>15, <1>16, <1>17, <1>18, <1>19 DEF WorkNext

\* What went astray is remembered.
LEMMA StrayStays == [CacheNext]_cacheVars /\ astray' = {} => astray = {}
  BY DEF CacheNext, AskNext, WorkNext, cacheVars, AskBegin, AskRow, AskValue, AskSend, AskLate,
     WorkBegin, DrainMark, DrainSend, ProcessBegin, ProcessMark, ProcessRun, ProcessFinish,
     ProcessDone, ProcessFault, FailRow, FailTell, EnrichRow, EnrichDone, WorkLost, Lapse, Stray

\* When nobody works on a document any more its owner is shown its status, whatever failed and
\* was retried, unless two overlapped, a note was left empty or Redis was not told of a failure.
THEOREM StatusIsShown == CacheSpec => []QuietIsShown
  <1>1. CacheInit => CacheInv
    <2> SUFFICES ASSUME CacheInit
                 PROVE  CacheInv
      OBVIOUS
    <2>1. FreeWorker \in [message : Message, pc : WorkPc, copy : RowStatus] /\ FreeWorker.pc = "free"
      BY DEF FreeWorker, Fresh, Message, Kinds, WorkPc, RowStatus
    <2>2. Asking = {} /\ Working = {} /\ messages = {}
      BY <2>1 DEF CacheInit, Asking, Working
    <2>3. CacheTypeOK
      BY <2>1 DEF CacheInit, CacheTypeOK, RowStatus, AskedPc
    <2> QED
      BY <2>2, <2>3 DEF CacheInit, CacheInv, WorkFits, OneHand, InStep, Agrees
  <1>2. CacheInv /\ [CacheNext]_cacheVars => CacheInv'
    <2> SUFFICES ASSUME CacheInv, [CacheNext]_cacheVars
                 PROVE  CacheInv'
      OBVIOUS
    <2> USE DEF CacheInv
    <2>1. ASSUME astray' = {}
          PROVE  OneHand /\ InStep
      BY <2>1, StrayStays
    <2>2. ASSUME NEW r \in Requests, AskNext(r)
          PROVE  CacheInv'
      <3>1. CacheTypeOK' /\ UNCHANGED work
        BY <2>2, AskTypes
      <3>2. WorkFits'
        BY <3>1 DEF WorkFits, Working
      <3> QED  BY <2>1, <2>2, <3>1, <3>2, AskInStep
    <2>3. ASSUME NEW w \in Workers, WorkNext(w)
          PROVE  CacheInv'
      BY <2>1, <2>3, WorkTypes, WorkInStep
    <2>4. CASE Lapse \/ UNCHANGED cacheVars
      <3>1. /\ UNCHANGED <<row, asked, work, messages, mishaps, astray>>
            /\ value' \in {value, "none"}
        BY <2>4 DEF Lapse, cacheVars
      <3>2. CacheTypeOK' /\ WorkFits'
        BY <3>1 DEF CacheTypeOK, WorkFits, Working
      <3>3. OneHand => OneHand'
        BY <3>1 DEF OneHand, Asking, Working
      <3>4. Agrees => Agrees'
        BY <3>1 DEF Agrees
      <3>5. InStep => InStep'
        BY <3>1, <3>4 DEF InStep, Quiet, Asking, Working, Suits, JobSuits, RequestSuits
      <3> QED  BY <3>1, <3>2, <3>3, <3>5
    <2> QED  BY <2>2, <2>3, <2>4 DEF CacheNext
  <1>3. CacheInv => QuietIsShown
    BY DEF CacheInv, InStep, Agrees, QuietIsShown, ShownStatus
  <1> QED  BY <1>1, <1>2, <1>3, PTL DEF CacheSpec

HIDE StatusCacheAssumption DEF StatusCacheAssumption

-----------------------------------------------------------------------------
(* Edges between documents that share a topic.                               *)

USE KnowledgeGraphAssumption

\* One recompute runs, and it has read every pair there is while nothing changed since; a pair has
\* one edge; and once it is over every pair that shares a topic has one.
OneRuns == \A r, q \in Running : r = q

\* A recompute has read every pair that shares a topic, unless topics changed, and has seen what it
\* deletes.
ReadsAll ==
    \A r \in Recomputes :
        /\ r \in Running /\ steady => Related(All) \subseteq recompute[r].pairs
        /\ recompute[r].phase = "deleted" => edges \subseteq recompute[r].seen

\* A pair has one edge; with topics steady and nobody at work, each pair that shares a topic has one.
EdgesAreSingle == \A e, f \in edges : e.pair = f.pair => e = f

EdgesAreThere == steady /\ Running = {} => Related(All) \subseteq {e.pair : e \in edges}

\* The invariant; where two recomputes mingled it says no more than the types.
GraphInv == GraphTypeOK /\ (mingled \/ (OneRuns /\ ReadsAll /\ EdgesAreSingle /\ EdgesAreThere))

\* Two different members of a pair are all of it.
LEMMA PairMembers ==
    ASSUME NEW p \in Pairs, NEW d \in p, NEW e \in p, d # e
    PROVE  p = {d, e}
<1>1. p \subseteq GraphDocs /\ Cardinality(p) = 2
    BY DEF Pairs, kSubset
<1>2. IsFiniteSet(p)
    BY <1>1, FS_Subset
<1>3. {d, e} \subseteq p /\ IsFiniteSet({d}) /\ Cardinality({d}) = 1
    BY FS_Singleton
<1>4. Cardinality({d} \cup {e}) = 2
    <2>1. PICK one : one = {d}
        OBVIOUS
    <2>2. Cardinality(one \cup {e}) = IF e \in one THEN Cardinality(one) ELSE Cardinality(one) + 1
        BY <2>1, <1>3, FS_AddElement, Zenon
    <2>3. e \notin one
        BY <2>1
    <2> QED BY <2>1, <2>2, <2>3, <1>3
<1>5. {d} \cup {e} \in SUBSET p
    OBVIOUS
<1>6. p = {d} \cup {e}
    BY <1>1, <1>2, <1>4, <1>5, FS_Subset
<1> QED BY <1>6

\* What a narrower graph shows, the widest shows as well.
LEMMA AllShowsMost ==
    ASSUME NEW s \in Scope PROVE  Related(s) \subseteq Related(All)
<1>1. ASSUME NEW d \in GraphDocs PROVE Shown(d, s) \subseteq Shown(d, All)
    <2>1. All.folder = Unfiltered /\ All.topic = Unfiltered
        BY DEF All
    <2> QED BY <2>1 DEF Shown
<1>2. \A p \in Pairs : p \subseteq GraphDocs
    BY DEF Pairs, kSubset
<1>3. ASSUME NEW p \in Pairs, NEW d \in p, NEW e \in p, d # e, Shown(d, s) \cap Shown(e, s) # {}
      PROVE  Shown(d, All) \cap Shown(e, All) # {}
    <2>1. d \in GraphDocs /\ e \in GraphDocs
        BY <1>2
    <2> QED BY <1>1, <1>3, <2>1
<1> QED BY <1>3 DEF Related

\* A document that is removed has no edges, and nothing else gets one.
LEMMA RelatedShrinks ==
    ASSUME NEW x \in GraphDocs, GraphTypeOK, about' = [about EXCEPT ![x] = {}],
           UNCHANGED <<folder, shownAs>>
    PROVE  \A p \in Related(All)' : p \in Related(All) /\ x \notin p
<1> SUFFICES ASSUME NEW p \in Related(All)' PROVE p \in Related(All) /\ x \notin p
    OBVIOUS
<1>1. p \in Pairs /\ \E d, e \in p : d # e /\ Shown(d, All)' \cap Shown(e, All)' # {}
    BY DEF Related
<1>2. PICK d \in p, e \in p : d # e /\ Shown(d, All)' \cap Shown(e, All)' # {}
    BY <1>1
<1>3. p \subseteq GraphDocs /\ p = {d, e}
    BY <1>1, <1>2, PairMembers DEF Pairs, kSubset
<1>4. \A y \in GraphDocs : about'[y] = IF y = x THEN {} ELSE about[y]
    BY DEF GraphTypeOK
<1>5. ASSUME NEW y \in GraphDocs
      PROVE  Shown(y, All)' = IF y = x THEN {} ELSE Shown(y, All)
    BY <1>4 DEF Shown
<1> QED BY <1>1, <1>2, <1>3, <1>5 DEF Related

\* What the graph rests on is the documents, their collections and their topics.
LEMMA RelatedStays ==
    ASSUME UNCHANGED <<about, folder, shownAs>> PROVE Related(All)' = Related(All)
BY DEF Related, Shown

\* What a recompute can be.
RecomputeType == [phase : Phases, pairs : SUBSET Pairs, seen : SUBSET Edge]

\* A recompute reads the pairs, ...
LEMMA RecomputeReadStep ==
    ASSUME GraphInv, NEW r \in Recomputes, NEW s \in Scope, RecomputeRead(r, s) PROVE GraphInv'
<1>1. /\ recompute \in [Recomputes -> RecomputeType]
      /\ recompute[r].phase = "new" /\ mingled' = (mingled \/ Running # {} \/ s # All)
      /\ recompute' = [recompute EXCEPT ![r].phase = "read", ![r].pairs = Related(s)]
      /\ steady' = TRUE /\ UNCHANGED <<about, folder, shownAs, edges>>
    BY DEF GraphInv, GraphTypeOK, RecomputeRead, RecomputeType
<1>2. Related(s) \subseteq Pairs
    BY DEF Related
<1>3. recompute' \in [Recomputes -> RecomputeType]
    BY <1>1, <1>2 DEF RecomputeType, Phases
<1>4. GraphTypeOK'
    BY <1>1, <1>3 DEF GraphInv, GraphTypeOK, RecomputeType
<1>5. recompute'[r].phase = "read" /\ recompute'[r].pairs = Related(s)
      /\ \A q \in Recomputes \ {r} : recompute'[q] = recompute[q]
    BY <1>1 DEF RecomputeType
<1>6. ASSUME ~mingled' PROVE OneRuns' /\ ReadsAll' /\ EdgesAreSingle' /\ EdgesAreThere'
    <2>1. ~mingled /\ Running = {} /\ s = All
        BY <1>1, <1>6
    <2>2. Running' = {r}
        BY <2>1, <1>5 DEF Running
    <2>3. Related(All)' = Related(All)
        BY <1>1, RelatedStays
    <2>4. ReadsAll'
        BY <2>1, <2>2, <2>3, <1>1, <1>5 DEF ReadsAll, Running, GraphInv
    <2> QED BY <2>1, <2>2, <2>4, <1>1 DEF OneRuns, EdgesAreSingle, EdgesAreThere, GraphInv
<1> QED BY <1>4, <1>6 DEF GraphInv

\* ... removes the edges that were, ...
LEMMA ReplaceDeleteStep ==
    ASSUME GraphInv, NEW r \in Recomputes, ReplaceDelete(r) PROVE GraphInv'
<1>1. /\ recompute \in [Recomputes -> RecomputeType] /\ edges \subseteq Edge
      /\ recompute[r].phase = "read"
      /\ recompute' = [recompute EXCEPT ![r].phase = "deleted", ![r].seen = edges]
      /\ UNCHANGED <<about, folder, shownAs, edges, steady, mingled>>
    BY DEF GraphInv, GraphTypeOK, ReplaceDelete, RecomputeType
<1>3. recompute' \in [Recomputes -> RecomputeType]
    BY <1>1 DEF RecomputeType, Phases
<1>4. GraphTypeOK'
    BY <1>1, <1>3 DEF GraphInv, GraphTypeOK, RecomputeType
<1>5. /\ recompute'[r].phase = "deleted" /\ recompute'[r].pairs = recompute[r].pairs
      /\ recompute'[r].seen = edges
      /\ \A q \in Recomputes \ {r} : recompute'[q] = recompute[q]
    BY <1>1 DEF RecomputeType
<1>6. Running' = Running /\ r \in Running
    BY <1>1, <1>5 DEF Running
<1>7. Related(All)' = Related(All)
    BY <1>1, RelatedStays
<1>8. ReadsAll => ReadsAll'
    BY <1>1, <1>5, <1>6, <1>7 DEF ReadsAll
<1> QED BY <1>1, <1>4, <1>6, <1>7, <1>8 DEF GraphInv, OneRuns, EdgesAreSingle, EdgesAreThere

\* ... and writes those of its pairs.
LEMMA ReplaceInsertStep ==
    ASSUME GraphInv, NEW r \in Recomputes, ReplaceInsert(r) PROVE GraphInv'
<1>1. /\ recompute \in [Recomputes -> RecomputeType] /\ edges \subseteq Edge
      /\ recompute[r].phase = "deleted"
      /\ recompute' = [recompute EXCEPT ![r] = [phase |-> "done", pairs |-> {}, seen |-> {}]]
      /\ UNCHANGED <<about, folder, shownAs, mingled>>
    BY DEF GraphInv, GraphTypeOK, ReplaceInsert, RecomputeType
<1>2. /\ recompute'[r].phase = "done"
      /\ \A q \in Recomputes \ {r} : recompute'[q] = recompute[q]
      /\ recompute' \in [Recomputes -> RecomputeType]
    BY <1>1 DEF RecomputeType, Phases
<1>3. recompute[r].pairs \subseteq Pairs
    BY <1>1 DEF RecomputeType
<1>4. r \in Running /\ Running' = Running \ {r}
    BY <1>1, <1>2 DEF Running
<1>5. CASE steady' = FALSE /\ edges' = edges
    <2>1. GraphTypeOK'
        BY <1>1, <1>2, <1>5 DEF GraphInv, GraphTypeOK, RecomputeType
    <2>2. OneRuns /\ ReadsAll => OneRuns' /\ ReadsAll'
        BY <1>2, <1>4, <1>5 DEF OneRuns, ReadsAll
    <2> QED BY <1>1, <1>5, <2>1, <2>2 DEF GraphInv, EdgesAreSingle, EdgesAreThere
<1>6. CASE /\ edges' = (edges \ recompute[r].seen) \cup {[pair |-> p, by |-> r] : p \in recompute[r].pairs}
           /\ UNCHANGED steady
    <2>1. edges' \subseteq Edge
        BY <1>1, <1>3, <1>6 DEF Edge
    <2>2. GraphTypeOK'
        BY <1>1, <1>2, <1>6, <2>1 DEF GraphInv, GraphTypeOK, RecomputeType
    <2>3. ASSUME ~mingled PROVE OneRuns' /\ ReadsAll' /\ EdgesAreSingle' /\ EdgesAreThere'
        <3>1. OneRuns /\ ReadsAll
            BY <2>3 DEF GraphInv
        <3>2. Running' = {}
            BY <3>1, <1>4 DEF OneRuns
        <3>3. edges' = {[pair |-> p, by |-> r] : p \in recompute[r].pairs}
            BY <3>1, <1>1, <1>6 DEF ReadsAll
        <3>4. OneRuns' /\ ReadsAll'
            BY <3>2 DEF OneRuns, ReadsAll, Running
        <3>5. EdgesAreSingle'
            BY <3>3 DEF EdgesAreSingle
        <3>6. Related(All)' = Related(All)
            BY <1>1, RelatedStays
        <3>7. \A p \in recompute[r].pairs : [pair |-> p, by |-> r] \in edges'
            BY <3>3
        <3>8. steady => Related(All) \subseteq recompute[r].pairs
            BY <3>1, <1>4 DEF ReadsAll
        <3>9. \A p \in recompute[r].pairs : \E e \in edges' : e.pair = p
            <4>1. ASSUME NEW p \in recompute[r].pairs PROVE \E e \in edges' : e.pair = p
                <5>1. [pair |-> p, by |-> r] \in edges' /\ [pair |-> p, by |-> r].pair = p
                    BY <3>7
                <5> QED BY <5>1
            <4> QED BY <4>1
        <3>10. steady' => Related(All)' \subseteq {e.pair : e \in edges'}
            BY <3>6, <3>8, <3>9, <1>6
        <3> QED BY <3>4, <3>5, <3>10 DEF EdgesAreThere
    <2> QED BY <1>1, <2>2, <2>3 DEF GraphInv
<1> QED BY <1>5, <1>6 DEF ReplaceInsert

\* When topics change, edges and pairs need no longer agree.
LEMMA UnsteadyStep ==
    ASSUME GraphInv, about' \in [GraphDocs -> SUBSET GraphTopics],
           shownAs' \in [GraphTopics -> GraphTopics \cup {Hidden}], steady' = FALSE,
           UNCHANGED <<folder, edges, recompute, mingled>>
    PROVE  GraphInv'
<1>1. GraphTypeOK'
    BY DEF GraphInv, GraphTypeOK
<1>2. Running' = Running
    BY DEF Running
<1> QED BY <1>1, <1>2 DEF GraphInv, OneRuns, ReadsAll, EdgesAreSingle, EdgesAreThere

\* A document takes its edges along.
LEMMA RemoveStep ==
    ASSUME GraphInv, NEW d \in GraphDocs, RemoveGraphDoc(d) PROVE GraphInv'
<1>1. /\ about' = [about EXCEPT ![d] = {}] /\ edges' = {e \in edges : d \notin e.pair}
      /\ UNCHANGED <<folder, shownAs, recompute, steady, mingled>>
    BY DEF RemoveGraphDoc
<1>2. GraphTypeOK'
    BY <1>1 DEF GraphInv, GraphTypeOK
<1>3. \A p \in Related(All)' : p \in Related(All) /\ d \notin p
    BY <1>1, RelatedShrinks DEF GraphInv
<1>4. Running' = Running /\ (OneRuns => OneRuns') /\ (EdgesAreSingle => EdgesAreSingle')
    BY <1>1 DEF Running, OneRuns, EdgesAreSingle
<1>5. ReadsAll => ReadsAll'
    BY <1>1, <1>3, <1>4 DEF ReadsAll
<1>6. EdgesAreThere => EdgesAreThere'
    BY <1>1, <1>3, <1>4 DEF EdgesAreThere
<1> QED BY <1>1, <1>2, <1>4, <1>5, <1>6 DEF GraphInv

\* One step for each action.
LEMMA GraphStep == GraphInv /\ [GraphNext]_graphVars => GraphInv'
<1> SUFFICES ASSUME GraphInv, [GraphNext]_graphVars PROVE GraphInv'
    OBVIOUS
<1>1. ASSUME NEW d \in GraphDocs, NEW topics \in SUBSET GraphTopics, Retopic(d, topics) PROVE GraphInv'
    <2>1. about' \in [GraphDocs -> SUBSET GraphTopics]
        BY <1>1 DEF Retopic, GraphInv, GraphTypeOK
    <2> QED BY <1>1, <2>1, UnsteadyStep DEF Retopic, GraphInv, GraphTypeOK
<1>2. ASSUME NEW t \in GraphTopics, NEW name \in GraphTopics \cup {Hidden}, ManageTopic(t, name) PROVE GraphInv'
    <2>1. shownAs' \in [GraphTopics -> GraphTopics \cup {Hidden}]
        BY <1>2 DEF ManageTopic, GraphInv, GraphTypeOK
    <2> QED BY <1>2, <2>1, UnsteadyStep DEF ManageTopic, GraphInv, GraphTypeOK
<1>3. CASE UNCHANGED graphVars
    <2>1. Running' = Running /\ Related(All)' = Related(All)
        BY <1>3, RelatedStays DEF graphVars, Running
    <2>2. GraphTypeOK'
        BY <1>3 DEF GraphInv, GraphTypeOK, graphVars
    <2> QED BY <1>3, <2>1, <2>2 DEF graphVars, GraphInv, OneRuns, ReadsAll, EdgesAreSingle, EdgesAreThere
<1> QED BY <1>1, <1>2, <1>3, RecomputeReadStep, ReplaceDeleteStep, ReplaceInsertStep, RemoveStep DEF GraphNext

\* There is nothing to relate at first.
LEMMA GraphStart == GraphInit => GraphInv
<1> SUFFICES ASSUME GraphInit PROVE GraphInv
    OBVIOUS
<1>1. \A r \in Recomputes : recompute[r].phase = "new"
    BY DEF GraphInit
<1>2. recompute \in [Recomputes -> RecomputeType]
    BY DEF GraphInit, RecomputeType, Phases
<1>3. GraphTypeOK
    BY <1>2 DEF GraphInit, GraphTypeOK, RecomputeType
<1> QED BY <1>1, <1>3 DEF GraphInv, GraphInit, OneRuns, ReadsAll, Running, EdgesAreSingle, EdgesAreThere

\* A graph of any scope shows the edges of its documents, so the invariant is what it has to show.
LEMMA GraphConclusion == GraphInv => EdgesFollowTopics
<1> SUFFICES ASSUME GraphInv, steady, Quiescent, ~mingled, NEW s \in Scope
             PROVE  /\ Related(s) \subseteq {e.pair : e \in GraphOf(s)}
                    /\ s.topic = Unfiltered => \A e, f \in GraphOf(s) : e.pair = f.pair => e = f
    BY DEF EdgesFollowTopics
<1>1. EdgesAreSingle /\ Related(All) \subseteq {e.pair : e \in edges}
    BY DEF GraphInv, EdgesAreThere, Quiescent
<1>2. ASSUME NEW p \in Related(s) PROVE p \in {e.pair : e \in GraphOf(s)}
    <2>1. PICK e \in edges : e.pair = p
        BY <1>1, AllShowsMost
    <2>2. p \in Pairs /\ \E x, y \in p : x # y /\ Shown(x, s) \cap Shown(y, s) # {}
        BY DEF Related
    <2>3. PICK x \in p, y \in p : x # y /\ Shown(x, s) \cap Shown(y, s) # {}
        BY <2>2
    <2>4. p = {x, y}
        BY <2>2, <2>3, PairMembers
    <2>5. e \in GraphOf(s)
        BY <2>1, <2>3, <2>4 DEF GraphOf
    <2> QED BY <2>1, <2>5
<1> QED BY <1>1, <1>2 DEF GraphOf, EdgesAreSingle

\* For any documents, topics, collections and recomputes: while nothing changes after a recompute
\* that no other overlapped, the graph has an edge for every pair of documents that share a topic,
\* and one only.
THEOREM EdgesAreThoseOfTopics == GraphSpec => []EdgesFollowTopics
BY GraphStart, GraphStep, GraphConclusion, PTL DEF GraphSpec

HIDE KnowledgeGraphAssumption

-----------------------------------------------------------------------------
(* A comparison and what it cites.                                           *)

USE CompareAssumption

\* A quote is of a source that was kept, and a cell names a kept source of its side.
QuotesAreKept ==
    step \in {"rows", "store", "stored"} => \A d \in Dimensions : quoted[d] \subseteq ToSet(kept)

\* What is in a row is a source of its side, and cited if it was inferred.
RowsAreSources ==
    step \in {"store", "stored"} =>
        \A d \in Dimensions, side \in Sides :
            /\ rows[d][side] # 0 => rows[d][side] \in DOMAIN kept /\ found[kept[rows[d][side]]] = side
            /\ inferred => rows[d][side] \in Evidence(d, side)

\* The invariant.
CompareInv == QuotesAreKept /\ RowsAreSources

\* The model is asked: what it quotes is kept, and renumbered.
LEMMA AskStep == CompareInv /\ (AskBoth \/ AskDirectly) => CompareInv'
<1> SUFFICES ASSUME CompareInv, AskBoth \/ AskDirectly PROVE CompareInv'
    OBVIOUS
<1>1. step' \notin {"store", "stored"}
    BY DEF AskBoth, AskDirectly
<1>2. CASE AskBoth
    <2>1. PICK s \in SeqOf(Sides, MaxSources), q \in [Dimensions -> SUBSET Numbers] :
             /\ UNION {q[d] : d \in Dimensions} \subseteq DOMAIN s
             /\ quoted' = q
             /\ kept' \in InOrderOf(IF UNION {q[d] : d \in Dimensions} = {} THEN DOMAIN s
                                    ELSE UNION {q[d] : d \in Dimensions})
        BY <1>2 DEF AskBoth
    <2>2. UNION {q[d] : d \in Dimensions} \subseteq ToSet(kept')
        BY <2>1 DEF InOrderOf
    <2>3. \A d \in Dimensions : quoted'[d] \subseteq ToSet(kept')
        BY <2>1, <2>2
    <2> QED BY <1>1, <2>3 DEF CompareInv, QuotesAreKept, RowsAreSources
<1>3. CASE AskDirectly
    <2>1. \E s : \E q \in [Dimensions -> SUBSET Numbers] :
              /\ \A d \in Dimensions : q[d] \subseteq DOMAIN s
              /\ quoted' = q /\ kept' = Places(s)
        BY <1>3 DEF AskDirectly
    <2>1a. PICK s : \E q \in [Dimensions -> SUBSET Numbers] :
              /\ \A d \in Dimensions : q[d] \subseteq DOMAIN s
              /\ quoted' = q /\ kept' = Places(s)
        BY <2>1
    <2>2. DOMAIN Places(s) = DOMAIN s /\ \A i \in DOMAIN s : Places(s)[i] = i
        BY DEF Places
    <2>3. DOMAIN s \subseteq ToSet(Places(s))
        BY <2>2 DEF ToSet
    <2>4. \A d \in Dimensions : quoted'[d] \subseteq ToSet(kept')
        BY <2>1a, <2>3
    <2> QED BY <1>1, <2>4 DEF CompareInv, QuotesAreKept, RowsAreSources
<1> QED BY <1>2, <1>3

\* The rows are made, from its answer or from what was found.
LEMMA RowsStep == CompareInv /\ (StructuredRows \/ InferredRows) => CompareInv'
<1> SUFFICES ASSUME CompareInv, StructuredRows \/ InferredRows PROVE CompareInv'
    OBVIOUS
<1>1. step = "rows" /\ step' = "store" /\ UNCHANGED <<found, quoted, kept>>
    BY DEF StructuredRows, InferredRows
<1>2. QuotesAreKept'
    BY <1>1 DEF CompareInv, QuotesAreKept
<1>3. \A d \in Dimensions, side \in Sides : Evidence(d, side)' = Evidence(d, side)
    BY <1>1 DEF Evidence
<1>4. ASSUME NEW d \in Dimensions, NEW side \in Sides
      PROVE  /\ rows'[d][side] # 0 => rows'[d][side] \in DOMAIN kept /\ found[kept[rows'[d][side]]] = side
             /\ inferred' => rows'[d][side] \in Evidence(d, side)
    <2>1. CASE StructuredRows
        <3>1. rows'[d] \in [left : {0} \cup {i \in DOMAIN kept : found[kept[i]] = "left"},
                            right : {0} \cup {i \in DOMAIN kept : found[kept[i]] = "right"}]
              /\ inferred' = FALSE
            BY <2>1 DEF StructuredRows
        <3> QED BY <3>1 DEF Sides
    <2>2. CASE InferredRows
        <3>1. rows'[d].left \in Evidence(d, "left") /\ rows'[d].right \in Evidence(d, "right")
            BY <2>2 DEF InferredRows
        <3>2. rows'[d][side] \in Evidence(d, side)
            BY <3>1 DEF Sides
        <3> QED BY <3>2 DEF Evidence
    <2> QED BY <2>1, <2>2
<1> QED BY <1>1, <1>2, <1>3, <1>4 DEF CompareInv, RowsAreSources

\* One step for each action.
LEMMA CompareStep == CompareInv /\ [CompareNext]_compareVars => CompareInv'
<1> SUFFICES ASSUME CompareInv, [CompareNext]_compareVars PROVE CompareInv'
    OBVIOUS
<1>1. ASSUME UNCHANGED <<found, quoted, kept, inferred>>,
             step' \notin {"rows", "store", "stored"}
             \/ (step' = step /\ rows' = rows)
             \/ (step = "store" /\ step' = "stored" /\ rows' = rows)
      PROVE  CompareInv'
    <2>1. \A d \in Dimensions, side \in Sides : Evidence(d, side)' = Evidence(d, side)
        BY <1>1 DEF Evidence
    <2> QED BY <1>1, <2>1 DEF CompareInv, QuotesAreKept, RowsAreSources
<1>2. CASE LoadDocuments \/ LoseCompare \/ UNCHANGED compareVars
    BY <1>1, <1>2 DEF LoadDocuments, LoseCompare, compareVars
<1>3. CASE StoreComparison \/ DeleteComparison
    BY <1>1, <1>3 DEF StoreComparison, DeleteComparison
<1>4. CASE \E side \in Sides : DeleteSide(side)
    BY <1>1, <1>4 DEF DeleteSide
<1> QED BY <1>2, <1>3, <1>4, AskStep, RowsStep DEF CompareNext

\* A cell that names a source names one that was cited for it.
LEMMA CompareConclusion == CompareInv => EvidenceIsCited
<1> SUFFICES ASSUME CompareInv, step = "stored", NumbersHold, NEW d \in Dimensions, NEW side \in Sides
             PROVE  /\ rows[d][side] # 0 => found[rows[d][side]] = side
                    /\ inferred => IF CitedFor(d, side) = {} THEN rows[d][side] = 0
                                   ELSE rows[d][side] \in CitedFor(d, side)
    BY DEF EvidenceIsCited
<1>1. \A i \in DOMAIN kept : kept[i] = i
    BY DEF NumbersHold, Places
<1>2. quoted[d] \subseteq DOMAIN kept
    BY <1>1 DEF CompareInv, QuotesAreKept, ToSet
<1>3. Evidence(d, side) = IF CitedFor(d, side) = {} THEN {0} ELSE CitedFor(d, side)
    <2>1. {i \in DOMAIN kept \cap quoted[d] : found[kept[i]] = side} = CitedFor(d, side)
        BY <1>1, <1>2 DEF CitedFor
    <2> QED BY <2>1 DEF Evidence
<1> QED BY <1>1, <1>3 DEF CompareInv, RowsAreSources

\* For any dimensions and sources: the cell of a comparison rests on a source that was cited, of
\* the side it is about; an inferred one on one that was cited for its dimension, if any was.
THEOREM RowsRestOnCitations == CompareSpec => []EvidenceIsCited
<1>1. CompareInit => CompareInv
    BY DEF CompareInit, CompareInv, QuotesAreKept, RowsAreSources
<1> QED BY <1>1, CompareStep, CompareConclusion, PTL DEF CompareSpec

HIDE CompareAssumption

-----------------------------------------------------------------------------
(* What a collection does not cover.                                         *)

USE GapsAssumption DEF GapsAssumption

\* The types are all that the gaps need of the past.
GapsInv == GapsTypeOK

\* A document added or removed changes how many there are; one that is finished stays where it is.
LEMMA HoldingsStart == GapsInit => GapsTypeOK
BY EmptySeq DEF GapsInit, GapsTypeOK

\* A document added or removed changes how many there are; one that is finished stays where it is.
LEMMA HoldingsStayTyped == GapsTypeOK /\ [GapsNext]_holdings => GapsTypeOK'
<1> SUFFICES ASSUME GapsTypeOK, [GapsNext]_holdings  PROVE GapsTypeOK'
  OBVIOUS
<1>0. holdings \in Seq(Holding) /\ Len(holdings) <= MaxHoldings
  BY DEF GapsTypeOK
<1>1. ASSUME NEW ss \in SUBSET Subjects, NEW taken \in SUBSET Areas, SaveHolding(ss, taken)
      PROVE  GapsTypeOK'
  <2>1. PICK h : h = [subjects |-> ss, areas |-> taken, state |-> "working"]
    OBVIOUS
  <2>2. h \in Holding
    BY <2>1 DEF Holding
  <2>3. holdings' = <<h>> \o holdings /\ Len(holdings) < MaxHoldings
    BY <1>1, <2>1 DEF SaveHolding
  <2>4. <<h>> \in Seq(Holding) /\ Len(<<h>>) = 1
    BY <2>2
  <2>5. holdings' \in Seq(Holding) /\ Len(holdings') = 1 + Len(holdings)
    BY <1>0, <2>3, <2>4, ConcatProperties
  <2> QED
    BY <1>0, <2>3, <2>5 DEF GapsTypeOK
<1>2. ASSUME NEW i \in DOMAIN holdings, RemoveHolding(i)  PROVE GapsTypeOK'
  <2>1. i \in 1..Len(holdings) /\ Len(holdings) \in Nat
    BY <1>0
  <2>2. SubSeq(holdings, 1, i - 1) \in Seq(Holding) /\ Len(SubSeq(holdings, 1, i - 1)) = i - 1
    BY <1>0, <2>1, SubSeqProperties
  <2>3. SubSeq(holdings, i + 1, Len(holdings)) \in Seq(Holding)
        /\ Len(SubSeq(holdings, i + 1, Len(holdings))) = Len(holdings) - i
    BY <1>0, <2>1, SubSeqProperties
  <2>4. holdings' \in Seq(Holding) /\ Len(holdings') = (i - 1) + (Len(holdings) - i)
    BY <1>2, <2>2, <2>3, ConcatProperties DEF RemoveHolding, RemoveAt
  <2> QED
    BY <1>0, <2>1, <2>4 DEF GapsTypeOK
<1>3. ASSUME NEW i \in DOMAIN holdings, NEW to \in {"ready", "failed"}, FinishHolding(i, to)
      PROVE  GapsTypeOK'
  <2>1. PICK h : h = [holdings[i] EXCEPT !.state = to]
    OBVIOUS
  <2>2. holdings[i] \in Holding
    BY <1>0
  <2>2a. h \in Holding
    BY <2>1, <2>2 DEF Holding
  <2>3. holdings' = [holdings EXCEPT ![i] = h]
    BY <1>3, <2>1 DEF FinishHolding
  <2> QED
    BY <1>0, <2>2a, <2>3, ExceptSeq DEF GapsTypeOK
<1>4. CASE UNCHANGED holdings
  BY <1>0, <1>4 DEF GapsTypeOK
<1>5. ASSUME NEW s \in Subjects, NEW need \in Areas, FillGap(s, need)  PROVE GapsTypeOK'
  BY <1>1, <1>5 DEF FillGap
<1> QED
  BY <1>1, <1>2, <1>3, <1>4, <1>5 DEF GapsNext

\* The documents of a collection are documents.
LEMMA HoldingsAreTyped == GapsSpec => []GapsTypeOK
BY HoldingsStart, HoldingsStayTyped, PTL DEF GapsSpec

\* In a collection no larger than the page, what is read is everything that is READY.
LEMMA AllAreRead ==
    ASSUME GapsTypeOK, Len(holdings) <= Page
    PROVE  ReadyFirst = {i \in DOMAIN holdings : Ready(i)}
<1>1. ASSUME NEW i \in DOMAIN holdings  PROVE Cardinality({j \in 1..i : Ready(j)}) <= Page
  <2>1. i \in Nat /\ 1 <= i /\ i <= Len(holdings) /\ Len(holdings) \in Nat
    BY DEF GapsTypeOK
  <2>2. IsFiniteSet(1..i) /\ Cardinality(1..i) = i
    BY <2>1, FS_Interval
  <2>3. {j \in 1..i : Ready(j)} \subseteq 1..i
    OBVIOUS
  <2>4. Cardinality({j \in 1..i : Ready(j)}) \in Nat /\ Cardinality({j \in 1..i : Ready(j)}) <= i
    BY <2>2, <2>3, FS_Subset, FS_CardinalityType
  <2> QED
    BY <2>1, <2>4
<1> QED
  BY <1>1 DEF ReadyFirst

\* The same as a fact of every state, so of the next one too.
AllRead == GapsTypeOK /\ Len(holdings) <= Page => ReadyFirst = {i \in DOMAIN holdings : Ready(i)}
LEMMA AllReadAlways == AllRead
BY AllAreRead DEF AllRead

\* More areas covered, and documents of the topic still there, cannot make a gap worse.
LEMMA SeverityFalls ==
    ASSUME NEW S, NEW T, NEW sev, NEW sevNext, NEW p, NEW q, p \in BOOLEAN, q \in BOOLEAN, q => p,
           S \subseteq T, T \subseteq Areas,
           sev = IF p \/ 4 * Cardinality(S) < Cardinality(Areas) THEN 2
                 ELSE IF Cardinality(Areas) - Cardinality(S) >= 3
                         \/ 10 * Cardinality(S) < 6 * Cardinality(Areas) THEN 1
                 ELSE 0,
           sevNext = IF q \/ 4 * Cardinality(T) < Cardinality(Areas) THEN 2
                     ELSE IF Cardinality(Areas) - Cardinality(T) >= 3
                             \/ 10 * Cardinality(T) < 6 * Cardinality(Areas) THEN 1
                     ELSE 0
    PROVE  sevNext <= sev
<1>1. IsFiniteSet(Areas) /\ IsFiniteSet(T) /\ IsFiniteSet(S)
  BY FS_Subset
<1>2. Cardinality(S) \in Nat /\ Cardinality(T) \in Nat /\ Cardinality(Areas) \in Nat
  BY <1>1, FS_CardinalityType
<1>3. Cardinality(S) <= Cardinality(T)
  BY <1>1, FS_Subset
<1> DEFINE n == Cardinality(S)
           k == Cardinality(T)
           m == Cardinality(Areas)
<1>4. n \in Nat /\ k \in Nat /\ m \in Nat /\ n <= k
  BY <1>2, <1>3
<1>5. sev = IF p \/ 4 * n < m THEN 2 ELSE IF m - n >= 3 \/ 10 * n < 6 * m THEN 1 ELSE 0
  OBVIOUS
<1>6. sevNext = IF q \/ 4 * k < m THEN 2 ELSE IF m - k >= 3 \/ 10 * k < 6 * m THEN 1 ELSE 0
  OBVIOUS
<1> HIDE DEF n, k, m
<1>7. (4 * k < m => 4 * n < m) /\ (m - k >= 3 => m - n >= 3) /\ (10 * k < 6 * m => 10 * n < 6 * m)
  BY <1>4
<1> QED
  BY <1>4, <1>5, <1>6, <1>7

\* A document that finishes is added to what is read, and nothing that was read is lost.
LEMMA FinishingAdds ==
    ASSUME GapsTypeOK, GapsTypeOK', Len(holdings) <= Page, NEW i \in DOMAIN holdings,
           NEW to \in {"ready", "failed"}, FinishHolding(i, to), NEW s \in Reported
    PROVE  Covered(s) \subseteq Covered(s)' /\ Severity(s)' <= Severity(s)
<1>1. holdings \in Seq(Holding) /\ holdings' = [holdings EXCEPT ![i].state = to]
  BY DEF GapsTypeOK, FinishHolding
<1>2. DOMAIN holdings' = DOMAIN holdings /\ Len(holdings') = Len(holdings)
  BY <1>1
<1>3. \A j \in DOMAIN holdings : holdings'[j].subjects = holdings[j].subjects
                                  /\ holdings'[j].areas = holdings[j].areas
                                  /\ (holdings[j].state = "ready" => holdings'[j].state = "ready")
  BY <1>1 DEF FinishHolding, Holding
<1>4. ReadyFirst = {j \in DOMAIN holdings : holdings[j].state = "ready"}
  BY AllAreRead DEF Ready
<1>5. ReadyFirst' = {j \in DOMAIN holdings' : holdings'[j].state = "ready"}
  <2>1. AllRead'
    BY AllReadAlways, PTL
  <2> QED
    BY <1>2, <2>1 DEF AllRead, Ready
<1>6. ReadyFirst \subseteq ReadyFirst'
  BY <1>2, <1>3, <1>4, <1>5
<1>7. About(s) \subseteq About(s)'
  BY <1>3, <1>4, <1>6 DEF About
<1>8. \A need \in Areas : EvidenceFor(s, need) \subseteq EvidenceFor(s, need)'
  BY <1>3, <1>4, <1>7 DEF EvidenceFor, About
<1>9. Covered(s) \subseteq Covered(s)' /\ Covered(s)' \subseteq Areas
  BY <1>8 DEF Covered
<1>10. PICK S : S = Covered(s)
  OBVIOUS
<1>11. PICK T : T = Covered(s)'
  OBVIOUS
<1>12. PICK p \in BOOLEAN : p <=> About(s) = {}
  OBVIOUS
<1>13. PICK q \in BOOLEAN : q <=> About(s)' = {}
  OBVIOUS
<1>14. q => p
  BY <1>7, <1>12, <1>13
<1>15. Severity(s)' <= Severity(s)
  <2>1. S \subseteq T /\ T \subseteq Areas
    BY <1>9, <1>10, <1>11
  <2>2. PICK sev : sev = IF p \/ 4 * Cardinality(S) < Cardinality(Areas) THEN 2
                 ELSE IF Cardinality(Areas) - Cardinality(S) >= 3
                         \/ 10 * Cardinality(S) < 6 * Cardinality(Areas) THEN 1
                 ELSE 0
    OBVIOUS
  <2>3. PICK sevNext : sevNext = IF q \/ 4 * Cardinality(T) < Cardinality(Areas) THEN 2
                     ELSE IF Cardinality(Areas) - Cardinality(T) >= 3
                             \/ 10 * Cardinality(T) < 6 * Cardinality(Areas) THEN 1
                     ELSE 0
    OBVIOUS
  <2>4. sevNext <= sev
    BY <1>14, <2>1, <2>2, <2>3, SeverityFalls
  <2>5. Severity(s) = sev
    BY <1>10, <1>12, <2>2 DEF Severity
  <2>6. Severity(s)' = sevNext
    BY <1>11, <1>13, <2>3 DEF Severity
  <2> QED
    BY <2>4, <2>5, <2>6
<1> QED
  BY <1>9, <1>15

\* A document that is added or removed changes the number of documents.
LEMMA OnlyFinishingKeeps ==
    ASSUME GapsTypeOK, GapsNext, Len(holdings') = Len(holdings)
    PROVE  \E i \in DOMAIN holdings, to \in {"ready", "failed"} : FinishHolding(i, to)
<1>0. holdings \in Seq(Holding) /\ Len(holdings) \in Nat
  BY DEF GapsTypeOK
<1>1. ASSUME NEW ss \in SUBSET Subjects, NEW taken \in SUBSET Areas, SaveHolding(ss, taken)
      PROVE  FALSE
  <2>1. PICK h : h = [subjects |-> ss, areas |-> taken, state |-> "working"]
    OBVIOUS
  <2>2. h \in Holding
    BY <2>1 DEF Holding
  <2>3. holdings' = <<h>> \o holdings
    BY <1>1, <2>1 DEF SaveHolding
  <2>4. <<h>> \in Seq(Holding) /\ Len(<<h>>) = 1
    BY <2>2
  <2> QED
    BY <1>0, <2>3, <2>4, ConcatProperties
<1>2. ASSUME NEW i \in DOMAIN holdings, RemoveHolding(i)  PROVE FALSE
  <2>1. i \in 1..Len(holdings)
    BY <1>0
  <2>2. SubSeq(holdings, 1, i - 1) \in Seq(Holding) /\ Len(SubSeq(holdings, 1, i - 1)) = i - 1
    BY <1>0, <2>1, SubSeqProperties
  <2>3. SubSeq(holdings, i + 1, Len(holdings)) \in Seq(Holding)
        /\ Len(SubSeq(holdings, i + 1, Len(holdings))) = Len(holdings) - i
    BY <1>0, <2>1, SubSeqProperties
  <2>4. Len(holdings') = (i - 1) + (Len(holdings) - i)
    BY <1>2, <2>2, <2>3, ConcatProperties DEF RemoveHolding, RemoveAt
  <2> QED
    BY <1>0, <2>1, <2>4
<1>3. ASSUME NEW s \in Subjects, NEW need \in Areas, FillGap(s, need)  PROVE FALSE
  BY <1>1, <1>3 DEF FillGap
<1> QED
  BY <1>1, <1>2, <1>3 DEF GapsNext

\* For any rubric and any documents: in a collection no larger than the page, a document that becomes
\* READY takes no area from a topic and makes no gap of it worse.
THEOREM SourcesOnlyHelp == GapsSpec => SourcesNeverHurt
<1> DEFINE Kind == (Len(holdings') = Len(holdings) /\ Len(holdings) <= Page) =>
                       \A s \in Reported : Covered(s) \subseteq Covered(s)' /\ Severity(s)' <= Severity(s)
<1>1. ASSUME GapsTypeOK, GapsTypeOK', [GapsNext]_holdings  PROVE [Kind]_holdings
  <2> SUFFICES ASSUME GapsNext, Len(holdings') = Len(holdings), Len(holdings) <= Page, NEW s \in Reported
               PROVE  Covered(s) \subseteq Covered(s)' /\ Severity(s)' <= Severity(s)
    BY <1>1
  <2> QED
    BY <1>1, OnlyFinishingKeeps, FinishingAdds
<1> QED
  BY <1>1, HoldingsAreTyped, PTL DEF GapsSpec, SourcesNeverHurt

HIDE GapsAssumption DEF GapsAssumption

-----------------------------------------------------------------------------
(* What is said of the use of the documents.                                 *)

\* Numbers have a least one.
LEMMA LeastNumber ==
    ASSUME NEW T, T \subseteq Nat, T # {}
    PROVE  \E x \in T : \A y \in T : x <= y
<1> DEFINE R == {ss \in Nat \X Nat : ss[1] < ss[2]}
<1>1. IsWellFoundedOn(R, Nat)
  BY NatLessThanWellFounded DEF OpToRel
<1>2. \E x \in T : \A y \in T : ~(<<y, x>> \in R)
  <2> HIDE DEF R
  <2> QED BY <1>1, WFMin
<1>3. PICK x \in T : \A y \in T : <<y, x>> \notin R
  BY <1>2
<1>4. \A y \in T : ~(y < x)
  BY <1>3
<1> QED BY <1>4

\* A set of days up to today has a last one.
LEMMA LastDayOfThem ==
    ASSUME NEW X, X \subseteq 0..day, X # {}, day \in Nat
    PROVE  Max(X) \in X
<1> DEFINE Y == {y \in Nat : y <= day /\ day - y \in X}
<1>0. \A x \in X : x \in Nat /\ x <= day
  OBVIOUS
<1>1. PICK x \in X : x \in Nat /\ x <= day
  BY <1>0
<1>2. day - x \in Nat /\ day - (day - x) = x
  BY <1>1
<1>3. day - x \in Y
  BY <1>1, <1>2
<1>4. PICK y \in Y : \A z \in Y : y <= z
  BY <1>3, LeastNumber
<1>5. day - y \in X
  OBVIOUS
<1>6. ASSUME NEW z \in X  PROVE day - y >= z
  <2>1. z \in Nat /\ z <= day /\ day - (day - z) = z /\ day - z \in Nat
    OBVIOUS
  <2>2. day - z \in Y
    BY <2>1
  <2>3. y <= day - z /\ y \in Nat
    BY <1>4, <2>2
  <2> QED BY <2>1, <2>3
<1>7. \E z \in X : \A w \in X : z >= w
  BY <1>5, <1>6
<1> QED BY <1>7 DEF Max

\* The months are counted on.
MonthNumber(m) == 12 * m.year + m.month - 1
AMonth == [year : Int, month : 1..12]

\* Months with one number are one month; the order of the numbers is that of the months.
LEMMA MonthsAreCounted ==
    ASSUME NEW m \in AMonth, NEW n \in AMonth
    PROVE  /\ MonthNumber(m) \in Int
           /\ MonthNumber(m) = MonthNumber(n) => m = n
           /\ NotBefore(m, n) <=> MonthNumber(m) >= MonthNumber(n)
<1>1. m.year \in Int /\ m.month \in 1..12 /\ n.year \in Int /\ n.month \in 1..12
  BY DEF AMonth
<1>2. MonthNumber(m) = 12 * m.year + m.month - 1 /\ MonthNumber(n) = 12 * n.year + n.month - 1
  BY DEF MonthNumber
<1>3. MonthNumber(m) \in Int
  BY <1>1, <1>2
<1>4. MonthNumber(m) = MonthNumber(n) => m.year = n.year /\ m.month = n.month
  <2> SUFFICES ASSUME MonthNumber(m) = MonthNumber(n)  PROVE m.year = n.year /\ m.month = n.month
    OBVIOUS
  <2>1. PICK a \in Int, b \in Int, c \in 1..12, d \in 1..12 :
           a = m.year /\ b = n.year /\ c = m.month /\ d = n.month
    BY <1>1
  <2>2. 12 * a + c = 12 * b + d
    <3>1. MonthNumber(m) = 12 * a + c - 1
      BY <2>1 DEF MonthNumber
    <3>2. MonthNumber(n) = 12 * b + d - 1
      BY <2>1 DEF MonthNumber
    <3>3. 12 * a + c - 1 = 12 * b + d - 1
      BY <3>1, <3>2
    <3>4. 12 * a + c \in Int /\ 12 * b + d \in Int
      OBVIOUS
    <3> QED BY <3>3, <3>4
  <2>3. a = b /\ c = d
    BY <2>2
  <2> QED BY <2>1, <2>3
<1>5. m.year = n.year /\ m.month = n.month => m = n
  BY DEF AMonth
<1>6. NotBefore(m, n) <=> MonthNumber(m) >= MonthNumber(n)
  BY <1>1, <1>2 DEF NotBefore
<1> QED BY <1>3, <1>4, <1>5, <1>6

\* A number is its twelfths and what remains.
LEMMA Twelfths ==
    ASSUME NEW i \in Int
    PROVE  i \div 12 \in Int /\ i % 12 \in 0..11 /\ 12 * (i \div 12) + (i % 12) = i
OBVIOUS

\* A month that is shifted by so many has a number that is larger by as many.
LEMMA MonthsShift ==
    ASSUME NEW m \in AMonth, NEW k \in Int
    PROVE  ShiftMonth(m, k) \in AMonth /\ MonthNumber(ShiftMonth(m, k)) = MonthNumber(m) + k
<1>1. PICK i \in Int : i = m.month - 1 + k
  BY DEF AMonth
<1>2. i \div 12 \in Int /\ i % 12 \in 0..11 /\ 12 * (i \div 12) + (i % 12) = i
  BY Twelfths
<1>3. ShiftMonth(m, k) = [year |-> m.year + (i \div 12), month |-> 1 + (i % 12)]
  BY <1>1 DEF ShiftMonth
<1>4. m.year \in Int /\ m.month \in 1..12
  BY DEF AMonth
<1>5. ShiftMonth(m, k) \in AMonth
  BY <1>2, <1>3, <1>4 DEF AMonth
<1>6. MonthNumber(ShiftMonth(m, k)) = 12 * (m.year + (i \div 12)) + (i % 12)
  <2>1. ShiftMonth(m, k).year = m.year + (i \div 12) /\ ShiftMonth(m, k).month = 1 + (i % 12)
    BY <1>3
  <2> QED BY <1>2, <1>4, <2>1 DEF MonthNumber
<1>7. MonthNumber(m) + k = 12 * m.year + i
  BY <1>1, <1>4 DEF MonthNumber
<1> QED BY <1>2, <1>4, <1>5, <1>6, <1>7

\* The months of the days follow each other.
LEMMA MonthsOfDays ==
    ASSUME NEW x \in Nat
    PROVE  /\ MonthOf(x) \in AMonth /\ x \div MonthDays \in Nat
           /\ MonthNumber(MonthOf(x)) = 24 + FirstMonth + (x \div MonthDays)
<1>0. MonthDays \in Nat \ {0} /\ FirstMonth \in 0..11
  BY StatisticsAssumption DEF StatisticsAssumption
<1>1. x \div MonthDays \in Nat
  BY <1>0
<1>2. PICK i \in Int : i = FirstMonth + (x \div MonthDays)
  BY <1>0, <1>1
<1>3. i \div 12 \in Int /\ i % 12 \in 0..11 /\ 12 * (i \div 12) + (i % 12) = i
  BY Twelfths
<1>4. MonthOf(x) = [year |-> 2 + (i \div 12), month |-> 1 + (i % 12)]
  BY <1>2 DEF MonthOf
<1>5. MonthOf(x) \in AMonth
  BY <1>3, <1>4 DEF AMonth
<1>6. MonthNumber(MonthOf(x)) = 12 * (2 + (i \div 12)) + (i % 12)
  <2>1. MonthOf(x).year = 2 + (i \div 12) /\ MonthOf(x).month = 1 + (i % 12)
    BY <1>4
  <2> QED BY <1>3, <2>1 DEF MonthNumber
<1>7. MonthNumber(MonthOf(x)) = 24 + i
  BY <1>3, <1>6
<1> QED BY <1>0, <1>1, <1>2, <1>5, <1>7

\* An earlier day is of no later month.
LEMMA EarlierMonths ==
    ASSUME NEW x \in Nat, NEW y \in Nat, x <= y
    PROVE  x \div MonthDays <= y \div MonthDays
<1>1. PICK M \in Nat \ {0} : M = MonthDays
  BY StatisticsAssumption DEF StatisticsAssumption
<1>2. PICK a \in Nat : a = x \div M
  BY <1>1
<1>3. PICK b \in Nat : b = y \div M
  BY <1>1
<1>4. M * a <= x /\ y < M * (b + 1)
  <2>1. x = M * (x \div M) + (x % M) /\ x % M \in 0..(M - 1)
    OBVIOUS
  <2>2. y = M * (y \div M) + (y % M) /\ y % M \in 0..(M - 1)
    OBVIOUS
  <2>3. M * a \in Nat /\ M * b \in Nat /\ M * (b + 1) = M * b + M
    OBVIOUS
  <2> QED BY <1>2, <1>3, <2>1, <2>2, <2>3
<1>5. ~(b < a)
  <2> SUFFICES ASSUME b < a  PROVE FALSE
    OBVIOUS
  <2>1. M * (b + 1) <= M * a
    <3>1. PICK c \in Nat : a = b + 1 + c
      <4>1. a - b - 1 \in Nat /\ a = b + 1 + (a - b - 1)
        OBVIOUS
      <4> QED BY <4>1
    <3>2. M * a = M * (b + 1) + M * c /\ M * c \in Nat /\ M * (b + 1) \in Nat
      BY <3>1
    <3> QED BY <3>2
  <2>2. M * a \in Nat /\ M * (b + 1) \in Nat
    OBVIOUS
  <2> QED BY <1>4, <2>1, <2>2
<1> QED BY <1>1, <1>2, <1>3, <1>5

\* The rows are of days up to today; a timeline starts its window before the current month.
StatTyped ==
    /\ day \in 0..LastDay
    /\ saved \in [StatDocs -> Int] /\ \A d \in StatDocs : saved[d] = Never \/ saved[d] \in 0..day
    /\ askedOn \in [StatDocs -> SUBSET Nat] /\ \A d \in StatDocs : askedOn[d] \subseteq 0..day
    /\ timeline.pc \in {"none", "clock", "told", "failed"} /\ timeline.start \in AMonth
    /\ turned \in BOOLEAN

\* The window begins where it should, unless the month turned.
WindowHolds ==
    /\ timeline.pc = "clock" /\ ~turned => timeline.start = ShiftMonth(MonthOf(day), -(Window - 1))
    /\ timeline.pc = "failed" => turned

\* The invariant.
StatInv == StatTyped /\ WindowHolds

\* The months of the window of a timeline, by number.
LEMMA TheBuckets ==
    ASSUME timeline.start \in AMonth
    PROVE  /\ \A i \in 0..Window - 1 : /\ ShiftMonth(timeline.start, i) \in AMonth
                                       /\ MonthNumber(ShiftMonth(timeline.start, i)) = MonthNumber(timeline.start) + i
           /\ \A m \in AMonth : m \in Buckets <=>
                 MonthNumber(m) >= MonthNumber(timeline.start) /\ MonthNumber(m) <= MonthNumber(timeline.start) + Window - 1
<1>0. Window \in Nat /\ MonthNumber(timeline.start) \in Int
  BY StatisticsAssumption, MonthsAreCounted DEF StatisticsAssumption
<1>1. \A i \in 0..Window - 1 : /\ ShiftMonth(timeline.start, i) \in AMonth
                               /\ MonthNumber(ShiftMonth(timeline.start, i)) = MonthNumber(timeline.start) + i
  BY <1>0, MonthsShift
<1>2. ASSUME NEW m \in AMonth
      PROVE  m \in Buckets <=>
                MonthNumber(m) >= MonthNumber(timeline.start) /\ MonthNumber(m) <= MonthNumber(timeline.start) + Window - 1
  <2>0. MonthNumber(m) \in Int
    BY MonthsAreCounted
  <2>1. ASSUME m \in Buckets
        PROVE  MonthNumber(m) >= MonthNumber(timeline.start) /\ MonthNumber(m) <= MonthNumber(timeline.start) + Window - 1
    <3>1. PICK i \in 0..Window - 1 : m = ShiftMonth(timeline.start, i)
      BY <2>1 DEF Buckets
    <3>2. MonthNumber(m) = MonthNumber(timeline.start) + i
      BY <1>1, <3>1
    <3> QED BY <1>0, <3>2
  <2>2. ASSUME MonthNumber(m) >= MonthNumber(timeline.start), MonthNumber(m) <= MonthNumber(timeline.start) + Window - 1
        PROVE  m \in Buckets
    <3>1. PICK i \in 0..Window - 1 : i = MonthNumber(m) - MonthNumber(timeline.start)
      BY <1>0, <2>0, <2>2
    <3>2. MonthNumber(ShiftMonth(timeline.start, i)) = MonthNumber(m)
      BY <1>0, <1>1, <2>0, <3>1
    <3>3. m = ShiftMonth(timeline.start, i)
      BY <1>1, <3>2, MonthsAreCounted
    <3> QED BY <3>3 DEF Buckets
  <2> QED BY <2>1, <2>2
<1> QED BY <1>1, <1>2

\* A timeline has a bucket for each month of its window.
LEMMA BucketsOfAWindow ==
    ASSUME timeline.start \in AMonth
    PROVE  Cardinality(Buckets) = Window
<1> DEFINE f == [i \in 0..Window - 1 |-> ShiftMonth(timeline.start, i)]
<1>0. Window \in Nat \ {0} /\ MonthNumber(timeline.start) \in Int
  BY StatisticsAssumption, MonthsAreCounted DEF StatisticsAssumption
<1>1. \A i \in 0..Window - 1 : /\ ShiftMonth(timeline.start, i) \in AMonth
                               /\ MonthNumber(ShiftMonth(timeline.start, i)) = MonthNumber(timeline.start) + i
  BY TheBuckets
<1>2. f \in Injection(0..Window - 1, Buckets)
  <2>1. f \in [0..Window - 1 -> Buckets]
    BY DEF Buckets
  <2>2. ASSUME NEW i \in 0..Window - 1, NEW j \in 0..Window - 1, f[i] = f[j]  PROVE i = j
    BY <1>0, <1>1, <2>2
  <2> QED BY <2>1, <2>2 DEF Injection, IsInjective
<1>3. f \in Surjection(0..Window - 1, Buckets)
  BY DEF Buckets, Surjection
<1>4. IsFiniteSet(0..Window - 1) /\ Cardinality(0..Window - 1) = Window
  BY <1>0, FS_Interval
<1> QED BY <1>2, <1>3, <1>4, FS_Surjection

\* Rows up to today that are not before the window are in it.
LEMMA RowsAreInBuckets ==
    ASSUME StatInv, ~turned, timeline.pc = "clock"
    PROVE  /\ Rows \subseteq Buckets
           /\ \A x \in 0..day : MonthOf(x) \in Buckets <=>
                 (day \div MonthDays) - (x \div MonthDays) < Window
<1>0. /\ day \in Nat /\ timeline.start \in AMonth
      /\ timeline.start = ShiftMonth(MonthOf(day), -(Window - 1))
      /\ \A d \in StatDocs : saved[d] = Never \/ saved[d] \in 0..day
      /\ \A d \in StatDocs : askedOn[d] \subseteq 0..day
  BY DEF StatInv, StatTyped, WindowHolds
<1>1. PICK W \in Nat \ {0}, F \in 0..11 : W = Window /\ F = FirstMonth
  BY StatisticsAssumption DEF StatisticsAssumption
<1>2. PICK t \in Nat : t = day \div MonthDays
  BY <1>0, MonthsOfDays
<1>3. MonthNumber(MonthOf(day)) = 24 + F + t /\ MonthOf(day) \in AMonth
  BY <1>0, <1>1, <1>2, MonthsOfDays
<1>4. MonthNumber(timeline.start) = 24 + F + t - (W - 1)
  <2>1. -(W - 1) \in Int
    BY <1>1
  <2>2. MonthNumber(timeline.start) = MonthNumber(MonthOf(day)) + (-(W - 1))
    BY <1>0, <1>1, <1>3, <2>1, MonthsShift
  <2> QED BY <1>1, <1>3, <2>2
<1>5. ASSUME NEW x \in 0..day
      PROVE  /\ MonthOf(x) \in AMonth
             /\ MonthOf(x) \in Buckets <=> t - (x \div MonthDays) < W
             /\ NotBefore(MonthOf(x), timeline.start) => MonthOf(x) \in Buckets
  <2>1. x \in Nat /\ x <= day
    BY <1>0
  <2>2. PICK s \in Nat : s = x \div MonthDays
    BY <2>1, MonthsOfDays
  <2>3. s <= t
    BY <1>0, <1>2, <2>1, <2>2, EarlierMonths
  <2>4. MonthOf(x) \in AMonth /\ MonthNumber(MonthOf(x)) = 24 + F + s
    BY <1>1, <2>1, <2>2, MonthsOfDays
  <2>5. MonthOf(x) \in Buckets <=>
           MonthNumber(MonthOf(x)) >= MonthNumber(timeline.start) /\ MonthNumber(MonthOf(x)) <= MonthNumber(timeline.start) + Window - 1
    BY <1>0, <2>4, TheBuckets
  <2>6. NotBefore(MonthOf(x), timeline.start) <=> MonthNumber(MonthOf(x)) >= MonthNumber(timeline.start)
    BY <1>0, <2>4, MonthsAreCounted
  <2>7. MonthOf(x) \in Buckets <=> 24 + F + s >= 24 + F + t - (W - 1) /\ 24 + F + s <= 24 + F + t - (W - 1) + W - 1
    BY <1>1, <1>4, <2>4, <2>5
  <2>8. MonthOf(x) \in Buckets <=> t - s < W
    BY <2>3, <2>7
  <2>9. NotBefore(MonthOf(x), timeline.start) <=> 24 + F + s >= 24 + F + t - (W - 1)
    BY <1>4, <2>4, <2>6
  <2>10. NotBefore(MonthOf(x), timeline.start) => MonthOf(x) \in Buckets
    BY <2>3, <2>8, <2>9
  <2> QED BY <2>2, <2>4, <2>8, <2>10
<1>6. Rows \subseteq Buckets
  <2> SUFFICES ASSUME NEW m \in Rows  PROVE m \in Buckets
    OBVIOUS
  <2>1. PICK x \in UNION ({askedOn[d] : d \in StatDocs} \cup {{saved[d]} \ {Never} : d \in StatDocs}) :
           m = MonthOf(x) /\ NotBefore(m, timeline.start)
    BY DEF Rows
  <2>2. PICK X \in {askedOn[d] : d \in StatDocs} \cup {{saved[d]} \ {Never} : d \in StatDocs} : x \in X
    BY <2>1
  <2>3. x \in 0..day
    <3>1. CASE X \in {askedOn[d] : d \in StatDocs}
      BY <1>0, <2>2, <3>1
    <3>2. CASE X \in {{saved[d]} \ {Never} : d \in StatDocs}
      BY <1>0, <2>2, <3>2
    <3> QED BY <2>2, <3>1, <3>2
  <2> QED BY <1>5, <2>1, <2>3
<1> QED BY <1>1, <1>2, <1>5, <1>6

\* Every step keeps the invariant.
LEMMA StatStep == StatInv /\ [StatNext]_statVars => StatInv'
<1> SUFFICES ASSUME StatInv, [StatNext]_statVars  PROVE StatInv'
  OBVIOUS
<1>0. /\ StatTyped /\ WindowHolds /\ day \in Nat /\ day \in 0..LastDay /\ LastDay \in Nat
  BY StatisticsAssumption DEF StatInv, StatTyped, StatisticsAssumption
<1>1. CASE \E d \in StatDocs : Save(d) \/ Drop(d) \/ AskAbout(d)
  <2>1. PICK d \in StatDocs : Save(d) \/ Drop(d) \/ AskAbout(d)
    BY <1>1
  <2>2. UNCHANGED <<day, timeline, turned>>
    BY <2>1 DEF Save, Drop, AskAbout
  <2>3. /\ saved' \in [StatDocs -> Int] /\ \A e \in StatDocs : saved'[e] = Never \/ saved'[e] \in 0..day
        /\ askedOn' \in [StatDocs -> SUBSET Nat] /\ \A e \in StatDocs : askedOn'[e] \subseteq 0..day
    <3>1. CASE Save(d)
      <4>1. saved' = [saved EXCEPT ![d] = day] /\ askedOn' = askedOn /\ day \in 0..day
        BY <1>0, <3>1 DEF Save
      <4> QED BY <1>0, <4>1 DEF StatTyped
    <3>2. CASE Drop(d)
      <4>1. saved' = [saved EXCEPT ![d] = Never] /\ askedOn' = [askedOn EXCEPT ![d] = {}] /\ Never \in Int
        BY <3>2 DEF Drop, Never
      <4> QED BY <1>0, <4>1 DEF StatTyped
    <3>3. CASE AskAbout(d)
      <4>1. saved' = saved /\ askedOn' = [askedOn EXCEPT ![d] = askedOn[d] \cup {day}] /\ day \in 0..day
        BY <1>0, <3>3 DEF AskAbout
      <4>2. askedOn \in [StatDocs -> SUBSET Nat] /\ \A e \in StatDocs : askedOn[e] \subseteq 0..day
        BY <1>0 DEF StatTyped
      <4>3. askedOn[d] \cup {day} \in SUBSET Nat /\ askedOn[d] \cup {day} \subseteq 0..day
        BY <1>0, <4>1, <4>2
      <4>4. askedOn' \in [StatDocs -> SUBSET Nat]
        BY <4>1, <4>2, <4>3
      <4>5. \A e \in StatDocs : askedOn'[e] \subseteq 0..day
        BY <4>1, <4>2, <4>3
      <4> QED BY <1>0, <4>1, <4>4, <4>5 DEF StatTyped
    <3> QED BY <2>1, <3>1, <3>2, <3>3
  <2> QED BY <1>0, <2>2, <2>3 DEF StatInv, StatTyped, WindowHolds
<1>2. CASE NextDay
  <2>1. /\ day < LastDay /\ day' = day + 1 /\ UNCHANGED <<saved, askedOn, timeline>>
        /\ turned' = (turned \/ (timeline.pc = "clock" /\ MonthOf(day + 1) # MonthOf(day)))
    BY <1>2 DEF NextDay
  <2>2. day' \in 0..LastDay /\ 0..day \subseteq 0..day'
    BY <1>0, <2>1
  <2>3. StatTyped'
    <3>1. /\ saved \in [StatDocs -> Int] /\ \A d \in StatDocs : saved[d] = Never \/ saved[d] \in 0..day
          /\ askedOn \in [StatDocs -> SUBSET Nat] /\ \A d \in StatDocs : askedOn[d] \subseteq 0..day
          /\ timeline.pc \in {"none", "clock", "told", "failed"} /\ timeline.start \in AMonth
          /\ turned \in BOOLEAN
      BY <1>0 DEF StatTyped
    <3>2. turned' \in BOOLEAN
      BY <2>1
    <3>3. \A d \in StatDocs : saved[d] = Never \/ saved[d] \in 0..day'
      BY <2>2, <3>1
    <3>4. \A d \in StatDocs : askedOn[d] \subseteq 0..day'
      BY <2>2, <3>1
    <3> QED BY <2>1, <2>2, <3>1, <3>2, <3>3, <3>4 DEF StatTyped
  <2>4. WindowHolds'
    <3>1. turned => turned'
      BY <2>1
    <3>2. timeline.pc = "clock" /\ ~turned' => ~turned /\ MonthOf(day') = MonthOf(day)
      BY <2>1
    <3> QED BY <1>0, <2>1, <3>1, <3>2 DEF WindowHolds
  <2> QED BY <2>3, <2>4 DEF StatInv
<1>3. CASE ReadClock
  <2>1. /\ timeline' = [NoTimeline EXCEPT !.pc = "clock", !.start = ShiftMonth(MonthOf(day), -(Window - 1))]
        /\ UNCHANGED <<day, saved, askedOn, turned>>
    BY <1>3 DEF ReadClock
  <2>2. timeline'.pc = "clock" /\ timeline'.start = ShiftMonth(MonthOf(day), -(Window - 1))
    BY <2>1 DEF NoTimeline
  <2>3. ShiftMonth(MonthOf(day), -(Window - 1)) \in AMonth
    <3>1. -(Window - 1) \in Int
      BY StatisticsAssumption DEF StatisticsAssumption
    <3> QED BY <1>0, <3>1, MonthsOfDays, MonthsShift
  <2> QED BY <1>0, <2>1, <2>2, <2>3 DEF StatInv, StatTyped, WindowHolds
<1>4. CASE ReadRows
  <2>1. /\ timeline.pc = "clock" /\ UNCHANGED <<day, saved, askedOn, turned>>
        /\ timeline'.start = timeline.start /\ timeline'.pc \in {"told", "failed"}
        /\ timeline'.pc = "failed" => ~(Rows \subseteq Buckets)
    <3>1. /\ timeline.pc = "clock" /\ UNCHANGED <<day, saved, askedOn, turned>>
      BY <1>4 DEF ReadRows
    <3>2. CASE Rows \subseteq Buckets
      <4>1. PICK c : timeline' = [timeline EXCEPT !.pc = "told", !.counts = c]
        BY <1>4, <3>2 DEF ReadRows
      <4> QED BY <3>1, <3>2, <4>1
    <3>3. CASE ~(Rows \subseteq Buckets)
      <4>1. timeline' = [timeline EXCEPT !.pc = "failed"]
        BY <1>4, <3>3 DEF ReadRows
      <4> QED BY <3>1, <3>3, <4>1
    <3> QED BY <3>2, <3>3
  <2>2. timeline'.pc = "failed" => turned
    BY <1>0, <2>1, RowsAreInBuckets DEF StatTyped
  <2> QED BY <1>0, <2>1, <2>2 DEF StatInv, StatTyped, WindowHolds
<1>5. CASE CloseTimeline
  <2>1. /\ timeline' = NoTimeline /\ turned' = FALSE /\ UNCHANGED <<day, saved, askedOn>>
    BY <1>5 DEF CloseTimeline
  <2>2. NoTimeline.pc = "none" /\ NoTimeline.start \in AMonth
    BY MonthsOfDays DEF NoTimeline
  <2> QED BY <1>0, <2>1, <2>2 DEF StatInv, StatTyped, WindowHolds
<1>6. CASE UNCHANGED statVars
  <2>1. UNCHANGED <<day, saved, askedOn, timeline, turned>>
    BY <1>6 DEF statVars
  <2> QED BY <1>0, <2>1 DEF StatInv, StatTyped, WindowHolds
<1> QED BY <1>1, <1>2, <1>3, <1>4, <1>5, <1>6 DEF StatNext

\* No statistics are asked for at first.
LEMMA StatStart == StatInit => StatInv
<1> SUFFICES ASSUME StatInit  PROVE StatInv
  OBVIOUS
<1>1. /\ day = 0 /\ saved = [d \in StatDocs |-> Never] /\ askedOn = [d \in StatDocs |-> {}]
      /\ timeline = NoTimeline /\ turned = FALSE /\ Never \in Int /\ LastDay \in Nat
  BY StatisticsAssumption DEF StatInit, Never, StatisticsAssumption
<1>2. NoTimeline.pc = "none" /\ NoTimeline.start \in AMonth
  BY MonthsOfDays DEF NoTimeline
<1>3. saved \in [StatDocs -> Int] /\ \A d \in StatDocs : saved[d] = Never
  BY <1>1
<1>4. askedOn \in [StatDocs -> SUBSET Nat] /\ \A d \in StatDocs : askedOn[d] = {}
  BY <1>1
<1>5. day \in 0..LastDay
  BY <1>1
<1>8. turned \in BOOLEAN
  BY <1>1
<1>6. StatTyped
  BY <1>1, <1>2, <1>3, <1>4, <1>5, <1>8 DEF StatTyped
<1>7. WindowHolds
  BY <1>1, <1>2 DEF WindowHolds
<1> QED BY <1>6, <1>7 DEF StatInv

\* The days documents were used on are numbers.
LEMMA LastUses ==
    ASSUME StatInv, NEW d \in StatDocs, IsSaved(d)
    PROVE  LastUsed(d) \in Int
<1>1. day \in Nat /\ askedOn[d] \subseteq 0..day /\ saved[d] \in Int
  BY StatisticsAssumption DEF StatInv, StatTyped, StatisticsAssumption
<1>2. CASE askedOn[d] = {}
  BY <1>1, <1>2 DEF LastUsed
<1>3. CASE askedOn[d] # {}
  <2>1. Max(askedOn[d]) \in askedOn[d]
    BY <1>1, <1>3, LastDayOfThem
  <2> QED BY <1>1, <1>3, <2>1 DEF LastUsed
<1> QED BY <1>2, <1>3

\* The digest offers what has not been used for longest.
LEMMA DigestsMoveOn == StatInv => DigestMovesOn
<1> SUFFICES ASSUME StatInv, NEW s \in SUBSET StatDocs, NEW most, IsDigest(s, most)
             PROVE  /\ Forgotten \subseteq s \/ s \subseteq Forgotten
                    /\ s \cap Hot # {} => {d \in StatDocs : IsSaved(d)} \subseteq s \cup Hot
  BY DEF DigestMovesOn, kSubset
<1>1. day \in Nat /\ ColdDays \in Nat /\ ForgottenDays \in Nat
  BY StatisticsAssumption DEF StatInv, StatTyped, StatisticsAssumption
<1>2. ASSUME NEW d \in s, NEW e \in StatDocs \ s, IsSaved(e)
      PROVE  /\ IsSaved(d) /\ LastUsed(d) <= LastUsed(e) /\ LastUsed(d) \in Int /\ LastUsed(e) \in Int
  BY <1>2, LastUses DEF IsDigest
<1>3. Forgotten \subseteq s \/ s \subseteq Forgotten
  <2> SUFFICES ASSUME NEW e \in Forgotten, e \notin s, NEW d \in s  PROVE d \in Forgotten
    OBVIOUS
  <2>1. e \in StatDocs \ s /\ IsSaved(e) /\ day - LastUsed(e) > ForgottenDays
    BY DEF Forgotten
  <2>2. IsSaved(d) /\ LastUsed(d) <= LastUsed(e) /\ LastUsed(d) \in Int /\ LastUsed(e) \in Int
    BY <1>2, <2>1
  <2>3. day - LastUsed(d) > ForgottenDays
    BY <1>1, <2>1, <2>2
  <2> QED BY <2>2, <2>3 DEF Forgotten
<1>4. ASSUME NEW d \in s \cap Hot, NEW e \in StatDocs, IsSaved(e), e \notin s  PROVE e \in Hot
  <2>1. day - LastUsed(d) <= ColdDays
    BY DEF Hot
  <2>2. LastUsed(d) <= LastUsed(e) /\ LastUsed(d) \in Int /\ LastUsed(e) \in Int
    BY <1>2, <1>4
  <2>3. day - LastUsed(e) <= ColdDays
    BY <1>1, <2>1, <2>2
  <2> QED BY <1>4, <2>3 DEF Hot
<1> QED BY <1>3, <1>4

\* A timeline counts what is in its window.
LEMMA TimelinesCount == StatInv => TimelineCounts
<1> SUFFICES ASSUME StatInv, ~turned  PROVE TimelineCounts
  BY DEF TimelineCounts
<1>1. timeline.pc # "failed" /\ timeline.start \in AMonth
  BY DEF StatInv, StatTyped, WindowHolds
<1>2. Cardinality(Buckets) = Window
  BY <1>1, BucketsOfAWindow
<1>3. ASSUME timeline.pc = "clock", NEW d \in StatDocs, IsSaved(d)
      PROVE  (MonthOf(saved[d]) \in Buckets) <=>
                (FirstMonth + (day \div MonthDays)) - (FirstMonth + (saved[d] \div MonthDays)) < Window
  <2>1. saved[d] \in 0..day /\ day \in Nat
    BY <1>3 DEF StatInv, StatTyped, IsSaved
  <2>2. MonthOf(saved[d]) \in Buckets <=> (day \div MonthDays) - (saved[d] \div MonthDays) < Window
    BY <1>3, <2>1, RowsAreInBuckets
  <2>3. day \div MonthDays \in Nat /\ saved[d] \div MonthDays \in Nat /\ FirstMonth \in Nat
    BY <2>1, MonthsOfDays, StatisticsAssumption DEF StatisticsAssumption
  <2> QED BY <2>2, <2>3
<1> QED BY <1>1, <1>2, <1>3 DEF TimelineCounts

\* What the owner is told about the use of the documents is what the rows say.
THEOREM ReportsAreTrue == StatSpec => []ReportsAreRight
<1>1. StatInit => StatInv
  BY StatStart
<1>2. StatInv /\ [StatNext]_statVars => StatInv'
  BY StatStep
<1>3. StatInv => ReportsAreRight
  BY TimelinesCount, DigestsMoveOn DEF ReportsAreRight
<1> QED BY <1>1, <1>2, <1>3, PTL DEF StatSpec

-----------------------------------------------------------------------------
(* The page about a collection.                                              *)

\* Without a change in between, the page has the latest documents and how many there are.
OnThePage == SubSeq(holdings, 1, IF Page < Len(holdings) THEN Page ELSE Len(holdings))

\* A page that nothing stirred lists and counts what is there.
States == {"working", "ready", "failed"}
ViewInv ==
    /\ GapsTypeOK
    /\ view.pc \in {"none", "documents", "told"} /\ DOMAIN view.count = States /\ stirred \in BOOLEAN
    /\ view.pc # "none" /\ ~stirred => view.listed = OnThePage
    /\ view.pc = "told" /\ ~stirred => view.count = [s \in States |-> Counted(s)]

\* One step for each action: one that stirs the holdings unsettles the page.
LEMMA ViewStep == ViewInv /\ GapsTypeOK' /\ [ViewNext]_viewVars => ViewInv'
<1> SUFFICES ASSUME ViewInv, GapsTypeOK', [ViewNext]_viewVars  PROVE ViewInv'
  OBVIOUS
<1>0. /\ view.pc \in {"none", "documents", "told"} /\ DOMAIN view.count = States
      /\ view.pc # "none" /\ ~stirred => view.listed = OnThePage
      /\ view.pc = "told" /\ ~stirred => view.count = [s \in States |-> Counted(s)]
  BY DEF ViewInv
<1>1. CASE stirred' = (view.pc # "none") /\ UNCHANGED view
  <2>1. view.pc # "none" => stirred'
    BY <1>1
  <2>2. stirred' \in BOOLEAN
    BY <1>1
  <2> QED BY <1>0, <1>1, <2>1, <2>2 DEF ViewInv
<1>2. CASE ViewDocuments
  <2>1. /\ view.pc = "none" /\ UNCHANGED <<holdings, stirred>>
        /\ view' = [view EXCEPT !.pc = "documents", !.listed = OnThePage]
    BY <1>2 DEF ViewDocuments, OnThePage
  <2>2. view'.pc = "documents" /\ view'.listed = OnThePage /\ DOMAIN view'.count = States
    BY <1>0, <2>1 DEF ViewInv
  <2>3. OnThePage' = OnThePage /\ stirred' \in BOOLEAN
    BY <2>1 DEF OnThePage, ViewInv
  <2> QED BY <2>2, <2>3 DEF ViewInv
<1>3. CASE ViewCounts
  <2>1. /\ view.pc = "documents" /\ UNCHANGED <<holdings, stirred>>
        /\ view' = [view EXCEPT !.pc = "told", !.count = [s \in DOMAIN view.count |-> Counted(s)]]
    BY <1>3 DEF ViewCounts
  <2>2. view'.pc = "told" /\ view'.listed = view.listed /\ view'.count = [s \in States |-> Counted(s)]
    BY <1>0, <2>1 DEF ViewInv
  <2>3. OnThePage' = OnThePage /\ stirred' \in BOOLEAN /\ \A s \in States : Counted(s)' = Counted(s)
    BY <2>1 DEF OnThePage, ViewInv, Counted
  <2> QED BY <1>0, <2>1, <2>2, <2>3 DEF ViewInv
<1>4. CASE ViewEnd
  <2>1. view' = NoView /\ stirred' = FALSE /\ NoView.pc = "none" /\ DOMAIN NoView.count = States
    BY <1>4 DEF ViewEnd, NoView, States
  <2> QED BY <2>1 DEF ViewInv
<1>5. CASE UNCHANGED viewVars
  <2>1. UNCHANGED <<holdings, view, stirred>>
    BY <1>5 DEF viewVars
  <2> QED BY <1>0, <2>1 DEF ViewInv, OnThePage, Counted, GapsTypeOK
<1> QED BY <1>1, <1>2, <1>3, <1>4, <1>5 DEF ViewNext

\* Two finite sets without a common member have as many members as both together.
LEMMA SetsAddUp ==
    ASSUME NEW S, NEW T, IsFiniteSet(S), IsFiniteSet(T), S \cap T = {}
    PROVE  IsFiniteSet(S \cup T) /\ Cardinality(S \cup T) = Cardinality(S) + Cardinality(T)
<1>1. Cardinality(S) \in Nat /\ Cardinality(T) \in Nat /\ Cardinality(S \cap T) = 0
  BY FS_CardinalityType, FS_EmptySet
<1>2. IsFiniteSet(S \cup T) /\ Cardinality(S \cup T) = Cardinality(S) + Cardinality(T) - Cardinality(S \cap T)
  BY FS_Union
<1> QED BY <1>1, <1>2

\* Every document has one state: the counts add up.
LEMMA CountsAddUp ==
    ASSUME GapsTypeOK
    PROVE  /\ \A s \in States : Counted(s) \in Nat
           /\ Counted("working") + Counted("ready") + Counted("failed") = Len(holdings)
           /\ \A s \in States : Counted(s) = 0 <=> ~\E i \in DOMAIN holdings : holdings[i].state = s
<1> DEFINE In(s) == {i \in DOMAIN holdings : holdings[i].state = s}
<1>1. /\ holdings \in Seq(Holding) /\ Len(holdings) \in Nat /\ DOMAIN holdings = 1..Len(holdings)
      /\ \A i \in DOMAIN holdings : holdings[i].state \in States
  <2>1. holdings \in Seq(Holding) /\ Len(holdings) \in Nat /\ DOMAIN holdings = 1..Len(holdings)
    BY DEF GapsTypeOK
  <2>2. ASSUME NEW i \in DOMAIN holdings  PROVE holdings[i].state \in States
    <3>1. holdings[i] \in Holding
      BY <2>1
    <3> QED BY <3>1 DEF Holding, States
  <2> QED BY <2>1, <2>2
<1>2. IsFiniteSet(DOMAIN holdings) /\ Cardinality(DOMAIN holdings) = Len(holdings)
  <2>1. IsFiniteSet(1..Len(holdings)) /\ Cardinality(1..Len(holdings)) = Len(holdings)
    <3>1. PICK n \in Nat : n = Len(holdings)
      BY <1>1
    <3>2. IsFiniteSet(1..n) /\ Cardinality(1..n) = IF 1 > n THEN 0 ELSE n - 1 + 1
      BY FS_Interval
    <3> QED BY <3>1, <3>2
  <2> QED BY <1>1, <2>1
<1>3. \A s \in States : IsFiniteSet(In(s)) /\ Cardinality(In(s)) \in Nat
  BY <1>2, FS_Subset, FS_CardinalityType
<1>4. \A s \in States : Counted(s) = Cardinality(In(s))
  BY DEF Counted
<1>5. Counted("working") + Counted("ready") + Counted("failed") = Len(holdings)
  <2> HIDE DEF In
  <2>1. "working" \in States /\ "ready" \in States /\ "failed" \in States
    BY DEF States
  <2>2. DOMAIN holdings = (In("working") \cup In("ready")) \cup In("failed")
    BY <1>1 DEF In, States
  <2>3. In("working") \cap In("ready") = {} /\ (In("working") \cup In("ready")) \cap In("failed") = {}
    BY DEF In
  <2>4. /\ IsFiniteSet(In("working") \cup In("ready"))
        /\ Cardinality(In("working") \cup In("ready")) = Cardinality(In("working")) + Cardinality(In("ready"))
    BY <1>3, <2>1, <2>3, SetsAddUp
  <2>5. Cardinality(DOMAIN holdings) = Cardinality(In("working") \cup In("ready")) + Cardinality(In("failed"))
    BY <1>3, <2>1, <2>2, <2>3, <2>4, SetsAddUp
  <2> QED BY <1>2, <1>3, <1>4, <2>1, <2>4, <2>5
<1>6. ASSUME NEW s \in States
      PROVE  Counted(s) = 0 <=> ~\E i \in DOMAIN holdings : holdings[i].state = s
  <2>1. IsFiniteSet(In(s)) /\ Counted(s) = Cardinality(In(s))
    BY <1>3, <1>4
  <2>2. Counted(s) = 0 <=> In(s) = {}
    <3> HIDE DEF In
    <3> QED BY <2>1, FS_EmptySet
  <2> QED BY <2>2
<1> QED BY <1>3, <1>4, <1>5, <1>6

\* Where a document is READY, the first of them is read.
LEMMA FirstIsRead ==
    ASSUME GapsTypeOK, NEW k \in DOMAIN holdings, Ready(k)
    PROVE  ReadyFirst # {}
<1> DEFINE T == {i \in DOMAIN holdings : Ready(i)}
<1>1. DOMAIN holdings = 1..Len(holdings) /\ Len(holdings) \in Nat
  BY DEF GapsTypeOK
<1>2. T \subseteq Nat /\ T # {}
  BY <1>1
<1>3. PICK i \in T : \A j \in T : i <= j
  <2> HIDE DEF T
  <2> QED BY <1>2, LeastNumber
<1>4. i \in 1..Len(holdings) /\ Ready(i)
  BY <1>1
<1>5. {j \in 1..i : Ready(j)} = {i}
  <2>1. ASSUME NEW j \in 1..i, Ready(j)  PROVE j = i
    <3>1. j \in T
      BY <1>1, <1>4, <2>1
    <3>2. i <= j
      BY <1>3, <3>1
    <3> QED BY <1>4, <3>2
  <2> QED BY <1>4, <2>1
<1>6. Cardinality({j \in 1..i : Ready(j)}) = 1
  BY <1>5, FS_Singleton
<1>7. 1 <= Page
  BY GapsAssumption DEF GapsAssumption
<1> QED BY <1>1, <1>4, <1>6, <1>7 DEF ReadyFirst

\* The page has documents of the collection, all of them if they fit.
LEMMA LatestAreHoldings ==
    ASSUME GapsTypeOK
    PROVE  /\ OnThePage \in Seq(Holding) /\ Len(OnThePage) <= Len(holdings)
           /\ \A i \in DOMAIN OnThePage : i \in DOMAIN holdings /\ OnThePage[i] = holdings[i]
           /\ Len(holdings) <= Page => OnThePage = holdings
           /\ Len(holdings) = 0 => OnThePage = <<>>
<1>1. holdings \in Seq(Holding) /\ Len(holdings) \in Nat /\ Page \in Nat
  BY GapsAssumption DEF GapsTypeOK, GapsAssumption
<1>2. PICK n \in Nat : n = IF Page < Len(holdings) THEN Page ELSE Len(holdings)
  BY <1>1
<1>3. n <= Len(holdings) /\ (Len(holdings) <= Page => n = Len(holdings)) /\ OnThePage = SubSeq(holdings, 1, n)
  BY <1>1, <1>2 DEF OnThePage
<1>4. OnThePage \in Seq(Holding) /\ Len(OnThePage) = n /\ \A i \in 1..n : OnThePage[i] = holdings[i]
  BY <1>1, <1>3, SubSeqProperties
<1>5. n = Len(holdings) => OnThePage = holdings
  BY <1>1, <1>4, SeqEqual
<1>6. Len(OnThePage) = 0 => OnThePage = <<>>
  BY <1>4
<1>7. \A i \in DOMAIN OnThePage : i \in DOMAIN holdings /\ OnThePage[i] = holdings[i]
  BY <1>1, <1>3, <1>4
<1> QED BY <1>1, <1>3, <1>4, <1>5, <1>6, <1>7

\* What the page says is so.
LEMMA PageIsRight ==
    ASSUME ViewInv, view.pc = "told", ~stirred
    PROVE  ViewAgrees
<1>1. /\ GapsTypeOK /\ view.listed = OnThePage /\ view.count = [s \in States |-> Counted(s)]
      /\ holdings \in Seq(Holding) /\ Len(holdings) \in Nat /\ DOMAIN holdings = 1..Len(holdings)
  BY DEF ViewInv, GapsTypeOK
<1>2. PICK w \in Nat, r \in Nat, f \in Nat :
        /\ w = Counted("working") /\ r = Counted("ready") /\ f = Counted("failed")
        /\ w + r + f = Len(holdings)
        /\ w = view.count["working"] /\ r = view.count["ready"] /\ f = view.count["failed"]
  <2>1. "working" \in States /\ "ready" \in States /\ "failed" \in States
    BY DEF States
  <2>2. /\ Counted("working") \in Nat /\ Counted("ready") \in Nat /\ Counted("failed") \in Nat
        /\ Counted("working") + Counted("ready") + Counted("failed") = Len(holdings)
    BY <1>1, <2>1, CountsAddUp
  <2>3. /\ view.count["working"] = Counted("working") /\ view.count["ready"] = Counted("ready")
        /\ view.count["failed"] = Counted("failed")
    BY <1>1, <2>1
  <2> QED BY <2>2, <2>3
<1>3. Total = w + r + f
  BY <1>2 DEF Total
<1>4. /\ r = 0 <=> ~\E i \in DOMAIN holdings : holdings[i].state = "ready"
      /\ f = 0 <=> ~\E i \in DOMAIN holdings : holdings[i].state = "failed"
  BY <1>1, <1>2, CountsAddUp DEF States
<1>5. /\ OnThePage \in Seq(Holding) /\ Len(OnThePage) <= Len(holdings)
      /\ \A i \in DOMAIN OnThePage : i \in DOMAIN holdings /\ OnThePage[i] = holdings[i]
      /\ Len(holdings) <= Page => OnThePage = holdings
      /\ Len(holdings) = 0 => OnThePage = <<>>
  BY <1>1, LatestAreHoldings
<1>6. /\ "no sources" \in Operational <=> Total = 0
      /\ "no ready documents" \in Operational <=> Total > 0 /\ r = 0
      /\ "failed processing" \in Operational <=> f > 0
      /\ "no topic coverage" \in Operational <=> r > 0 /\ DOMAIN ViewTopics = {}
  BY <1>2 DEF Operational
<1>7. "no sources" \in Operational => view.listed = <<>> /\ Operational = {"no sources"}
  <2> SUFFICES ASSUME Total = 0  PROVE view.listed = <<>> /\ Operational = {"no sources"}
    BY <1>6
  <2>1. w = 0 /\ r = 0 /\ f = 0 /\ Len(holdings) = 0
    BY <1>2, <1>3
  <2>2. Operational = {"no sources"}
    BY <1>2, <2>1 DEF Operational
  <2> QED BY <1>1, <1>5, <2>1, <2>2
<1>8. /\ ToSet(view.listed) = {view.listed[i] : i \in DOMAIN view.listed}
      /\ \A h \in ToSet(view.listed) : \E i \in DOMAIN holdings : h = holdings[i]
  BY <1>1, <1>5 DEF ToSet
<1>9. "no ready documents" \in Operational => TopicGaps = {} /\ ReadyFirst = {}
  <2> SUFFICES ASSUME r = 0  PROVE TopicGaps = {} /\ ReadyFirst = {}
    BY <1>6
  <2>1. ReadyFirst = {}
    BY <1>4 DEF ReadyFirst, Ready
  <2>2. {x \in ToSet(view.listed) : x.state = "ready"} = {}
    BY <1>4, <1>8
  <2>3. TopicGaps = {}
    BY <2>2 DEF TopicGaps
  <2> QED BY <2>1, <2>3
<1>10. "no ready documents" \notin Operational /\ Total > 0 => ReadyFirst # {}
  <2> SUFFICES ASSUME r # 0  PROVE ReadyFirst # {}
    BY <1>6
  <2>1. PICK i \in DOMAIN holdings : Ready(i)
    BY <1>4 DEF Ready
  <2> QED BY <1>1, <2>1, FirstIsRead
<1>11. DOMAIN ViewTopics = UNION {h.subjects : h \in ToSet(view.listed)}
  BY DEF ViewTopics
<1>12. TopicGaps \subseteq DOMAIN ViewTopics
  BY <1>11 DEF TopicGaps
<1>13. "no topic coverage" \in Operational => TopicGaps = {} /\ (Len(holdings) <= Page => Reported = {})
  <2> SUFFICES ASSUME DOMAIN ViewTopics = {}
               PROVE  TopicGaps = {} /\ (Len(holdings) <= Page => Reported = {})
    BY <1>6
  <2>1. ASSUME Len(holdings) <= Page, NEW s \in Reported  PROVE FALSE
    <3>1. PICK i \in DOMAIN holdings : s \in holdings[i].subjects
      BY <2>1 DEF Reported, About, ReadyFirst
    <3>2. holdings[i] \in ToSet(view.listed)
      BY <1>1, <1>5, <1>8, <2>1
    <3>3. s \in UNION {h.subjects : h \in ToSet(view.listed)}
      BY <3>1, <3>2
    <3> QED BY <1>11, <3>3
  <2> QED BY <1>12, <2>1
<1>14. "failed processing" \in Operational => \E i \in DOMAIN holdings : holdings[i].state = "failed"
  <2>1. f > 0 => f # 0
    OBVIOUS
  <2> QED BY <1>4, <1>6, <2>1
<1>15. Total = Len(holdings) /\ Len(view.listed) <= Total
  BY <1>1, <1>2, <1>3, <1>5
<1> QED BY <1>7, <1>9, <1>10, <1>12, <1>13, <1>14, <1>15 DEF ViewAgrees

\* The documents are typed while the page is made.
LEMMA ViewKeepsHoldings == GapsTypeOK /\ [ViewNext]_viewVars => GapsTypeOK'
<1>1. [ViewNext]_viewVars => [GapsNext]_holdings
  BY DEF ViewNext, viewVars, ViewDocuments, ViewCounts, ViewEnd
<1> QED BY <1>1, HoldingsStayTyped

\* The page of a collection fits together.
THEOREM ViewIsTrue == ViewSpec => []ViewAgrees
<1>1. ViewInit => ViewInv
  <2> SUFFICES ASSUME ViewInit  PROVE ViewInv
    OBVIOUS
  <2>1. GapsTypeOK
    BY HoldingsStart DEF ViewInit
  <2>2. view = NoView /\ stirred = FALSE /\ NoView.pc = "none" /\ DOMAIN NoView.count = States
    BY DEF ViewInit, NoView, States
  <2> QED BY <2>1, <2>2 DEF ViewInv
<1>2. ViewInv /\ [ViewNext]_viewVars => ViewInv'
  <2> SUFFICES ASSUME ViewInv, [ViewNext]_viewVars  PROVE ViewInv'
    OBVIOUS
  <2>1. GapsTypeOK'
    BY ViewKeepsHoldings DEF ViewInv
  <2> QED BY <2>1, ViewStep
<1>3. ViewInv => ViewAgrees
  <2> SUFFICES ASSUME ViewInv, ~ViewAgrees  PROVE FALSE
    OBVIOUS
  <2>1. view.pc = "told" /\ ~stirred
    BY DEF ViewAgrees
  <2> QED BY <2>1, PageIsRight
<1> QED BY <1>1, <1>2, <1>3, PTL DEF ViewSpec

-----------------------------------------------------------------------------
(* What the metrics count.                                                   *)

\* What a call has still to write, and the state of the hashes and of a scrape.
Counts   == [Metrics -> [AllFields -> Nat]]
CallRow  == [at : Processes, pc : {"new"} \cup Metrics, todo : Seq(AllFields)]
InShape(x) == \/ x.todo = <<>>
              \/ x.pc \in {"requests", "hits"} /\ x.todo = <<"value">>
              \/ x.pc = "latency" /\ x.todo \in {<<"sum", "count">>, <<"count">>}
Reading  == {"counters", "sums", "counts"}
ScrapeRow == [pc : Reading \cup {"none", "own", "told", "failed"}, by : Processes,
              seen : Counts, before : [Metrics -> [AllFields -> Int]]]
MetricsTyped ==
    /\ measured \in [Calls -> CallRow] /\ \A c \in Calls : InShape(measured[c])
    /\ own \in [Processes -> Counts] /\ inRedis \in Counts /\ recorded \in Counts
    /\ scrape \in ScrapeRow /\ unshared \subseteq Metrics /\ losses \in Nat

\* Redis has what was recorded but for what is still to be written.
Unwritten(m, f) == {c \in Calls : measured[c].pc = m /\ f \in ToSet(measured[c].todo)}
RedisFollows ==
    \A m \in Metrics, f \in AllFields :
        /\ m \notin unshared => recorded[m][f] = inRedis[m][f] + Cardinality(Unwritten(m, f))
        /\ f \notin ToSet(Fields(m)) => recorded[m][f] = 0

\* A hit, in Redis as in the memory of a process, comes after its request.
JustAsked == {c \in Calls : measured[c].pc = "requests" /\ measured[c].todo = <<>>}
AskedAt(p) == {c \in Calls : measured[c].pc = "requests" /\ measured[c].at = p}
HitsFollow ==
    /\ "requests" \notin unshared =>
          inRedis["hits"]["value"] + Cardinality(InWriting("hits")) + Cardinality(JustAsked)
             <= inRedis["requests"]["value"]
    /\ \A p \in Processes :
          own[p]["hits"]["value"] + Cardinality(AskedAt(p)) <= own[p]["requests"]["value"]

\* What a scrape has read lies between what was written before it and what is there by now.
HasRead(m, f) ==
    \/ f = "value" /\ scrape.pc # "counters"
    \/ f = "sum" /\ scrape.pc \notin {"counters", "sums"}
    \/ f = "count" /\ scrape.pc \notin Reading
    \/ f \notin ToSet(Fields(m))
ScrapeFollows ==
    /\ scrape.pc \in Reading \cup {"told", "failed"} =>
          /\ \A m \in Metrics, f \in AllFields :
                /\ scrape.seen[m][f] <= inRedis[m][f]
                /\ m \notin unshared => scrape.before[m][f] <= inRedis[m][f]
                /\ m \notin unshared /\ HasRead(m, f) => scrape.before[m][f] <= scrape.seen[m][f]
          /\ "latency" \notin unshared => scrape.before["latency"]["count"] >= 0
    /\ scrape.pc \in {"sums", "counts", "told", "failed"} /\ "requests" \notin unshared =>
          scrape.seen["hits"]["value"] <= scrape.seen["requests"]["value"]
    /\ scrape.pc = "own" => scrape.seen["hits"]["value"] <= scrape.seen["requests"]["value"]
    /\ scrape.pc = "failed" => scrape.seen["latency"]["count"] = 0

\* The invariant: what is recorded, what is in Redis and what a scrape has read.
MetricsInv == MetricsTyped /\ RedisFollows /\ HitsFollow /\ ScrapeFollows

\* The fields of a metric, and the hashes with one more in some of them.
LEMMA FieldsOfMetrics ==
    /\ Fields("requests") = <<"value">> /\ Fields("hits") = <<"value">>
    /\ Fields("latency") = <<"sum", "count">>
    /\ ToSet(Fields("requests")) = {"value"} /\ ToSet(Fields("hits")) = {"value"}
    /\ ToSet(Fields("latency")) = {"sum", "count"}
BY DEF Fields, ToSet

\* The fields of a metric are fields.
LEMMA FieldsAreFields ==
    ASSUME NEW m \in Metrics
    PROVE  Fields(m) \in Seq(AllFields) /\ Fields(m) # <<>> /\ ToSet(Fields(m)) \subseteq AllFields
<1>1. m = "requests" \/ m = "hits" \/ m = "latency"
  BY DEF Metrics
<1>2. <<"value">> \in Seq(AllFields) /\ <<"value">> # <<>> /\ {"value"} \subseteq AllFields
  BY DEF AllFields
<1>3. <<"sum", "count">> \in Seq(AllFields) /\ <<"sum", "count">> # <<>> /\ {"sum", "count"} \subseteq AllFields
  BY DEF AllFields
<1> QED BY <1>1, <1>2, <1>3, FieldsOfMetrics

\* A record increments the fields of its metric, and no others.
LEMMA AllAreIncremented ==
    ASSUME NEW h \in Counts, NEW m \in Metrics
    PROVE  /\ IncrementAll(h, m) \in Counts
           /\ \A f \in ToSet(Fields(m)) : IncrementAll(h, m)[m][f] = h[m][f] + 1
           /\ \A f \in AllFields \ ToSet(Fields(m)) : IncrementAll(h, m)[m][f] = h[m][f]
           /\ \A k \in Metrics \ {m} : IncrementAll(h, m)[k] = h[k]
<1>1. PICK hash : hash = [f \in AllFields |-> h[m][f] + IF f \in ToSet(Fields(m)) THEN 1 ELSE 0]
  OBVIOUS
<1>2. h[m] \in [AllFields -> Nat] /\ ToSet(Fields(m)) \subseteq AllFields
  BY FieldsAreFields DEF Counts
<1>3. hash \in [AllFields -> Nat]
  <2>1. \A f \in AllFields : h[m][f] + (IF f \in ToSet(Fields(m)) THEN 1 ELSE 0) \in Nat
    BY <1>2
  <2> QED BY <1>1, <2>1
<1>4. IncrementAll(h, m) = [h EXCEPT ![m] = hash]
  BY <1>1 DEF IncrementAll
<1>5. /\ \A f \in ToSet(Fields(m)) : hash[f] = h[m][f] + 1
      /\ \A f \in AllFields \ ToSet(Fields(m)) : hash[f] = h[m][f]
  BY <1>1, <1>2
<1> QED BY <1>3, <1>4, <1>5 DEF Counts

\* A command increments one of them.
LEMMA OneIsIncremented ==
    ASSUME NEW h \in Counts, NEW m \in Metrics, NEW f \in AllFields
    PROVE  /\ Increment(h, m, f) \in Counts /\ Increment(h, m, f)[m][f] = h[m][f] + 1
           /\ \A g \in AllFields \ {f} : Increment(h, m, f)[m][g] = h[m][g]
           /\ \A k \in Metrics \ {m} : Increment(h, m, f)[k] = h[k]
<1>1. PICK hash : hash = [h[m] EXCEPT ![f] = @ + 1]
  OBVIOUS
<1>2. h[m] \in [AllFields -> Nat]
  BY DEF Counts
<1>3. hash \in [AllFields -> Nat] /\ hash[f] = h[m][f] + 1 /\ \A g \in AllFields \ {f} : hash[g] = h[m][g]
  BY <1>1, <1>2
<1>4. Increment(h, m, f) = [h EXCEPT ![m] = hash]
  BY <1>1 DEF Increment
<1> QED BY <1>3, <1>4 DEF Counts

\* Calls are counted.
LEMMA CallsAreCounted ==
    ASSUME NEW S \in SUBSET Calls
    PROVE  IsFiniteSet(S) /\ Cardinality(S) \in Nat
BY FS_Subset, FS_CardinalityType, MetricsAssumption DEF MetricsAssumption

\* One call more, ...
LEMMA OneMoreCall ==
    ASSUME NEW S \in SUBSET Calls, NEW c \in Calls, c \notin S
    PROVE  Cardinality(S \cup {c}) = Cardinality(S) + 1
BY CallsAreCounted, FS_AddElement

\* ... one call less, ...
LEMMA OneCallLess ==
    ASSUME NEW S \in SUBSET Calls, NEW c \in S
    PROVE  Cardinality(S \ {c}) = Cardinality(S) - 1
BY CallsAreCounted, FS_RemoveElement

\* ... fewer calls.
LEMMA FewerCalls ==
    ASSUME NEW S \in SUBSET Calls, NEW T \in SUBSET S
    PROVE  Cardinality(T) <= Cardinality(S)
BY CallsAreCounted, FS_Subset

\* What a call records next.
LEMMA NextRecords ==
    ASSUME NEW pc \in {"new"} \cup Metrics, NEW m \in NextRecord[pc]
    PROVE  \/ pc = "new" /\ m = "requests"
           \/ pc = "requests" /\ m \in {"hits", "latency"}
           \/ pc = "hits" /\ m = "latency"
BY DEF NextRecord, Metrics

\* One call goes on.
LEMMA OneCallMoves ==
    ASSUME MetricsTyped, NEW c \in Calls, NEW r \in CallRow, InShape(r), measured' = [measured EXCEPT ![c] = r]
    PROVE  /\ measured' \in [Calls -> CallRow] /\ \A x \in Calls : InShape(measured'[x])
           /\ measured'[c] = r /\ \A x \in Calls \ {c} : measured'[x] = measured[x]
<1>1. /\ measured' \in [Calls -> CallRow] /\ measured'[c] = r
      /\ \A x \in Calls \ {c} : measured'[x] = measured[x]
  BY DEF MetricsTyped
<1>2. ASSUME NEW x \in Calls  PROVE InShape(measured'[x])
  <2>1. CASE x = c
    BY <1>1, <2>1
  <2>2. CASE x # c
    BY <1>1, <2>2 DEF MetricsTyped
  <2> QED BY <2>1, <2>2
<1> QED BY <1>1, <1>2

\* A call is recorded: it has yet to be written to Redis.
LEMMA RecordStep ==
    ASSUME MetricsInv, NEW c \in Calls, NEW p \in Processes, NEW m \in Metrics, Record(c, p, m)
    PROVE  MetricsInv'
<1>1. /\ MetricsTyped /\ RedisFollows /\ HitsFollow /\ ScrapeFollows
      /\ measured \in [Calls -> CallRow] /\ inRedis \in Counts /\ recorded \in Counts
      /\ own \in [Processes -> Counts]
  BY DEF MetricsInv, MetricsTyped
<1>2. /\ m \in NextRecord[measured[c].pc] /\ ~Blocked(p)
      /\ measured[c].pc = "new" \/ measured[c].at = p
      /\ own' = [own EXCEPT ![p] = IncrementAll(own[p], m)]
      /\ recorded' = IncrementAll(recorded, m)
      /\ UNCHANGED <<inRedis, scrape, unshared, losses>>
  BY DEF Record
<1>3. PICK r : r = [at |-> p, pc |-> m, todo |-> Fields(m)]
  OBVIOUS
<1>4. /\ r \in CallRow /\ r.at = p /\ r.pc = m /\ r.todo = Fields(m) /\ r.todo # <<>>
  BY <1>3, FieldsAreFields DEF CallRow
<1>5. InShape(r)
  BY <1>4, FieldsOfMetrics DEF InShape, Metrics
<1>6. /\ measured' \in [Calls -> CallRow] /\ \A x \in Calls : InShape(measured'[x])
      /\ measured'[c] = r /\ \A x \in Calls \ {c} : measured'[x] = measured[x]
  <2>1. measured' = [measured EXCEPT ![c] = r]
    BY <1>3 DEF Record
  <2> QED BY <1>1, <1>4, <1>5, <2>1, OneCallMoves
<1>7. measured[c].todo = <<>>
  <2>1. CASE measured[c].pc = "new"
    BY <1>1, <2>1 DEF MetricsTyped, InShape
  <2>2. CASE measured[c].at = p
    BY <1>2, <2>2 DEF Blocked
  <2> QED BY <1>2, <2>1, <2>2
<1>8. \/ measured[c].pc = "new" /\ m = "requests"
      \/ measured[c].pc = "requests" /\ m \in {"hits", "latency"}
      \/ measured[c].pc = "hits" /\ m = "latency"
  <2>1. measured[c].pc \in {"new"} \cup Metrics
    BY <1>1 DEF CallRow
  <2> QED BY <1>2, <2>1, NextRecords
<1>9. /\ recorded' \in Counts
      /\ \A f \in ToSet(Fields(m)) : recorded'[m][f] = recorded[m][f] + 1
      /\ \A f \in AllFields \ ToSet(Fields(m)) : recorded'[m][f] = recorded[m][f]
      /\ \A k \in Metrics \ {m} : recorded'[k] = recorded[k]
  BY <1>1, <1>2, AllAreIncremented
<1>10. /\ own' \in [Processes -> Counts] /\ \A q \in Processes \ {p} : own'[q] = own[q]
       /\ \A f \in ToSet(Fields(m)) : own'[p][m][f] = own[p][m][f] + 1
       /\ \A k \in Metrics \ {m} : own'[p][k] = own[p][k]
  <2>1. own[p] \in Counts
    BY <1>1
  <2> QED BY <1>1, <1>2, <2>1, AllAreIncremented
<1>11. MetricsTyped'
  BY <1>2, <1>6, <1>9, <1>10 DEF MetricsInv, MetricsTyped
<1>12. RedisFollows'
  <2> SUFFICES ASSUME NEW k \in Metrics, NEW f \in AllFields
               PROVE  /\ k \notin unshared => recorded'[k][f] = inRedis[k][f] + Cardinality(Unwritten(k, f)')
                      /\ f \notin ToSet(Fields(k)) => recorded'[k][f] = 0
    BY <1>2 DEF RedisFollows
  <2>1. /\ k \notin unshared => recorded[k][f] = inRedis[k][f] + Cardinality(Unwritten(k, f))
        /\ f \notin ToSet(Fields(k)) => recorded[k][f] = 0
    BY <1>1 DEF RedisFollows
  <2>2. c \notin Unwritten(k, f) /\ Unwritten(k, f) \in SUBSET Calls
    BY <1>7 DEF Unwritten, ToSet
  <2>3. CASE k = m /\ f \in ToSet(Fields(m))
    <3>1. Unwritten(k, f)' = Unwritten(k, f) \cup {c}
      BY <1>4, <1>6, <2>3 DEF Unwritten
    <3>2. Cardinality(Unwritten(k, f)') = Cardinality(Unwritten(k, f)) + 1
      BY <2>2, <3>1, OneMoreCall
    <3>3. inRedis[k][f] \in Nat /\ Cardinality(Unwritten(k, f)) \in Nat
      BY <1>1, <2>2, CallsAreCounted DEF Counts
    <3> QED BY <1>9, <2>1, <2>3, <3>2, <3>3
  <2>4. CASE ~(k = m /\ f \in ToSet(Fields(m)))
    <3>1. Unwritten(k, f)' = Unwritten(k, f)
      BY <1>4, <1>6, <2>2, <2>4 DEF Unwritten
    <3>2. recorded'[k][f] = recorded[k][f]
      BY <1>9, <2>4
    <3> QED BY <2>1, <3>1, <3>2
  <2> QED BY <2>3, <2>4
<1>13. HitsFollow'
  <2>0. /\ InWriting("hits") \in SUBSET Calls /\ JustAsked \in SUBSET Calls
        /\ c \notin InWriting("hits") /\ (measured[c].pc = "requests" <=> c \in JustAsked)
        /\ Cardinality(InWriting("hits")) \in Nat /\ Cardinality(JustAsked) \in Nat
        /\ inRedis["hits"]["value"] \in Nat /\ inRedis["requests"]["value"] \in Nat
    <3>1. /\ InWriting("hits") \in SUBSET Calls /\ JustAsked \in SUBSET Calls
          /\ c \notin InWriting("hits") /\ (measured[c].pc = "requests" <=> c \in JustAsked)
      BY <1>7 DEF InWriting, JustAsked
    <3> QED BY <1>1, <3>1, CallsAreCounted DEF Counts, Metrics, AllFields
  <2>1. JustAsked' = JustAsked \ {c}
    BY <1>4, <1>6 DEF JustAsked
  <2>2. InWriting("hits")' = IF m = "hits" THEN InWriting("hits") \cup {c} ELSE InWriting("hits")
    BY <1>4, <1>6, <2>0 DEF InWriting
  <2>3. Cardinality(InWriting("hits")') + Cardinality(JustAsked')
           <= Cardinality(InWriting("hits")) + Cardinality(JustAsked)
    <3>1. CASE m = "hits"
      <4>1. Cardinality(JustAsked') = Cardinality(JustAsked) - 1
        BY <1>8, <2>0, <2>1, <3>1, OneCallLess
      <4>2. Cardinality(InWriting("hits")') = Cardinality(InWriting("hits")) + 1
        BY <2>0, <2>2, <3>1, OneMoreCall
      <4> QED BY <2>0, <4>1, <4>2
    <3>2. CASE m # "hits"
      <4>1. Cardinality(JustAsked') <= Cardinality(JustAsked) /\ Cardinality(JustAsked') \in Nat
        BY <2>0, <2>1, FewerCalls, CallsAreCounted
      <4> QED BY <2>0, <2>2, <3>2, <4>1
    <3> QED BY <3>1, <3>2
  <2>4. "requests" \notin unshared =>
          inRedis["hits"]["value"] + Cardinality(InWriting("hits")') + Cardinality(JustAsked')
             <= inRedis["requests"]["value"]
    <3>1. Cardinality(InWriting("hits")') \in Nat /\ Cardinality(JustAsked') \in Nat
      BY <2>0, <2>1, <2>2, CallsAreCounted
    <3> QED BY <1>1, <2>0, <2>3, <3>1 DEF HitsFollow
  <2>5. ASSUME NEW q \in Processes
        PROVE  own'[q]["hits"]["value"] + Cardinality(AskedAt(q)') <= own'[q]["requests"]["value"]
    <3>1. /\ AskedAt(q) \in SUBSET Calls /\ Cardinality(AskedAt(q)) \in Nat
          /\ own[q]["hits"]["value"] \in Nat /\ own[q]["requests"]["value"] \in Nat
          /\ own[q]["hits"]["value"] + Cardinality(AskedAt(q)) <= own[q]["requests"]["value"]
      <4>1. AskedAt(q) \in SUBSET Calls
        BY DEF AskedAt
      <4> QED BY <1>1, <4>1, CallsAreCounted DEF HitsFollow, Counts, Metrics, AllFields
    <3>2. CASE m = "requests"
      <4>1. c \notin AskedAt(q)
        BY <1>8, <3>2 DEF AskedAt
      <4>2. CASE q = p
        <5>1. AskedAt(q)' = AskedAt(q) \cup {c}
          BY <1>4, <1>6, <3>2, <4>2 DEF AskedAt
        <5>2. Cardinality(AskedAt(q)') = Cardinality(AskedAt(q)) + 1
          BY <3>1, <4>1, <5>1, OneMoreCall
        <5>3. own'[q]["requests"]["value"] = own[q]["requests"]["value"] + 1 /\ own'[q]["hits"] = own[q]["hits"]
          BY <1>10, <3>2, <4>2, FieldsOfMetrics DEF Metrics
        <5> QED BY <3>1, <5>2, <5>3
      <4>3. CASE q # p
        <5>1. AskedAt(q)' = AskedAt(q)
          BY <1>4, <1>6, <4>1, <4>3 DEF AskedAt
        <5> QED BY <1>10, <3>1, <4>3, <5>1
      <4> QED BY <4>2, <4>3
    <3>3. CASE m = "hits" /\ q = p
      <4>1. c \in AskedAt(q)
        BY <1>2, <1>8, <3>3 DEF AskedAt
      <4>2. AskedAt(q)' = AskedAt(q) \ {c}
        BY <1>4, <1>6, <3>3 DEF AskedAt
      <4>3. Cardinality(AskedAt(q)') = Cardinality(AskedAt(q)) - 1
        BY <3>1, <4>1, <4>2, OneCallLess
      <4>4. own'[q]["hits"]["value"] = own[q]["hits"]["value"] + 1 /\ own'[q]["requests"] = own[q]["requests"]
        BY <1>10, <3>3, FieldsOfMetrics DEF Metrics
      <4> QED BY <3>1, <4>3, <4>4
    <3>4. CASE m # "requests" /\ ~(m = "hits" /\ q = p)
      <4>1. AskedAt(q)' = AskedAt(q) \ {c}
        BY <1>4, <1>6, <3>4 DEF AskedAt
      <4>2. Cardinality(AskedAt(q)') <= Cardinality(AskedAt(q)) /\ Cardinality(AskedAt(q)') \in Nat
        BY <3>1, <4>1, FewerCalls, CallsAreCounted
      <4>3. own'[q]["hits"] = own[q]["hits"] /\ own'[q]["requests"] = own[q]["requests"]
        BY <1>10, <3>4 DEF Metrics
      <4> QED BY <3>1, <4>2, <4>3
    <3> QED BY <3>2, <3>3, <3>4
  <2> QED BY <1>2, <2>4, <2>5 DEF HitsFollow
<1>14. ScrapeFollows'
  BY <1>1, <1>2 DEF ScrapeFollows, HasRead
<1> QED BY <1>11, <1>12, <1>13, <1>14 DEF MetricsInv

\* The hashes of Redis only grow: what a scrape has read stays below them.
LEMMA HashesGrow ==
    ASSUME MetricsInv, MetricsTyped', UNCHANGED scrape, unshared \subseteq unshared',
           \A m \in Metrics, f \in AllFields : inRedis[m][f] <= inRedis'[m][f]
    PROVE  ScrapeFollows'
<1>1. /\ ScrapeFollows /\ scrape \in ScrapeRow /\ inRedis \in Counts /\ inRedis' \in Counts
  BY DEF MetricsInv, MetricsTyped
<1>2. ASSUME scrape.pc \in Reading \cup {"told", "failed"}, NEW m \in Metrics, NEW f \in AllFields
      PROVE  /\ scrape.seen[m][f] <= inRedis'[m][f]
             /\ m \notin unshared' => scrape.before[m][f] <= inRedis'[m][f]
             /\ m \notin unshared' /\ HasRead(m, f) => scrape.before[m][f] <= scrape.seen[m][f]
  <2>1. /\ scrape.seen[m][f] <= inRedis[m][f]
        /\ m \notin unshared => scrape.before[m][f] <= inRedis[m][f]
        /\ m \notin unshared /\ HasRead(m, f) => scrape.before[m][f] <= scrape.seen[m][f]
    BY <1>1, <1>2 DEF ScrapeFollows
  <2>2. inRedis[m][f] \in Nat /\ inRedis'[m][f] \in Nat /\ scrape.seen[m][f] \in Nat /\ scrape.before[m][f] \in Int
    BY <1>1 DEF Counts, ScrapeRow
  <2> QED BY <2>1, <2>2
<1>3. /\ scrape.pc \in Reading \cup {"told", "failed"} =>
            ("latency" \notin unshared => scrape.before["latency"]["count"] >= 0)
      /\ scrape.pc \in {"sums", "counts", "told", "failed"} /\ "requests" \notin unshared =>
            scrape.seen["hits"]["value"] <= scrape.seen["requests"]["value"]
      /\ scrape.pc = "own" => scrape.seen["hits"]["value"] <= scrape.seen["requests"]["value"]
      /\ scrape.pc = "failed" => scrape.seen["latency"]["count"] = 0
  BY <1>1 DEF ScrapeFollows
<1> QED BY <1>2, <1>3 DEF ScrapeFollows, HasRead

\* What a command writes, and what remains to be written after it.
LEMMA WhatIsWritten ==
    ASSUME MetricsTyped, NEW c \in Calls, measured[c].todo # <<>>
    PROVE  /\ measured[c] \in CallRow /\ measured[c].pc \in Metrics
           /\ Head(measured[c].todo) \in ToSet(Fields(measured[c].pc))
           /\ Head(measured[c].todo) \in AllFields /\ Tail(measured[c].todo) \in Seq(AllFields)
           /\ ToSet(measured[c].todo) = ToSet(Tail(measured[c].todo)) \cup {Head(measured[c].todo)}
           /\ Head(measured[c].todo) \notin ToSet(Tail(measured[c].todo))
           /\ measured[c].pc # "latency" => Tail(measured[c].todo) = <<>>
           /\ measured[c].pc = "latency" => "count" \in ToSet(measured[c].todo)
           /\ measured[c].pc = "latency" => Tail(measured[c].todo) \in {<<>>, <<"count">>}
<1>1. measured[c] \in CallRow /\ InShape(measured[c])
  BY DEF MetricsTyped
<1>2. \/ measured[c].pc \in {"requests", "hits"} /\ measured[c].todo = <<"value">>
      \/ measured[c].pc = "latency" /\ measured[c].todo = <<"sum", "count">>
      \/ measured[c].pc = "latency" /\ measured[c].todo = <<"count">>
  BY <1>1 DEF InShape
<1>3. ToSet(<<>>) = {} /\ ToSet(<<"value">>) = {"value"} /\ ToSet(<<"count">>) = {"count"}
      /\ ToSet(<<"sum", "count">>) = {"sum", "count"}
  BY DEF ToSet
<1>4. /\ Head(<<"value">>) = "value" /\ Tail(<<"value">>) = <<>>
      /\ Head(<<"count">>) = "count" /\ Tail(<<"count">>) = <<>>
      /\ Head(<<"sum", "count">>) = "sum" /\ Tail(<<"sum", "count">>) = <<"count">>
  OBVIOUS
<1>5. <<>> \in Seq(AllFields) /\ <<"count">> \in Seq(AllFields) /\ AllFields = {"value", "sum", "count"}
  BY DEF AllFields
<1>6. CASE measured[c].pc \in {"requests", "hits"} /\ measured[c].todo = <<"value">>
  BY <1>1, <1>3, <1>4, <1>5, <1>6, FieldsOfMetrics DEF Metrics
<1>7. CASE measured[c].pc = "latency" /\ measured[c].todo = <<"sum", "count">>
  BY <1>1, <1>3, <1>4, <1>5, <1>7, FieldsOfMetrics DEF Metrics
<1>8. CASE measured[c].pc = "latency" /\ measured[c].todo = <<"count">>
  BY <1>1, <1>3, <1>4, <1>5, <1>8, FieldsOfMetrics DEF Metrics
<1> QED BY <1>2, <1>6, <1>7, <1>8

\* A command is applied, or it is lost and its metric is no longer shared.
LEMMA CommandStep ==
    ASSUME MetricsInv, NEW c \in Calls, Command(c)
    PROVE  MetricsInv'
<1> DEFINE m == measured[c].pc
           f == Head(measured[c].todo)
<1>1. /\ MetricsTyped /\ RedisFollows /\ HitsFollow
      /\ measured \in [Calls -> CallRow] /\ inRedis \in Counts /\ recorded \in Counts
      /\ own \in [Processes -> Counts] /\ unshared \subseteq Metrics /\ losses \in Nat
  BY DEF MetricsInv, MetricsTyped
<1>2. measured[c].todo # <<>> /\ UNCHANGED <<own, scrape, recorded>>
  BY DEF Command
<1>3. /\ measured[c] \in CallRow /\ m \in Metrics /\ f \in ToSet(Fields(m)) /\ f \in AllFields
      /\ Tail(measured[c].todo) \in Seq(AllFields)
      /\ ToSet(measured[c].todo) = ToSet(Tail(measured[c].todo)) \cup {f}
      /\ f \notin ToSet(Tail(measured[c].todo))
      /\ m # "latency" => Tail(measured[c].todo) = <<>>
      /\ m = "latency" => Tail(measured[c].todo) \in {<<>>, <<"count">>}
  BY <1>1, <1>2, WhatIsWritten
<1>4. /\ Increment(inRedis, m, f) \in Counts /\ Increment(inRedis, m, f)[m][f] = inRedis[m][f] + 1
      /\ \A g \in AllFields \ {f} : Increment(inRedis, m, f)[m][g] = inRedis[m][g]
      /\ \A k \in Metrics \ {m} : Increment(inRedis, m, f)[k] = inRedis[k]
  BY <1>1, <1>3, OneIsIncremented
<1>5. /\ measured' = [measured EXCEPT ![c] = [measured[c] EXCEPT !.todo = measured'[c].todo]]
      /\ \/ /\ measured'[c].todo = Tail(measured[c].todo) /\ inRedis' = Increment(inRedis, m, f)
            /\ UNCHANGED <<unshared, losses>>
         \/ /\ measured'[c].todo = <<>> /\ inRedis' \in {inRedis, Increment(inRedis, m, f)}
            /\ unshared' = unshared \cup {m} /\ losses' = losses + 1
  <2>1. CASE /\ inRedis' = Increment(inRedis, m, f)
             /\ measured' = [measured EXCEPT ![c].todo = Tail(@)]
             /\ UNCHANGED <<unshared, losses>>
    BY <1>1, <1>3, <2>1 DEF CallRow
  <2>2. CASE /\ Loss
             /\ inRedis' \in {inRedis, Increment(inRedis, m, f)}
             /\ measured' = [measured EXCEPT ![c].todo = <<>>]
             /\ unshared' = unshared \cup {m}
    BY <1>1, <1>3, <2>2 DEF CallRow, Loss
  <2>3. \/ /\ inRedis' = Increment(inRedis, m, f)
           /\ measured' = [measured EXCEPT ![c].todo = Tail(@)]
           /\ UNCHANGED <<unshared, losses>>
        \/ /\ Loss
           /\ inRedis' \in {inRedis, Increment(inRedis, m, f)}
           /\ measured' = [measured EXCEPT ![c].todo = <<>>]
           /\ unshared' = unshared \cup {m}
    BY Zenon DEF Command
  <2> QED BY <2>1, <2>2, <2>3
<1>6. PICK r : r = [measured[c] EXCEPT !.todo = measured'[c].todo]
  OBVIOUS
<1>7. r \in CallRow /\ r.pc = m /\ r.at = measured[c].at /\ r.todo = measured'[c].todo /\ InShape(r)
  <2>1. r \in CallRow /\ r.pc = m /\ r.at = measured[c].at /\ r.todo = measured'[c].todo
    <3>1. measured'[c].todo \in Seq(AllFields)
      <4>1. measured'[c].todo = Tail(measured[c].todo) \/ measured'[c].todo = <<>>
        BY <1>5, Zenon
      <4>2. <<>> \in Seq(AllFields)
        OBVIOUS
      <4> QED BY <1>3, <4>1, <4>2
    <3>2. measured[c].at \in Processes /\ measured[c].pc \in {"new"} \cup Metrics
      BY <1>3 DEF CallRow
    <3>3. r = [at |-> measured[c].at, pc |-> measured[c].pc, todo |-> measured'[c].todo]
      BY <1>3, <1>6 DEF CallRow
    <3> QED BY <3>1, <3>2, <3>3 DEF CallRow
  <2>2. r.todo = <<>> \/ (m = "latency" /\ r.todo = <<"count">>)
    BY <1>3, <1>5, <2>1
  <2> QED BY <2>1, <2>2 DEF InShape
<1>8. /\ measured' \in [Calls -> CallRow] /\ \A x \in Calls : InShape(measured'[x])
      /\ measured'[c] = r /\ \A x \in Calls \ {c} : measured'[x] = measured[x]
  <2>1. measured' = [measured EXCEPT ![c] = r]
    BY <1>5, <1>6
  <2> QED BY <1>1, <1>7, <2>1, OneCallMoves
<1>9. inRedis' \in Counts /\ unshared' \subseteq Metrics /\ losses' \in Nat /\ unshared \subseteq unshared'
  BY <1>1, <1>3, <1>4, <1>5
<1>10. MetricsTyped'
  BY <1>1, <1>2, <1>8, <1>9 DEF MetricsInv, MetricsTyped
<1>11. ASSUME NEW k \in Metrics, NEW g \in AllFields  PROVE inRedis[k][g] <= inRedis'[k][g]
  <2>1. inRedis[k][g] \in Nat /\ inRedis[m][f] \in Nat
    BY <1>1, <1>3 DEF Counts
  <2>2. inRedis'[k][g] \in {inRedis[k][g], inRedis[k][g] + 1}
    <3>1. CASE k = m /\ g = f
      BY <1>4, <1>5, <3>1
    <3>2. CASE ~(k = m /\ g = f)
      BY <1>4, <1>5, <3>2
    <3> QED BY <3>1, <3>2
  <2> QED BY <2>1, <2>2
<1>12. RedisFollows'
  <2> SUFFICES ASSUME NEW k \in Metrics, NEW g \in AllFields
               PROVE  /\ k \notin unshared' => recorded[k][g] = inRedis'[k][g] + Cardinality(Unwritten(k, g)')
                      /\ g \notin ToSet(Fields(k)) => recorded[k][g] = 0
    BY <1>2 DEF RedisFollows
  <2>1. /\ k \notin unshared => recorded[k][g] = inRedis[k][g] + Cardinality(Unwritten(k, g))
        /\ g \notin ToSet(Fields(k)) => recorded[k][g] = 0
    BY <1>1 DEF RedisFollows
  <2>2. Unwritten(k, g) \in SUBSET Calls
    BY DEF Unwritten
  <2>3. CASE k \in unshared'
    BY <2>1, <2>3
  <2>4. CASE k \notin unshared' /\ k = m /\ g = f
    <3>1. measured'[c].todo = Tail(measured[c].todo) /\ inRedis'[k][g] = inRedis[k][g] + 1
      BY <1>4, <1>5, <2>4
    <3>2. Unwritten(k, g)' = Unwritten(k, g) \ {c} /\ c \in Unwritten(k, g)
      BY <1>3, <1>7, <1>8, <2>4, <3>1 DEF Unwritten
    <3>3. Cardinality(Unwritten(k, g)') = Cardinality(Unwritten(k, g)) - 1
      BY <2>2, <3>2, OneCallLess
    <3>4. inRedis[k][g] \in Nat /\ Cardinality(Unwritten(k, g)) \in Nat
      BY <1>1, <2>2, CallsAreCounted DEF Counts
    <3> QED BY <1>9, <2>1, <2>4, <3>1, <3>3, <3>4
  <2>5. CASE k \notin unshared' /\ ~(k = m /\ g = f)
    <3>1. inRedis'[k][g] = inRedis[k][g]
      BY <1>4, <1>5, <2>5
    <3>2. Unwritten(k, g)' = Unwritten(k, g)
      <4>1. CASE k # m
        BY <1>7, <1>8, <4>1 DEF Unwritten
      <4>2. CASE k = m /\ g # f
        <5>1. measured'[c].todo = Tail(measured[c].todo)
          BY <1>5, <2>5, <4>2
        <5>2. g \in ToSet(measured[c].todo) <=> g \in ToSet(measured'[c].todo)
          BY <1>3, <4>2, <5>1
        <5> QED BY <1>7, <1>8, <4>2, <5>2 DEF Unwritten
      <4> QED BY <2>5, <4>1, <4>2
    <3> QED BY <1>9, <2>1, <2>5, <3>1, <3>2
  <2> QED BY <2>3, <2>4, <2>5
<1>13. HitsFollow'
  <2>1. \A q \in Processes : AskedAt(q)' = AskedAt(q)
    BY <1>7, <1>8 DEF AskedAt
  <2>2. InWriting("hits") \in SUBSET Calls /\ JustAsked \in SUBSET Calls
    BY DEF InWriting, JustAsked
  <2>3. /\ Cardinality(InWriting("hits")) \in Nat /\ Cardinality(JustAsked) \in Nat
        /\ inRedis["hits"]["value"] \in Nat /\ inRedis["requests"]["value"] \in Nat
        /\ inRedis'["hits"]["value"] \in Nat /\ inRedis'["requests"]["value"] \in Nat
    BY <1>1, <1>9, <2>2, CallsAreCounted DEF Counts, Metrics, AllFields
  <2>4. ASSUME "requests" \notin unshared'
        PROVE  inRedis'["hits"]["value"] + Cardinality(InWriting("hits")') + Cardinality(JustAsked')
                  <= inRedis'["requests"]["value"]
    <3>1. inRedis["hits"]["value"] + Cardinality(InWriting("hits")) + Cardinality(JustAsked)
             <= inRedis["requests"]["value"]
      BY <1>1, <1>9, <2>4 DEF HitsFollow
    <3>2. CASE m = "requests"
      <4>1. r.todo = <<>> /\ inRedis' = Increment(inRedis, m, f)
        BY <1>3, <1>5, <1>7, <2>4, <3>2
      <4>2. f = "value"
        BY <1>3, <3>2, FieldsOfMetrics
      <4>3. inRedis'["requests"]["value"] = inRedis["requests"]["value"] + 1 /\ inRedis'["hits"] = inRedis["hits"]
        BY <1>4, <3>2, <4>1, <4>2 DEF Metrics
      <4>4. InWriting("hits")' = InWriting("hits")
        BY <1>7, <1>8, <3>2 DEF InWriting
      <4>5. JustAsked' = JustAsked \cup {c} /\ c \notin JustAsked
        BY <1>2, <1>7, <1>8, <3>2, <4>1 DEF JustAsked
      <4>6. Cardinality(JustAsked') = Cardinality(JustAsked) + 1
        BY <2>2, <4>5, OneMoreCall
      <4> QED BY <2>3, <3>1, <4>3, <4>4, <4>6
    <3>3. CASE m = "hits"
      <4>1. r.todo = <<>> /\ inRedis' \in {inRedis, Increment(inRedis, m, f)}
        BY <1>3, <1>5, <1>7, <3>3
      <4>2. f = "value"
        BY <1>3, <3>3, FieldsOfMetrics
      <4>3. /\ inRedis'["hits"]["value"] <= inRedis["hits"]["value"] + 1
            /\ inRedis'["requests"] = inRedis["requests"]
        BY <1>4, <2>3, <3>3, <4>1, <4>2 DEF Metrics
      <4>4. InWriting("hits")' = InWriting("hits") \ {c} /\ c \in InWriting("hits")
        BY <1>2, <1>7, <1>8, <3>3, <4>1 DEF InWriting
      <4>5. Cardinality(InWriting("hits")') = Cardinality(InWriting("hits")) - 1
        BY <2>2, <4>4, OneCallLess
      <4>6. JustAsked' = JustAsked
        BY <1>7, <1>8, <3>3 DEF JustAsked
      <4> QED BY <2>3, <3>1, <4>3, <4>5, <4>6
    <3>4. CASE m # "requests" /\ m # "hits"
      <4>1. inRedis'["hits"] = inRedis["hits"] /\ inRedis'["requests"] = inRedis["requests"]
        BY <1>4, <1>5, <3>4 DEF Metrics
      <4>2. InWriting("hits")' = InWriting("hits") /\ JustAsked' = JustAsked
        BY <1>7, <1>8, <3>4 DEF InWriting, JustAsked
      <4> QED BY <3>1, <4>1, <4>2
    <3> QED BY <3>2, <3>3, <3>4
  <2> QED BY <1>1, <1>2, <2>1, <2>4 DEF HitsFollow
<1>14. ScrapeFollows'
  BY <1>2, <1>9, <1>10, <1>11, HashesGrow
<1> QED BY <1>10, <1>12, <1>13, <1>14 DEF MetricsInv

\* No counts are counts.
LEMMA NoCountsAreCounts ==
    NoCounts \in Counts /\ \A m \in Metrics, f \in AllFields : NoCounts[m][f] = 0
BY DEF NoCounts, Counts

\* Without a scrape nothing has been read.
LEMMA NothingIsRead ==
    ASSUME scrape' = NoScrape
    PROVE  scrape' \in ScrapeRow /\ ScrapeFollows'
<1>1. (CHOOSE p \in Processes : TRUE) \in Processes
  BY MetricsAssumption DEF MetricsAssumption
<1>2. NoCounts \in [Metrics -> [AllFields -> Int]]
  BY DEF NoCounts
<1>3. scrape' \in ScrapeRow
  BY <1>1, <1>2, NoCountsAreCounts DEF NoScrape, ScrapeRow, Reading
<1>4. scrape'.pc = "none"
  BY DEF NoScrape
<1> QED BY <1>3, <1>4 DEF ScrapeFollows, Reading

\* A process ends, and what it was writing is no longer shared.
LEMMA ProcessEndsStep ==
    ASSUME MetricsInv, NEW p \in Processes, ProcessEnds(p)
    PROVE  MetricsInv'
<1>1. /\ MetricsTyped /\ RedisFollows /\ HitsFollow /\ ScrapeFollows
      /\ measured \in [Calls -> CallRow] /\ inRedis \in Counts /\ recorded \in Counts
      /\ own \in [Processes -> Counts] /\ unshared \subseteq Metrics /\ losses \in Nat /\ scrape \in ScrapeRow
  BY DEF MetricsInv, MetricsTyped
<1>2. /\ own' = [own EXCEPT ![p] = NoCounts] /\ losses' = losses + 1 /\ UNCHANGED <<inRedis, recorded>>
      /\ scrape' = IF scrape.by = p THEN NoScrape ELSE scrape
  BY DEF ProcessEnds, Loss
<1>3. unshared' = unshared \cup {measured[c].pc : c \in {x \in Calls : measured[x].at = p /\ measured[x].todo # <<>>}}
  BY DEF ProcessEnds
<1>4. \A c \in Calls : measured[c] \in CallRow /\ InShape(measured[c])
  BY <1>1 DEF MetricsTyped
<1>5. /\ \A c \in Calls : measured[c].at = p /\ measured[c].todo # <<>> => measured[c].pc \in unshared'
      /\ unshared \subseteq unshared' /\ unshared' \subseteq Metrics
  <2>1. ASSUME NEW c \in Calls, measured[c].todo # <<>>  PROVE measured[c].pc \in Metrics
    BY <1>1, <2>1, WhatIsWritten
  <2> QED BY <1>1, <1>3, <2>1
<1>6. ASSUME NEW c \in Calls
      PROVE  /\ measured'[c].at = measured[c].at /\ measured'[c] \in CallRow /\ InShape(measured'[c])
             /\ measured[c].at # p => measured'[c] = measured[c]
             /\ measured[c].at = p => /\ measured'[c].todo = <<>>
                                      /\ measured'[c].pc = (IF measured[c].pc = "new" THEN "new" ELSE "latency")
  <2>1. measured'[c] = IF measured[c].at = p /\ measured[c].pc # "new"
                       THEN [measured[c] EXCEPT !.pc = "latency", !.todo = <<>>] ELSE measured[c]
    BY DEF ProcessEnds
  <2>2. CASE measured[c].at = p /\ measured[c].pc # "new"
    <3>1. measured'[c] = [at |-> measured[c].at, pc |-> "latency", todo |-> <<>>]
      BY <1>4, <2>1, <2>2 DEF CallRow
    <3>2. measured[c].at \in Processes /\ "latency" \in Metrics /\ <<>> \in Seq(AllFields)
      BY <1>4 DEF CallRow, Metrics
    <3>3. measured'[c] \in CallRow /\ measured'[c].todo = <<>> /\ measured'[c].pc = "latency" /\ measured'[c].at = measured[c].at
      BY <3>1, <3>2 DEF CallRow
    <3> QED BY <2>2, <3>3 DEF InShape
  <2>3. CASE ~(measured[c].at = p /\ measured[c].pc # "new")
    <3>1. measured'[c] = measured[c]
      BY <2>1, <2>3
    <3>2. measured[c].pc = "new" => measured[c].todo = <<>>
      BY <1>4 DEF InShape
    <3> QED BY <1>4, <2>3, <3>1, <3>2
  <2> QED BY <2>2, <2>3
<1>7. measured' \in [Calls -> CallRow] /\ \A c \in Calls : InShape(measured'[c])
  <2>1. measured' = [c \in Calls |-> measured'[c]]
    BY DEF ProcessEnds
  <2> QED BY <1>6, <2>1
<1>8. own' \in [Processes -> Counts]
  BY <1>1, <1>2, NoCountsAreCounts
<1>9. scrape' \in ScrapeRow
  BY <1>1, <1>2, NothingIsRead
<1>10. MetricsTyped'
  BY <1>1, <1>2, <1>5, <1>7, <1>8, <1>9 DEF MetricsTyped
<1>11. RedisFollows'
  <2> SUFFICES ASSUME NEW k \in Metrics, NEW g \in AllFields
               PROVE  /\ k \notin unshared' => recorded[k][g] = inRedis[k][g] + Cardinality(Unwritten(k, g)')
                      /\ g \notin ToSet(Fields(k)) => recorded[k][g] = 0
    BY <1>2 DEF RedisFollows
  <2>1. /\ k \notin unshared => recorded[k][g] = inRedis[k][g] + Cardinality(Unwritten(k, g))
        /\ g \notin ToSet(Fields(k)) => recorded[k][g] = 0
    BY <1>1 DEF RedisFollows
  <2>2. ASSUME k \notin unshared', NEW c \in Calls
        PROVE  c \in Unwritten(k, g)' <=> c \in Unwritten(k, g)
    <3>1. CASE measured[c].at # p
      BY <1>6, <3>1 DEF Unwritten
    <3>2. CASE measured[c].at = p
      <4>1. ToSet(<<>>) = {}
        BY DEF ToSet
      <4> QED BY <1>5, <1>6, <2>2, <3>2, <4>1 DEF Unwritten
    <3> QED BY <3>1, <3>2
  <2>3. k \notin unshared' => Unwritten(k, g)' = Unwritten(k, g)
    <3>1. Unwritten(k, g)' \subseteq Calls /\ Unwritten(k, g) \subseteq Calls
      BY DEF Unwritten
    <3> QED BY <2>2, <3>1
  <2> QED BY <1>5, <2>1, <2>3
<1>12. HitsFollow'
  <2>1. /\ InWriting("hits") \in SUBSET Calls /\ JustAsked \in SUBSET Calls
        /\ InWriting("hits")' \subseteq InWriting("hits") /\ JustAsked' \subseteq JustAsked
    <3>1. ASSUME NEW c \in InWriting("hits")'  PROVE c \in InWriting("hits")
      BY <1>6, <3>1 DEF InWriting
    <3>2. ASSUME NEW c \in JustAsked'  PROVE c \in JustAsked
      BY <1>6, <3>2 DEF JustAsked
    <3> QED BY <3>1, <3>2 DEF InWriting, JustAsked
  <2>2. /\ Cardinality(InWriting("hits")') <= Cardinality(InWriting("hits"))
        /\ Cardinality(JustAsked') <= Cardinality(JustAsked)
    BY <2>1, FewerCalls
  <2>3. /\ Cardinality(InWriting("hits")) \in Nat /\ Cardinality(JustAsked) \in Nat
        /\ Cardinality(InWriting("hits")') \in Nat /\ Cardinality(JustAsked') \in Nat
    BY <2>1, CallsAreCounted
  <2>4. inRedis["hits"]["value"] \in Nat /\ inRedis["requests"]["value"] \in Nat
    BY <1>1 DEF Counts, Metrics, AllFields
  <2>5. "requests" \notin unshared' =>
          inRedis["hits"]["value"] + Cardinality(InWriting("hits")') + Cardinality(JustAsked')
             <= inRedis["requests"]["value"]
    BY <1>1, <1>5, <2>2, <2>3, <2>4 DEF HitsFollow
  <2>6. ASSUME NEW q \in Processes
        PROVE  own'[q]["hits"]["value"] + Cardinality(AskedAt(q)') <= own'[q]["requests"]["value"]
    <3>1. CASE q = p
      <4>1. AskedAt(q)' = {}
        BY <1>6, <3>1 DEF AskedAt
      <4>2. own'[q] = NoCounts
        BY <1>1, <1>2, <3>1
      <4>3. own'[q]["hits"]["value"] = 0 /\ own'[q]["requests"]["value"] = 0
        BY <4>2, NoCountsAreCounts DEF Metrics, AllFields
      <4> QED BY <4>1, <4>3, FS_EmptySet
    <3>2. CASE q # p
      <4>1. AskedAt(q)' = AskedAt(q)
        <5>1. ASSUME NEW c \in Calls  PROVE c \in AskedAt(q)' <=> c \in AskedAt(q)
          BY <1>6, <3>2 DEF AskedAt
        <5> QED BY <5>1 DEF AskedAt
      <4> QED BY <1>1, <1>2, <3>2, <4>1 DEF HitsFollow
    <3> QED BY <3>1, <3>2
  <2> QED BY <1>2, <2>5, <2>6 DEF HitsFollow
<1>13. ScrapeFollows'
  <2>1. CASE scrape.by = p
    BY <1>2, <2>1, NothingIsRead
  <2>2. CASE scrape.by # p
    <3>1. \A k \in Metrics, g \in AllFields : inRedis[k][g] <= inRedis'[k][g]
      BY <1>1, <1>2 DEF Counts
    <3> QED BY <1>2, <1>5, <1>10, <2>2, <3>1, HashesGrow
  <2> QED BY <2>1, <2>2
<1> QED BY <1>10, <1>11, <1>12, <1>13 DEF MetricsInv

\* A scrape reads what is there: nothing else moves.
LEMMA OnlyTheScrape ==
    ASSUME MetricsInv, scrape' \in ScrapeRow, ScrapeFollows', losses' \in Nat,
           UNCHANGED <<measured, own, inRedis, recorded, unshared>>
    PROVE  MetricsInv'
<1>1. MetricsTyped'
  BY DEF MetricsInv, MetricsTyped
<1>2. RedisFollows'
  BY DEF MetricsInv, RedisFollows, Unwritten
<1>3. HitsFollow'
  BY DEF MetricsInv, HitsFollow, InWriting, JustAsked, AskedAt
<1> QED BY <1>1, <1>2, <1>3 DEF MetricsInv

\* A scrape starts: what is finished by then is in Redis.
LEMMA ScrapeBeginStep ==
    ASSUME MetricsInv, NEW p \in Processes, ScrapeBegin(p)
    PROVE  MetricsInv'
<1>1. /\ MetricsTyped /\ RedisFollows /\ inRedis \in Counts /\ recorded \in Counts /\ losses \in Nat
      /\ measured \in [Calls -> CallRow]
  BY DEF MetricsInv, MetricsTyped
<1>2. /\ scrape'.pc = "counters" /\ scrape'.by = p /\ scrape'.seen = NoCounts
      /\ scrape'.before = [m \in Metrics |-> Finished(m)]
      /\ scrape' = [pc |-> "counters", by |-> p, seen |-> NoCounts, before |-> [m \in Metrics |-> Finished(m)]]
      /\ UNCHANGED <<measured, own, inRedis, recorded, unshared, losses>>
  BY DEF ScrapeBegin
<1>3. ASSUME NEW m \in Metrics, NEW f \in AllFields
      PROVE  /\ Finished(m)[f] \in Int
             /\ m \notin unshared => Finished(m)[f] <= inRedis[m][f]
             /\ f \notin ToSet(Fields(m)) => Finished(m)[f] = 0
             /\ m \notin unshared /\ m = "latency" /\ f = "count" => Finished(m)[f] >= 0
  <2>1. Finished(m)[f] = IF recorded[m][f] = 0 THEN 0 ELSE recorded[m][f] - Cardinality(InWriting(m))
    BY DEF Finished
  <2>2. /\ m \notin unshared => recorded[m][f] = inRedis[m][f] + Cardinality(Unwritten(m, f))
        /\ f \notin ToSet(Fields(m)) => recorded[m][f] = 0
    BY <1>1 DEF RedisFollows
  <2>3. InWriting(m) \in SUBSET Calls /\ Unwritten(m, f) \in SUBSET InWriting(m)
    <3>1. ToSet(<<>>) = {}
      BY DEF ToSet
    <3> QED BY <3>1 DEF InWriting, Unwritten
  <2>4. Cardinality(Unwritten(m, f)) <= Cardinality(InWriting(m))
    BY <2>3, FewerCalls
  <2>5. Cardinality(InWriting(m)) \in Nat /\ Cardinality(Unwritten(m, f)) \in Nat
    BY <2>3, CallsAreCounted
  <2>6. recorded[m][f] \in Nat /\ inRedis[m][f] \in Nat
    BY <1>1 DEF Counts
  <2>7. m = "latency" /\ f = "count" => Unwritten(m, f) = InWriting(m)
    <3>1. ASSUME NEW c \in InWriting("latency")  PROVE c \in Unwritten("latency", "count")
      BY <1>1, <3>1, WhatIsWritten DEF InWriting, Unwritten
    <3> QED BY <2>3, <3>1
  <2>8. CASE recorded[m][f] = 0
    BY <2>1, <2>6, <2>8
  <2>9. CASE recorded[m][f] # 0
    BY <2>1, <2>2, <2>4, <2>5, <2>6, <2>7, <2>9
  <2> QED BY <2>8, <2>9
<1>4. scrape'.before \in [Metrics -> [AllFields -> Int]]
  <2>1. ASSUME NEW m \in Metrics  PROVE Finished(m) \in [AllFields -> Int]
    <3>1. \A f \in AllFields : Finished(m)[f] \in Int
      BY <1>3
    <3>2. Finished(m) = [f \in AllFields |-> Finished(m)[f]]
      BY DEF Finished
    <3> QED BY <3>1, <3>2
  <2> QED BY <1>2, <2>1
<1>5. scrape' \in ScrapeRow
  <2>1. scrape' = [pc |-> "counters", by |-> p, seen |-> NoCounts, before |-> scrape'.before]
    BY <1>2
  <2>2. "counters" \in Reading \cup {"none", "own", "told", "failed"}
    BY DEF Reading
  <2> QED BY <1>4, <2>1, <2>2, NoCountsAreCounts DEF ScrapeRow
<1>6. ASSUME NEW m \in Metrics, NEW f \in AllFields
      PROVE  /\ scrape'.seen[m][f] <= inRedis[m][f]
             /\ m \notin unshared => scrape'.before[m][f] <= inRedis[m][f]
             /\ m \notin unshared /\ HasRead(m, f)' => scrape'.before[m][f] <= scrape'.seen[m][f]
  <2>1. scrape'.before[m][f] = Finished(m)[f] /\ scrape'.seen[m][f] = 0 /\ inRedis[m][f] \in Nat
    BY <1>1, <1>2, NoCountsAreCounts DEF Counts
  <2>2. HasRead(m, f)' => f \notin ToSet(Fields(m))
    BY <1>2 DEF HasRead, Reading
  <2> QED BY <1>3, <2>1, <2>2
<1>7. "latency" \notin unshared => scrape'.before["latency"]["count"] >= 0
  BY <1>2, <1>3 DEF Metrics, AllFields
<1>8. ScrapeFollows'
  <2>1. scrape'.pc \notin {"sums", "counts", "told", "failed", "own"}
    BY <1>2
  <2> QED BY <1>2, <1>6, <1>7, <2>1 DEF ScrapeFollows, HasRead, Reading
<1> QED BY <1>1, <1>2, <1>5, <1>8, OnlyTheScrape

\* A scrape that cannot go on takes the memory of its process.
LEMMA OwnIsRead ==
    ASSUME MetricsInv, scrape' = [scrape EXCEPT !.pc = "own", !.seen = own[scrape.by]],
           UNCHANGED <<measured, own, inRedis, recorded, unshared>>, losses' \in Nat
    PROVE  MetricsInv'
<1>1. scrape \in ScrapeRow /\ own \in [Processes -> Counts] /\ HitsFollow
  BY DEF MetricsInv, MetricsTyped
<1>2. scrape.by \in Processes /\ scrape.before \in [Metrics -> [AllFields -> Int]]
  BY <1>1 DEF ScrapeRow
<1>3. own[scrape.by] \in Counts
  BY <1>1, <1>2
<1>4. scrape' = [pc |-> "own", by |-> scrape.by, seen |-> own[scrape.by], before |-> scrape.before]
  BY <1>1 DEF ScrapeRow
<1>5. scrape' \in ScrapeRow /\ scrape'.pc = "own" /\ scrape'.seen = own[scrape.by]
  BY <1>2, <1>3, <1>4 DEF ScrapeRow
<1>6. own[scrape.by]["hits"]["value"] <= own[scrape.by]["requests"]["value"]
  <2>1. AskedAt(scrape.by) \in SUBSET Calls
    BY DEF AskedAt
  <2>2. Cardinality(AskedAt(scrape.by)) \in Nat
    BY <2>1, CallsAreCounted
  <2>3. own[scrape.by]["hits"]["value"] \in Nat /\ own[scrape.by]["requests"]["value"] \in Nat
    BY <1>3 DEF Counts, Metrics, AllFields
  <2>4. own[scrape.by]["hits"]["value"] + Cardinality(AskedAt(scrape.by)) <= own[scrape.by]["requests"]["value"]
    BY <1>1, <1>2 DEF HitsFollow
  <2> QED BY <2>2, <2>3, <2>4
<1>7. ScrapeFollows'
  BY <1>5, <1>6 DEF ScrapeFollows, Reading
<1> QED BY <1>5, <1>7, OnlyTheScrape

\* What a reply adds to what has been read.
Seen == [m \in Metrics |-> [f \in AllFields |->
            IF <<m, f>> \in Replied(scrape.pc) THEN inRedis[m][f] ELSE scrape.seen[m][f]]]

\* What has been read after a reply lies between what was there before and what is there now.
LEMMA RepliesAreRead ==
    ASSUME MetricsInv, scrape.pc \in Reading
    PROVE  /\ Seen \in Counts
           /\ \A m \in Metrics, f \in AllFields :
                 /\ Seen[m][f] <= inRedis[m][f]
                 /\ m \notin unshared /\ HasRead(m, f) => scrape.before[m][f] <= Seen[m][f]
                 /\ <<m, f>> \in Replied(scrape.pc) => Seen[m][f] = inRedis[m][f]
                 /\ <<m, f>> \notin Replied(scrape.pc) => Seen[m][f] = scrape.seen[m][f]
                 /\ m \notin unshared => scrape.before[m][f] <= inRedis[m][f]
           /\ "latency" \notin unshared => scrape.before["latency"]["count"] >= 0
<1>1. inRedis \in Counts /\ scrape \in ScrapeRow /\ ScrapeFollows
  BY DEF MetricsInv, MetricsTyped
<1>2. scrape.seen \in Counts
  BY <1>1 DEF ScrapeRow
<1>3. ASSUME NEW m \in Metrics, NEW f \in AllFields
      PROVE  /\ scrape.seen[m][f] <= inRedis[m][f] /\ (m \notin unshared => scrape.before[m][f] <= inRedis[m][f])
             /\ m \notin unshared /\ HasRead(m, f) => scrape.before[m][f] <= scrape.seen[m][f]
             /\ "latency" \notin unshared => scrape.before["latency"]["count"] >= 0
  BY <1>1 DEF ScrapeFollows
<1>4. ASSUME NEW m \in Metrics, NEW f \in AllFields
      PROVE  /\ Seen[m][f] \in Nat /\ Seen[m][f] <= inRedis[m][f]
             /\ m \notin unshared /\ HasRead(m, f) => scrape.before[m][f] <= Seen[m][f]
             /\ <<m, f>> \in Replied(scrape.pc) => Seen[m][f] = inRedis[m][f]
             /\ <<m, f>> \notin Replied(scrape.pc) => Seen[m][f] = scrape.seen[m][f]
             /\ m \notin unshared => scrape.before[m][f] <= inRedis[m][f]
  <2>1. Seen[m][f] = IF <<m, f>> \in Replied(scrape.pc) THEN inRedis[m][f] ELSE scrape.seen[m][f]
    BY DEF Seen
  <2>2. inRedis[m][f] \in Nat /\ scrape.seen[m][f] \in Nat
    BY <1>1, <1>2 DEF Counts
  <2>3. CASE <<m, f>> \in Replied(scrape.pc)
    BY <1>3, <2>1, <2>2, <2>3
  <2>4. CASE <<m, f>> \notin Replied(scrape.pc)
    BY <1>3, <2>1, <2>2, <2>4
  <2> QED BY <2>3, <2>4
<1>5. Seen \in Counts
  <2>1. \A m \in Metrics, f \in AllFields : Seen[m][f] \in Nat
    BY <1>4
  <2>2. Seen = [m \in Metrics |-> [f \in AllFields |-> Seen[m][f]]]
    BY DEF Seen
  <2> QED BY <2>1, <2>2 DEF Counts
<1>6. "latency" \notin unshared => scrape.before["latency"]["count"] >= 0
  BY <1>3 DEF Metrics, AllFields
<1> QED BY <1>4, <1>5, <1>6

\* A reply is read.
LEMMA ScrapeReadStep ==
    ASSUME MetricsInv, ScrapeRead
    PROVE  MetricsInv'
<1> DEFINE next == IF Steps[scrape.pc] # "end" THEN Steps[scrape.pc] ELSE Rendered(Seen)
<1>1. /\ inRedis \in Counts /\ scrape \in ScrapeRow /\ ScrapeFollows /\ HitsFollow /\ losses \in Nat
      /\ unshared \subseteq Metrics
  BY DEF MetricsInv, MetricsTyped
<1>2. /\ scrape.pc \in Reading
      /\ scrape' = [scrape EXCEPT !.pc = next, !.seen = IF next = "own" THEN own[scrape.by] ELSE Seen]
      /\ UNCHANGED <<measured, own, inRedis, recorded, unshared, losses>>
  BY DEF ScrapeRead, Reading, Seen
<1>3. CASE next = "own"
  <2>1. scrape' = [scrape EXCEPT !.pc = "own", !.seen = own[scrape.by]]
    BY <1>2, <1>3
  <2> QED BY <1>1, <1>2, <2>1, OwnIsRead
<1>4. CASE next # "own"
  <2>1. /\ scrape.pc = "counters" => next = "sums"
        /\ scrape.pc = "sums" => next = "counts"
        /\ scrape.pc = "counts" => /\ next \in {"told", "failed"}
                                   /\ next = "failed" => Seen["latency"]["count"] = 0
    BY <1>4 DEF Steps, Rendered
  <2>2. /\ scrape'.pc = next /\ scrape'.seen = Seen /\ scrape'.before = scrape.before
        /\ scrape' = [pc |-> next, by |-> scrape.by, seen |-> Seen, before |-> scrape.before]
    <3> HIDE DEF next
    <3> QED BY <1>1, <1>2, <1>4 DEF ScrapeRow
  <2> HIDE DEF next
  <2>3. scrape' \in ScrapeRow
    <3>1. scrape.by \in Processes /\ scrape.before \in [Metrics -> [AllFields -> Int]] /\ Seen \in Counts
      BY <1>1, <1>2, RepliesAreRead DEF ScrapeRow
    <3>2. next \in Reading \cup {"none", "own", "told", "failed"}
      BY <1>2, <2>1 DEF Reading
    <3> QED BY <2>2, <3>1, <3>2 DEF ScrapeRow
  <2>4. Replied("counters") = {<<"requests", "value">>, <<"hits", "value">>}
        /\ Replied("sums") = {<<"latency", "sum">>} /\ Replied("counts") = {<<"latency", "count">>}
    BY DEF Replied
  <2>5. ASSUME NEW m \in Metrics, NEW f \in AllFields
        PROVE  HasRead(m, f)' => HasRead(m, f) \/ <<m, f>> \in Replied(scrape.pc)
    <3>1. m = "requests" \/ m = "hits" \/ m = "latency"
      BY DEF Metrics
    <3>2. f = "value" \/ f = "sum" \/ f = "count"
      BY DEF AllFields
    <3>3. CASE f \notin ToSet(Fields(m))
      BY <3>3 DEF HasRead
    <3>4. CASE f \in ToSet(Fields(m)) /\ f = "value"
      <4>1. m # "latency"
        BY <3>4, FieldsOfMetrics
      <4> QED BY <2>4, <3>1, <3>4, <4>1 DEF HasRead
    <3>5. CASE f \in ToSet(Fields(m)) /\ f = "sum"
      <4>1. m = "latency"
        BY <3>1, <3>5, FieldsOfMetrics
      <4> QED BY <1>2, <2>1, <2>2, <2>4, <3>5, <4>1 DEF HasRead, Reading
    <3>6. CASE f \in ToSet(Fields(m)) /\ f = "count"
      <4>1. m = "latency"
        BY <3>1, <3>6, FieldsOfMetrics
      <4> QED BY <1>2, <2>1, <2>2, <2>4, <3>6, <4>1 DEF HasRead, Reading
    <3> QED BY <3>2, <3>3, <3>4, <3>5, <3>6
  <2>6. ASSUME NEW m \in Metrics, NEW f \in AllFields
        PROVE  /\ scrape'.seen[m][f] <= inRedis[m][f]
               /\ m \notin unshared => scrape'.before[m][f] <= inRedis[m][f]
               /\ m \notin unshared /\ HasRead(m, f)' => scrape'.before[m][f] <= scrape'.seen[m][f]
    <3>1. /\ Seen[m][f] <= inRedis[m][f]
          /\ m \notin unshared /\ HasRead(m, f) => scrape.before[m][f] <= Seen[m][f]
          /\ <<m, f>> \in Replied(scrape.pc) => Seen[m][f] = inRedis[m][f]
          /\ m \notin unshared => scrape.before[m][f] <= inRedis[m][f]
      BY <1>2, RepliesAreRead
    <3> QED BY <2>2, <2>5, <3>1
  <2>7. "requests" \notin unshared => Seen["hits"]["value"] <= Seen["requests"]["value"]
    <3>1. CASE scrape.pc = "counters"
      <4>1. Seen["hits"]["value"] = inRedis["hits"]["value"] /\ Seen["requests"]["value"] = inRedis["requests"]["value"]
        BY <1>2, <2>4, <3>1, RepliesAreRead DEF Metrics, AllFields
      <4>2. InWriting("hits") \in SUBSET Calls /\ JustAsked \in SUBSET Calls
        BY DEF InWriting, JustAsked
      <4>3. /\ Cardinality(InWriting("hits")) \in Nat /\ Cardinality(JustAsked) \in Nat
            /\ inRedis["hits"]["value"] \in Nat /\ inRedis["requests"]["value"] \in Nat
        BY <1>1, <4>2, CallsAreCounted DEF Counts, Metrics, AllFields
      <4>4. "requests" \notin unshared =>
              inRedis["hits"]["value"] + Cardinality(InWriting("hits")) + Cardinality(JustAsked)
                 <= inRedis["requests"]["value"]
        BY <1>1 DEF HitsFollow
      <4> QED BY <4>1, <4>3, <4>4
    <3>2. CASE scrape.pc \in {"sums", "counts"}
      <4>1. <<"hits", "value">> \notin Replied(scrape.pc) /\ <<"requests", "value">> \notin Replied(scrape.pc)
        BY <2>4, <3>2
      <4>2. Seen["hits"]["value"] = scrape.seen["hits"]["value"] /\ Seen["requests"]["value"] = scrape.seen["requests"]["value"]
        BY <1>2, <4>1, RepliesAreRead DEF Metrics, AllFields
      <4> QED BY <1>1, <3>2, <4>2 DEF ScrapeFollows
    <3> QED BY <1>2, <3>1, <3>2 DEF Reading
  <2>8. scrape'.pc = "failed" => scrape'.seen["latency"]["count"] = 0
    BY <1>2, <2>1, <2>2 DEF Reading
  <2>9. "latency" \notin unshared => scrape'.before["latency"]["count"] >= 0
    BY <1>2, <2>2, RepliesAreRead
  <2>10. ScrapeFollows'
    <3>1. scrape'.pc # "own"
      BY <1>4, <2>2
    <3> QED BY <1>2, <2>2, <2>6, <2>7, <2>8, <2>9, <3>1 DEF ScrapeFollows, HasRead
  <2> QED BY <1>1, <1>2, <2>3, <2>10, OnlyTheScrape
<1> QED BY <1>3, <1>4

\* Every step keeps the invariant.
LEMMA MetricsStep == MetricsInv /\ [MetricsNext]_metricsVars => MetricsInv'
<1> SUFFICES ASSUME MetricsInv, [MetricsNext]_metricsVars  PROVE MetricsInv'
  OBVIOUS
<1>1. losses \in Nat
  BY DEF MetricsInv, MetricsTyped
<1>2. CASE \E c \in Calls : Command(c)
  BY <1>2, CommandStep
<1>3. CASE \E c \in Calls : \E p \in Processes, m \in Metrics : Record(c, p, m)
  BY <1>3, RecordStep
<1>4. CASE \E p \in Processes : ScrapeBegin(p)
  BY <1>4, ScrapeBeginStep
<1>5. CASE \E p \in Processes : ProcessEnds(p)
  BY <1>5, ProcessEndsStep
<1>6. CASE ScrapeRead
  BY <1>6, ScrapeReadStep
<1>7. CASE ScrapeFails
  <2>1. /\ scrape' = [scrape EXCEPT !.pc = "own", !.seen = own[scrape.by]] /\ losses' = losses + 1
        /\ UNCHANGED <<measured, own, inRedis, recorded, unshared>>
    BY <1>7 DEF ScrapeFails, Loss
  <2> QED BY <1>1, <2>1, OwnIsRead
<1>8. CASE ScrapeEnd
  <2>1. scrape' = NoScrape /\ UNCHANGED <<measured, own, inRedis, recorded, unshared, losses>>
    BY <1>8 DEF ScrapeEnd
  <2> QED BY <1>1, <2>1, NothingIsRead, OnlyTheScrape
<1>9. CASE UNCHANGED metricsVars
  <2>1. scrape' = scrape /\ losses' = losses /\ UNCHANGED <<measured, own, inRedis, recorded, unshared>>
    BY <1>9 DEF metricsVars
  <2>2. ScrapeFollows' /\ scrape' \in ScrapeRow
    BY <2>1 DEF MetricsInv, MetricsTyped, ScrapeFollows, HasRead
  <2> QED BY <1>1, <2>1, <2>2, OnlyTheScrape
<1> QED BY <1>2, <1>3, <1>4, <1>5, <1>6, <1>7, <1>8, <1>9 DEF MetricsNext

\* Nothing is recorded at first.
LEMMA MetricsStart == MetricsInit => MetricsInv
<1> SUFFICES ASSUME MetricsInit  PROVE MetricsInv
  OBVIOUS
<1>1. PICK p \in Processes : p = CHOOSE q \in Processes : TRUE
  BY MetricsAssumption DEF MetricsAssumption
<1>2. /\ measured = [c \in Calls |-> [at |-> p, pc |-> "new", todo |-> <<>>]]
      /\ own = [q \in Processes |-> NoCounts] /\ inRedis = NoCounts /\ recorded = NoCounts
      /\ unshared = {} /\ losses = 0
      /\ scrape = [pc |-> "none", by |-> p, seen |-> NoCounts, before |-> NoCounts]
  BY <1>1 DEF MetricsInit, NoScrape
<1>3. ASSUME NEW c \in Calls  PROVE measured[c] \in CallRow /\ InShape(measured[c])
                                   /\ measured[c].pc = "new" /\ measured[c].todo = <<>>
  <2>1. measured[c] = [at |-> p, pc |-> "new", todo |-> <<>>] /\ <<>> \in Seq(AllFields)
    BY <1>2
  <2> QED BY <2>1 DEF CallRow, InShape
<1>4. scrape \in ScrapeRow
  <2>1. NoCounts \in [Metrics -> [AllFields -> Int]]
    BY DEF NoCounts
  <2> QED BY <1>2, <2>1, NoCountsAreCounts DEF ScrapeRow
<1>5. MetricsTyped
  <2>1. measured \in [Calls -> CallRow]
    BY <1>2, <1>3
  <2> QED BY <1>2, <1>3, <1>4, <2>1, NoCountsAreCounts DEF MetricsTyped
<1>6. RedisFollows
  <2>1. ASSUME NEW m \in Metrics, NEW f \in AllFields  PROVE Cardinality(Unwritten(m, f)) = 0
    <3>1. Unwritten(m, f) = {}
      BY <1>3 DEF Unwritten, Metrics
    <3> QED BY <3>1, FS_EmptySet
  <2>2. \A m \in Metrics, f \in AllFields : recorded[m][f] = 0 /\ inRedis[m][f] = 0
    BY <1>2, NoCountsAreCounts
  <2> QED BY <2>1, <2>2 DEF RedisFollows
<1>7. HitsFollow
  <2>1. InWriting("hits") = {} /\ JustAsked = {} /\ \A q \in Processes : AskedAt(q) = {}
    BY <1>3 DEF InWriting, JustAsked, AskedAt
  <2>2. Cardinality({}) = 0
    BY FS_EmptySet
  <2>3. /\ inRedis["hits"]["value"] = 0 /\ inRedis["requests"]["value"] = 0
        /\ \A q \in Processes : own[q]["hits"]["value"] = 0 /\ own[q]["requests"]["value"] = 0
    BY <1>2, NoCountsAreCounts DEF Metrics, AllFields
  <2>4. Cardinality(InWriting("hits")) = 0 /\ Cardinality(JustAsked) = 0
    BY <2>1, <2>2
  <2>5. inRedis["hits"]["value"] + Cardinality(InWriting("hits")) + Cardinality(JustAsked)
           <= inRedis["requests"]["value"]
    BY <2>3, <2>4
  <2>6. \A q \in Processes : own[q]["hits"]["value"] + Cardinality(AskedAt(q)) <= own[q]["requests"]["value"]
    BY <2>1, <2>2, <2>3
  <2> QED BY <2>5, <2>6 DEF HitsFollow
<1>8. ScrapeFollows
  <2>1. scrape.pc = "none"
    BY <1>2
  <2> QED BY <2>1 DEF ScrapeFollows, Reading
<1> QED BY <1>5, <1>6, <1>7, <1>8 DEF MetricsInv

\* The invariant says that the metrics are right.
LEMMA MetricsFollow == MetricsInv => MetricsAreRight
<1> SUFFICES ASSUME MetricsInv  PROVE MetricsAreRight
  OBVIOUS
<1>1. RedisFollows /\ ScrapeFollows /\ scrape \in ScrapeRow /\ inRedis \in Counts /\ recorded \in Counts
  BY DEF MetricsInv, MetricsTyped
<1>2. ReportCounts
  <2> SUFFICES ASSUME scrape.pc = "told", NEW m \in Metrics \ unshared, NEW f \in AllFields
               PROVE  scrape.before[m][f] <= scrape.seen[m][f] /\ scrape.seen[m][f] <= recorded[m][f]
    BY DEF ReportCounts, AtMostAs
  <2>1. HasRead(m, f)
    BY DEF HasRead, Reading, AllFields
  <2>2. scrape.before[m][f] <= scrape.seen[m][f] /\ scrape.seen[m][f] <= inRedis[m][f]
    BY <1>1, <2>1 DEF ScrapeFollows
  <2>3. recorded[m][f] = inRedis[m][f] + Cardinality(Unwritten(m, f))
    BY <1>1 DEF RedisFollows
  <2>4. Unwritten(m, f) \in SUBSET Calls
    BY DEF Unwritten
  <2>5. Cardinality(Unwritten(m, f)) \in Nat
    BY <2>4, CallsAreCounted
  <2>6. inRedis[m][f] \in Nat /\ scrape.seen[m][f] \in Nat
    BY <1>1 DEF Counts, ScrapeRow
  <2> QED BY <2>2, <2>3, <2>5, <2>6
<1>3. RateIsARate
  BY <1>1 DEF ScrapeFollows, RateIsARate
<1>4. FailsForTheFirst
  <2> SUFFICES ASSUME scrape.pc = "failed", "latency" \notin unshared
               PROVE  scrape.before["latency"]["count"] = 0
    BY DEF FailsForTheFirst
  <2>1. "latency" \in Metrics /\ "count" \in AllFields
    BY DEF Metrics, AllFields
  <2>2. HasRead("latency", "count")
    BY DEF HasRead, Reading
  <2>3. /\ scrape.before["latency"]["count"] <= scrape.seen["latency"]["count"]
        /\ scrape.before["latency"]["count"] >= 0 /\ scrape.seen["latency"]["count"] = 0
    BY <1>1, <2>1, <2>2 DEF ScrapeFollows
  <2>4. scrape.before["latency"]["count"] \in Int
    BY <1>1, <2>1 DEF ScrapeRow
  <2> QED BY <2>3, <2>4
<1> QED BY <1>2, <1>3, <1>4 DEF MetricsAreRight

\* A report of the metrics counts what was recorded before it, and nothing that did not happen.
THEOREM MetricsAreTrue == MetricsSpec => []MetricsAreRight
<1>1. MetricsInit => MetricsInv
  BY MetricsStart
<1>2. MetricsInv /\ [MetricsNext]_metricsVars => MetricsInv'
  BY MetricsStep
<1>3. MetricsInv => MetricsAreRight
  BY MetricsFollow
<1> QED BY <1>1, <1>2, <1>3, PTL DEF MetricsSpec

-----------------------------------------------------------------------------
(* What is read of a picture, and the vectors of texts.                      *)

(* Vectors.  What Redis holds under a key is the vector of its text, and a *)
(* call has at each place the vector of its text, or none and the place    *)
(* among the misses.                                                       *)

\* What is known of a call.
CallRows == [pc : {"new", "look", "ask", "store", "done", "failed"}, texts : Seq(Pieces), at : Nat,
             vectors : Seq(Pieces \cup {Missing}), misses : Seq(Nat)]

\* What a call has stored before the n-th text.
FoundBefore(c, n) ==
    /\ c.vectors \in Seq(Pieces \cup {Missing}) /\ Len(c.vectors) = n - 1
    /\ \A k \in DOMAIN c.misses : c.misses[k] \in 1..(n - 1)
    /\ \A i \in 1..(n - 1) : \/ c.vectors[i] = c.texts[i]
                             \/ \E k \in DOMAIN c.misses : c.misses[k] = i

\* A call by where it stands.
CallInShape(c) ==
    /\ c \in CallRows
    /\ c.pc = "look" => c.at \in 1..Len(c.texts) /\ FoundBefore(c, c.at)
    /\ c.pc = "ask" => c.at = 1 /\ FoundBefore(c, Len(c.texts) + 1)
    /\ c.pc \in {"store", "done"} => c.vectors = c.texts
    /\ c.pc = "store" =>
          c.at \in 1..Len(c.misses) /\ \A k \in DOMAIN c.misses : c.misses[k] \in 1..Len(c.texts)

\* The invariant: what is stored of a text is its vector.
VectorsInv ==
    /\ embedded \in [Pieces -> Pieces \cup {Missing}]
    /\ \A t \in Pieces : embedded[t] \in {t, Missing}
    /\ call \in [Callers -> CallRows]
    /\ \A c \in Callers : CallInShape(call[c])

\* Where a call may stand.
CallPlaces == {"new", "look", "ask", "store", "done", "failed"}

\* A call that has not begun.
LEMMA NewCallIsBlank ==
    /\ NewCall \in CallRows
    /\ NewCall.texts = <<>> /\ NewCall.at = 1 /\ NewCall.vectors = <<>> /\ NewCall.misses = <<>>
BY DEF NewCall, CallRows

\* No vector is stored at first.
LEMMA VectorsStart == ExtractionInit => VectorsInv
<1> SUFFICES ASSUME ExtractionInit PROVE VectorsInv
  OBVIOUS
<1>1. embedded = [t \in Pieces |-> Missing] /\ call = [c \in Callers |-> NewCall]
  BY DEF ExtractionInit
<1>2. CallInShape(NewCall)
  BY DEF CallRows, CallInShape, NewCall
<1>3. NewCall \in CallRows
  BY DEF NewCall, CallRows
<1> QED BY <1>1, <1>2, <1>3 DEF VectorsInv

\* It is enough to look at the call that moves.
LEMMA OneEmbedMoves ==
    ASSUME VectorsInv, NEW c \in Callers, NEW x, call' = [call EXCEPT ![c] = x], CallInShape(x),
           embedded' \in [Pieces -> Pieces \cup {Missing}],
           \A t \in Pieces : embedded'[t] \in {t, Missing}
    PROVE  VectorsInv'
<1>1. x \in CallRows
  BY DEF CallRows, CallInShape
<1>2. call' \in [Callers -> CallRows]
  BY <1>1 DEF VectorsInv
<1>3. \A d \in Callers : call'[d] = IF d = c THEN x ELSE call[d]
  BY DEF VectorsInv
<1>4. \A d \in Callers : CallInShape(call'[d])
  BY <1>3 DEF VectorsInv
<1> QED BY <1>2, <1>4 DEF VectorsInv

\* A call begins, with some texts; ...
LEMMA EmbedStep ==
    ASSUME VectorsInv, NEW c \in Callers, NEW n \in 1..ListLength, NEW texts \in [1..n -> Pieces],
           Embed(c, texts)
    PROVE  VectorsInv'
<1> DEFINE x == [NewCall EXCEPT !.pc = "look", !.texts = texts]
<1>1. n \in Nat \ {0}
  BY ExtractionAssumption DEF ExtractionAssumption
<1>2. texts \in Seq(Pieces) /\ Len(texts) = n
  BY <1>1
<1>4. CallInShape(x)
  <2>1. "look" \in CallPlaces
    BY DEF CallPlaces
  <2>2. /\ x.pc = "look" /\ x.texts = texts /\ x.at = 1 /\ x.vectors = <<>> /\ x.misses = <<>>
        /\ x \in CallRows
    <3> HIDE DEF NewCall
    <3> QED BY <1>2, <2>1, NewCallIsBlank DEF CallRows, CallPlaces
  <2> HIDE DEF x
  <2> QED BY <1>1, <1>2, <2>2 DEF CallInShape, FoundBefore
<1>5. call' = [call EXCEPT ![c] = x] /\ embedded' = embedded
  BY DEF Embed
<1> HIDE DEF x
<1> QED BY <1>4, <1>5, OneEmbedMoves DEF VectorsInv

\* ... each of its texts is looked up, ...
LEMMA LookUpStep ==
    ASSUME VectorsInv, NEW c \in Callers, LookUp(c)
    PROVE  VectorsInv'
<1> DEFINE d == call[c]
           i == d.at
           stored == embedded[d.texts[i]]
           vectors == Append(d.vectors, stored)
           misses == IF stored = Missing THEN Append(d.misses, i) ELSE d.misses
           at == IF i = Len(d.texts) THEN 1 ELSE i + 1
           pc == IF i = Len(d.texts) THEN "ask" ELSE "look"
           x == [d EXCEPT !.vectors = vectors, !.misses = misses, !.at = at, !.pc = pc]
<1>1. /\ d.pc = "look" /\ d.texts \in Seq(Pieces) /\ d.misses \in Seq(Nat) /\ Len(d.texts) \in Nat
      /\ i \in 1..Len(d.texts) /\ FoundBefore(d, i)
      /\ d \in CallRows
  BY DEF VectorsInv, LookUp, CallRows, CallInShape
<1>2. i \in Nat \ {0} /\ d.texts[i] \in Pieces
  BY <1>1
<1>3. stored \in {d.texts[i], Missing} /\ stored \in Pieces \cup {Missing}
  BY <1>2 DEF VectorsInv
<1>4. call' = [call EXCEPT ![c] = x] /\ embedded' = embedded
  BY DEF LookUp, VectorsInv
<1>9. x \in CallRows /\ x.pc = pc /\ x.texts = d.texts /\ x.at = at /\ x.vectors = vectors /\ x.misses = misses
  <2>1. vectors \in Seq(Pieces \cup {Missing}) /\ misses \in Seq(Nat) /\ at \in Nat /\ pc \in CallPlaces
    <3> HIDE DEF d, i, stored
    <3> QED BY <1>1, <1>2, <1>3 DEF CallPlaces, FoundBefore
  <2> HIDE DEF d, vectors, misses, at, pc
  <2> QED BY <1>1, <2>1 DEF x, CallRows, CallPlaces
<1> HIDE DEF d, i, stored, x
<1>5. x.vectors \in Seq(Pieces \cup {Missing}) /\ Len(x.vectors) = i
      /\ x.vectors[i] = stored /\ \A k \in 1..(i - 1) : x.vectors[k] = d.vectors[k]
  BY <1>1, <1>2, <1>3, <1>9 DEF FoundBefore
<1>6. /\ x.misses \in Seq(Nat) /\ \A k \in DOMAIN x.misses : x.misses[k] \in 1..i
      /\ \A k \in DOMAIN d.misses : k \in DOMAIN x.misses /\ x.misses[k] = d.misses[k]
      /\ stored = Missing => \E k \in DOMAIN x.misses : x.misses[k] = i
  <2>1. d.misses \in Seq(Nat) /\ \A k \in DOMAIN d.misses : d.misses[k] \in 1..i
    <3>1. \A k \in DOMAIN d.misses : d.misses[k] \in 1..(i - 1)
      BY <1>1 DEF FoundBefore
    <3> QED BY <1>1, <1>2, <3>1 DEF CallRows
  <2>2. CASE stored = Missing
    <3>1. x.misses = Append(d.misses, i) /\ i \in 1..i
      BY <1>2, <1>9, <2>2
    <3>2. /\ Append(d.misses, i) \in Seq(Nat) /\ DOMAIN Append(d.misses, i) = 1..(Len(d.misses) + 1)
          /\ DOMAIN d.misses = 1..Len(d.misses) /\ Len(d.misses) \in Nat
          /\ \A k \in DOMAIN d.misses : k \in DOMAIN Append(d.misses, i) /\ Append(d.misses, i)[k] = d.misses[k]
          /\ Len(d.misses) + 1 \in DOMAIN Append(d.misses, i) /\ Append(d.misses, i)[Len(d.misses) + 1] = i
      BY <1>2, <2>1, <3>1
    <3>3. ASSUME NEW k \in DOMAIN Append(d.misses, i) PROVE Append(d.misses, i)[k] \in 1..i
      <4>1. k \in DOMAIN d.misses \/ k = Len(d.misses) + 1
        BY <3>2
      <4> QED BY <2>1, <3>1, <3>2, <4>1
    <3> QED BY <3>1, <3>2, <3>3
  <2>3. CASE stored # Missing
    BY <1>9, <2>1, <2>3
  <2> QED BY <2>2, <2>3
<1>7. FoundBefore(x, i + 1)
  <2>1. ASSUME NEW k \in 1..i
        PROVE  x.vectors[k] = x.texts[k] \/ \E j \in DOMAIN x.misses : x.misses[j] = k
    <3>1. CASE k = i
      BY <1>3, <1>5, <1>6, <1>9, <3>1
    <3>2. CASE k # i
      <4>1. k \in 1..(i - 1)
        BY <1>2, <3>2
      <4>2. d.vectors[k] = d.texts[k] \/ \E j \in DOMAIN d.misses : d.misses[j] = k
        BY <1>1, <4>1 DEF FoundBefore
      <4> QED BY <1>5, <1>6, <1>9, <4>1, <4>2
    <3> QED BY <3>1, <3>2
  <2>2. (i + 1) - 1 = i
    BY <1>2
  <2> HIDE DEF x
  <2> QED BY <1>5, <1>6, <2>1, <2>2 DEF FoundBefore
<1>8. CallInShape(x)
  <2>1. x.misses \in Seq(Nat)
    BY <1>6
  <2>2. x \in CallRows
    BY <1>9
  <2>3. CASE i = Len(d.texts)
    <3>1. x.pc = "ask" /\ x.at = 1 /\ x.texts = d.texts
      BY <1>9, <2>3
    <3> HIDE DEF x
    <3> QED BY <1>7, <2>2, <2>3, <3>1 DEF CallRows, CallInShape
  <2>4. CASE i # Len(d.texts)
    <3>1. x.pc = "look" /\ x.at = i + 1 /\ x.texts = d.texts /\ i + 1 \in 1..Len(d.texts)
      BY <1>1, <1>2, <1>9, <2>4
    <3> HIDE DEF x
    <3> QED BY <1>7, <2>2, <3>1 DEF CallRows, CallInShape
  <2> QED BY <2>3, <2>4
<1> QED BY <1>4, <1>8, OneEmbedMoves DEF VectorsInv

\* With what the provider sends, every place has the vector of its text.
LEMMA FilledIsRight ==
    ASSUME VectorsInv, NEW c \in Callers, call[c].pc = "ask"
    PROVE  Filled(c) = call[c].texts
<1> DEFINE d == call[c]
           m == d.misses
<1>1. d.texts \in Seq(Pieces) /\ Len(d.texts) \in Nat /\ FoundBefore(d, Len(d.texts) + 1)
  BY DEF VectorsInv, CallRows, CallInShape
<1>2. ASSUME NEW i \in DOMAIN d.texts PROVE Filled(c)[i] = d.texts[i]
  <2>1. Filled(c)[i] = IF \E k \in DOMAIN m : Place(m, k) = i
                       THEN d.texts[m[CHOOSE k \in DOMAIN m : Place(m, k) = i]]
                       ELSE d.vectors[i]
    BY DEF Filled
  <2>2. CASE \E k \in DOMAIN m : Place(m, k) = i
    <3>1. Place(m, CHOOSE k \in DOMAIN m : Place(m, k) = i) = i
      BY <2>2
    <3> QED BY <2>1, <2>2, <3>1 DEF Place
  <2>3. CASE ~\E k \in DOMAIN m : Place(m, k) = i
    <3>1. i \in 1..((Len(d.texts) + 1) - 1)
      BY <1>1
    <3> QED BY <1>1, <2>1, <2>3, <3>1 DEF Place, FoundBefore
  <2> QED BY <2>2, <2>3
<1>3. Filled(c) = [i \in DOMAIN d.texts |-> Filled(c)[i]]
  BY DEF Filled
<1>4. d.texts = [i \in DOMAIN d.texts |-> d.texts[i]]
  BY <1>1
<1> HIDE DEF d
<1>5. [i \in DOMAIN d.texts |-> Filled(c)[i]] = [i \in DOMAIN d.texts |-> d.texts[i]]
  BY <1>2
<1> QED BY <1>3, <1>4, <1>5 DEF d

\* ... the provider sends what is missing or fails, ...
LEMMA AskProviderStep ==
    ASSUME VectorsInv, NEW c \in Callers, AskProvider(c)
    PROVE  VectorsInv'
<1> DEFINE d == call[c]
           pc == IF d.misses = <<>> THEN "done" ELSE "store"
           x == [d EXCEPT !.vectors = Filled(c), !.pc = pc]
           y == [NewCall EXCEPT !.pc = "failed"]
<1>1. /\ d.pc = "ask" /\ d.texts \in Seq(Pieces) /\ Len(d.texts) \in Nat
      /\ d.at = 1 /\ FoundBefore(d, Len(d.texts) + 1)
      /\ d \in CallRows
  BY DEF VectorsInv, AskProvider, CallRows, CallInShape
<1>2. embedded' = embedded /\ (call' = [call EXCEPT ![c] = x] \/ call' = [call EXCEPT ![c] = y])
  BY DEF AskProvider, VectorsInv
<1>3. CallInShape(x)
  <2>1. Filled(c) = d.texts /\ Filled(c) \in Seq(Pieces \cup {Missing})
    <3>1. Filled(c) = d.texts
      BY <1>1, FilledIsRight
    <3>2. \A i \in 1..Len(d.texts) : d.texts[i] \in Pieces \cup {Missing}
      BY <1>1
    <3> QED BY <1>1, <3>1, <3>2
  <2>2. /\ \A k \in DOMAIN d.misses : d.misses[k] \in 1..Len(d.texts)
        /\ Len(d.misses) \in Nat /\ d.misses \in Seq(Nat)
    <3>1. (Len(d.texts) + 1) - 1 = Len(d.texts)
      BY <1>1
    <3> QED BY <1>1, <3>1 DEF FoundBefore, CallRows
  <2>3. d.misses # <<>> => 1 \in 1..Len(d.misses)
    BY <2>2
  <2>4. /\ x \in CallRows /\ x.pc = pc /\ x.texts = d.texts /\ x.at = 1
        /\ x.vectors = Filled(c) /\ x.misses = d.misses
    <3>1. pc \in CallPlaces
      BY DEF CallPlaces
    <3> HIDE DEF d, pc
    <3> QED BY <1>1, <2>1, <2>2, <3>1 DEF x, CallRows, CallPlaces
  <2> HIDE DEF d, x
  <2> QED BY <1>1, <2>1, <2>2, <2>3, <2>4 DEF CallInShape
<1>4. CallInShape(y)
  <2>1. "failed" \in CallPlaces /\ <<>> \in Seq(Pieces)
    BY DEF CallPlaces
  <2>2. y \in CallRows /\ y.pc = "failed"
    <3> HIDE DEF NewCall
    <3> QED BY <2>1, NewCallIsBlank DEF CallRows, CallPlaces
  <2> HIDE DEF y
  <2> QED BY <2>2 DEF CallInShape
<1> HIDE DEF x, y
<1> QED BY <1>2, <1>3, <1>4, OneEmbedMoves DEF VectorsInv

\* ... and what it sent is stored, one after the other.
LEMMA StoreVectorStep ==
    ASSUME VectorsInv, NEW c \in Callers, StoreVector(c)
    PROVE  VectorsInv'
<1> DEFINE d == call[c]
           i == d.misses[d.at]
           pc == IF d.at = Len(d.misses) THEN "done" ELSE "store"
           x == [d EXCEPT !.at = d.at + 1, !.pc = pc]
<1>1. /\ d.pc = "store" /\ d.texts \in Seq(Pieces) /\ Len(d.texts) \in Nat
      /\ d.at \in 1..Len(d.misses) /\ d.vectors = d.texts
      /\ \A k \in DOMAIN d.misses : d.misses[k] \in 1..Len(d.texts)
      /\ d \in CallRows
  BY DEF VectorsInv, StoreVector, CallRows, CallInShape
<1>2. i \in 1..Len(d.texts) /\ d.texts[i] \in Pieces /\ Len(d.misses) \in Nat /\ d.at \in Nat
  BY <1>1 DEF CallRows
<1>3. embedded' = [embedded EXCEPT ![d.texts[i]] = d.vectors[i]] /\ call' = [call EXCEPT ![c] = x]
  BY DEF StoreVector, VectorsInv
<1>6. /\ x \in CallRows /\ x.pc = pc /\ x.texts = d.texts /\ x.at = d.at + 1
      /\ x.vectors = d.vectors /\ x.misses = d.misses
  <2>1. /\ pc \in CallPlaces /\ d.at + 1 \in Nat /\ d.vectors \in Seq(Pieces \cup {Missing})
        /\ d.misses \in Seq(Nat)
    <3> HIDE DEF d
    <3> QED BY <1>1, <1>2 DEF CallPlaces, CallRows
  <2> HIDE DEF d, pc
  <2> QED BY <1>1, <2>1 DEF x, CallRows, CallPlaces
<1> HIDE DEF d, i, x
<1>4. /\ embedded' \in [Pieces -> Pieces \cup {Missing}]
      /\ \A t \in Pieces : embedded'[t] \in {t, Missing}
  BY <1>1, <1>2, <1>3 DEF VectorsInv
<1>5. CallInShape(x)
  <2>1. x \in CallRows
    BY <1>6
  <2>2. d.at # Len(d.misses) => d.at + 1 \in 1..Len(d.misses)
    BY <1>1, <1>2
  <2> QED BY <1>1, <1>6, <2>1, <2>2 DEF CallInShape
<1> QED BY <1>3, <1>4, <1>5, OneEmbedMoves

\* So every step keeps the vectors right.
LEMMA VectorsStep == VectorsInv /\ [ExtractionNext]_extractionVars => VectorsInv'
<1> SUFFICES ASSUME VectorsInv, [ExtractionNext]_extractionVars PROVE VectorsInv'
  OBVIOUS
<1>1. CASE UNCHANGED vectorVars
  BY <1>1 DEF vectorVars, VectorsInv
<1>2. CASE VectorsNext
  <2>1. CASE \E c \in Callers, n \in 1..ListLength : \E texts \in [1..n -> Pieces] : Embed(c, texts)
    BY <2>1, EmbedStep
  <2>2. CASE \E c \in Callers : LookUp(c) \/ AskProvider(c) \/ StoreVector(c)
    BY <2>2, LookUpStep, AskProviderStep, StoreVectorStep
  <2>3. ASSUME NEW t \in Pieces, VectorLapses(t) PROVE VectorsInv'
    <3>1. embedded' = [embedded EXCEPT ![t] = Missing] /\ call' = call
      BY <2>3 DEF VectorLapses
    <3>2. /\ embedded' \in [Pieces -> Pieces \cup {Missing}]
          /\ \A u \in Pieces : embedded'[u] \in {u, Missing}
      BY <3>1 DEF VectorsInv
    <3> QED BY <3>1, <3>2 DEF VectorsInv
  <2> QED BY <1>2, <2>1, <2>2, <2>3 DEF VectorsNext
<1>3. CASE PictureNext
  BY <1>1, <1>3 DEF PictureNext, ReadText, BeginArea, PopPixel, EndArea, EndScan
<1> QED BY <1>1, <1>2, <1>3 DEF ExtractionNext, extractionVars

\* A call that ends has the vector of each text in its place.
LEMMA VectorsConclusion == VectorsInv => VectorsFollowTexts
BY DEF VectorsInv, CallRows, CallInShape, VectorsFollowTexts

-----------------------------------------------------------------------------
(* A picture.  The invariant: the components that are complete are parts   *)
(* of the picture that nothing else touches, and the current one is a set  *)
(* of pixels that hang together, of which those that were popped have      *)
(* all their neighbours in it.                                             *)

\* With a pixel all of those next to it are in the set.
ClosedIn(pic, S) == \A q \in pic, k \in 1..4 : Around(q)[k] \in S => q \in S

\* Whoever holds p and what is next to what it holds has all of the set.
Grows(pic, p, S) == \A T \in SUBSET pic : p \in T /\ ClosedIn(pic, T) => S \subseteq T

\* A part of the picture: what hangs together, and all of it.
IsPart(pic, S) == S \subseteq pic /\ ClosedIn(pic, S) /\ \E p \in S : Grows(pic, p, S)

\* Bounds and a number.
AreaRows == [left : Int, top : Int, right : Int, bottom : Int, count : Nat]

\* The bounds of some pixels and their number.
Bounds(a, S) ==
    /\ a \in AreaRows /\ IsFiniteSet(S) /\ a.count = Cardinality(S)
    /\ \A q \in S : a.left <= q[1] /\ q[1] <= a.right /\ a.top <= q[2] /\ q[2] <= a.bottom
    /\ \E q \in S : q[1] = a.left
    /\ \E q \in S : q[1] = a.right
    /\ \E q \in S : q[2] = a.top
    /\ \E q \in S : q[2] = a.bottom

\* A sequence of the pixels of a set, each of them once.
ListsOnce(s, S) ==
    /\ s \in Seq(S) /\ \A p \in S : \E i \in DOMAIN s : s[i] = p
    /\ \A i, j \in DOMAIN s : s[i] = s[j] => i = j

\* The components that are complete, and the current one beside them.
Completed(pic, ars, f, c) ==
    /\ ars \in Seq(AreaRows) /\ f \in [1..Len(ars) -> SUBSET pic]
    /\ \A i \in 1..Len(ars) : IsPart(pic, f[i]) /\ Bounds(ars[i], f[i]) /\ f[i] \cap c = {}
    /\ \A i, j \in 1..Len(ars) : f[i] = f[j] => i = j

\* The current component hangs together, and has all that is next to its popped pixels.
Growing(pic, c, popped) ==
    /\ c \in SUBSET pic /\ popped \in SUBSET c
    /\ c # {} => \E p \in c : Grows(pic, p, c)
    /\ \A q \in popped, k \in 1..4 : Around(q)[k] \in pic => Around(q)[k] \in c

\* The pixels that were popped are those that have been measured.
Measured(a, popped) == IF a = NoArea THEN popped = {} ELSE Bounds(a, popped)

\* What has been visited is in the current component or in one that is complete.
IsVisited(vis, ars, f, c) == \A p : p \in vis <=> p \in c \/ \E i \in 1..Len(ars) : p \in f[i]

\* How far a picture has been scanned.
Scanned(f, c, popped) ==
    /\ Completed(picture, areas, f, c) /\ Growing(picture, c, popped)
    /\ IsVisited(visited, areas, f, c) /\ ListsOnce(stack, c \ popped) /\ Measured(area, popped)

\* The invariant.
PictureInv ==
    /\ picture \in SUBSET Pixels
    /\ \E f, c, popped : Scanned(f, c, popped)
    /\ ocr.pc = "done" => picture \subseteq visited /\ stack = <<>> /\ area = NoArea
    /\ \E pc, language : ocr = [pc |-> pc, language |-> language]

\* The pixels next to a pixel are apart, and it is next to them.
LEMMA PixelsAround ==
    ASSUME NEW p \in Int \X Int
    PROVE  /\ Around(p)[1] = <<p[1] - 1, p[2]>> /\ Around(p)[2] = <<p[1] + 1, p[2]>>
           /\ Around(p)[3] = <<p[1], p[2] - 1>> /\ Around(p)[4] = <<p[1], p[2] + 1>>
           /\ \A j, k \in 1..4 : Around(p)[j] = Around(p)[k] => j = k
           /\ \A k \in 1..4 : Around(p)[k] \in Int \X Int /\ Around(p)[k] # p
<1>1. /\ Around(p)[1] = <<p[1] - 1, p[2]>> /\ Around(p)[2] = <<p[1] + 1, p[2]>>
      /\ Around(p)[3] = <<p[1], p[2] - 1>> /\ Around(p)[4] = <<p[1], p[2] + 1>>
  BY DEF Around
<1>2. PICK x \in Int, y \in Int : p = <<x, y>>
  OBVIOUS
<1>3. p[1] = x /\ p[2] = y
  BY <1>2
<1>4. /\ Around(p)[1] = <<x - 1, y>> /\ Around(p)[2] = <<x + 1, y>>
      /\ Around(p)[3] = <<x, y - 1>> /\ Around(p)[4] = <<x, y + 1>>
  BY <1>1, <1>3
<1>5. \A k \in 1..4 : k = 1 \/ k = 2 \/ k = 3 \/ k = 4
  OBVIOUS
<1>6. \A j, k \in 1..4 : Around(p)[j] = Around(p)[k] => j = k
  BY <1>4, <1>5
<1>7. \A k \in 1..4 : Around(p)[k] \in Int \X Int /\ Around(p)[k] # p
  BY <1>2, <1>4, <1>5
<1> QED BY <1>1, <1>6, <1>7

\* A pixel is next to those that are next to it.
LEMMA NextToEachOther ==
    ASSUME NEW p \in Int \X Int, NEW q \in Int \X Int, NEW k \in 1..4, Around(p)[k] = q
    PROVE  \E j \in 1..4 : Around(q)[j] = p
<1>1. PICK x \in Int, y \in Int : p = <<x, y>>
  OBVIOUS
<1>2. p[1] = x /\ p[2] = y
  BY <1>1
<1>3. k = 1 \/ k = 2 \/ k = 3 \/ k = 4
  OBVIOUS
<1>4. \/ q[1] = x - 1 /\ q[2] = y /\ k = 1
      \/ q[1] = x + 1 /\ q[2] = y /\ k = 2
      \/ q[1] = x /\ q[2] = y - 1 /\ k = 3
      \/ q[1] = x /\ q[2] = y + 1 /\ k = 4
  BY <1>2, <1>3, PixelsAround
<1>5. /\ Around(q)[1] = <<q[1] - 1, q[2]>> /\ Around(q)[2] = <<q[1] + 1, q[2]>>
      /\ Around(q)[3] = <<q[1], q[2] - 1>> /\ Around(q)[4] = <<q[1], q[2] + 1>>
  BY PixelsAround
<1>6. Around(q)[1] = p \/ Around(q)[2] = p \/ Around(q)[3] = p \/ Around(q)[4] = p
  <2>1. CASE q[1] = x - 1 /\ q[2] = y
    <3>1. q[1] + 1 = x
      BY <2>1
    <3> QED BY <1>1, <1>5, <2>1, <3>1
  <2>2. CASE q[1] = x + 1 /\ q[2] = y
    <3>1. q[1] - 1 = x
      BY <2>2
    <3> QED BY <1>1, <1>5, <2>2, <3>1
  <2>3. CASE q[1] = x /\ q[2] = y - 1
    <3>1. q[2] + 1 = y
      BY <2>3
    <3> QED BY <1>1, <1>5, <2>3, <3>1
  <2>4. CASE q[1] = x /\ q[2] = y + 1
    <3>1. q[2] - 1 = y
      BY <2>4
    <3> QED BY <1>1, <1>5, <2>4, <3>1
  <2> QED BY <1>4, <2>1, <2>2, <2>3, <2>4
<1> QED BY <1>6

\* A picture has finitely many pixels, of two numbers each.
LEMMA PixelsArePixels ==
    ASSUME NEW pic \in SUBSET Pixels
    PROVE  /\ IsFiniteSet(pic) /\ Cardinality(pic) \in Nat
           /\ \A p \in pic : /\ p \in Int \X Int /\ p[1] \in Int /\ p[2] \in Int
                             /\ 1 <= p[1] /\ p[1] <= Width /\ 1 <= p[2] /\ p[2] <= Height
           /\ Width \in Nat /\ Height \in Nat
<1>1. Width \in Nat /\ Height \in Nat
  BY ExtractionAssumption DEF ExtractionAssumption
<1>2. IsFiniteSet(1..Width) /\ IsFiniteSet(1..Height)
  BY <1>1, FS_Interval
<1>3. IsFiniteSet(Pixels)
  BY <1>2, FS_Product DEF Pixels
<1>4. IsFiniteSet(pic) /\ Cardinality(pic) \in Nat
  BY <1>3, FS_Subset, FS_CardinalityType
<1>5. ASSUME NEW p \in pic
      PROVE  /\ p \in Int \X Int /\ p[1] \in Int /\ p[2] \in Int
             /\ 1 <= p[1] /\ p[1] <= Width /\ 1 <= p[2] /\ p[2] <= Height
  BY <1>1 DEF Pixels
<1> QED BY <1>1, <1>4, <1>5

\* Who holds a pixel of a part, and what is next to what it holds, has all of the part.
LEMMA PartsGrow ==
    ASSUME NEW pic \in SUBSET Pixels, NEW S, IsPart(pic, S), NEW q \in S
    PROVE  Grows(pic, q, S)
<1> SUFFICES ASSUME NEW T \in SUBSET pic, q \in T, ClosedIn(pic, T) PROVE S \subseteq T
  BY DEF Grows
<1>1. S \subseteq pic /\ ClosedIn(pic, S)
  BY DEF IsPart
<1>2. PICK p \in S : Grows(pic, p, S)
  BY DEF IsPart
<1>3. CASE p \in T
  BY <1>2, <1>3 DEF Grows
<1>4. CASE p \notin T
  <2>1. S \ T \in SUBSET pic /\ p \in S \ T
    BY <1>1, <1>4
  <2>2. ASSUME NEW r \in pic, NEW k \in 1..4, Around(r)[k] \in S \ T PROVE r \in S \ T
    <3>1. r \in S
      BY <1>1, <2>2 DEF ClosedIn
    <3>2. ASSUME r \in T PROVE FALSE
      <4>1. Around(r)[k] \in pic /\ Around(r)[k] \in Int \X Int /\ r \in Int \X Int
        BY <1>1, <2>2, PixelsArePixels
      <4>2. PICK j \in 1..4 : Around(Around(r)[k])[j] = r
        BY <4>1, NextToEachOther
      <4>3. Around(r)[k] \in T
        BY <3>2, <4>1, <4>2 DEF ClosedIn
      <4> QED BY <2>2, <4>3
    <3> QED BY <3>1, <3>2
  <2>3. ClosedIn(pic, S \ T)
    BY <2>2 DEF ClosedIn
  <2>4. S \subseteq S \ T
    BY <1>2, <2>1, <2>3 DEF Grows
  <2> QED BY <2>4
<1> QED BY <1>3, <1>4

\* Two parts that share a pixel are one.
LEMMA PartsAreApart ==
    ASSUME NEW pic \in SUBSET Pixels, NEW S, NEW T, IsPart(pic, S), IsPart(pic, T), NEW q \in S, q \in T
    PROVE  S = T
<1>1. Grows(pic, q, S) /\ Grows(pic, q, T)
  BY PartsGrow
<1>2. S \in SUBSET pic /\ T \in SUBSET pic /\ ClosedIn(pic, S) /\ ClosedIn(pic, T)
  BY DEF IsPart
<1> QED BY <1>1, <1>2 DEF Grows

\* Two lists that share nothing, one after the other.
LEMMA ListsAreJoined ==
    ASSUME NEW S, NEW T, NEW s, NEW t, ListsOnce(s, S), ListsOnce(t, T), S \cap T = {}
    PROVE  ListsOnce(s \o t, S \cup T)
<1>1. /\ s \in Seq(S) /\ t \in Seq(T) /\ Len(s) \in Nat /\ Len(t) \in Nat
      /\ DOMAIN s = 1..Len(s) /\ DOMAIN t = 1..Len(t)
  BY DEF ListsOnce
<1>2. s \in Seq(S \cup T) /\ t \in Seq(S \cup T)
  BY <1>1
<1>3. /\ s \o t \in Seq(S \cup T) /\ Len(s \o t) = Len(s) + Len(t) /\ DOMAIN (s \o t) = 1..(Len(s) + Len(t))
      /\ \A i \in 1..(Len(s) + Len(t)) : (s \o t)[i] = IF i <= Len(s) THEN s[i] ELSE t[i - Len(s)]
  BY <1>1, <1>2
<1>4. ASSUME NEW p \in S \cup T PROVE \E i \in DOMAIN (s \o t) : (s \o t)[i] = p
  <2>1. CASE p \in S
    <3>1. PICK i \in 1..Len(s) : s[i] = p
      BY <1>1, <2>1 DEF ListsOnce
    <3>2. i \in 1..(Len(s) + Len(t)) /\ i <= Len(s)
      BY <1>1
    <3> QED BY <1>3, <3>1, <3>2
  <2>2. CASE p \in T
    <3>1. PICK i \in 1..Len(t) : t[i] = p
      BY <1>1, <2>2 DEF ListsOnce
    <3>2. i + Len(s) \in 1..(Len(s) + Len(t)) /\ ~(i + Len(s) <= Len(s)) /\ (i + Len(s)) - Len(s) = i
      BY <1>1
    <3> QED BY <1>3, <3>1, <3>2
  <2> QED BY <2>1, <2>2
<1>5. ASSUME NEW i \in DOMAIN (s \o t), NEW j \in DOMAIN (s \o t), (s \o t)[i] = (s \o t)[j] PROVE i = j
  <2>1. i \in 1..(Len(s) + Len(t)) /\ j \in 1..(Len(s) + Len(t))
    BY <1>3
  <2>2. \/ i <= Len(s) /\ i \in 1..Len(s) /\ (s \o t)[i] = s[i] /\ s[i] \in S
        \/ ~(i <= Len(s)) /\ i - Len(s) \in 1..Len(t) /\ (s \o t)[i] = t[i - Len(s)] /\ t[i - Len(s)] \in T
    BY <1>1, <1>3, <2>1
  <2>3. \/ j <= Len(s) /\ j \in 1..Len(s) /\ (s \o t)[j] = s[j] /\ s[j] \in S
        \/ ~(j <= Len(s)) /\ j - Len(s) \in 1..Len(t) /\ (s \o t)[j] = t[j - Len(s)] /\ t[j - Len(s)] \in T
    BY <1>1, <1>3, <2>1
  <2>4. CASE i <= Len(s) /\ j <= Len(s)
    BY <1>1, <1>5, <2>2, <2>3, <2>4 DEF ListsOnce
  <2>5. CASE ~(i <= Len(s)) /\ ~(j <= Len(s))
    <3>1. i - Len(s) = j - Len(s)
      BY <1>1, <1>5, <2>2, <2>3, <2>5 DEF ListsOnce
    <3> QED BY <1>1, <2>1, <3>1
  <2> QED BY <1>5, <2>2, <2>3, <2>4, <2>5
<1> QED BY <1>3, <1>4, <1>5 DEF ListsOnce

\* A list without its last one.
LEMMA LastIsPopped ==
    ASSUME NEW S, NEW s, ListsOnce(s, S), s # <<>>
    PROVE  /\ s[Len(s)] \in S
           /\ ListsOnce(SubSeq(s, 1, Len(s) - 1), S \ {s[Len(s)]})
<1> DEFINE n == Len(s)
           t == SubSeq(s, 1, n - 1)
<1>1. s \in Seq(S) /\ n \in Nat \ {0} /\ DOMAIN s = 1..n /\ s[n] \in S
  BY DEF ListsOnce
<1>2. /\ t \in Seq(S) /\ Len(t) = n - 1 /\ DOMAIN t = 1..(n - 1) /\ n - 1 \in Nat
      /\ \A i \in 1..(n - 1) : t[i] = s[i] /\ i \in 1..n /\ i # n
  <2> HIDE DEF n
  <2>1. n - 1 \in Nat /\ \A i \in 1..(n - 1) : i \in 1..n /\ i # n
    BY <1>1
  <2>2. \A i \in 1..(n - 1) : s[i] \in S
    BY <1>1, <2>1
  <2>3. t \in Seq(S) /\ Len(t) = n - 1 /\ \A i \in 1..(n - 1) : t[i] = s[i]
    <3>1. 1 \in Int /\ n - 1 \in Int /\ (n - 1) - 1 + 1 = n - 1 /\ \A i \in 1..(n - 1) : 1 + i - 1 = i
      BY <2>1
    <3> HIDE DEF t
    <3>2. /\ SubSeq(s, 1, n - 1) \in Seq(S)
          /\ Len(SubSeq(s, 1, n - 1)) = IF 1 <= n - 1 THEN (n - 1) - 1 + 1 ELSE 0
          /\ \A i \in 1..((n - 1) - 1 + 1) : SubSeq(s, 1, n - 1)[i] = s[1 + i - 1]
      BY <2>2, <3>1, SubSeqProperties
    <3>3. t = SubSeq(s, 1, n - 1)
      BY DEF t
    <3> QED BY <1>1, <3>1, <3>2, <3>3
  <2> QED BY <2>1, <2>3
<1> HIDE DEF t, n
<1>3. \A i \in 1..(n - 1) : t[i] \in S \ {s[n]}
  BY <1>1, <1>2 DEF ListsOnce
<1>4. t \in Seq(S \ {s[n]})
  BY <1>2, <1>3
<1>5. ASSUME NEW p \in S \ {s[n]} PROVE \E i \in DOMAIN t : t[i] = p
  <2>1. PICK i \in 1..n : s[i] = p
    BY <1>1 DEF ListsOnce
  <2>2. i \in 1..(n - 1)
    BY <1>1, <2>1
  <2> QED BY <1>2, <2>1, <2>2
<1>6. \A i, j \in DOMAIN t : t[i] = t[j] => i = j
  BY <1>1, <1>2 DEF ListsOnce
<1> QED BY <1>1, <1>4, <1>5, <1>6 DEF ListsOnce, t, n

\* What is pushed: the pixels next to p that have not been visited, each once.
LEMMA PushedOnce ==
    ASSUME NEW p \in Int \X Int
    PROVE  LET next == Pushed(p, 1) \o Pushed(p, 2) \o Pushed(p, 3) \o Pushed(p, 4)
               around == {q \in picture \ visited : \E k \in 1..4 : Around(p)[k] = q}
           IN ListsOnce(next, around) /\ {next[i] : i \in DOMAIN next} = around
<1> DEFINE On(k) == {q \in picture \ visited : Around(p)[k] = q}
           next == Pushed(p, 1) \o Pushed(p, 2) \o Pushed(p, 3) \o Pushed(p, 4)
           around == {q \in picture \ visited : \E k \in 1..4 : Around(p)[k] = q}
<1>1. ASSUME NEW k \in 1..4 PROVE ListsOnce(Pushed(p, k), On(k))
  <2>1. CASE Around(p)[k] \in picture \ visited
    <3>1. Pushed(p, k) = <<Around(p)[k]>> /\ On(k) = {Around(p)[k]}
      BY <2>1 DEF Pushed
    <3> QED BY <3>1 DEF ListsOnce
  <2>2. CASE Around(p)[k] \notin picture \ visited
    <3>1. Pushed(p, k) = <<>> /\ On(k) = {}
      BY <2>2 DEF Pushed
    <3> QED BY <3>1 DEF ListsOnce
  <2> QED BY <2>1, <2>2
<1>2. \A j, k \in 1..4 : j # k => On(j) \cap On(k) = {}
  BY PixelsAround
<1>3. 1 \in 1..4 /\ 2 \in 1..4 /\ 3 \in 1..4 /\ 4 \in 1..4
  OBVIOUS
<1>4. On(1) \cup On(2) \cup On(3) \cup On(4) = around
  <2>1. \A k \in 1..4 : k = 1 \/ k = 2 \/ k = 3 \/ k = 4
    OBVIOUS
  <2> QED BY <1>3, <2>1
<1> HIDE DEF On, around
<1>5. ListsOnce(Pushed(p, 1) \o Pushed(p, 2), On(1) \cup On(2))
  BY <1>1, <1>2, <1>3, ListsAreJoined
<1>6. (On(1) \cup On(2)) \cap On(3) = {} /\ (On(1) \cup On(2) \cup On(3)) \cap On(4) = {}
  <2>1. On(1) \cap On(3) = {} /\ On(2) \cap On(3) = {} /\ On(1) \cap On(4) = {} /\ On(2) \cap On(4) = {}
        /\ On(3) \cap On(4) = {}
    BY <1>2, <1>3
  <2> QED BY <2>1
<1>7. ListsOnce(Pushed(p, 1) \o Pushed(p, 2) \o Pushed(p, 3), On(1) \cup On(2) \cup On(3))
  BY <1>1, <1>3, <1>5, <1>6, ListsAreJoined
<1>8. ListsOnce(next, around)
  BY <1>1, <1>3, <1>4, <1>6, <1>7, ListsAreJoined
<1> HIDE DEF next
<1>9. {next[i] : i \in DOMAIN next} = around
  <2>1. \A i \in DOMAIN next : next[i] \in around
    BY <1>8 DEF ListsOnce
  <2> QED BY <1>8, <2>1 DEF ListsOnce
<1> QED BY <1>8, <1>9 DEF next, around

\* The bounds with one pixel more.
LEMMA BoundsGrow ==
    ASSUME NEW pic \in SUBSET Pixels, NEW S \in SUBSET pic, NEW p \in pic \ S, NEW a, Measured(a, S)
    PROVE  Bounds([left   |-> IF p[1] < a.left THEN p[1] ELSE a.left,
                   top    |-> IF p[2] < a.top THEN p[2] ELSE a.top,
                   right  |-> IF p[1] > a.right THEN p[1] ELSE a.right,
                   bottom |-> IF p[2] > a.bottom THEN p[2] ELSE a.bottom,
                   count  |-> a.count + 1], S \cup {p})
<1> DEFINE b == [left   |-> IF p[1] < a.left THEN p[1] ELSE a.left,
                 top    |-> IF p[2] < a.top THEN p[2] ELSE a.top,
                 right  |-> IF p[1] > a.right THEN p[1] ELSE a.right,
                 bottom |-> IF p[2] > a.bottom THEN p[2] ELSE a.bottom,
                 count  |-> a.count + 1]
<1>1. /\ p[1] \in Int /\ p[2] \in Int /\ 1 <= p[1] /\ p[1] <= Width /\ 1 <= p[2] /\ p[2] <= Height
      /\ Width \in Nat /\ Height \in Nat /\ IsFiniteSet(S)
      /\ \A q \in S : q[1] \in Int /\ q[2] \in Int
  <2>1. IsFiniteSet(S)
    BY PixelsArePixels, FS_Subset
  <2> QED BY <2>1, PixelsArePixels
<1>2. IsFiniteSet(S \cup {p}) /\ Cardinality(S \cup {p}) = Cardinality(S) + 1 /\ Cardinality(S) \in Nat
  BY <1>1, FS_AddElement, FS_CardinalityType
<1>3. CASE a = NoArea
  <2>1. S = {} /\ a.left = Width /\ a.top = Height /\ a.right = 1 /\ a.bottom = 1 /\ a.count = 0
    BY <1>3 DEF Measured, NoArea
  <2>2. Cardinality(S) = 0
    BY <2>1, FS_EmptySet
  <2>3. b.left = p[1] /\ b.right = p[1] /\ b.top = p[2] /\ b.bottom = p[2] /\ b.count = 1
    BY <1>1, <2>1
  <2>4. b \in AreaRows
    BY <1>1, <2>1 DEF AreaRows
  <2> HIDE DEF b
  <2> QED BY <1>1, <1>2, <2>1, <2>2, <2>3, <2>4 DEF Bounds, b
<1>4. CASE a # NoArea
  <2>1. Bounds(a, S)
    BY <1>4 DEF Measured
  <2>2. a.left \in Int /\ a.right \in Int /\ a.top \in Int /\ a.bottom \in Int /\ a.count \in Nat
        /\ a.count = Cardinality(S)
    BY <2>1 DEF Bounds, AreaRows
  <2>3. b \in AreaRows
    BY <1>1, <2>2 DEF AreaRows
  <2>4. b.count = Cardinality(S \cup {p})
    BY <1>2, <2>2
  <2>5. b.left <= p[1] /\ p[1] <= b.right /\ b.top <= p[2] /\ p[2] <= b.bottom
        /\ b.left <= a.left /\ a.right <= b.right /\ b.top <= a.top /\ a.bottom <= b.bottom
        /\ b.left \in Int /\ b.right \in Int /\ b.top \in Int /\ b.bottom \in Int
        /\ b.left \in {p[1], a.left} /\ b.right \in {p[1], a.right}
        /\ b.top \in {p[2], a.top} /\ b.bottom \in {p[2], a.bottom}
    BY <1>1, <2>2
  <2> HIDE DEF b
  <2>6. \A q \in S : a.left <= q[1] /\ q[1] <= a.right /\ a.top <= q[2] /\ q[2] <= a.bottom
    BY <2>1 DEF Bounds
  <2>7. \A q \in S \cup {p} : b.left <= q[1] /\ q[1] <= b.right /\ b.top <= q[2] /\ q[2] <= b.bottom
    BY <1>1, <2>2, <2>5, <2>6
  <2>8. /\ \E q \in S \cup {p} : q[1] = b.left
        /\ \E q \in S \cup {p} : q[1] = b.right
        /\ \E q \in S \cup {p} : q[2] = b.top
        /\ \E q \in S \cup {p} : q[2] = b.bottom
    BY <2>1, <2>5 DEF Bounds
  <2> QED BY <1>2, <2>3, <2>4, <2>7, <2>8 DEF Bounds, b
<1> QED BY <1>3, <1>4

\* No pixel is visited at first.
LEMMA PictureStart == ExtractionInit => PictureInv
<1> SUFFICES ASSUME ExtractionInit PROVE PictureInv
  OBVIOUS
<1>1. /\ picture \in SUBSET Pixels /\ visited = {} /\ stack = <<>> /\ area = NoArea /\ areas = <<>>
      /\ ocr = [pc |-> "load", language |-> "own"]
  BY ExtractionAssumption DEF ExtractionInit, ExtractionAssumption, Pixels
<1>2. Scanned(<<>>, {}, {})
  BY <1>1 DEF Scanned, Completed, Growing, IsVisited, ListsOnce, Measured
<1> QED BY <1>1, <1>2 DEF PictureInv

\* The scan alone goes on when a picture is there.
LEMMA ReadTextStep == ASSUME PictureInv, ReadText PROVE PictureInv'
<1>1. PICK f, c, popped : Scanned(f, c, popped)
  BY DEF PictureInv
<1>2. /\ picture' = picture /\ visited' = visited /\ stack' = stack /\ area' = area /\ areas' = areas
  BY DEF ReadText
<1>3. Scanned(f, c, popped)'
  BY <1>1, <1>2 DEF Scanned, Completed, Growing, IsVisited, ListsOnce, Measured
<1>4. ocr'.pc # "done" /\ \E pc, language : ocr' = [pc |-> pc, language |-> language]
  <2>1. PICK pc, language : ocr = [pc |-> pc, language |-> language]
    BY DEF PictureInv
  <2>2. \/ ocr' = [pc |-> "scan", language |-> language]
        \/ ocr' = [pc |-> pc, language |-> "eng"]
        \/ ocr' = [pc |-> "failed", language |-> language]
    BY <2>1 DEF ReadText
  <2> QED BY <2>1, <2>2 DEF ReadText
<1> QED BY <1>2, <1>3, <1>4 DEF PictureInv

\* A component begins with a pixel of no other one; ...
LEMMA BeginAreaStep == ASSUME PictureInv, BeginArea PROVE PictureInv'
<1>1. PICK f, c, popped : Scanned(f, c, popped)
  BY DEF PictureInv
<1>2. /\ picture' = picture /\ ocr' = ocr /\ area' = area /\ areas' = areas
      /\ ocr.pc = "scan" /\ stack = <<>> /\ area = NoArea
  BY DEF BeginArea
<1>3. PICK p \in picture \ visited : stack' = <<p>> /\ visited' = visited \cup {p}
  BY DEF BeginArea
<1>4. c = {} /\ popped = {}
  <2>1. popped = {} /\ \A q \in c \ popped : q \in {stack[i] : i \in DOMAIN stack}
    BY <1>1, <1>2 DEF Scanned, Measured, ListsOnce
  <2> QED BY <1>2, <2>1
<1>5. Completed(picture, areas, f, {p})
  <2>1. \A i \in 1..Len(areas) : p \notin f[i]
    BY <1>1, <1>3 DEF Scanned, IsVisited
  <2> QED BY <1>1, <2>1 DEF Scanned, Completed
<1>6. Growing(picture, {p}, {})
  BY <1>3 DEF Growing, Grows
<1>7. IsVisited(visited', areas, f, {p})
  BY <1>1, <1>3, <1>4 DEF Scanned, IsVisited
<1>8. ListsOnce(stack', {p} \ {})
  BY <1>3 DEF ListsOnce
<1>9. Measured(area, {})
  BY <1>2 DEF Measured
<1>10. Scanned(f, {p}, {})'
  BY <1>2, <1>5, <1>6, <1>7, <1>8, <1>9 DEF Scanned
<1> QED BY <1>2, <1>10 DEF PictureInv

\* ... a pixel is popped, and those next to it join the component; ...
LEMMA PopPixelStep == ASSUME PictureInv, PopPixel PROVE PictureInv'
<1> DEFINE p == stack[Len(stack)]
           next == Pushed(p, 1) \o Pushed(p, 2) \o Pushed(p, 3) \o Pushed(p, 4)
           around == {q \in picture \ visited : \E k \in 1..4 : Around(p)[k] = q}
<1>1. PICK f, c, popped : Scanned(f, c, popped)
  BY DEF PictureInv
<1>2. picture' = picture /\ ocr' = ocr /\ areas' = areas /\ stack # <<>> /\ picture \in SUBSET Pixels
  BY DEF PopPixel, PictureInv
<1>3. /\ stack' = SubSeq(stack, 1, Len(stack) - 1) \o next
      /\ visited' = visited \cup {p} \cup {next[i] : i \in DOMAIN next}
      /\ area' = [left   |-> IF p[1] < area.left THEN p[1] ELSE area.left,
                  top    |-> IF p[2] < area.top THEN p[2] ELSE area.top,
                  right  |-> IF p[1] > area.right THEN p[1] ELSE area.right,
                  bottom |-> IF p[2] > area.bottom THEN p[2] ELSE area.bottom,
                  count  |-> area.count + 1]
  BY DEF PopPixel, Marks
<1>4. /\ c \in SUBSET picture /\ popped \in SUBSET c /\ ListsOnce(stack, c \ popped) /\ Measured(area, popped)
      /\ Completed(picture, areas, f, c) /\ Growing(picture, c, popped) /\ IsVisited(visited, areas, f, c)
  BY <1>1 DEF Scanned, Growing
<1>5. p \in c /\ p \notin popped /\ ListsOnce(SubSeq(stack, 1, Len(stack) - 1), (c \ popped) \ {p})
  <2>1. p \in c \ popped
    BY <1>2, <1>4, LastIsPopped
  <2>2. ListsOnce(SubSeq(stack, 1, Len(stack) - 1), (c \ popped) \ {p})
    BY <1>2, <1>4, LastIsPopped
  <2> QED BY <2>1, <2>2
<1>6. p \in picture /\ p \in Int \X Int /\ p \in visited
  <2>1. p \in picture /\ p \in visited
    BY <1>4, <1>5 DEF IsVisited
  <2> QED BY <1>2, <2>1, PixelsArePixels
<1> HIDE DEF p
<1>7. ListsOnce(next, around) /\ {next[i] : i \in DOMAIN next} = around
  BY <1>6, PushedOnce
<1> HIDE DEF next
<1>8. visited' = visited \cup around
  BY <1>3, <1>6, <1>7
<1>9. around \subseteq picture /\ around \cap visited = {} /\ around \cap c = {}
  BY <1>4 DEF IsVisited
<1>10. ListsOnce(stack', (c \cup around) \ (popped \cup {p}))
  <2>1. ((c \ popped) \ {p}) \cup around = (c \cup around) \ (popped \cup {p})
    BY <1>4, <1>5, <1>9
  <2>2. ((c \ popped) \ {p}) \cap around = {}
    BY <1>9
  <2> QED BY <1>3, <1>5, <1>7, <2>1, <2>2, ListsAreJoined
<1>11. Bounds(area', popped \cup {p})
  BY <1>2, <1>3, <1>4, <1>5, <1>6, BoundsGrow
<1>12. area' # NoArea
  <2>1. popped \cup {p} # {} /\ IsFiniteSet(popped \cup {p}) /\ area'.count = Cardinality(popped \cup {p})
    BY <1>11 DEF Bounds
  <2>2. area'.count # 0
    BY <2>1, FS_EmptySet
  <2>3. NoArea.count = 0
    BY DEF NoArea
  <2> QED BY <2>2, <2>3
<1>13. Completed(picture, areas, f, c \cup around)
  <2>1. \A i \in 1..Len(areas) : f[i] \cap around = {}
    BY <1>4, <1>9 DEF IsVisited
  <2> QED BY <1>4, <2>1 DEF Completed
<1>14. IsVisited(visited', areas, f, c \cup around)
  BY <1>4, <1>8 DEF IsVisited
<1>15. Growing(picture, c \cup around, popped \cup {p})
  <2>1. PICK o \in c : Grows(picture, o, c)
    BY <1>4, <1>5 DEF Growing
  <2>2. Grows(picture, o, c \cup around)
    <3> SUFFICES ASSUME NEW T \in SUBSET picture, o \in T, ClosedIn(picture, T), NEW q \in around PROVE q \in T
      BY <2>1 DEF Grows
    <3>1. p \in T
      BY <1>5, <2>1 DEF Grows
    <3>2. PICK k \in 1..4 : Around(p)[k] = q
      OBVIOUS
    <3>3. q \in picture /\ q \in Int \X Int
      BY <1>2, <1>9, PixelsArePixels
    <3>4. PICK j \in 1..4 : Around(q)[j] = p
      BY <1>6, <3>2, <3>3, NextToEachOther
    <3> QED BY <3>1, <3>3, <3>4 DEF ClosedIn
  <2>3. ASSUME NEW k \in 1..4, Around(p)[k] \in picture PROVE Around(p)[k] \in c \cup around
    <3> DEFINE q == Around(p)[k]
    <3>1. CASE q \notin visited
      BY <2>3, <3>1
    <3>2. CASE q \in visited /\ q \notin c
      <4>1. PICK i \in 1..Len(areas) : q \in f[i]
        BY <1>4, <3>2 DEF IsVisited
      <4>2. p \in f[i]
        BY <1>4, <1>6, <4>1 DEF Completed, IsPart, ClosedIn
      <4> QED BY <1>4, <1>5, <4>2 DEF Completed
    <3> QED BY <3>1, <3>2
  <2>4. \A q \in popped \cup {p}, k \in 1..4 : Around(q)[k] \in picture => Around(q)[k] \in c \cup around
    BY <1>4, <2>3 DEF Growing
  <2>5. (c \cup around) \in SUBSET picture /\ (popped \cup {p}) \in SUBSET (c \cup around)
    BY <1>4, <1>5, <1>9
  <2> HIDE DEF around
  <2> QED BY <2>1, <2>2, <2>4, <2>5 DEF Growing
<1>16. Measured(area', popped \cup {p})
  BY <1>11, <1>12 DEF Measured
<1> HIDE DEF around
<1>17. \E d, o : Scanned(f, d, o)'
  <2>1. PICK d, o : d = c \cup around /\ o = popped \cup {p}
    OBVIOUS
  <2>2. Scanned(f, d, o)'
    BY <1>2, <1>10, <1>13, <1>14, <1>15, <1>16, <2>1 DEF Scanned
  <2> QED BY <2>2
<1> QED BY <1>2, <1>17 DEF PictureInv

\* ... and when none is left the component is a part of the picture.
LEMMA EndAreaStep == ASSUME PictureInv, EndArea PROVE PictureInv'
<1> DEFINE n == Len(areas)
<1>1. PICK f, c, popped : Scanned(f, c, popped)
  BY DEF PictureInv
<1>2. /\ picture' = picture /\ ocr' = ocr /\ visited' = visited /\ stack' = stack
      /\ stack = <<>> /\ area # NoArea /\ area' = NoArea /\ areas' = Append(areas, area)
      /\ picture \in SUBSET Pixels
  BY DEF EndArea, PictureInv
<1>3. /\ c \in SUBSET picture /\ popped \in SUBSET c /\ ListsOnce(stack, c \ popped) /\ Bounds(area, popped)
      /\ Completed(picture, areas, f, c) /\ Growing(picture, c, popped) /\ IsVisited(visited, areas, f, c)
  BY <1>1, <1>2 DEF Scanned, Growing, Measured
<1>4. popped = c /\ c # {}
  <2>1. c \ popped = {}
    BY <1>2, <1>3 DEF ListsOnce
  <2> QED BY <1>3, <2>1 DEF Bounds
<1>5. IsPart(picture, c)
  <2>1. PICK o \in c : Grows(picture, o, c)
    BY <1>3, <1>4 DEF Growing
  <2>2. ASSUME NEW q \in picture, NEW k \in 1..4, Around(q)[k] \in c PROVE q \in c
    <3>1. q \in Int \X Int /\ Around(q)[k] \in Int \X Int
      BY <1>2, <1>3, <2>2, PixelsArePixels
    <3>2. PICK j \in 1..4 : Around(Around(q)[k])[j] = q
      BY <3>1, NextToEachOther
    <3> QED BY <1>3, <1>4, <2>2, <3>2 DEF Growing
  <2>3. ClosedIn(picture, c)
    BY <2>2 DEF ClosedIn
  <2> QED BY <1>3, <2>1, <2>3 DEF IsPart
<1>6. /\ n \in Nat /\ areas \in Seq(AreaRows) /\ area \in AreaRows
      /\ areas' \in Seq(AreaRows) /\ Len(areas') = n + 1
      /\ areas'[n + 1] = area /\ \A i \in 1..n : areas'[i] = areas[i] /\ i \in 1..(n + 1)
      /\ \A i \in 1..(n + 1) : i \in 1..n \/ i = n + 1
      /\ n + 1 \in 1..(n + 1) /\ n + 1 \notin 1..n
  <2>1. areas \in Seq(AreaRows) /\ area \in AreaRows
    BY <1>3 DEF Completed, Bounds
  <2> QED BY <1>2, <2>1
<1> HIDE DEF n
<1> DEFINE g == [i \in 1..(n + 1) |-> IF i = n + 1 THEN c ELSE f[i]]
<1>7. /\ g \in [1..(n + 1) -> SUBSET picture] /\ g[n + 1] = c /\ \A i \in 1..n : g[i] = f[i]
  <2>1. \A i \in 1..n : f[i] \in SUBSET picture
    BY <1>3 DEF Completed, n
  <2> QED BY <1>3, <1>6, <2>1
<1> HIDE DEF g
<1>8. Completed(picture, areas', g, {})
  <2>1. \A i \in 1..n : IsPart(picture, f[i]) /\ Bounds(areas[i], f[i]) /\ f[i] \cap c = {}
    BY <1>3 DEF Completed, n
  <2>2. \A i, j \in 1..n : f[i] = f[j] => i = j
    BY <1>3 DEF Completed, n
  <2>3. ASSUME NEW i \in 1..(n + 1)
        PROVE  IsPart(picture, g[i]) /\ Bounds(areas'[i], g[i])
    BY <1>3, <1>4, <1>5, <1>6, <1>7, <2>1
  <2>4. ASSUME NEW i \in 1..(n + 1), NEW j \in 1..(n + 1), g[i] = g[j] PROVE i = j
    BY <1>4, <1>6, <1>7, <2>1, <2>2, <2>4
  <2> QED BY <1>6, <1>7, <2>3, <2>4 DEF Completed
<1>9. IsVisited(visited', areas', g, {})
  <2> SUFFICES ASSUME NEW p PROVE p \in visited <=> \E i \in 1..(n + 1) : p \in g[i]
    BY <1>2, <1>6 DEF IsVisited
  <2>1. p \in visited <=> p \in c \/ \E i \in 1..n : p \in f[i]
    BY <1>3 DEF IsVisited, n
  <2> QED BY <1>6, <1>7, <2>1
<1>10. Growing(picture, {}, {}) /\ ListsOnce(stack', {} \ {}) /\ Measured(area', {})
  BY <1>2 DEF Growing, ListsOnce, Measured
<1>11. \E h : Scanned(h, {}, {})'
  <2>1. PICK h : h = g
    OBVIOUS
  <2>2. Scanned(h, {}, {})'
    BY <1>2, <1>8, <1>9, <1>10, <2>1 DEF Scanned
  <2> QED BY <2>2
<1>12. ocr.pc # "done"
  BY <1>2 DEF PictureInv
<1> QED BY <1>2, <1>11, <1>12 DEF PictureInv

\* The scan ends when all pixels have been visited.
LEMMA EndScanStep == ASSUME PictureInv, EndScan PROVE PictureInv'
<1>1. PICK f, c, popped : Scanned(f, c, popped)
  BY DEF PictureInv
<1>2. /\ picture' = picture /\ visited' = visited /\ stack' = stack /\ area' = area /\ areas' = areas
      /\ picture \subseteq visited /\ stack = <<>> /\ area = NoArea
  BY DEF EndScan
<1>3. Scanned(f, c, popped)'
  BY <1>1, <1>2 DEF Scanned, Completed, Growing, IsVisited, ListsOnce, Measured
<1>4. \E pc, language : ocr' = [pc |-> pc, language |-> language]
  <2>1. PICK pc, language : ocr = [pc |-> pc, language |-> language]
    BY DEF PictureInv
  <2>2. ocr' = [pc |-> "done", language |-> language]
    BY <2>1 DEF EndScan
  <2> QED BY <2>2
<1> QED BY <1>2, <1>3, <1>4 DEF PictureInv

\* So every step keeps the invariant of the picture.
LEMMA PictureStep == PictureInv /\ [ExtractionNext]_extractionVars => PictureInv'
<1> SUFFICES ASSUME PictureInv, [ExtractionNext]_extractionVars PROVE PictureInv'
  OBVIOUS
<1>1. CASE UNCHANGED pictureVars
  <2>1. PICK f, c, popped : Scanned(f, c, popped)
    BY DEF PictureInv
  <2>2. /\ picture' = picture /\ visited' = visited /\ stack' = stack /\ area' = area /\ areas' = areas
        /\ ocr' = ocr
    BY <1>1 DEF pictureVars
  <2>3. Scanned(f, c, popped)'
    BY <2>1, <2>2 DEF Scanned, Completed, Growing, IsVisited, ListsOnce, Measured
  <2> QED BY <2>2, <2>3 DEF PictureInv
<1>2. CASE PictureNext
  BY <1>2, ReadTextStep, BeginAreaStep, PopPixelStep, EndAreaStep, EndScanStep DEF PictureNext
<1>3. CASE VectorsNext
  <2>1. UNCHANGED pictureVars
    BY <1>3 DEF VectorsNext, Embed, LookUp, AskProvider, StoreVector, VectorLapses
  <2> QED BY <1>1, <2>1
<1> QED BY <1>1, <1>2, <1>3 DEF ExtractionNext, extractionVars

-----------------------------------------------------------------------------
(* The components, as they should be.                                      *)

\* What is added to some pixels.
LEMMA SpreadSpreads ==
    ASSUME NEW S \in SUBSET picture
    PROVE  /\ S \subseteq Spread(S) /\ Spread(S) \in SUBSET picture
           /\ ClosedIn(picture, S) <=> Spread(S) = S
           /\ \A T \in SUBSET picture : ClosedIn(picture, T) /\ S \subseteq T => Spread(S) \subseteq T
<1>1. \A q : q \in Spread(S) <=> q \in S \/ (q \in picture /\ \E k \in 1..4 : Around(q)[k] \in S)
  BY DEF Spread
<1>2. S \subseteq Spread(S) /\ Spread(S) \in SUBSET picture
  BY <1>1
<1>3. ClosedIn(picture, S) <=> Spread(S) = S
  BY <1>1 DEF ClosedIn
<1>4. \A T \in SUBSET picture : ClosedIn(picture, T) /\ S \subseteq T => Spread(S) \subseteq T
  BY <1>1 DEF ClosedIn
<1> QED BY <1>2, <1>3, <1>4

\* How the component of p grows from p: there is a function as its recursive definition describes.
LEMMA WholeGrows ==
    ASSUME NEW n \in Nat, n = Cardinality(picture), NEW p
    PROVE  \E s : /\ s[0] = {p} /\ \A k \in 1..n : s[k] = Spread(s[k - 1])
                  /\ Whole(p) = s[n]
<1> DEFINE GrowsSo(s, m) == s = [k \in 0..m |-> IF k = 0 THEN {p} ELSE Spread(s[k - 1])]
           Unmade == {m \in Nat : \A s : ~GrowsSo(s, m)}
<1>1. Unmade = {}
  <2> SUFFICES ASSUME Unmade # {} PROVE FALSE
    OBVIOUS
  <2>1. PICK m \in Unmade : \A k \in Unmade : m <= k
    <3>1. Unmade \subseteq Nat
      OBVIOUS
    <3> HIDE DEF Unmade
    <3> QED BY <3>1, LeastNumber
  <2>2. m \in Nat /\ \A s : ~GrowsSo(s, m)
    BY <2>1
  <2>3. CASE m = 0
    <3> DEFINE t == [k \in 0..m |-> {p}]
    <3>1. ASSUME NEW k \in 0..m PROVE t[k] = IF k = 0 THEN {p} ELSE Spread(t[k - 1])
      <4>1. k = 0 /\ t[k] = {p}
        BY <2>3
      <4> HIDE DEF t
      <4> QED BY <4>1
    <3>2. GrowsSo(t, m)
      <4> HIDE DEF t
      <4>1. t = [k \in 0..m |-> t[k]]
        BY DEF t
      <4> QED BY <3>1, <4>1
    <3> QED BY <2>2, <3>2
  <2>4. CASE m # 0
    <3>1. m - 1 \in Nat /\ m - 1 \notin Unmade
      <4> HIDE DEF Unmade, GrowsSo
      <4>1. m - 1 \in Nat /\ ~(m <= m - 1)
        BY <2>2, <2>4
      <4> QED BY <2>1, <4>1
    <3>2. PICK s : GrowsSo(s, m - 1)
      BY <3>1
    <3> DEFINE t == [k \in 0..m |-> IF k < m THEN s[k] ELSE Spread(s[m - 1])]
    <3>3. ASSUME NEW k \in 0..m
          PROVE  t[k] = IF k = 0 THEN {p} ELSE Spread(t[k - 1])
      <4>1. CASE k = 0
        BY <2>4, <3>2, <4>1
      <4>2. CASE k # 0 /\ k < m
        <5>1. k \in 0..(m - 1) /\ k - 1 \in 0..(m - 1) /\ k - 1 \in 0..m /\ k - 1 < m
          BY <4>2
        <5>2. s[k] = Spread(s[k - 1])
          BY <3>2, <4>2, <5>1
        <5>3. t[k] = s[k] /\ t[k - 1] = s[k - 1]
          BY <4>2, <5>1
        <5> QED BY <4>2, <5>2, <5>3
      <4>3. CASE k = m
        <5>1. m - 1 \in 0..m /\ m - 1 < m /\ ~(m < m)
          BY <2>2, <2>4
        <5> QED BY <2>4, <4>3, <5>1
      <4> QED BY <2>2, <4>1, <4>2, <4>3
    <3>4. GrowsSo(t, m)
      <4> HIDE DEF t
      <4>1. t = [k \in 0..m |-> t[k]]
        BY DEF t
      <4> QED BY <3>3, <4>1
    <3> QED BY <2>2, <3>4
  <2> QED BY <2>3, <2>4
<1>2. \E z : GrowsSo(z, n)
  <2> HIDE DEF GrowsSo
  <2>1. n \notin Unmade
    BY <1>1
  <2> QED BY <2>1
<1> DEFINE s == CHOOSE s : GrowsSo(s, n)
<1>3. GrowsSo(s, n)
  BY <1>2
<1>4. Whole(p) = s[n]
  BY DEF Whole
<1> HIDE DEF s
<1>5. \A k \in 0..n : s[k] = IF k = 0 THEN {p} ELSE Spread(s[k - 1])
  BY <1>3
<1>6. s[0] = {p} /\ \A k \in 1..n : s[k] = Spread(s[k - 1])
  <2>1. 0 \in 0..n /\ \A k \in 1..n : k \in 0..n /\ k # 0
    OBVIOUS
  <2> QED BY <1>5, <2>1
<1> QED BY <1>4, <1>6

\* It is a part of the picture: as long as it is not closed, it gains a pixel.
LEMMA WholeIsPart ==
    ASSUME picture \in SUBSET Pixels, NEW p \in picture
    PROVE  IsPart(picture, Whole(p)) /\ p \in Whole(p)
<1> DEFINE n == Cardinality(picture)
<1>1. n \in Nat /\ IsFiniteSet(picture)
  BY PixelsArePixels
<1>2. PICK s : s[0] = {p} /\ (\A k \in 1..n : s[k] = Spread(s[k - 1])) /\ Whole(p) = s[n]
  BY <1>1, WholeGrows
<1> DEFINE Good(k) == /\ s[k] \in SUBSET picture /\ p \in s[k] /\ Grows(picture, p, s[k])
                      /\ ClosedIn(picture, s[k]) \/ Cardinality(s[k]) >= k + 1
           Wrong == {k \in 0..n : ~Good(k)}
<1> HIDE DEF n
<1>3. Wrong = {}
  <2> SUFFICES ASSUME Wrong # {} PROVE FALSE
    OBVIOUS
  <2>1. PICK m \in Wrong : \A k \in Wrong : m <= k
    <3>1. Wrong \subseteq Nat
      BY <1>1
    <3> HIDE DEF Wrong
    <3> QED BY <3>1, LeastNumber
  <2>2. m \in 0..n /\ ~Good(m)
    BY <2>1
  <2>3. CASE m = 0
    <3>1. Cardinality({p}) = 1
      BY FS_Singleton
    <3>2. Grows(picture, p, {p})
      BY DEF Grows
    <3>3. s[m] = {p} /\ m + 1 = 1
      BY <1>2, <2>3
    <3>4. Cardinality(s[m]) >= m + 1
      BY <3>1, <3>3
    <3>5. s[m] \in SUBSET picture /\ p \in s[m] /\ Grows(picture, p, s[m])
      BY <3>2, <3>3
    <3> QED BY <2>2, <3>4, <3>5
  <2>4. CASE m # 0
    <3>1. m - 1 \in 0..n /\ m \in 1..n /\ m - 1 \notin Wrong /\ (m - 1) + 1 = m /\ m \in Nat
      <4> HIDE DEF Wrong
      <4>1. m - 1 \in 0..n /\ m \in 1..n /\ ~(m <= m - 1)
        BY <1>1, <2>2, <2>4
      <4> QED BY <2>1, <2>2, <4>1
    <3>2. Good(m - 1)
      BY <3>1
    <3> DEFINE S == s[m - 1]
    <3>3. s[m] = Spread(S)
      BY <1>2, <3>1
    <3>4. S \in SUBSET picture /\ p \in S /\ Grows(picture, p, S)
          /\ (ClosedIn(picture, S) \/ Cardinality(S) >= m)
      BY <3>1, <3>2
    <3> HIDE DEF S
    <3>5. S \subseteq s[m] /\ s[m] \in SUBSET picture /\ (ClosedIn(picture, S) <=> s[m] = S)
      BY <3>3, <3>4, SpreadSpreads
    <3>6. Grows(picture, p, s[m])
      BY <3>3, <3>4, SpreadSpreads DEF Grows
    <3>7. ClosedIn(picture, s[m]) \/ Cardinality(s[m]) >= m + 1
      <4>1. CASE s[m] = S
        BY <3>5, <4>1
      <4>2. CASE s[m] # S
        <5>1. Cardinality(S) >= m
          BY <3>4, <3>5, <4>2
        <5>2. IsFiniteSet(s[m]) /\ IsFiniteSet(S)
          BY <1>1, <3>4, <3>5, FS_Subset
        <5>3. Cardinality(S) < Cardinality(s[m]) /\ Cardinality(S) \in Nat /\ Cardinality(s[m]) \in Nat
          BY <3>5, <4>2, <5>2, FS_Subset, FS_CardinalityType
        <5> QED BY <3>1, <5>1, <5>3
      <4> QED BY <4>1, <4>2
    <3>8. Good(m)
      BY <3>4, <3>5, <3>6, <3>7
    <3> QED BY <2>2, <3>8
  <2> QED BY <2>3, <2>4
<1>4. Good(n)
  <2>1. n \in 0..n
    BY <1>1
  <2> QED BY <1>3, <2>1
<1>5. ClosedIn(picture, s[n])
  <2>1. Cardinality(s[n]) <= n /\ Cardinality(s[n]) \in Nat
    <3>1. s[n] \subseteq picture
      BY <1>4
    <3> QED BY <1>1, <3>1, FS_Subset, FS_CardinalityType DEF n
  <2>2. ~(Cardinality(s[n]) >= n + 1)
    BY <1>1, <2>1
  <2> QED BY <1>4, <2>2
<1>6. s[n] \in SUBSET picture /\ p \in s[n] /\ Grows(picture, p, s[n])
  BY <1>4
<1> HIDE DEF Good
<1> QED BY <1>2, <1>5, <1>6 DEF IsPart

\* The bounds that were measured are those of the pixels.
LEMMA BoundsAreThose ==
    ASSUME NEW pic \in SUBSET Pixels, NEW S \in SUBSET pic, NEW a, Bounds(a, S)
    PROVE  a = BoundsOf(S)
<1>1. \A X : \A v \in X : X \subseteq Int /\ (\A w \in X : v <= w) => Least(X) = v
  <2> SUFFICES ASSUME NEW X, NEW v \in X, X \subseteq Int, \A w \in X : v <= w PROVE Least(X) = v
    OBVIOUS
  <2>1. Least(X) \in X /\ \A w \in X : Least(X) <= w
    BY DEF Least
  <2>2. Least(X) <= v /\ v <= Least(X)
    BY <2>1
  <2>3. Least(X) \in Int /\ v \in Int
    BY <2>1
  <2> QED BY <2>2, <2>3
<1>2. \A X : \A v \in X : X \subseteq Int /\ (\A w \in X : v >= w) => Most(X) = v
  <2> SUFFICES ASSUME NEW X, NEW v \in X, X \subseteq Int, \A w \in X : v >= w PROVE Most(X) = v
    OBVIOUS
  <2>1. Most(X) \in X /\ \A w \in X : Most(X) >= w
    BY DEF Most
  <2>3. Most(X) \in Int /\ v \in Int
    BY <2>1
  <2>2. Most(X) <= v /\ v <= Most(X)
    BY <2>1, <2>3
  <2> QED BY <2>2, <2>3
<1>3. \A q \in S : q[1] \in Int /\ q[2] \in Int
  BY PixelsArePixels
<1> DEFINE X == {q[1] : q \in S}
           Y == {q[2] : q \in S}
<1>4. X \subseteq Int /\ Y \subseteq Int
  BY <1>3
<1>5. a.left \in X /\ a.right \in X /\ a.top \in Y /\ a.bottom \in Y
  BY DEF Bounds
<1>6. /\ \A w \in X : a.left <= w /\ a.right >= w
      /\ \A w \in Y : a.top <= w /\ a.bottom >= w
  BY <1>3, <1>5, <1>4 DEF Bounds
<1>7. BoundsOf(S) = [left |-> Least(X), top |-> Least(Y), right |-> Most(X), bottom |-> Most(Y),
                     count |-> Cardinality(S)]
  BY DEF BoundsOf
<1> HIDE DEF X, Y
<1>8. Least(X) = a.left /\ Most(X) = a.right /\ Least(Y) = a.top /\ Most(Y) = a.bottom
  BY <1>1, <1>2, <1>4, <1>5, <1>6
<1>9. a = [left |-> a.left, top |-> a.top, right |-> a.right, bottom |-> a.bottom, count |-> a.count]
  BY DEF Bounds, AreaRows
<1>10. a.count = Cardinality(S)
  BY DEF Bounds
<1> QED BY <1>7, <1>8, <1>9, <1>10

\* The components are the parts of the picture: each is one, and each is found once.
LEMMA PictureConclusion == PictureInv => AreasAreWhole
<1> DEFINE n == Len(areas)
           components == {Whole(p) : p \in picture}
<1> SUFFICES ASSUME PictureInv, ocr.pc = "done"
             PROVE  /\ n = Cardinality(components)
                    /\ {areas[i] : i \in DOMAIN areas} = {BoundsOf(S) : S \in components}
                    /\ \A e \in Relationships : \E S, T \in components :
                          S # T /\ BoundsOf(S) = areas[e[1]] /\ BoundsOf(T) = areas[e[2]]
  BY DEF AreasAreWhole
<1>1. PICK f, c, popped : Scanned(f, c, popped)
  BY DEF PictureInv
<1>2. picture \in SUBSET Pixels /\ picture \subseteq visited /\ stack = <<>> /\ area = NoArea
  BY DEF PictureInv
<1>3. c = {}
  <2>1. popped = {}
    BY <1>1, <1>2 DEF Scanned, Measured
  <2>2. c \ popped = {}
    BY <1>1, <1>2 DEF Scanned, ListsOnce
  <2> QED BY <2>1, <2>2
<1>4. /\ n \in Nat /\ DOMAIN areas = 1..n
      /\ \A i \in 1..n : IsPart(picture, f[i]) /\ Bounds(areas[i], f[i])
      /\ \A i, j \in 1..n : f[i] = f[j] => i = j
      /\ \A p \in picture : \E i \in 1..n : p \in f[i]
  <2>1. n \in Nat /\ DOMAIN areas = 1..n
    BY <1>1 DEF Scanned, Completed
  <2>2. /\ \A i \in 1..n : IsPart(picture, f[i]) /\ Bounds(areas[i], f[i])
        /\ \A i, j \in 1..n : f[i] = f[j] => i = j
    BY <1>1 DEF Scanned, Completed
  <2>3. \A p \in picture : \E i \in 1..n : p \in f[i]
    BY <1>1, <1>2, <1>3 DEF Scanned, IsVisited
  <2> QED BY <2>1, <2>2, <2>3
<1> HIDE DEF n
<1>5. ASSUME NEW i \in 1..n PROVE f[i] \in components
  <2>1. PICK p \in f[i] : p \in picture
    BY <1>4 DEF IsPart
  <2>2. f[i] = Whole(p)
    BY <1>2, <1>4, <2>1, WholeIsPart, PartsAreApart
  <2> QED BY <2>1, <2>2
<1>6. ASSUME NEW p \in picture PROVE \E i \in 1..n : Whole(p) = f[i]
  <2>1. PICK i \in 1..n : p \in f[i]
    BY <1>4
  <2>2. f[i] = Whole(p)
    BY <1>2, <1>4, <2>1, WholeIsPart, PartsAreApart
  <2> QED BY <2>2
<1>7. \A i \in 1..n : areas[i] = BoundsOf(f[i])
  BY <1>2, <1>4, BoundsAreThose DEF IsPart
<1>8. n = Cardinality(components)
  <2> DEFINE g == [i \in 1..n |-> f[i]]
  <2>1. g \in [1..n -> components]
    BY <1>5
  <2>2. \A i, j \in 1..n : g[i] = g[j] => i = j
    BY <1>4
  <2>3. \A S \in components : \E i \in 1..n : g[i] = S
    BY <1>6
  <2> HIDE DEF g, components
  <2>4. g \in Bijection(1..n, components)
    BY <2>1, <2>2, <2>3 DEF Bijection, Injection, Surjection, IsInjective
  <2>5. IsFiniteSet(1..n) /\ Cardinality(1..n) = n
    BY <1>4, FS_Interval
  <2>6. Cardinality(components) = Cardinality(1..n)
    BY <2>4, <2>5, FS_Bijection DEF ExistsBijection
  <2> QED BY <2>5, <2>6
<1>9. {areas[i] : i \in DOMAIN areas} = {BoundsOf(S) : S \in components}
  <2>1. ASSUME NEW S \in components PROVE \E i \in 1..n : BoundsOf(S) = areas[i]
    BY <1>6, <1>7
  <2>2. ASSUME NEW i \in 1..n PROVE \E S \in components : BoundsOf(S) = areas[i]
    BY <1>5, <1>7
  <2> HIDE DEF components
  <2> QED BY <1>4, <2>1, <2>2
<1>10. ASSUME NEW e \in Relationships
       PROVE  \E S, T \in components : S # T /\ BoundsOf(S) = areas[e[1]] /\ BoundsOf(T) = areas[e[2]]
  <2>1. e[1] \in DOMAIN areas /\ e[2] \in DOMAIN areas /\ e[1] # e[2]
    BY DEF Relationships, DiagramBoxes, Thinned
  <2>2. e[1] \in 1..n /\ e[2] \in 1..n
    BY <1>4, <2>1
  <2> HIDE DEF components
  <2> QED BY <1>4, <1>5, <1>7, <2>1, <2>2
<1> HIDE DEF components
<1> QED BY <1>8, <1>9, <1>10

\* For any pictures, texts, callers and lapses: what is stored of a source is what it holds.
THEOREM SourcesAreExact == ExtractionSpec => []ExtractionIsExact
<1>1. ExtractionInit => PictureInv /\ VectorsInv
  BY PictureStart, VectorsStart
<1>2. (PictureInv /\ VectorsInv) /\ [ExtractionNext]_extractionVars => (PictureInv /\ VectorsInv)'
  BY PictureStep, VectorsStep
<1>3. PictureInv /\ VectorsInv => ExtractionIsExact
  BY PictureConclusion, VectorsConclusion DEF ExtractionIsExact
<1> QED BY <1>1, <1>2, <1>3, PTL DEF ExtractionSpec

-----------------------------------------------------------------------------
(* What the chunks of a text cover.                                          *)

(* Chunks.  The inductive invariant: the chunks are in order, the one that *)
(* is collected comes after them and ends where the text has been looked   *)
(* at, and every letter up to there is in one of them.                     *)

\* The numbers of the text, and a letter of it.
LetterAt(i) == i \in 1..Len(text) /\ Letter(i)

\* A chunk begins with a letter and keeps within the limit.
ChunkInShape(c) == LetterAt(c.from) /\ c.from < c.to /\ c.to - c.from <= limit /\ c.to <= TextEnd

\* Up to where the text is in chunks: where the one that is collected begins, if there is one.
Reached == IF span = None THEN place ELSE span.from

\* The chunks follow each other, and stay behind that point.
ChunksInOrder ==
    /\ \A i \in DOMAIN chunks : ChunkInShape(chunks[i]) /\ chunks[i].to <= Reached
    /\ \A i \in 2..Len(chunks) : chunks[i - 1].to <= chunks[i].from

\* What is collected ends where the text has been looked at, outside of a long paragraph.
Collected == span # None => ChunkInShape(span) /\ span.to = place /\ long = 0

\* What is left of a long paragraph lies ahead.
LongIsAhead == long # 0 => place <= long

\* A letter is in the collected chunk or in one of the finished ones; all letters passed are.
Passed(k) == \/ span.from <= k /\ k < span.to
             \/ \E i \in DOMAIN chunks : chunks[i].from <= k /\ k < chunks[i].to
AllPassed == \A k \in 1..(place - 1) : Letter(k) => Passed(k)

\* The inductive invariant.
ChunkerInv == ChunkerTypeOK /\ ChunksInOrder /\ Collected /\ LongIsAhead /\ AllPassed

\* The first and the last of some positions.
LEMMA FirstIsFirst ==
    ASSUME NEW S, S \subseteq Nat, S # {}
    PROVE  First(S) \in S /\ \A j \in S : First(S) <= j
<1>1. \E i \in S : \A j \in S : i <= j
  BY LeastNumber
<1> QED BY <1>1 DEF First

\* The latest of some positions is the latest.
LEMMA LatestIsLatest ==
    ASSUME NEW n \in Nat, NEW S, S \subseteq 1..n, S # {}
    PROVE  Latest(S) \in S /\ \A j \in S : Latest(S) >= j
<1> DEFINE T == {n - i : i \in S}
<1>1. \E x \in T : \A y \in T : x <= y
  <2>1. T \subseteq Nat /\ T # {}
    <3>1. \A i \in S : i \in 1..n /\ n - i \in Nat
      OBVIOUS
    <3> QED BY <3>1
  <2> HIDE DEF T
  <2> QED BY <2>1, LeastNumber
<1>2. \E i \in S : \A j \in S : i >= j
  <2>1. PICK x \in T : \A y \in T : x <= y
    BY <1>1
  <2>2. PICK i \in S : x = n - i
    BY <2>1
  <2>3. ASSUME NEW j \in S PROVE i >= j
    <3>1. n - i <= n - j
      BY <2>1, <2>2
    <3> QED BY <3>1
  <2> QED BY <2>3
<1> QED BY <1>2 DEF Latest

\* What the types say of positions.
LEMMA TextIsText == ASSUME ChunkerTypeOK
                    PROVE  Len(text) \in Nat /\ DOMAIN text = 1..Len(text) /\ TextEnd \in Nat
                           /\ Len(chunks) \in Nat /\ DOMAIN chunks = 1..Len(chunks)
BY DEF ChunkerTypeOK, TextEnd

\* What they say of spans.
LEMMA SpansAreSpans ==
    ASSUME ChunkerTypeOK
    PROVE  /\ span.from \in Nat /\ span.to \in Nat
           /\ \A i \in DOMAIN chunks : chunks[i] \in Spans /\ chunks[i].from \in Nat /\ chunks[i].to \in Nat
<1>1. \A c \in Spans : c.from \in Nat /\ c.to \in Nat
  BY DEF Spans
<1>2. \A i \in DOMAIN chunks : chunks[i] \in Spans
  BY TextIsText DEF ChunkerTypeOK
<1> QED BY <1>1, <1>2 DEF ChunkerTypeOK

\* The next paragraph holds all letters between where it is looked for and where it ends.
LEMMA ParagraphsAreParagraphs ==
    ASSUME ChunkerTypeOK, LettersFrom(place) # {}
    PROVE  LET p == ParagraphAt(place) IN
           /\ p \in Spans /\ LetterAt(p.from) /\ place <= p.from /\ p.from < p.to /\ p.to <= TextEnd
           /\ \A k \in place..(p.from - 1) : ~Letter(k)
<1> DEFINE p == ParagraphAt(place)
           first == First(LettersFrom(place))
           whole == {i \in LettersFrom(first) : ~BlankLineIn(first, i)}
<1>1. Len(text) \in Nat /\ place \in Nat \ {0} /\ TextEnd = Len(text) + 1
  BY TextIsText DEF ChunkerTypeOK, TextEnd
<1>2. LettersFrom(place) \subseteq Nat
  BY <1>1 DEF LettersFrom
<1>3. first \in LettersFrom(place) /\ \A j \in LettersFrom(place) : first <= j
  BY <1>2, FirstIsFirst
<1>4. first \in place..Len(text) /\ Letter(first)
  BY <1>3 DEF LettersFrom
<1>5. first \in whole
  BY <1>1, <1>4 DEF LettersFrom, BlankLineIn
<1>6. whole \subseteq 1..Len(text)
  <2>1. first \in Nat /\ first >= 1
    BY <1>1, <1>4
  <2>2. \A i \in whole : i \in first..Len(text)
    <3> HIDE DEF first
    <3> QED BY DEF LettersFrom
  <2> HIDE DEF first, whole
  <2> QED BY <1>1, <2>1, <2>2
<1>7. Latest(whole) \in whole /\ Latest(whole) >= first
  <2> HIDE DEF whole
  <2> QED BY <1>1, <1>5, <1>6, LatestIsLatest
<1>8. p.from = first /\ p.to = Latest(whole) + 1 /\ p = [from |-> first, to |-> Latest(whole) + 1]
  <2>1. p = [from |-> first, to |-> Latest(whole) + 1]
    BY Zenon DEF ParagraphAt
  <2> HIDE DEF p, first, whole
  <2> QED BY <2>1
<1>9. \A k \in place..(first - 1) : ~Letter(k)
  BY <1>1, <1>3, <1>4 DEF LettersFrom
<1> HIDE DEF p, first, whole
<1>13. /\ first \in Nat /\ 1 <= place /\ place <= first /\ first <= Len(text)
       /\ Latest(whole) \in Nat /\ Latest(whole) <= Len(text)
  <2>1. Latest(whole) \in 1..Len(text)
    BY <1>6, <1>7
  <2>2. first \in place..Len(text)
    BY <1>4
  <2> QED BY <1>1, <2>1, <2>2
<1>10. p \in Spans
  BY <1>8, <1>13 DEF Spans
<1>11. LetterAt(p.from) /\ place <= p.from /\ p.from < p.to /\ p.to <= TextEnd
  BY <1>1, <1>4, <1>7, <1>8, <1>13 DEF LetterAt
<1>12. \A k \in place..(p.from - 1) : ~Letter(k)
  BY <1>8, <1>9
<1> QED BY <1>10, <1>11, <1>12 DEF p

\* A long paragraph is cut from a letter on, within the limit, and past all letters up to there.
LEMMA PiecesArePieces ==
    ASSUME ChunkerTypeOK, long # 0, place <= long
    PROVE  LET from == Start(place) IN
           /\ from \in place..long
           /\ \A k \in place..(from - 1) : ~Letter(k)
           /\ from < long => /\ LetterAt(from) /\ PieceEnd(from) \in (from + 1)..TextEnd
                             /\ PieceEnd(from) <= long /\ PieceEnd(from) - from <= limit
<1> DEFINE from == Start(place)
           starts == {i \in place..long : i = long \/ Letter(i)}
           near == IF from + limit < long THEN from + limit ELSE long
           gaps == {i \in (from + 1)..near : text[i] \in {" ", "n"}}
           letters == {i \in from..(Split(from) - 1) : Letter(i)}
<1>1. /\ Len(text) \in Nat /\ place \in Nat \ {0} /\ TextEnd = Len(text) + 1
      /\ long \in Nat /\ long <= Len(text) + 1 /\ limit \in Nat \ {0}
  BY TextIsText DEF ChunkerTypeOK, TextEnd
<1>2. starts \subseteq Nat /\ long \in starts
  BY <1>1
<1>3. from \in starts /\ \A j \in starts : from <= j
  <2>1. from = First(starts)
    BY DEF Start
  <2> HIDE DEF starts, from
  <2> QED BY <1>2, <2>1, FirstIsFirst
<1>4. from \in place..long /\ from \in Nat \ {0}
  BY <1>1, <1>3
<1>5. \A k \in place..(from - 1) : ~Letter(k)
  <2> HIDE DEF from
  <2> QED BY <1>1, <1>3, <1>4
<1>6. ASSUME from < long
      PROVE  /\ LetterAt(from) /\ PieceEnd(from) \in (from + 1)..TextEnd
             /\ PieceEnd(from) <= long /\ PieceEnd(from) - from <= limit
  <2> HIDE DEF from
  <2>1. LetterAt(from)
    BY <1>1, <1>3, <1>4, <1>6 DEF LetterAt
  <2>2. near \in (from + 1)..long /\ near <= from + limit
    BY <1>1, <1>4, <1>6
  <2>3. Split(from) \in (from + 1)..near
    <3>1. Split(from) = IF near < long /\ gaps # {} THEN Latest(gaps) ELSE near
      BY DEF Split
    <3>2. CASE near < long /\ gaps # {}
      <4>1. gaps \subseteq 1..near /\ near \in Nat /\ gaps \subseteq (from + 1)..near
        <5>1. near \in Nat
          BY <1>1, <1>4
        <5>2. \A i \in gaps : i \in (from + 1)..near
          OBVIOUS
        <5> HIDE DEF gaps, near
        <5> QED BY <1>4, <5>1, <5>2
      <4> HIDE DEF gaps, near
      <4>2. Latest(gaps) \in gaps
        BY <3>2, <4>1, LatestIsLatest
      <4> QED BY <3>1, <3>2, <4>1, <4>2
    <3>3. CASE ~(near < long /\ gaps # {})
      <4> HIDE DEF gaps, near
      <4> QED BY <1>1, <1>4, <2>2, <3>1, <3>3
    <3> QED BY <3>2, <3>3
  <2> HIDE DEF near
  <2>4. from \in letters
    BY <1>1, <1>4, <2>1, <2>2, <2>3 DEF LetterAt
  <2>5. letters \subseteq 1..long /\ letters \subseteq from..(Split(from) - 1)
    BY <1>1, <1>4, <2>2, <2>3
  <2>6. PieceEnd(from) = Latest(letters) + 1
    BY DEF PieceEnd
  <2> HIDE DEF letters
  <2>7. Latest(letters) \in letters
    BY <1>1, <2>4, <2>5, LatestIsLatest
  <2>8. Latest(letters) \in from..(Split(from) - 1) /\ Latest(letters) \in 1..long
    BY <2>5, <2>7
  <2>9. PieceEnd(from) \in (from + 1)..Split(from)
    BY <1>4, <2>2, <2>3, <2>6, <2>8
  <2> QED BY <1>1, <1>4, <2>1, <2>2, <2>3, <2>9
<1> QED BY <1>4, <1>5, <1>6

\* Nothing is collected at first.
LEMMA ChunkerStart == ChunkerInit => ChunkerInv
<1> SUFFICES ASSUME ChunkerInit PROVE ChunkerInv
  OBVIOUS
<1>1. text \in Seq(Chars) /\ limit \in Nat \ {0} /\ place = 1 /\ span = None /\ long = 0 /\ chunks = <<>>
  BY ChunkerAssumption DEF ChunkerAssumption, ChunkerInit
<1>2. ChunkerTypeOK
  BY <1>1 DEF ChunkerTypeOK, Spans, None
<1>3. ChunksInOrder /\ Collected /\ LongIsAhead /\ AllPassed
  BY <1>1 DEF ChunksInOrder, Collected, LongIsAhead, AllPassed
<1> QED BY <1>2, <1>3 DEF ChunkerInv

\* What is flushed is in order, and holds what was passed.
LEMMA FlushedIsInOrder ==
    ASSUME ChunkerInv
    PROVE  /\ Flushed \in Seq(Spans)
           /\ \A i \in DOMAIN Flushed : ChunkInShape(Flushed[i]) /\ Flushed[i].to <= place
           /\ \A i \in 2..Len(Flushed) : Flushed[i - 1].to <= Flushed[i].from
           /\ \A k \in 1..(place - 1) : Letter(k) =>
                 \E i \in DOMAIN Flushed : Flushed[i].from <= k /\ k < Flushed[i].to
<1>1. /\ chunks \in Seq(Spans) /\ span \in Spans /\ place \in Nat /\ limit \in Nat
      /\ Len(chunks) \in Nat /\ DOMAIN chunks = 1..Len(chunks)
      /\ \A i \in DOMAIN chunks : chunks[i] \in Spans /\ chunks[i].from \in Nat /\ chunks[i].to \in Nat
  <2>1. chunks \in Seq(Spans) /\ span \in Spans /\ place \in Nat /\ limit \in Nat
    <3>1. place \in 1..(Len(text) + 1) /\ Len(text) \in Nat
      BY TextIsText DEF ChunkerInv, ChunkerTypeOK
    <3>2. place \in Nat
      BY <3>1
    <3> QED BY <3>2 DEF ChunkerInv, ChunkerTypeOK
  <2>2. \A c \in Spans : c.from \in Nat /\ c.to \in Nat
    BY DEF Spans
  <2> QED BY <2>1, <2>2
<1>2. CASE span = None
  <2>1. Flushed = chunks /\ Reached = place /\ span.from = 0 /\ span.to = 0
    BY <1>2 DEF Flushed, Reached, None
  <2> QED BY <1>1, <2>1 DEF ChunkerInv, ChunksInOrder, AllPassed, Passed
<1>3. CASE span # None
  <2>1. Flushed = Append(chunks, span) /\ Reached = span.from
    BY <1>3 DEF Flushed, Reached
  <2>2. /\ Flushed \in Seq(Spans) /\ Len(Flushed) = Len(chunks) + 1 /\ DOMAIN Flushed = 1..(Len(chunks) + 1)
        /\ \A i \in DOMAIN chunks : Flushed[i] = chunks[i]
        /\ Flushed[Len(chunks) + 1] = span
    BY <1>1, <2>1
  <2>3. ChunkInShape(span) /\ span.to = place /\ span.from < span.to /\ span.from \in Nat
    BY <1>1, <1>3 DEF ChunkerInv, Collected, ChunkInShape, Spans
  <2>4. ASSUME NEW i \in DOMAIN Flushed PROVE ChunkInShape(Flushed[i]) /\ Flushed[i].to <= place
    <3>1. CASE i \in DOMAIN chunks
      <4>1. ChunkInShape(chunks[i]) /\ chunks[i].to <= span.from
        BY <2>1, <3>1 DEF ChunkerInv, ChunksInOrder
      <4> QED BY <1>1, <2>2, <2>3, <3>1, <4>1
    <3>2. CASE i = Len(chunks) + 1
      BY <1>1, <2>2, <2>3, <3>2
    <3> QED BY <1>1, <2>2, <3>1, <3>2
  <2>5. ASSUME NEW i \in 2..Len(Flushed) PROVE Flushed[i - 1].to <= Flushed[i].from
    <3>1. CASE i <= Len(chunks)
      <4>1. i - 1 \in DOMAIN chunks /\ i \in DOMAIN chunks /\ i \in 2..Len(chunks)
        BY <1>1, <3>1
      <4> QED BY <2>2, <4>1 DEF ChunkerInv, ChunksInOrder
    <3>2. CASE i = Len(chunks) + 1
      <4>1. i - 1 \in DOMAIN chunks
        BY <1>1, <3>2
      <4> QED BY <2>1, <2>2, <3>2, <4>1 DEF ChunkerInv, ChunksInOrder
    <3> QED BY <1>1, <2>2, <3>1, <3>2
  <2>6. ASSUME NEW k \in 1..(place - 1), Letter(k)
        PROVE  \E i \in DOMAIN Flushed : Flushed[i].from <= k /\ k < Flushed[i].to
    <3>1. CASE span.from <= k /\ k < span.to
      <4>1. Len(chunks) + 1 \in DOMAIN Flushed
        BY <1>1, <2>2
      <4> QED BY <2>2, <3>1, <4>1
    <3>2. CASE \E i \in DOMAIN chunks : chunks[i].from <= k /\ k < chunks[i].to
      <4>1. \A i \in DOMAIN chunks : i \in DOMAIN Flushed
        BY <1>1, <2>2
      <4> QED BY <2>2, <3>2, <4>1
    <3> QED BY <2>6, <3>1, <3>2 DEF ChunkerInv, AllPassed, Passed
  <2> QED BY <2>2, <2>4, <2>5, <2>6
<1> QED BY <1>2, <1>3

\* A chunk that is added after the others keeps the order.
LEMMA AddedInOrder ==
    ASSUME ChunkerInv, span = None, NEW c \in Spans, ChunkInShape(c), place <= c.from
    PROVE  LET cs == Append(chunks, c) IN
           /\ cs \in Seq(Spans)
           /\ \A i \in DOMAIN cs : ChunkInShape(cs[i]) /\ cs[i].to <= c.to
           /\ \A i \in 2..Len(cs) : cs[i - 1].to <= cs[i].from
           /\ \A k \in c.from..(c.to - 1) : \E i \in DOMAIN cs : cs[i].from <= k /\ k < cs[i].to
           /\ \A k \in 1..(place - 1) : Letter(k) =>
                 \E i \in DOMAIN cs : cs[i].from <= k /\ k < cs[i].to
<1> DEFINE cs == Append(chunks, c)
<1>1. /\ Len(text) \in Nat /\ place \in Nat \ {0}
      /\ Len(chunks) \in Nat /\ DOMAIN chunks = 1..Len(chunks) /\ chunks \in Seq(Spans)
      /\ c.from \in Nat /\ c.to \in Nat /\ c.from < c.to
      /\ \A i \in DOMAIN chunks : chunks[i] \in Spans
      /\ \A x \in Spans : x.from \in Nat /\ x.to \in Nat
  <2>1. /\ Len(text) \in Nat /\ place \in Nat \ {0}
        /\ Len(chunks) \in Nat /\ DOMAIN chunks = 1..Len(chunks) /\ chunks \in Seq(Spans)
    BY TextIsText DEF ChunkerInv, ChunkerTypeOK
  <2>2. \A x \in Spans : x.from \in Nat /\ x.to \in Nat
    BY DEF Spans
  <2> QED BY <2>1, <2>2, SpansAreSpans DEF ChunkerInv, ChunkInShape
<1>2. \A i \in DOMAIN chunks : chunks[i].from \in Nat /\ chunks[i].to \in Nat
  BY <1>1
<1>3. /\ cs \in Seq(Spans) /\ Len(cs) = Len(chunks) + 1 /\ DOMAIN cs = 1..(Len(chunks) + 1)
      /\ \A i \in DOMAIN chunks : i \in DOMAIN cs /\ cs[i] = chunks[i]
      /\ cs[Len(chunks) + 1] = c /\ Len(chunks) + 1 \in DOMAIN cs
  BY <1>1
<1>4. Reached = place /\ span.from = 0 /\ span.to = 0
  BY DEF Reached, None
<1>5. \A i \in DOMAIN chunks : ChunkInShape(chunks[i]) /\ chunks[i].to <= place
  BY <1>4 DEF ChunkerInv, ChunksInOrder
<1> HIDE DEF cs
<1>6. ASSUME NEW i \in DOMAIN cs PROVE ChunkInShape(cs[i]) /\ cs[i].to <= c.to
  <2>1. CASE i \in DOMAIN chunks
    <3>1. ChunkInShape(cs[i]) /\ cs[i].to <= place /\ cs[i].to \in Nat
      BY <1>2, <1>3, <1>5, <2>1
    <3> QED BY <1>1, <3>1
  <2>2. CASE i = Len(chunks) + 1
    BY <1>1, <1>3, <2>2
  <2> QED BY <1>1, <1>3, <2>1, <2>2
<1>7. ASSUME NEW i \in 2..Len(cs) PROVE cs[i - 1].to <= cs[i].from
  <2>1. CASE i <= Len(chunks)
    <3>1. i \in 2..Len(chunks) /\ i \in DOMAIN chunks /\ i - 1 \in DOMAIN chunks
      BY <1>1, <2>1
    <3> QED BY <1>3, <3>1 DEF ChunkerInv, ChunksInOrder
  <2>2. CASE i = Len(chunks) + 1
    <3>1. i - 1 \in DOMAIN chunks
      BY <1>1, <2>2
    <3>2. cs[i - 1].to <= place /\ cs[i - 1].to \in Nat /\ cs[i] = c
      BY <1>2, <1>3, <1>5, <2>2, <3>1
    <3> QED BY <1>1, <3>2
  <2> QED BY <1>1, <1>3, <2>1, <2>2
<1>8. ASSUME NEW k \in c.from..(c.to - 1) PROVE \E i \in DOMAIN cs : cs[i].from <= k /\ k < cs[i].to
  BY <1>1, <1>3
<1>9. ASSUME NEW k \in 1..(place - 1), Letter(k)
      PROVE  \E i \in DOMAIN cs : cs[i].from <= k /\ k < cs[i].to
  <2>1. PICK i \in DOMAIN chunks : chunks[i].from <= k /\ k < chunks[i].to
    BY <1>1, <1>4, <1>9 DEF ChunkerInv, AllPassed, Passed
  <2> QED BY <1>3, <2>1
<1> QED BY <1>3, <1>6, <1>7, <1>8, <1>9 DEF cs

\* A paragraph begins a chunk.
LEMMA BeginStep == ASSUME ChunkerInv, Begin PROVE ChunkerInv'
<1> DEFINE p == ParagraphAt(place)
<1>1. /\ p.to - p.from <= limit /\ span' = p /\ place' = p.to /\ chunks' = Flushed
      /\ text' = text /\ limit' = limit /\ long' = long /\ long = 0 /\ LettersFrom(place) # {}
  BY DEF Begin
<1>2. /\ p \in Spans /\ LetterAt(p.from) /\ place <= p.from /\ p.from < p.to /\ p.to <= TextEnd
      /\ \A k \in place..(p.from - 1) : ~Letter(k)
  BY <1>1, ParagraphsAreParagraphs DEF ChunkerInv
<1> HIDE DEF p
<1>3. /\ Len(text) \in Nat /\ place \in Nat \ {0} /\ TextEnd = Len(text) + 1
      /\ p.from \in Nat /\ p.to \in Nat
  BY <1>2, TextIsText DEF ChunkerInv, ChunkerTypeOK, TextEnd, Spans
<1>4. span' # None /\ Reached' = p.from
  BY <1>1, <1>2, <1>3 DEF None, Reached
<1>5. ChunkerTypeOK'
  BY <1>1, <1>2, <1>3, FlushedIsInOrder DEF ChunkerInv, ChunkerTypeOK
<1>6. \A c : ChunkInShape(c) => ChunkInShape(c)'
  BY <1>1 DEF ChunkInShape, LetterAt, Letter, TextEnd
<1>7. ChunkInShape(p)
  BY <1>1, <1>2 DEF ChunkInShape
<1>8. Collected' /\ LongIsAhead'
  BY <1>1, <1>6, <1>7 DEF Collected, LongIsAhead
<1>9. ChunksInOrder'
  <2>1. ASSUME NEW i \in DOMAIN Flushed PROVE Flushed[i].to <= p.from
    <3>1. Flushed[i].to <= place /\ Flushed[i] \in Spans
      BY FlushedIsInOrder
    <3>2. Flushed[i].to \in Nat
      BY <3>1 DEF Spans
    <3> QED BY <1>2, <1>3, <3>1, <3>2
  <2> QED BY <1>1, <1>4, <1>6, <2>1, FlushedIsInOrder DEF ChunksInOrder
<1>10. AllPassed'
  <2>1. ASSUME NEW k \in 1..(p.to - 1), Letter(k)
        PROVE  \/ p.from <= k /\ k < p.to
               \/ \E i \in DOMAIN Flushed : Flushed[i].from <= k /\ k < Flushed[i].to
    <3>1. CASE k <= place - 1
      BY <1>3, <2>1, <3>1, FlushedIsInOrder
    <3>2. CASE k >= place
      BY <1>2, <1>3, <2>1, <3>2
    <3> QED BY <1>3, <3>1, <3>2
  <2> QED BY <1>1, <2>1 DEF AllPassed, Passed, Letter
<1> QED BY <1>5, <1>8, <1>9, <1>10 DEF ChunkerInv

\* A paragraph that fits joins the chunk that is collected.
LEMMA JoinStep == ASSUME ChunkerInv, Join PROVE ChunkerInv'
<1> DEFINE p == ParagraphAt(place)
<1>1. /\ span # None /\ p.to - span.from <= limit /\ span' = [span EXCEPT !.to = p.to] /\ place' = p.to
      /\ text' = text /\ limit' = limit /\ long' = long /\ chunks' = chunks
      /\ long = 0 /\ LettersFrom(place) # {}
  BY DEF Join
<1>2. /\ p \in Spans /\ LetterAt(p.from) /\ place <= p.from /\ p.from < p.to /\ p.to <= TextEnd
      /\ \A k \in place..(p.from - 1) : ~Letter(k)
  BY <1>1, ParagraphsAreParagraphs DEF ChunkerInv
<1> HIDE DEF p
<1>3. /\ Len(text) \in Nat /\ place \in Nat \ {0} /\ TextEnd = Len(text) + 1
      /\ p.from \in Nat /\ p.to \in Nat /\ span \in Spans /\ span.from \in Nat
  BY <1>2, TextIsText DEF ChunkerInv, ChunkerTypeOK, TextEnd, Spans
<1>4. ChunkInShape(span) /\ span.to = place /\ span.from < place /\ span.from >= 1
  BY <1>1 DEF ChunkerInv, Collected, ChunkInShape, LetterAt
<1>5. span'.from = span.from /\ span'.to = p.to /\ span' \in Spans
  BY <1>1, <1>3 DEF Spans
<1>6. span' # None /\ Reached' = Reached
  BY <1>1, <1>2, <1>3, <1>5 DEF None, Reached
<1>7. ChunkerTypeOK'
  BY <1>1, <1>2, <1>3, <1>5 DEF ChunkerInv, ChunkerTypeOK
<1>8. \A c : ChunkInShape(c) => ChunkInShape(c)'
  BY <1>1 DEF ChunkInShape, LetterAt, Letter, TextEnd
<1>9. ChunkInShape(span')
  BY <1>1, <1>2, <1>3, <1>4, <1>5 DEF ChunkInShape
<1>10. Collected' /\ LongIsAhead'
  BY <1>1, <1>5, <1>8, <1>9 DEF Collected, LongIsAhead
<1>11. ChunksInOrder'
  BY <1>1, <1>6, <1>8 DEF ChunkerInv, ChunksInOrder
<1>12. AllPassed'
  <2>1. ASSUME NEW k \in 1..(p.to - 1), Letter(k)
        PROVE  \/ span.from <= k /\ k < p.to
               \/ \E i \in DOMAIN chunks : chunks[i].from <= k /\ k < chunks[i].to
    <3>1. CASE k <= place - 1
      BY <1>3, <1>4, <2>1, <3>1 DEF ChunkerInv, AllPassed, Passed
    <3>2. CASE k >= place
      BY <1>3, <1>4, <2>1, <3>2
    <3> QED BY <1>3, <3>1, <3>2
  <2> QED BY <1>1, <1>5, <2>1 DEF AllPassed, Passed, Letter
<1> QED BY <1>7, <1>10, <1>11, <1>12 DEF ChunkerInv

\* A paragraph over the limit ends the chunk before it ...
LEMMA BeginLongStep == ASSUME ChunkerInv, BeginLong PROVE ChunkerInv'
<1> DEFINE p == ParagraphAt(place)
<1>1. /\ span' = None /\ place' = p.from /\ chunks' = Flushed /\ long' = p.to
      /\ text' = text /\ limit' = limit /\ LettersFrom(place) # {}
  BY DEF BeginLong
<1>2. /\ p \in Spans /\ LetterAt(p.from) /\ place <= p.from /\ p.from < p.to /\ p.to <= TextEnd
      /\ \A k \in place..(p.from - 1) : ~Letter(k)
  BY <1>1, ParagraphsAreParagraphs DEF ChunkerInv
<1> HIDE DEF p
<1>3. /\ Len(text) \in Nat /\ place \in Nat \ {0} /\ TextEnd = Len(text) + 1
      /\ p.from \in Nat /\ p.to \in Nat
  BY <1>2, TextIsText DEF ChunkerInv, ChunkerTypeOK, TextEnd, Spans
<1>4. Reached' = p.from
  BY <1>1 DEF Reached
<1>5. ChunkerTypeOK'
  <2>1. span' \in Spans
    BY <1>1 DEF None, Spans
  <2> QED BY <1>1, <1>2, <1>3, <2>1, FlushedIsInOrder DEF ChunkerInv, ChunkerTypeOK
<1>6. \A c : ChunkInShape(c) => ChunkInShape(c)'
  BY <1>1 DEF ChunkInShape, LetterAt, Letter, TextEnd
<1>7. Collected' /\ LongIsAhead'
  BY <1>1, <1>2, <1>3 DEF Collected, LongIsAhead
<1>8. ChunksInOrder'
  <2>1. ASSUME NEW i \in DOMAIN Flushed PROVE Flushed[i].to <= p.from
    <3>1. Flushed[i].to <= place /\ Flushed[i] \in Spans
      BY FlushedIsInOrder
    <3>2. Flushed[i].to \in Nat
      BY <3>1 DEF Spans
    <3> QED BY <1>2, <1>3, <3>1, <3>2
  <2> QED BY <1>1, <1>4, <1>6, <2>1, FlushedIsInOrder DEF ChunksInOrder
<1>9. AllPassed'
  <2>1. ASSUME NEW k \in 1..(p.from - 1), Letter(k)
        PROVE  \E i \in DOMAIN Flushed : Flushed[i].from <= k /\ k < Flushed[i].to
    <3>1. k <= place - 1
      BY <1>2, <1>3, <2>1
    <3> QED BY <1>3, <2>1, <3>1, FlushedIsInOrder
  <2> QED BY <1>1, <2>1 DEF AllPassed, Passed, Letter
<1> QED BY <1>5, <1>7, <1>8, <1>9 DEF ChunkerInv

\* ... and is cut into pieces, ...
LEMMA CutStep == ASSUME ChunkerInv, Cut PROVE ChunkerInv'
<1> DEFINE from == Start(place)
           c == [from |-> from, to |-> PieceEnd(from)]
<1>1. /\ long # 0 /\ from < long /\ chunks' = Append(chunks, c) /\ place' = c.to
      /\ text' = text /\ limit' = limit /\ long' = long /\ span' = span
  BY DEF Cut
<1>2. /\ from \in place..long /\ \A k \in place..(from - 1) : ~Letter(k)
      /\ LetterAt(from) /\ PieceEnd(from) \in (from + 1)..TextEnd
      /\ PieceEnd(from) <= long /\ PieceEnd(from) - from <= limit
  BY <1>1, PiecesArePieces DEF ChunkerInv, LongIsAhead
<1> HIDE DEF from
<1>3. /\ Len(text) \in Nat /\ place \in Nat \ {0} /\ TextEnd = Len(text) + 1
      /\ long \in Nat /\ limit \in Nat
  BY TextIsText DEF ChunkerInv, ChunkerTypeOK, TextEnd
<1>4. from \in Nat \ {0} /\ PieceEnd(from) \in Nat
  BY <1>2, <1>3
<1>5. c \in Spans /\ c.from = from /\ c.to = PieceEnd(from)
  BY <1>4 DEF Spans
<1> HIDE DEF c
<1>6. ChunkInShape(c) /\ place <= c.from
  BY <1>2, <1>3, <1>4, <1>5 DEF ChunkInShape
<1>7. span = None
  BY <1>1 DEF ChunkerInv, Collected
<1>8. /\ chunks' \in Seq(Spans)
      /\ \A i \in DOMAIN chunks' : ChunkInShape(chunks'[i]) /\ chunks'[i].to <= c.to
      /\ \A i \in 2..Len(chunks') : chunks'[i - 1].to <= chunks'[i].from
      /\ \A k \in c.from..(c.to - 1) : \E i \in DOMAIN chunks' : chunks'[i].from <= k /\ k < chunks'[i].to
      /\ \A k \in 1..(place - 1) : Letter(k) =>
            \E i \in DOMAIN chunks' : chunks'[i].from <= k /\ k < chunks'[i].to
  BY <1>1, <1>5, <1>6, <1>7, AddedInOrder
<1>9. ChunkerTypeOK'
  BY <1>1, <1>2, <1>3, <1>4, <1>5, <1>8 DEF ChunkerInv, ChunkerTypeOK
<1>10. \A x : ChunkInShape(x) => ChunkInShape(x)'
  BY <1>1 DEF ChunkInShape, LetterAt, Letter, TextEnd
<1>11. ChunksInOrder' /\ Collected' /\ LongIsAhead'
  <2>1. Reached' = c.to
    BY <1>1, <1>7 DEF Reached
  <2> QED BY <1>1, <1>2, <1>5, <1>7, <1>8, <1>10, <2>1 DEF ChunksInOrder, Collected, LongIsAhead
<1>12. AllPassed'
  <2>1. ASSUME NEW k \in 1..(c.to - 1), Letter(k)
        PROVE  \E i \in DOMAIN chunks' : chunks'[i].from <= k /\ k < chunks'[i].to
    <3>1. CASE k <= place - 1
      BY <1>3, <1>8, <2>1, <3>1
    <3>2. CASE k >= place
      <4>1. k >= from
        BY <1>2, <1>3, <1>4, <2>1, <3>2
      <4> QED BY <1>4, <1>5, <1>8, <2>1, <4>1
    <3> QED BY <1>3, <3>1, <3>2
  <2> QED BY <1>1, <2>1 DEF AllPassed, Passed, Letter
<1> QED BY <1>9, <1>11, <1>12 DEF ChunkerInv

\* ... to its end.
LEMMA EndLongStep == ASSUME ChunkerInv, EndLong PROVE ChunkerInv'
<1>1. /\ long # 0 /\ Start(place) = long /\ chunks' = chunks /\ place' = long
      /\ text' = text /\ limit' = limit /\ long' = 0 /\ span' = span
  BY DEF EndLong
<1>2. long \in place..long /\ \A k \in place..(long - 1) : ~Letter(k)
  BY <1>1, PiecesArePieces DEF ChunkerInv, LongIsAhead
<1>3. /\ Len(text) \in Nat /\ place \in Nat \ {0} /\ long \in Nat /\ long <= Len(text) + 1
  BY TextIsText DEF ChunkerInv, ChunkerTypeOK
<1>4. ChunkerTypeOK'
  BY <1>1, <1>2, <1>3 DEF ChunkerInv, ChunkerTypeOK
<1>5. span = None
  BY <1>1 DEF ChunkerInv, Collected
<1>6. \A x : ChunkInShape(x) => ChunkInShape(x)'
  BY <1>1 DEF ChunkInShape, LetterAt, Letter, TextEnd
<1>7. ChunksInOrder'
  <2>1. Reached = place /\ Reached' = long
    BY <1>1, <1>5 DEF Reached
  <2>2. ASSUME NEW i \in DOMAIN chunks PROVE chunks[i].to <= long
    <3>1. chunks[i].to \in Nat
      BY SpansAreSpans DEF ChunkerInv
    <3>2. chunks[i].to <= place
      BY <2>1 DEF ChunkerInv, ChunksInOrder
    <3> QED BY <1>2, <1>3, <3>1, <3>2
  <2> QED BY <1>1, <1>6, <2>1, <2>2 DEF ChunkerInv, ChunksInOrder
<1>8. Collected' /\ LongIsAhead'
  BY <1>1, <1>5 DEF Collected, LongIsAhead
<1>9. AllPassed'
  <2>1. ASSUME NEW k \in 1..(long - 1), Letter(k) PROVE k \in 1..(place - 1)
    BY <1>2, <1>3, <2>1
  <2> QED BY <1>1, <2>1 DEF ChunkerInv, AllPassed, Passed, Letter
<1> QED BY <1>4, <1>7, <1>8, <1>9 DEF ChunkerInv

\* At the end of the text the last chunk is finished.
LEMMA FinishStep == ASSUME ChunkerInv, Finish PROVE ChunkerInv'
<1>1. /\ long = 0 /\ LettersFrom(place) = {} /\ chunks' = Flushed /\ place' = TextEnd
      /\ text' = text /\ limit' = limit /\ long' = 0 /\ span' = None
  BY DEF Finish, Done
<1>2. /\ Len(text) \in Nat /\ place \in Nat \ {0} /\ TextEnd = Len(text) + 1 /\ place <= TextEnd
  BY TextIsText DEF ChunkerInv, ChunkerTypeOK, TextEnd
<1>3. ChunkerTypeOK'
  <2>1. span' \in Spans
    BY <1>1 DEF None, Spans
  <2> QED BY <1>1, <1>2, <2>1, FlushedIsInOrder DEF ChunkerInv, ChunkerTypeOK
<1>4. \A x : ChunkInShape(x) => ChunkInShape(x)'
  BY <1>1 DEF ChunkInShape, LetterAt, Letter, TextEnd
<1>5. ChunksInOrder'
  <2>1. Reached' = TextEnd
    BY <1>1 DEF Reached
  <2>2. \A i \in DOMAIN Flushed : Flushed[i].to <= TextEnd
    BY FlushedIsInOrder DEF ChunkInShape
  <2> QED BY <1>1, <1>4, <2>1, <2>2, FlushedIsInOrder DEF ChunksInOrder
<1>6. Collected' /\ LongIsAhead'
  BY <1>1 DEF Collected, LongIsAhead
<1>7. AllPassed'
  <2>1. ASSUME NEW k \in 1..(TextEnd - 1), Letter(k)
        PROVE  \E i \in DOMAIN Flushed : Flushed[i].from <= k /\ k < Flushed[i].to
    <3>1. k \in 1..(place - 1)
      BY <1>1, <1>2, <2>1 DEF LettersFrom
    <3> QED BY <2>1, <3>1, FlushedIsInOrder
  <2> QED BY <1>1, <2>1 DEF AllPassed, Passed, Letter, TextEnd
<1> QED BY <1>3, <1>5, <1>6, <1>7 DEF ChunkerInv

\* So every step keeps it.
LEMMA ChunkerStep == ChunkerInv /\ [ChunkerNext]_chunkerVars => ChunkerInv'
<1> SUFFICES ASSUME ChunkerInv, [ChunkerNext]_chunkerVars PROVE ChunkerInv'
  OBVIOUS
<1>1. CASE UNCHANGED chunkerVars
  BY <1>1 DEF chunkerVars, ChunkerInv, ChunkerTypeOK, ChunksInOrder, Collected, LongIsAhead, AllPassed,
              Passed, Reached, ChunkInShape, LetterAt, Letter, TextEnd
<1> QED BY <1>1, BeginStep, JoinStep, BeginLongStep, CutStep, EndLongStep, FinishStep DEF ChunkerNext

\* At the end every letter is in a chunk.
LEMMA ChunkerCovers == ChunkerInv => LettersAreCovered
<1> SUFFICES ASSUME ChunkerInv PROVE LettersAreCovered
  OBVIOUS
<1>1. /\ \A i \in DOMAIN chunks : chunks[i].from < chunks[i].to /\ chunks[i].to - chunks[i].from <= limit
      /\ \A i \in 2..Len(chunks) : chunks[i - 1].to <= chunks[i].from
  BY DEF ChunkerInv, ChunksInOrder, ChunkInShape
<1>2. \A k \in 1..(place - 1) : Letter(k) =>
          \/ span.from <= k /\ k < span.to
          \/ \E i \in DOMAIN chunks : chunks[i].from <= k /\ k < chunks[i].to
  BY DEF ChunkerInv, AllPassed, Passed
<1> QED BY <1>1, <1>2 DEF LettersAreCovered

-----------------------------------------------------------------------------
(* Pages.                                                                  *)

\* The joints before a position.
JointsBefore(joints, i) == {j \in joints : j < i}
\* How many joints come before a position.
JointCount(joints, i)  == Cardinality(JointsBefore(joints, i))

\* Joints are within the text and apart from each other, and can be counted.
LEMMA JointsAreCounted ==
    ASSUME ChunkerTypeOK, NEW joints \in SUBSET Joints
    PROVE  /\ IsFiniteSet(joints) /\ Cardinality(joints) \in Nat
           /\ \A j \in joints : j \in Nat /\ j \in 2..(Len(text) - 2) /\ j + 1 \notin joints /\ j + 2 \notin joints
           /\ \A i : JointCount(joints, i) \in Nat /\ IsFiniteSet(JointsBefore(joints, i))
<1>1. Len(text) \in Nat
  BY TextIsText
<1>2. joints \subseteq 1..Len(text)
  BY <1>1 DEF Joints
<1>3. IsFiniteSet(1..Len(text))
  BY <1>1, FS_Interval
<1>4. IsFiniteSet(joints)
  BY <1>2, <1>3, FS_Subset
<1>5. ASSUME NEW i PROVE JointCount(joints, i) \in Nat /\ IsFiniteSet(JointsBefore(joints, i))
  <2>1. JointsBefore(joints, i) \subseteq joints
    BY DEF JointsBefore
  <2> QED BY <1>4, <2>1, FS_Subset, FS_CardinalityType DEF JointCount
<1>6. ASSUME NEW j \in joints
      PROVE  j \in 2..(Len(text) - 2) /\ j + 1 \notin joints /\ j + 2 \notin joints
  <2>1. j \in 2..(Len(text) - 2) /\ text[j + 1] = "n" /\ text[j + 2] = "x"
    BY DEF Joints, Letter
  <2>2. \A k \in joints : text[k] = "n" /\ text[k - 1] = "x"
    BY DEF Joints, Letter
  <2>3. j + 1 \notin joints
    <3> SUFFICES ASSUME j + 1 \in joints PROVE FALSE
      OBVIOUS
    <3>1. text[(j + 1) - 1] = "x" /\ (j + 1) - 1 = j /\ text[j] = "n"
      BY <2>1, <2>2
    <3> QED BY <3>1
  <2>4. j + 2 \notin joints
    BY <2>1, <2>2
  <2> QED BY <2>1, <2>3, <2>4
<1> QED BY <1>4, <1>5, <1>6, FS_CardinalityType

\* Where no joint is between two positions, as many are before both.
LEMMA NoJointBetween ==
    ASSUME ChunkerTypeOK, NEW joints \in SUBSET Joints, NEW i \in Nat, NEW k \in Nat, i <= k,
           \A j \in joints : ~(i <= j /\ j < k)
    PROVE  JointCount(joints, i) = JointCount(joints, k)
<1>1. \A j \in joints : j \in Nat
  BY JointsAreCounted
<1>2. JointsBefore(joints, i) = JointsBefore(joints, k)
  BY <1>1 DEF JointsBefore
<1> QED BY <1>2 DEF JointCount

\* One joint makes a difference of one.
LEMMA OneJointMore ==
    ASSUME ChunkerTypeOK, NEW joints \in SUBSET Joints, NEW e \in joints
    PROVE  JointCount(joints, e + 1) = JointCount(joints, e) + 1
<1>1. e \in Nat /\ \A j \in joints : j \in Nat
  BY JointsAreCounted
<1>2. JointsBefore(joints, e + 1) = JointsBefore(joints, e) \cup {e} /\ e \notin JointsBefore(joints, e)
  <2>1. \A j \in joints : (j < e + 1 <=> j < e \/ j = e)
    BY <1>1
  <2>2. ~(e < e)
    BY <1>1
  <2> QED BY <2>1, <2>2 DEF JointsBefore
<1> QED BY <1>2, JointsAreCounted, FS_AddElement DEF JointCount

\* There are not fewer before a later position.
LEMMA MoreJoints ==
    ASSUME ChunkerTypeOK, NEW joints \in SUBSET Joints, NEW i \in Nat, NEW k \in Nat, i <= k
    PROVE  JointCount(joints, i) <= JointCount(joints, k)
<1>1. \A j \in joints : j \in Nat
  BY JointsAreCounted
<1>2. JointsBefore(joints, i) \subseteq JointsBefore(joints, k)
  BY <1>1 DEF JointsBefore
<1> QED BY <1>2, JointsAreCounted, FS_Subset DEF JointCount

\* The lengths of the pages are added up as the recursive definition says: there is a function
\* that it describes.
LEMMA RangesAreSums ==
    ASSUME ChunkerTypeOK, NEW joints \in SUBSET Joints, NEW n \in Nat \ {0}
    PROVE  \E s \in [1..n -> Nat] :
              /\ s[1] = 1
              /\ \A k \in 2..n : s[k] = s[k - 1] + PageLength(joints, k - 1) + Gap
              /\ PageRange(joints, n).from = s[n]
              /\ PageRange(joints, n).to = s[n] + PageLength(joints, n)
<1> DEFINE Next(s, k) == IF k = 1 THEN 1 ELSE s[k - 1] + PageLength(joints, k - 1) + Gap
           Starts(s, m) == s = [k \in 1..m |-> Next(s, k)]
           Unstarted == {m \in Nat : \A s : ~Starts(s, m)}
<1>1. Unstarted = {}
  <2> SUFFICES ASSUME Unstarted # {} PROVE FALSE
    OBVIOUS
  <2>1. PICK m \in Unstarted : \A k \in Unstarted : m <= k
    <3>1. Unstarted \subseteq Nat
      OBVIOUS
    <3> HIDE DEF Unstarted
    <3> QED BY <3>1, LeastNumber
  <2>2. m \in Nat /\ \A s : ~Starts(s, m)
    BY <2>1
  <2>3. CASE m = 0
    <3> DEFINE t == [k \in 1..m |-> 0]
    <3>1. 1..m = {}
      BY <2>3
    <3>2. Starts(t, m)
      BY <3>1
    <3> QED BY <2>2, <3>2
  <2>4. CASE m # 0
    <3>1. m - 1 \in Nat /\ m - 1 \notin Unstarted
      <4> HIDE DEF Unstarted, Starts
      <4>1. m - 1 \in Nat /\ ~(m <= m - 1)
        BY <2>2, <2>4
      <4> QED BY <2>1, <4>1
    <3>2. PICK s : Starts(s, m - 1)
      BY <3>1
    <3>3. \A k \in 1..(m - 1) : s[k] = Next(s, k)
      BY <3>2
    <3> DEFINE t == [k \in 1..m |-> IF k < m THEN s[k] ELSE Next(s, m)]
    <3>4. ASSUME NEW k \in 1..m PROVE t[k] = Next(t, k)
      <4>1. CASE k < m /\ k # 1
        <5>1. k \in 1..(m - 1) /\ k - 1 \in 1..m /\ k - 1 < m
          BY <2>2, <4>1
        <5>2. t[k] = s[k] /\ t[k - 1] = s[k - 1]
          BY <4>1, <5>1
        <5> QED BY <3>3, <4>1, <5>1, <5>2
      <4>2. CASE k < m /\ k = 1
        <5>1. k \in 1..(m - 1)
          BY <2>2, <4>2
        <5> QED BY <3>3, <4>2, <5>1
      <4>3. CASE k = m /\ m # 1
        <5>1. m - 1 \in 1..m /\ m - 1 < m /\ ~(m < m)
          BY <2>2, <2>4, <4>3
        <5> QED BY <4>3, <5>1
      <4>4. CASE k = m /\ m = 1
        BY <4>4
      <4> QED BY <2>2, <4>1, <4>2, <4>3, <4>4
    <3>5. Starts(t, m)
      <4> HIDE DEF t, Next
      <4>1. t = [k \in 1..m |-> t[k]]
        BY DEF t
      <4> QED BY <3>4, <4>1
    <3> QED BY <2>2, <3>5
  <2> QED BY <2>3, <2>4
<1>2. \E z : Starts(z, n)
  <2> HIDE DEF Starts
  <2>1. n \notin Unstarted
    BY <1>1
  <2> QED BY <2>1
<1> DEFINE s == CHOOSE s : Starts(s, n)
<1>3. Starts(s, n)
  BY <1>2
<1>4. PageRange(joints, n) = [from |-> s[n], to |-> s[n] + PageLength(joints, n)]
  BY DEF PageRange
<1> HIDE DEF s
<1>5. \A k \in 1..n : s[k] = Next(s, k)
  BY <1>3
<1>6. s[1] = 1 /\ \A k \in 2..n : s[k] = s[k - 1] + PageLength(joints, k - 1) + Gap
  <2>1. 1 \in 1..n /\ \A k \in 2..n : k \in 1..n /\ k # 1
    OBVIOUS
  <2> QED BY <1>5, <2>1
<1>7. \A k : PageLength(joints, k) \in Nat
  <2> SUFFICES ASSUME NEW k PROVE PageLength(joints, k) \in Nat
    OBVIOUS
  <2>1. IsFiniteSet(DOMAIN text)
    <3>1. DOMAIN text = 1..Len(text) /\ Len(text) \in Nat
      BY TextIsText
    <3> QED BY <3>1, FS_Interval
  <2> DEFINE P == {i \in DOMAIN text : PageAt(joints, i) = k /\ i \notin joints /\ i - 1 \notin joints}
  <2>2. P \in SUBSET DOMAIN text
    OBVIOUS
  <2>3. Cardinality(P) \in Nat
    <3> HIDE DEF P
    <3> QED BY <2>1, <2>2, FS_Subset, FS_CardinalityType
  <2> QED BY <2>3 DEF PageLength
<1> DEFINE Wrong == {k \in 1..n : s[k] \notin Nat}
<1>8. Wrong = {}
  <2> SUFFICES ASSUME Wrong # {} PROVE FALSE
    OBVIOUS
  <2>1. PICK m \in Wrong : \A k \in Wrong : m <= k
    <3>1. Wrong \subseteq Nat
      OBVIOUS
    <3> HIDE DEF Wrong
    <3> QED BY <3>1, LeastNumber
  <2>2. m # 1
    BY <1>6, <2>1
  <2>3. m - 1 \in 1..n /\ m - 1 \notin Wrong /\ m \in 2..n
    BY <2>1, <2>2
  <2> QED BY <1>6, <1>7, <2>1, <2>3 DEF Gap
<1>9. s \in [1..n -> Nat]
  BY <1>3, <1>8
<1> QED BY <1>4, <1>6, <1>9, SMTT(30)

\* A page begins with the text or after a joint, and ends with the next joint or the text.
PageOf(joints, s, e, n) ==
    /\ s \in Nat \ {0} /\ e \in Nat /\ s <= e
    /\ s = 1 \/ s - 2 \in joints
    /\ e = TextEnd \/ e \in joints
    /\ JointCount(joints, s) = n - 1
    /\ \A j \in joints : ~(s <= j /\ j < e)

\* What is on either side of a page is on another one.
LEMMA PagesAreApart ==
    ASSUME ChunkerTypeOK, NEW joints \in SUBSET Joints, NEW n \in Nat \ {0}, NEW s, NEW e,
           PageOf(joints, s, e, n), NEW i \in 1..Len(text), i \notin joints, i - 1 \notin joints
    PROVE  (s <= i /\ i < e) <=> JointCount(joints, i) = n - 1
<1>1. /\ Len(text) \in Nat /\ TextEnd = Len(text) + 1 /\ s \in Nat \ {0} /\ e \in Nat /\ s <= e
      /\ JointCount(joints, s) = n - 1 /\ \A j \in joints : ~(s <= j /\ j < e)
      /\ \A k : JointCount(joints, k) \in Nat
  BY TextIsText, JointsAreCounted DEF TextEnd, PageOf
<1>2. ASSUME s <= i, i < e PROVE JointCount(joints, i) = n - 1
  <2>1. \A j \in joints : ~(s <= j /\ j < i)
    <3>1. \A j \in joints : j \in Nat
      BY JointsAreCounted
    <3> QED BY <1>1, <1>2, <3>1
  <2> QED BY <1>1, <1>2, <2>1, NoJointBetween
<1>3. ASSUME i < s PROVE JointCount(joints, i) < n - 1
  <2>1. s - 2 \in joints /\ s - 2 \in Nat /\ s - 1 \in Nat
    <3>1. s # 1
      BY <1>1, <1>3
    <3>2. s - 2 \in joints
      BY <3>1 DEF PageOf
    <3>3. s - 2 \in Nat
      BY <3>2, JointsAreCounted
    <3> QED BY <1>1, <3>2, <3>3
  <2>2. i # s - 2 /\ i # s - 1 /\ i <= s - 2
    <3>1. i # s - 2
      BY <2>1
    <3>2. i # s - 1
      <4> SUFFICES ASSUME i = s - 1 PROVE FALSE
        OBVIOUS
      <4>1. i - 1 = s - 2
        BY <1>1
      <4> QED BY <2>1, <4>1
    <3> QED BY <1>1, <1>3, <3>1, <3>2
  <2>3. JointCount(joints, i) <= JointCount(joints, s - 2)
    BY <2>1, <2>2, MoreJoints
  <2>4. JointCount(joints, (s - 2) + 1) = JointCount(joints, s - 2) + 1
    BY <2>1, OneJointMore
  <2>5. JointCount(joints, s - 1) <= JointCount(joints, s)
    <3>1. s - 1 \in Nat /\ s \in Nat /\ s - 1 <= s
      BY <1>1, <2>1
    <3> QED BY <3>1, MoreJoints
  <2>6. (s - 2) + 1 = s - 1
    BY <1>1
  <2> QED BY <1>1, <2>3, <2>4, <2>5, <2>6
<1>4. ASSUME i >= e PROVE JointCount(joints, i) > n - 1
  <2>1. e \in joints
    BY <1>1, <1>4 DEF PageOf
  <2>2. e + 1 <= i /\ e + 1 \in Nat
    BY <1>1, <1>4, <2>1
  <2>3. JointCount(joints, e + 1) = JointCount(joints, e) + 1
    BY <2>1, OneJointMore
  <2>4. JointCount(joints, e) = JointCount(joints, s)
    BY <1>1, NoJointBetween
  <2>5. JointCount(joints, e + 1) <= JointCount(joints, i)
    BY <2>2, MoreJoints
  <2> QED BY <1>1, <2>3, <2>4, <2>5
<1> QED BY <1>1, <1>2, <1>3, <1>4

\* The length of a page is what lies between its ends.
LEMMA LengthsAreLengths ==
    ASSUME ChunkerTypeOK, NEW joints \in SUBSET Joints, NEW n \in Nat \ {0}, NEW s, NEW e,
           PageOf(joints, s, e, n)
    PROVE  PageLength(joints, n) = e - s
<1> DEFINE P == {i \in DOMAIN text : PageAt(joints, i) = n /\ i \notin joints /\ i - 1 \notin joints}
<1>1. /\ Len(text) \in Nat /\ DOMAIN text = 1..Len(text) /\ TextEnd = Len(text) + 1
      /\ s \in Nat \ {0} /\ e \in Nat /\ s <= e /\ \A k : JointCount(joints, k) \in Nat
      /\ \A j \in joints : ~(s <= j /\ j < e)
  BY TextIsText, JointsAreCounted DEF TextEnd, PageOf
<1>2. e <= TextEnd
  <2>1. \A j \in joints : j \in Nat /\ j \in 2..(Len(text) - 2)
    BY JointsAreCounted
  <2> QED BY <1>1, <2>1 DEF PageOf
<1>3. \A i : PageAt(joints, i) = n <=> JointCount(joints, i) = n - 1
  <2>1. \A i : PageAt(joints, i) = 1 + JointCount(joints, i)
    BY DEF PageAt, JointCount, JointsBefore
  <2> QED BY <1>1, <2>1
<1>4. ASSUME NEW i \in P PROVE i \in s..(e - 1)
  <2>1. i \in 1..Len(text) /\ i \notin joints /\ i - 1 \notin joints /\ JointCount(joints, i) = n - 1
    BY <1>1, <1>3
  <2>2. s <= i /\ i < e
    BY <2>1, PagesAreApart
  <2> QED BY <1>1, <2>1, <2>2
<1>5. ASSUME NEW i \in s..(e - 1) PROVE i \in P
  <2>1. i \in 1..Len(text) /\ i \notin joints /\ s <= i /\ i < e
    BY <1>1, <1>2
  <2>2. i - 1 \notin joints
    <3>1. CASE i = s
      <4>1. s = 1 => i - 1 \notin joints
        <5>1. \A j \in joints : j \in 2..(Len(text) - 2)
          BY JointsAreCounted
        <5> QED BY <3>1, <5>1
      <4>2. s - 2 \in joints => (s - 2) + 1 \notin joints
        BY JointsAreCounted
      <4>3. (s - 2) + 1 = i - 1
        BY <1>1, <3>1
      <4> QED BY <4>1, <4>2, <4>3 DEF PageOf
    <3>2. CASE i # s
      <4>1. s <= i - 1 /\ i - 1 < e
        BY <1>1, <2>1, <3>2
      <4> QED BY <1>1, <4>1
    <3> QED BY <3>1, <3>2
  <2> QED BY <1>1, <1>3, <2>1, <2>2, PagesAreApart
<1>6. P = s..(e - 1)
  <2> HIDE DEF P
  <2> QED BY <1>4, <1>5
<1>7. Cardinality(s..(e - 1)) = e - s
  <2>1. Cardinality(s..(e - 1)) = IF s > e - 1 THEN 0 ELSE (e - 1) - s + 1
    <3>1. s \in Int /\ e - 1 \in Int
      BY <1>1
    <3> QED BY <3>1, FS_Interval
  <2> QED BY <1>1, <2>1
<1> QED BY <1>6, <1>7 DEF PageLength

\* From where a page begins there is a next joint, or there are no more.
LEMMA PagesEnd ==
    ASSUME ChunkerTypeOK, NEW joints \in SUBSET Joints, NEW n \in 1..(Cardinality(joints) + 1),
           NEW s \in Nat \ {0}, s = 1 \/ s - 2 \in joints, JointCount(joints, s) = n - 1
    PROVE  \E e : PageOf(joints, s, e, n) /\ (n <= Cardinality(joints) => e \in joints)
<1>1. /\ Len(text) \in Nat /\ TextEnd = Len(text) + 1 /\ Cardinality(joints) \in Nat
      /\ \A j \in joints : j \in Nat /\ j \in 2..(Len(text) - 2)
      /\ IsFiniteSet(joints)
  BY TextIsText, JointsAreCounted DEF TextEnd
<1> DEFINE T == {j \in joints : s <= j}
<1>2. CASE T = {}
  <2>1. JointsBefore(joints, s) = joints
    BY <1>1, <1>2 DEF JointsBefore
  <2>2. n = Cardinality(joints) + 1
    BY <1>1, <2>1 DEF JointCount
  <2>3. s <= TextEnd
    BY <1>1
  <2>4. PageOf(joints, s, TextEnd, n)
    BY <1>1, <1>2, <2>3 DEF PageOf
  <2> QED BY <1>1, <2>2, <2>4
<1>3. CASE T # {}
  <2>1. T \subseteq Nat
    BY <1>1
  <2>2. PICK e \in T : \A j \in T : e <= j
    <3> HIDE DEF T
    <3> QED BY <1>3, <2>1, LeastNumber
  <2>3. e \in joints /\ s <= e /\ e \in Nat /\ \A j \in joints : ~(s <= j /\ j < e)
    BY <1>1, <2>2
  <2>4. PageOf(joints, s, e, n)
    BY <2>3 DEF PageOf
  <2> QED BY <2>3, <2>4
<1> QED BY <1>2, <1>3

\* The ranges that are built are the pages.
LEMMA RangesArePages ==
    ASSUME ChunkerTypeOK, NEW joints \in SUBSET Joints, NEW n \in 1..(Cardinality(joints) + 1)
    PROVE  PageOf(joints, PageRange(joints, n).from, PageRange(joints, n).to, n)
<1>1. Cardinality(joints) \in Nat /\ n \in Nat \ {0} /\ \A k : JointCount(joints, k) \in Nat
  BY JointsAreCounted
<1>2. PICK s \in [1..n -> Nat] :
              /\ s[1] = 1
              /\ \A k \in 2..n : s[k] = s[k - 1] + PageLength(joints, k - 1) + Gap
              /\ PageRange(joints, n).from = s[n]
              /\ PageRange(joints, n).to = s[n] + PageLength(joints, n)
  BY <1>1, RangesAreSums
<1> DEFINE Begins(k) == /\ s[k] \in Nat \ {0}
                        /\ s[k] = 1 \/ s[k] - 2 \in joints
                        /\ JointCount(joints, s[k]) = k - 1
           Wrong == {k \in 1..n : ~Begins(k)}
<1>3. Wrong = {}
  <2> SUFFICES ASSUME Wrong # {} PROVE FALSE
    OBVIOUS
  <2>1. PICK m \in Wrong : \A k \in Wrong : m <= k
    <3>1. Wrong \subseteq Nat
      OBVIOUS
    <3> HIDE DEF Wrong
    <3> QED BY <3>1, LeastNumber
  <2>2. m \in 1..n /\ ~Begins(m)
    BY <2>1
  <2>3. m # 1
    <3>1. JointsBefore(joints, 1) = {}
      <4>1. \A j \in joints : j \in 2..(Len(text) - 2)
        BY JointsAreCounted
      <4> QED BY <4>1 DEF JointsBefore
    <3>2. JointCount(joints, 1) = 0
      BY <3>1, FS_EmptySet DEF JointCount
    <3> QED BY <1>2, <2>2, <3>2
  <2>4. m - 1 \in 1..n /\ m \in 2..n /\ m - 1 \in 1..(Cardinality(joints) + 1)
        /\ m - 1 <= Cardinality(joints)
    BY <1>1, <2>2, <2>3
  <2>5. Begins(m - 1)
    <3> HIDE DEF Begins
    <3>1. ~(m <= m - 1)
      BY <2>2
    <3> QED BY <2>1, <2>4, <3>1
  <2>6. PICK e : PageOf(joints, s[m - 1], e, m - 1) /\ e \in joints
    <3>1. \E e : PageOf(joints, s[m - 1], e, m - 1) /\ (m - 1 <= Cardinality(joints) => e \in joints)
      <4>1. /\ s[m - 1] \in Nat \ {0}
            /\ s[m - 1] = 1 \/ s[m - 1] - 2 \in joints
            /\ JointCount(joints, s[m - 1]) = (m - 1) - 1
        BY <2>5
      <4> QED BY <2>4, <4>1, PagesEnd
    <3> QED BY <2>4, <3>1
  <2>7. PageLength(joints, m - 1) = e - s[m - 1] /\ e \in Nat
    <3>1. m - 1 \in Nat \ {0}
      BY <2>4
    <3> QED BY <2>6, <3>1, LengthsAreLengths, SMTT(30) DEF PageOf
  <2>8. s[m] = e + 2
    BY <1>2, <2>4, <2>5, <2>7 DEF Gap
  <2>9. JointCount(joints, e) = m - 2
    <3>1. JointCount(joints, s[m - 1]) = JointCount(joints, e)
      BY <2>6, NoJointBetween DEF PageOf
    <3> QED BY <2>2, <2>5, <3>1
  <2>10. JointCount(joints, e + 1) = m - 1
    BY <2>2, <2>6, <2>9, OneJointMore
  <2>11. JointCount(joints, e + 2) = m - 1
    <3>1. \A j \in joints : ~(e + 1 <= j /\ j < e + 2)
      <4>1. \A j \in joints : j \in Nat
        BY JointsAreCounted
      <4>2. e + 1 \notin joints
        BY <2>6, JointsAreCounted
      <4> QED BY <2>7, <4>1, <4>2
    <3>2. e + 1 \in Nat /\ e + 2 \in Nat /\ e + 1 <= e + 2
      BY <2>7
    <3>3. JointCount(joints, e + 1) = JointCount(joints, e + 2)
      BY <3>1, <3>2, NoJointBetween
    <3> QED BY <2>10, <3>3
  <2>12. (e + 2) - 2 = e
    BY <2>7
  <2> QED BY <2>2, <2>6, <2>7, <2>8, <2>11, <2>12
<1>4. Begins(n)
  <2> HIDE DEF Begins
  <2>1. n \in 1..n
    BY <1>1
  <2> QED BY <1>3, <2>1
<1>5. PICK e : PageOf(joints, s[n], e, n)
  <2>1. /\ s[n] \in Nat \ {0}
        /\ s[n] = 1 \/ s[n] - 2 \in joints
        /\ JointCount(joints, s[n]) = n - 1
    BY <1>4
  <2> QED BY <2>1, PagesEnd
<1>6. PageLength(joints, n) = e - s[n] /\ e \in Nat /\ s[n] \in Nat
  BY <1>1, <1>5, LengthsAreLengths DEF PageOf
<1>7. PageRange(joints, n).to = e
  BY <1>2, <1>6
<1> QED BY <1>2, <1>5, <1>7

\* A chunk is found to be on the page where its first letter is.
LEMMA PagesAreFound ==
    ASSUME ChunkerTypeOK, NEW joints \in SUBSET Joints, NEW c \in Spans, ChunkInShape(c)
    PROVE  PageNumber(c, joints) = PageAt(joints, c.from)
<1> DEFINE n == JointCount(joints, c.from) + 1
           pages == 1..(Cardinality(joints) + 1)
           From(k) == PageRange(joints, k).from
           To(k) == PageRange(joints, k).to
           met == {k \in pages : c.from < To(k) /\ c.to > From(k)}
<1>1. /\ Len(text) \in Nat /\ Cardinality(joints) \in Nat /\ IsFiniteSet(joints)
      /\ c.from \in Nat /\ c.to \in Nat /\ c.from \in 1..Len(text) /\ Letter(c.from) /\ c.from < c.to
      /\ \A k : JointCount(joints, k) \in Nat
  BY TextIsText, JointsAreCounted DEF Spans, ChunkInShape, LetterAt
<1>2. n = PageAt(joints, c.from) /\ n \in Nat \ {0}
  <2>1. PageAt(joints, c.from) = 1 + JointCount(joints, c.from)
    BY DEF PageAt, JointCount, JointsBefore
  <2> QED BY <1>1, <2>1
<1>3. n \in pages
  <2>1. JointsBefore(joints, c.from) \in SUBSET joints
    BY DEF JointsBefore
  <2>2. JointCount(joints, c.from) <= Cardinality(joints)
    BY <1>1, <2>1, FS_Subset DEF JointCount
  <2> QED BY <1>1, <2>2
<1>4. c.from \notin joints /\ c.from - 1 \notin joints
  <2>1. \A j \in joints : text[j] = "n" /\ text[j + 1] = "n" /\ j \in Nat
    BY JointsAreCounted DEF Joints
  <2>2. text[c.from] = "x"
    BY <1>1 DEF Letter
  <2>3. c.from - 1 \notin joints
    <3> SUFFICES ASSUME c.from - 1 \in joints PROVE FALSE
      OBVIOUS
    <3>1. text[(c.from - 1) + 1] = "n" /\ (c.from - 1) + 1 = c.from
      BY <1>1, <2>1
    <3> QED BY <2>2, <3>1
  <2> QED BY <2>1, <2>2, <2>3
<1>5. ASSUME NEW k \in pages
      PROVE  /\ From(k) \in Nat /\ To(k) \in Nat
             /\ (From(k) <= c.from /\ c.from < To(k)) <=> n = k
             /\ JointCount(joints, To(k)) = k - 1
  <2>1. PageOf(joints, From(k), To(k), k)
    BY RangesArePages
  <2>2. k \in Nat \ {0}
    BY <1>1
  <2>3. (From(k) <= c.from /\ c.from < To(k)) <=> JointCount(joints, c.from) = k - 1
    BY <1>1, <1>4, <2>1, <2>2, PagesAreApart
  <2>4. From(k) \in Nat /\ To(k) \in Nat /\ JointCount(joints, From(k)) = JointCount(joints, To(k))
    BY <2>1, NoJointBetween DEF PageOf
  <2> QED BY <1>1, <2>1, <2>2, <2>3, <2>4 DEF PageOf
<1> HIDE DEF n, From, To
<1>6. n \in met
  <2>1. From(n) \in Nat /\ To(n) \in Nat /\ From(n) <= c.from /\ c.from < To(n)
    BY <1>3, <1>5
  <2> QED BY <1>1, <1>3, <2>1
<1>7. ASSUME NEW k \in met PROVE n <= k
  <2> SUFFICES ASSUME k < n PROVE FALSE
    BY <1>1, <1>2
  <2>1. k \in pages /\ c.from < To(k) /\ To(k) \in Nat /\ JointCount(joints, To(k)) = k - 1
    BY <1>5
  <2>2. JointCount(joints, c.from) <= JointCount(joints, To(k))
    BY <1>1, <2>1, MoreJoints
  <2> QED BY <1>1, <2>1, <2>2 DEF n
<1>8. PageNumber(c, joints) = First(met)
  <2>1. PageNumber(c, joints) = IF met = {} THEN Latest(pages) ELSE First(met)
    BY DEF PageNumber, From, To
  <2> QED BY <1>6, <2>1
<1>9. met \subseteq Nat
  OBVIOUS
<1> HIDE DEF met, pages
<1>10. First(met) \in met /\ First(met) <= n
  BY <1>6, <1>9, FirstIsFirst
<1>11. First(met) = n
  <2>1. First(met) \in Nat /\ n <= First(met)
    BY <1>7, <1>9, <1>10
  <2> QED BY <1>2, <1>10, <2>1
<1> QED BY <1>2, <1>8, <1>11

\* A chunk begins with a letter, so the invariant shows both.
LEMMA ChunkerConclusion == ChunkerInv => ChunksCoverText
<1> SUFFICES ASSUME ChunkerInv PROVE PagesFollowChunks
  BY ChunkerCovers DEF ChunksCoverText
<1>1. ChunkerTypeOK
  BY DEF ChunkerInv
<1>2. \A i \in DOMAIN chunks : chunks[i] \in Spans /\ ChunkInShape(chunks[i])
  BY <1>1, SpansAreSpans DEF ChunkerInv, ChunksInOrder
<1> QED BY <1>1, <1>2, PagesAreFound DEF PagesFollowChunks

\* For any texts and limits: the chunks of a document keep within the limit, hold each letter once,
\* and are found on the pages where they begin.
THEOREM ChunksAlwaysCover == ChunkerSpec => []ChunksCoverText
BY ChunkerStart, ChunkerStep, ChunkerConclusion, PTL DEF ChunkerSpec

-----------------------------------------------------------------------------
(* What an answer cites.                                                     *)

(* Answering.  The inductive invariant: the prompt holds what the sources  *)
(* are to be shown as, the numbers in the answer are numbers of the        *)
(* prompt, and the sources marked are the ones at those places.            *)

\* From the prompt on, its passages are the sources of that form, in the order of the sources.
Prompted ==
    stage \in {"answer", "mark", "end"} =>
        \A r \in {"full", "compressed"} : prompt[r] \in Filtered(sources, Represented(r))

\* The numbers in the answer are those of passages of the prompt that it means.
CitedAre == stage \in {"mark", "end"} => \E meant \in SUBSET Selected : cited = {Number(x) : x \in meant}

\* The sources marked at the end are those the code marks.
UsedAre == stage = "end" => used = Marked

\* The invariant.
AnsweringInv ==
    rate \in [Passages -> Rates] /\ sources \in Found /\ Prompted /\ CitedAre /\ UsedAre

\* A list of passages is a sequence that repeats none.
LEMMA Lists ==
    ASSUME NEW s \in Found
    PROVE  /\ s \in Seq(Passages)
           /\ \A i, j \in DOMAIN s : s[i] = s[j] => i = j
           /\ ToSet(s) = {s[i] : i \in DOMAIN s}
<1>1. Cardinality(Passages) \in Nat
  BY AnsweringAssumption, FS_CardinalityType DEF AnsweringAssumption
<1>2. PICK n \in 0..Cardinality(Passages) : s \in [1..n -> Passages]
  BY DEF Found, SeqOf
<1>3. n \in Nat
  BY <1>1, <1>2
<1> QED BY <1>2, <1>3 DEF Found, IsInjective, ToSet

\* A filter keeps the order.
LEMMA FilterKeepsOrder ==
    ASSUME NEW s \in Found, NEW S, NEW t \in Filtered(s, S)
    PROVE  /\ t \in Found /\ ToSet(t) = S
           /\ \A i, j \in DOMAIN t : i < j => InFront(s, t[i], t[j])
BY DEF Filtered, Arranged

\* Nothing has been retrieved at first, ...
LEMMA AnsweringStart == AnsweringInit => AnsweringInv
<1> SUFFICES ASSUME AnsweringInit PROVE AnsweringInv
  OBVIOUS
<1>0. rate \in [Passages -> Rates]
  BY DEF AnsweringInit
<1>1. Cardinality(Passages) \in Nat
  BY AnsweringAssumption, FS_CardinalityType DEF AnsweringAssumption
<1>2. <<>> \in [1..0 -> Passages]
  OBVIOUS
<1>3. <<>> \in SeqOf(Passages, Cardinality(Passages))
  BY <1>1, <1>2 DEF SeqOf
<1>4. IsInjective(<<>>)
  BY DEF IsInjective
<1> QED BY <1>0, <1>3, <1>4 DEF AnsweringInit, AnsweringInv, Found, Prompted, CitedAre, UsedAre

\* ... and every step goes on with a list, or with what was made of it.
LEMMA AnsweringStep == AnsweringInv /\ [AnsweringNext]_answeringVars => AnsweringInv'
<1> SUFFICES ASSUME AnsweringInv, [AnsweringNext]_answeringVars PROVE AnsweringInv'
  OBVIOUS
<1> USE DEF AnsweringInv
<1>1. CASE UNCHANGED answeringVars
  <2>1. /\ stage' = stage /\ sources' = sources /\ rate' = rate /\ prompt' = prompt
        /\ cited' = cited /\ used' = used
    BY <1>1 DEF answeringVars
  <2>2. Prompted'
    BY <2>1 DEF Prompted, Filtered, Arranged, InFront, Represented, Representation
  <2>3. CitedAre'
    BY <2>1 DEF CitedAre, Selected, Number
  <2>4. UsedAre'
    BY <2>1 DEF UsedAre, Marked
  <2> QED BY <2>1, <2>2, <2>3, <2>4
<1>2. CASE Retrieve
  BY <1>2 DEF Retrieve, Goes, Prompted, CitedAre, UsedAre
<1>3. CASE Lose
  BY <1>3 DEF Lose, Goes, Prompted, CitedAre, UsedAre
<1>4. CASE Rerank
  BY <1>4 DEF Rerank, Goes, Prompted, CitedAre, UsedAre
<1>5. CASE Filter
  BY <1>5 DEF Filter, Arranged, Goes, Prompted, CitedAre, UsedAre
<1>6. CASE Promote
  BY <1>6 DEF Promote, Arranged, Goes, Prompted, CitedAre, UsedAre
<1>7. CASE BuildContext
  <2>1. prompt'["full"] \in Filtered(sources, Represented("full"))
        /\ prompt'["compressed"] \in Filtered(sources, Represented("compressed"))
    BY <1>7 DEF BuildContext
  <2>2. sources' = sources /\ rate' = rate /\ stage' = "answer"
    BY <1>7 DEF BuildContext, Goes
  <2> QED BY <2>1, <2>2 DEF Prompted, CitedAre, UsedAre, Filtered, Arranged, InFront, Represented, Representation
<1>8. CASE Answer
  <2>1. sources' = sources /\ rate' = rate /\ prompt' = prompt /\ stage = "answer" /\ stage' = "mark"
    BY <1>8 DEF Answer, Goes
  <2>2. Prompted'
    BY <2>1 DEF Prompted, Filtered, Arranged, InFront, Represented, Representation
  <2>3. CitedAre'
    BY <1>8, <2>1 DEF Answer, CitedAre, Selected, Number
  <2> QED BY <2>1, <2>2, <2>3 DEF UsedAre
<1>9. CASE Mark
  <2>1. /\ sources' = sources /\ rate' = rate /\ prompt' = prompt /\ cited' = cited
        /\ stage = "mark" /\ stage' = "end" /\ used' = Marked
    BY <1>9 DEF Mark, Goes
  <2>2. Prompted'
    BY <2>1 DEF Prompted, Filtered, Arranged, InFront, Represented, Representation
  <2>3. CitedAre'
    BY <2>1 DEF CitedAre, Selected, Number
  <2> QED BY <2>1, <2>2, <2>3 DEF UsedAre, Marked
<1> QED BY <1>1, <1>2, <1>3, <1>4, <1>5, <1>6, <1>7, <1>8, <1>9 DEF AnsweringNext

\* A set of places that has all before each of its own is the beginning of the list.
LEMMA Beginnings ==
    ASSUME NEW n \in Nat, NEW F \in SUBSET (1..n), \A i \in F : \A j \in 1..i : j \in F
    PROVE  \E a \in 0..n : F = 1..a
<1> DEFINE Out == {i \in Nat : i + 1 \notin F}
<1>1. n \in Out
  OBVIOUS
<1>2. PICK a \in Out : \A m \in Out : a <= m
  BY <1>1, LeastNumber
<1>3. a \in Nat /\ a <= n /\ a + 1 \notin F
  BY <1>1, <1>2
<1>4. \A i \in 1..a : i \in F
  <2> SUFFICES ASSUME NEW i \in 1..a PROVE i \in F
    OBVIOUS
  <2>1. i - 1 \in Nat /\ i - 1 < a /\ (i - 1) + 1 = i
    BY <1>3
  <2> QED BY <1>2, <2>1
<1>5. \A i \in F : i \in 1..a
  <2> SUFFICES ASSUME NEW i \in F, i \notin 1..a PROVE FALSE
    OBVIOUS
  <2>1. i \in 1..n /\ a + 1 \in 1..i
    BY <1>3
  <2> QED BY <1>3, <2>1
<1>6. F = 1..a
  BY <1>4, <1>5
<1> QED BY <1>3, <1>6

\* What grows from place to place and meets every number from a + 1 to b is a + 1, a + 2, ...
LEMMA Ladders ==
    ASSUME NEW a \in Nat, NEW b \in Nat, NEW m \in Nat, NEW f \in [1..m -> (a + 1)..b],
           \A i, j \in 1..m : i < j => f[i] < f[j],
           \A k \in (a + 1)..b : \E i \in 1..m : f[i] = k
    PROVE  \A i \in 1..m : f[i] = a + i
<1> DEFINE Off == {i \in 1..m : f[i] # a + i}
<1> SUFFICES ASSUME Off # {} PROVE FALSE
  OBVIOUS
<1>0. Off \subseteq Nat
  OBVIOUS
<1>1. PICK i \in Off : \A j \in Off : i <= j
  <2> HIDE DEF Off
  <2> QED BY <1>0, LeastNumber
<1>2. i \in 1..m /\ f[i] \in (a + 1)..b /\ f[i] # a + i
  BY <1>1
<1>3. \A j \in 1..m : j < i => f[j] = a + j
  BY <1>1, <1>2
<1>4. f[i] > a + i
  <2> SUFFICES ASSUME f[i] < a + i PROVE FALSE
    BY <1>2, SMTT(30)
  <2> DEFINE j == f[i] - a
  <2>1. j \in 1..m /\ j < i
    BY <1>2, SMTT(30)
  <2>2. f[j] = a + j
    BY <1>3, <2>1
  <2>3. f[j] = f[i]
    BY <1>2, <2>2
  <2> QED BY <1>2, <2>1, <2>3
<1>5. a + i \in (a + 1)..b
  BY <1>2, <1>4
<1>6. PICK k \in 1..m : f[k] = a + i
  BY <1>5
<1>7. k < i
  <2>1. k # i
    BY <1>2, <1>6
  <2>2. ~(i < k)
    BY <1>2, <1>4, <1>6
  <2> QED BY <1>2, <2>1, <2>2
<1> QED BY <1>2, <1>3, <1>6, <1>7

\* A filter that keeps the places a + 1 .. b of a list is that part of it.
Between(s, a, b) == {s[i] : i \in (a + 1)..b}

LEMMA FilterOfARange ==
    ASSUME NEW s \in Found, NEW a \in Nat, NEW b \in Nat, a <= b, b <= Len(s),
           NEW t \in Filtered(s, Between(s, a, b))
    PROVE  /\ Len(t) = b - a
           /\ \A i \in 1..Len(t) : t[i] = s[a + i]
<1>1. /\ s \in Seq(Passages) /\ DOMAIN s = 1..Len(s) /\ Len(s) \in Nat
      /\ \A i, j \in DOMAIN s : s[i] = s[j] => i = j
  BY Lists
<1>2. /\ t \in Found /\ ToSet(t) = Between(s, a, b)
      /\ \A i, j \in DOMAIN t : i < j => InFront(s, t[i], t[j])
  BY FilterKeepsOrder
<1>3. t \in Seq(Passages) /\ DOMAIN t = 1..Len(t) /\ Len(t) \in Nat /\ ToSet(t) = {t[i] : i \in DOMAIN t}
  BY <1>2, Lists
<1>4. \A i \in 1..Len(t) : \E k \in (a + 1)..b : t[i] = s[k]
  BY <1>2, <1>3 DEF Between
<1> DEFINE f == [i \in 1..Len(t) |-> CHOOSE k \in (a + 1)..b : t[i] = s[k]]
<1>5. \A i \in 1..Len(t) : f[i] \in (a + 1)..b /\ t[i] = s[f[i]]
  BY <1>4
<1>6. f \in [1..Len(t) -> (a + 1)..b]
  BY <1>5
<1>7. \A k \in (a + 1)..b : k \in DOMAIN s
  BY <1>1
<1>8. ASSUME NEW i \in 1..Len(t), NEW j \in 1..Len(t), i < j PROVE f[i] < f[j]
  <2>1. InFront(s, t[i], t[j])
    BY <1>2, <1>3, <1>8
  <2>2. PICK k, l \in DOMAIN s : k < l /\ s[k] = t[i] /\ s[l] = t[j]
    BY <2>1 DEF InFront
  <2>3. k = f[i] /\ l = f[j]
    BY <1>1, <1>5, <1>7, <2>2
  <2> QED BY <2>2, <2>3
<1>9. ASSUME NEW k \in (a + 1)..b PROVE \E i \in 1..Len(t) : f[i] = k
  <2>1. PICK i \in 1..Len(t) : t[i] = s[k]
    BY <1>2, <1>3 DEF Between
  <2>2. f[i] = k
    BY <1>1, <1>5, <1>7, <2>1
  <2> QED BY <2>2
<1> HIDE DEF f
<1>10. \A i \in 1..Len(t) : f[i] = a + i
  BY <1>3, <1>6, <1>8, <1>9, Ladders
<1>11. Len(t) <= b - a
  <2>1. CASE Len(t) = 0
    BY <2>1
  <2>2. CASE Len(t) # 0
    <3>1. Len(t) \in 1..Len(t)
      BY <1>3, <2>2
    <3> QED BY <1>3, <1>6, <1>10, <3>1
  <2> QED BY <2>1, <2>2
<1>12. b - a <= Len(t)
  <2>1. CASE a = b
    BY <1>3, <2>1
  <2>2. CASE a # b
    <3>1. PICK i \in 1..Len(t) : f[i] = b
      BY <1>9, <2>2
    <3> QED BY <1>3, <1>10, <3>1
  <2> QED BY <2>1, <2>2
<1>13. Len(t) = b - a
  BY <1>3, <1>11, <1>12
<1> HIDE DEF f
<1> QED BY <1>5, <1>10, <1>13

\* With the sources in the order of their scores, what is shown in full comes first, and then
\* what is compressed.
LEMMA PromptFollowsSources ==
    ASSUME AnsweringInv, stage = "end", InScoreOrder(sources)
    PROVE  \E a, b \in Nat :
              /\ a <= b /\ b <= Len(sources)
              /\ Len(prompt.full) = a /\ Len(prompt.compressed) = b - a
              /\ DOMAIN prompt.full = 1..a /\ DOMAIN prompt.compressed = 1..(b - a)
              /\ \A i \in 1..a : prompt.full[i] = sources[i]
              /\ \A i \in 1..(b - a) : prompt.compressed[i] = sources[a + i]
<1> DEFINE n == Len(sources)
           F == {i \in 1..n : Representation(i) = "full"}
           G == {i \in 1..n : Representation(i) \in {"full", "compressed"}}
<1>1. /\ sources \in Found /\ sources \in Seq(Passages) /\ DOMAIN sources = 1..n /\ n \in Nat
      /\ \A i \in 1..n : rate[sources[i]] \in Rates
      /\ FullTop \in Nat
  BY Lists, AnsweringAssumption DEF AnsweringInv, AnsweringAssumption
<1>2. ASSUME NEW i \in 1..n, NEW j \in 1..n, j < i
      PROVE  <<rate[sources[i]], rate[sources[j]]>> \notin Better
  BY <1>1, <1>2 DEF InScoreOrder
<1>3. ASSUME NEW i \in F, NEW j \in 1..i PROVE j \in F
  <2>1. j \in 1..n /\ i \in 1..n /\ Representation(i) = "full"
    BY <1>1
  <2>2. CASE j <= FullTop \/ j = i
    BY <2>1, <2>2 DEF Representation
  <2>3. CASE ~(j <= FullTop) /\ j # i
    <3>1. j < i /\ ~(i <= FullTop)
      BY <1>1, <2>1, <2>3
    <3>2. rate[sources[i]] = "full" /\ rate[sources[j]] \in Rates
      BY <1>1, <2>1, <3>1 DEF Representation
    <3>3. rate[sources[j]] = "full"
      BY <1>2, <2>1, <3>1, <3>2 DEF Better, Rates
    <3> QED BY <2>1, <2>3, <3>3 DEF Representation
  <2> QED BY <2>2, <2>3
<1>4. ASSUME NEW i \in G, NEW j \in 1..i PROVE j \in G
  <2>1. j \in 1..n /\ i \in 1..n /\ Representation(i) \in {"full", "compressed"}
    BY <1>1
  <2>2. CASE j <= FullTop \/ j = i
    BY <2>1, <2>2 DEF Representation
  <2>3. CASE ~(j <= FullTop) /\ j # i
    <3>1. j < i /\ ~(i <= FullTop)
      BY <1>1, <2>1, <2>3
    <3>2. rate[sources[i]] \in {"full", "compressed"} /\ rate[sources[j]] \in Rates
      BY <1>1, <2>1, <3>1 DEF Representation
    <3>3. rate[sources[j]] \in {"full", "compressed"}
      BY <1>2, <2>1, <3>1, <3>2 DEF Better, Rates
    <3> QED BY <2>1, <2>3, <3>3 DEF Representation
  <2> QED BY <2>2, <2>3
<1>5. PICK a \in 0..n : F = 1..a
  <2> HIDE DEF F
  <2>1. F \subseteq 1..n
    BY DEF F
  <2> QED BY <1>1, <1>3, <2>1, Beginnings
<1>6. PICK b \in 0..n : G = 1..b
  <2> HIDE DEF G
  <2>1. G \subseteq 1..n
    BY DEF G
  <2> QED BY <1>1, <1>4, <2>1, Beginnings
<1>7. a \in Nat /\ b \in Nat /\ a <= n /\ b <= n
  BY <1>1
<1>8. a <= b
  <2>1. F \subseteq G
    OBVIOUS
  <2>2. CASE a = 0
    BY <1>7, <2>2
  <2>3. CASE a # 0
    <3>1. a \in F
      BY <1>5, <1>7, <2>3
    <3>2. a \in 1..b
      BY <1>6, <2>1, <3>1
    <3> QED BY <1>7, <3>2
  <2> QED BY <2>2, <2>3
<1>9. Represented("full") = Between(sources, 0, a)
  <2>1. Represented("full") = {sources[i] : i \in F}
    BY <1>1 DEF Represented
  <2>2. (0 + 1)..a = F
    BY <1>5
  <2> QED BY <2>1, <2>2 DEF Between
<1>10. Represented("compressed") = Between(sources, a, b)
  <2>1. Represented("compressed") = {sources[i] : i \in G \ F}
    BY <1>1 DEF Represented
  <2>2. G \ F = (a + 1)..b
    <3> HIDE DEF F, G
    <3> QED BY <1>5, <1>6, <1>7
  <2> QED BY <2>1, <2>2 DEF Between
<1>11. /\ prompt.full \in Filtered(sources, Represented("full"))
       /\ prompt.compressed \in Filtered(sources, Represented("compressed"))
  BY DEF AnsweringInv, Prompted
<1>12. Len(prompt.full) = a - 0 /\ \A i \in 1..Len(prompt.full) : prompt.full[i] = sources[0 + i]
  <2>1. sources \in Found /\ 0 \in Nat /\ a \in Nat /\ 0 <= a /\ a <= Len(sources)
    BY <1>1, <1>7
  <2> HIDE DEF F, G
  <2> QED BY <1>9, <1>11, <2>1, FilterOfARange
<1>13. /\ Len(prompt.compressed) = b - a
       /\ \A i \in 1..Len(prompt.compressed) : prompt.compressed[i] = sources[a + i]
  <2>1. sources \in Found /\ a \in Nat /\ b \in Nat /\ a <= b /\ b <= Len(sources)
    BY <1>1, <1>7, <1>8
  <2> HIDE DEF F, G
  <2> QED BY <1>10, <1>11, <2>1, FilterOfARange
<1>14. /\ prompt.full \in Seq(Passages) /\ prompt.compressed \in Seq(Passages)
  BY <1>1, <1>11, FilterKeepsOrder, Lists
<1>15. /\ Len(prompt.full) = a /\ DOMAIN prompt.full = 1..a /\ DOMAIN prompt.compressed = 1..(b - a)
       /\ \A i \in 1..a : prompt.full[i] = sources[i]
  <2> HIDE DEF F, G
  <2>1. Len(prompt.full) = a /\ Len(prompt.compressed) = b - a
    BY <1>7, <1>12, <1>13
  <2>2. \A s \in Seq(Passages) : DOMAIN s = 1..Len(s)
    OBVIOUS
  <2>3. DOMAIN prompt.full = 1..a /\ DOMAIN prompt.compressed = 1..(b - a)
    BY <1>14, <2>1, <2>2
  <2>4. ASSUME NEW i \in 1..a  PROVE prompt.full[i] = sources[i]
    BY <1>7, <1>12, <2>1
  <2> QED BY <2>1, <2>3, <2>4
<1> QED BY <1>7, <1>8, <1>13, <1>15

\* Then every passage that is shown has the number of its place among the sources.
LEMMA NumbersArePlaces ==
    ASSUME AnsweringInv, stage = "end", InScoreOrder(sources)
    PROVE  \E b \in Nat :
              /\ 1..b \subseteq DOMAIN sources
              /\ Selected = {sources[i] : i \in 1..b}
              /\ \A i \in 1..b : Number(sources[i]) = i
<1>1. PICK a, b \in Nat :
              /\ a <= b /\ b <= Len(sources)
              /\ Len(prompt.full) = a /\ Len(prompt.compressed) = b - a
              /\ DOMAIN prompt.full = 1..a /\ DOMAIN prompt.compressed = 1..(b - a)
              /\ \A i \in 1..a : prompt.full[i] = sources[i]
              /\ \A i \in 1..(b - a) : prompt.compressed[i] = sources[a + i]
  BY PromptFollowsSources
<1>2. /\ DOMAIN sources = 1..Len(sources) /\ Len(sources) \in Nat
      /\ \A i, j \in DOMAIN sources : sources[i] = sources[j] => i = j
  BY Lists DEF AnsweringInv
<1>3. 1..b \subseteq DOMAIN sources
  BY <1>1, <1>2
<1>4. Selected = {sources[i] : i \in 1..b}
  <2>1. ToSet(prompt.full) = {sources[i] : i \in 1..a}
    BY <1>1 DEF ToSet
  <2>2. ToSet(prompt.compressed) = {sources[a + i] : i \in 1..(b - a)}
    BY <1>1 DEF ToSet
  <2>3. ASSUME NEW i \in 1..b PROVE sources[i] \in Selected
    <3>1. CASE i <= a
      BY <1>1, <2>1, <3>1 DEF Selected
    <3>2. CASE i > a
      <4>1. i - a \in 1..(b - a) /\ a + (i - a) = i
        BY <1>1, <3>2
      <4> QED BY <2>2, <4>1 DEF Selected
    <3> QED BY <1>1, <3>1, <3>2
  <2>4. ASSUME NEW x \in Selected PROVE x \in {sources[i] : i \in 1..b}
    <3>1. CASE x \in ToSet(prompt.full)
      BY <1>1, <2>1, <3>1
    <3>2. CASE x \in ToSet(prompt.compressed)
      <4>1. PICK i \in 1..(b - a) : x = sources[a + i]
        BY <2>2, <3>2
      <4>2. a + i \in 1..b
        BY <1>1
      <4> QED BY <4>1, <4>2
    <3> QED BY <3>1, <3>2 DEF Selected
  <2> QED BY <2>3, <2>4
<1>5. ASSUME NEW i \in 1..b PROVE Number(sources[i]) = i
  <2> DEFINE IsNumber(k) ==
                \/ k \in DOMAIN prompt.full /\ prompt.full[k] = sources[i]
                \/ k > Len(prompt.full) /\ prompt.compressed[k - Len(prompt.full)] = sources[i]
  <2>1. Len(prompt.full) + Len(prompt.compressed) = b
    BY <1>1
  <2>2. IsNumber(i)
    <3>1. CASE i <= a
      BY <1>1, <3>1
    <3>2. CASE i > a
      <4>1. i - a \in 1..(b - a) /\ a + (i - a) = i
        BY <1>1, <3>2
      <4> QED BY <1>1, <3>2, <4>1
    <3> QED BY <1>1, <3>1, <3>2
  <2>3. ASSUME NEW k \in 1..b, IsNumber(k) PROVE k = i
    <3>1. CASE k \in 1..a
      BY <1>1, <1>2, <1>3, <2>3, <3>1, SMTT(30)
    <3>2. CASE k \notin 1..a
      <4>1. k > a /\ k - a \in 1..(b - a) /\ a + (k - a) = k
        BY <1>1, <3>2
      <4>2. prompt.compressed[k - a] = sources[k]
        BY <1>1, <4>1
      <4>3. sources[k] = sources[i]
        BY <1>1, <2>3, <3>2, <4>2
      <4> QED BY <1>2, <1>3, <4>3
    <3> QED BY <3>1, <3>2
  <2>4. Number(sources[i]) = CHOOSE k \in 1..b : IsNumber(k)
    BY <2>1 DEF Number, NumberIn
  <2> HIDE DEF IsNumber
  <2> QED BY <2>2, <2>3, <2>4
<1> QED BY <1>3, <1>4, <1>5

\* What is marked at a number is what the answer meant by it.
LEMMA AnsweringConclusion == AnsweringInv => CitationsFollowScores
<1> SUFFICES ASSUME AnsweringInv, InScoreOrder(sources), stage = "end"
             PROVE  cited = {Number(x) : x \in used \cap Selected} /\ used \subseteq Selected
  BY DEF CitationsFollowScores, CitationsNameSources
<1>1. PICK b \in Nat :
              /\ 1..b \subseteq DOMAIN sources
              /\ Selected = {sources[i] : i \in 1..b}
              /\ \A i \in 1..b : Number(sources[i]) = i
  BY NumbersArePlaces
<1>2. PICK meant \in SUBSET Selected : cited = {Number(x) : x \in meant}
  BY DEF AnsweringInv, CitedAre
<1>3. used = {sources[i] : i \in cited \cap DOMAIN sources}
  BY DEF AnsweringInv, UsedAre, Marked
<1>4. ASSUME NEW x \in used PROVE x \in meant
  <2>1. PICK i \in cited : x = sources[i]
    BY <1>3
  <2>2. PICK y \in meant : i = Number(y)
    BY <1>2, <2>1
  <2>3. PICK j \in 1..b : y = sources[j]
    BY <1>1, <2>2
  <2>4. i = j
    BY <1>1, <2>2, <2>3
  <2> QED BY <2>1, <2>2, <2>3, <2>4
<1>5. ASSUME NEW x \in meant PROVE x \in used
  <2>1. PICK j \in 1..b : x = sources[j]
    BY <1>1, <1>2
  <2>2. j = Number(x) /\ j \in DOMAIN sources
    BY <1>1, <2>1
  <2>3. j \in cited
    BY <1>2, <2>2
  <2> QED BY <1>3, <2>1, <2>2, <2>3
<1>6. used = meant
  BY <1>4, <1>5
<1> QED BY <1>2, <1>6

\* For any passages and limits, and whatever the rerankers and filters leave: an answer whose
\* sources are in the order of their scores is said to have used exactly what it cites.
THEOREM CitationsAreRight == AnsweringSpec => []CitationsFollowScores
<1> QED BY AnsweringStart, AnsweringStep, AnsweringConclusion, PTL DEF AnsweringSpec

-----------------------------------------------------------------------------
(* What an evaluation leaves behind and concludes.                           *)

(* Sums and averages.                                                        *)

\* What is added for the k-th case.
Part(values, k) == IF k \in DOMAIN values THEN values[k] ELSE 0

\* The sum is what its recursive definition says: there is a function that it describes.
LEMMA SumsAreSums ==
    ASSUME NEW n \in Nat, NEW values, \A k \in DOMAIN values : values[k] \in Nat
    PROVE  \E s \in [0..n -> Nat] :
              /\ s[0] = 0 /\ \A k \in 1..n : s[k] = s[k - 1] + Part(values, k)
              /\ AddedUp(values, n) = s[n]
<1> DEFINE Adds(s, m) == s = [k \in 0..m |-> IF k = 0 THEN 0 ELSE s[k - 1] + Part(values, k)]
           Unsummed == {m \in Nat : \A s : ~Adds(s, m)}
<1>1. Unsummed = {}
  <2> SUFFICES ASSUME Unsummed # {} PROVE FALSE
    OBVIOUS
  <2>1. PICK m \in Unsummed : \A k \in Unsummed : m <= k
    <3>1. Unsummed \subseteq Nat
      OBVIOUS
    <3> HIDE DEF Unsummed
    <3> QED BY <3>1, LeastNumber
  <2>2. m \in Nat /\ \A s : ~Adds(s, m)
    BY <2>1
  <2>3. CASE m = 0
    <3> DEFINE t == [k \in 0..m |-> 0]
    <3>1. ASSUME NEW k \in 0..m PROVE t[k] = IF k = 0 THEN 0 ELSE t[k - 1] + Part(values, k)
      <4>1. k = 0 /\ t[k] = 0
        BY <2>3
      <4> HIDE DEF t
      <4> QED BY <4>1
    <3>2. Adds(t, m)
      <4> HIDE DEF t
      <4>1. t = [k \in 0..m |-> t[k]]
        BY DEF t
      <4> QED BY <3>1, <4>1
    <3> QED BY <2>2, <3>2
  <2>4. CASE m # 0
    <3>1. m - 1 \in Nat /\ m - 1 \notin Unsummed
      <4> HIDE DEF Unsummed, Adds
      <4>1. m - 1 \in Nat /\ ~(m <= m - 1)
        BY <2>2, <2>4
      <4> QED BY <2>1, <4>1
    <3>2. PICK s : Adds(s, m - 1)
      BY <3>1
    <3> DEFINE t == [k \in 0..m |-> IF k < m THEN s[k] ELSE s[m - 1] + Part(values, m)]
    <3>3. ASSUME NEW k \in 0..m
          PROVE  t[k] = IF k = 0 THEN 0 ELSE t[k - 1] + Part(values, k)
      <4>1. CASE k = 0
        BY <2>4, <3>2, <4>1
      <4>2. CASE k # 0 /\ k < m
        <5>1. k \in 0..(m - 1) /\ k - 1 \in 0..(m - 1) /\ k - 1 \in 0..m /\ k - 1 < m
          BY <4>2
        <5>2. s[k] = s[k - 1] + Part(values, k)
          BY <3>2, <4>2, <5>1
        <5>3. t[k] = s[k] /\ t[k - 1] = s[k - 1]
          BY <4>2, <5>1
        <5> QED BY <4>2, <5>2, <5>3
      <4>3. CASE k = m
        <5>1. m - 1 \in 0..m /\ m - 1 < m /\ ~(m < m)
          BY <2>2, <2>4
        <5> QED BY <2>4, <4>3, <5>1
      <4> QED BY <2>2, <4>1, <4>2, <4>3
    <3>4. Adds(t, m)
      <4> HIDE DEF t
      <4>1. t = [k \in 0..m |-> t[k]]
        BY DEF t
      <4> QED BY <3>3, <4>1
    <3> QED BY <2>2, <3>4
  <2> QED BY <2>3, <2>4
<1>2. \E z : Adds(z, n)
  <2> HIDE DEF Adds
  <2>1. n \notin Unsummed
    BY <1>1
  <2> QED BY <2>1
<1> DEFINE s == CHOOSE s : Adds(s, n)
<1>3. Adds(s, n)
  BY <1>2
<1>4. AddedUp(values, n) = s[n]
  BY DEF AddedUp, Part
<1> HIDE DEF s
<1>5. \A k \in 0..n : s[k] = IF k = 0 THEN 0 ELSE s[k - 1] + Part(values, k)
  BY <1>3
<1>6. s[0] = 0 /\ \A k \in 1..n : s[k] = s[k - 1] + Part(values, k)
  <2>1. 0 \in 0..n /\ \A k \in 1..n : k \in 0..n /\ k # 0
    OBVIOUS
  <2> QED BY <1>5, <2>1
<1>7. \A k : Part(values, k) \in Nat
  BY DEF Part
<1> DEFINE Wrong == {k \in 0..n : s[k] \notin Nat}
<1>8. Wrong = {}
  <2> SUFFICES ASSUME Wrong # {} PROVE FALSE
    OBVIOUS
  <2>1. PICK m \in Wrong : \A k \in Wrong : m <= k
    <3>1. Wrong \subseteq Nat
      OBVIOUS
    <3> HIDE DEF Wrong
    <3> QED BY <3>1, LeastNumber
  <2>2. m # 0
    BY <1>6, <2>1
  <2>3. m - 1 \in 0..n /\ m - 1 \notin Wrong /\ m \in 1..n
    BY <2>1, <2>2
  <2> QED BY <1>6, <1>7, <2>1, <2>3
<1>9. s \in [0..n -> Nat]
  BY <1>3, <1>8
<1> QED BY <1>4, <1>6, <1>9

\* Values of which only those in T count, and none for more than Full, add up to no more.
OnlyIn(T, values) == \A k \in DOMAIN values : values[k] <= IF k \in T THEN Full ELSE 0

\* A sum of values that are all within T is no more than a full score for each member of T.
LEMMA SumsAreBounded ==
    ASSUME NEW n \in Nat, NEW S \in SUBSET (1..n), NEW values \in [S -> Nat], NEW T \in SUBSET S,
           OnlyIn(T, values)
    PROVE  /\ AddedUp(values, n) \in Nat /\ Cardinality(T) \in Nat
           /\ AddedUp(values, n) <= Full * Cardinality(T)
<1> DEFINE C(k) == Cardinality(T \cap 1..k)
<1>1. PICK s \in [0..n -> Nat] :
              /\ s[0] = 0 /\ \A k \in 1..n : s[k] = s[k - 1] + Part(values, k)
              /\ AddedUp(values, n) = s[n]
  BY SumsAreSums
<1>2. \A k \in 0..n : IsFiniteSet(T \cap 1..k) /\ C(k) \in Nat
  <2> TAKE k \in 0..n
  <2>1. IsFiniteSet(1..k)
    BY FS_Interval
  <2> QED BY <2>1, FS_Subset, FS_CardinalityType
<1>3. ASSUME NEW k \in 1..n PROVE C(k) = C(k - 1) + IF k \in T THEN 1 ELSE 0
  <2>1. k - 1 \in 0..n
    OBVIOUS
  <2>2. CASE k \in T
    <3>1. T \cap 1..k = (T \cap 1..(k - 1)) \cup {k} /\ k \notin T \cap 1..(k - 1)
      BY <2>2
    <3>2. IsFiniteSet(T \cap 1..(k - 1))
      BY <1>2, <2>1
    <3>3. Cardinality((T \cap 1..(k - 1)) \cup {k}) = Cardinality(T \cap 1..(k - 1)) + 1
      BY <3>1, <3>2, FS_AddElement
    <3>4. C(k) = Cardinality((T \cap 1..(k - 1)) \cup {k})
      BY <3>1
    <3>5. C(k) = C(k - 1) + 1
      BY <3>3, <3>4
    <3> HIDE DEF C
    <3> QED BY <2>2, <3>5
  <2>3. CASE k \notin T
    <3>1. T \cap 1..k = T \cap 1..(k - 1)
      BY <2>3
    <3>2. C(k) = C(k - 1)
      BY <3>1
    <3>3. C(k - 1) \in Nat
      BY <1>2, <2>1
    <3> HIDE DEF C
    <3> QED BY <2>3, <3>2, <3>3
  <2> QED BY <2>2, <2>3
<1>4. \A k \in 1..n : Part(values, k) \in Nat /\ Part(values, k) <= IF k \in T THEN Full ELSE 0
  <2> TAKE k \in 1..n
  <2>1. CASE k \in S
    BY <2>1 DEF Part, OnlyIn
  <2>2. CASE k \notin S
    BY <2>2 DEF Part
  <2> QED BY <2>1, <2>2
<1>5. C(0) = 0
  <2>1. T \cap 1..0 = {}
    OBVIOUS
  <2> QED BY <2>1, FS_EmptySet
<1> HIDE DEF C
<1> DEFINE Over == {k \in 0..n : ~(s[k] <= Full * C(k))}
<1>6. Over = {}
  <2> SUFFICES ASSUME Over # {} PROVE FALSE
    OBVIOUS
  <2>1. PICK m \in Over : \A k \in Over : m <= k
    <3>1. Over \subseteq Nat
      OBVIOUS
    <3> HIDE DEF Over
    <3> QED BY <3>1, LeastNumber
  <2>2. m # 0
    BY <1>1, <1>5, <2>1 DEF Full
  <2>3. m - 1 \in 0..n /\ m - 1 \notin Over /\ m \in 1..n
    BY <2>1, <2>2
  <2>4. s[m - 1] <= Full * C(m - 1) /\ s[m - 1] \in Nat /\ C(m - 1) \in Nat
    BY <1>2, <2>3 DEF C
  <2>5. s[m] = s[m - 1] + Part(values, m)
    BY <1>1, <2>3
  <2>6. s[m] <= Full * C(m)
    <3>1. CASE m \in T
      <4>1. Part(values, m) \in Nat /\ Part(values, m) <= Full /\ C(m) = C(m - 1) + 1
        BY <1>3, <1>4, <2>3, <3>1
      <4> QED BY <2>4, <2>5, <4>1 DEF Full
    <3>2. CASE m \notin T
      <4>1. Part(values, m) \in Nat /\ Part(values, m) <= 0 /\ C(m) = C(m - 1)
        <5>1. C(m) = C(m - 1) + 0
          BY <1>3, <2>3, <3>2
        <5> QED BY <1>4, <2>3, <2>4, <3>2, <5>1
      <4> QED BY <2>4, <2>5, <4>1 DEF Full
    <3> QED BY <3>1, <3>2
  <2> QED BY <2>1, <2>6
<1>7. T \cap 1..n = T
  OBVIOUS
<1>8. n \in 0..n
  OBVIOUS
<1>9. C(n) = Cardinality(T) /\ C(n) \in Nat
  BY <1>2, <1>7, <1>8 DEF C
<1> QED BY <1>1, <1>6, <1>8, <1>9

\* What a quotient says of what is divided.
LEMMA Quotients ==
    ASSUME NEW x \in Nat, NEW y \in Nat \ {0}
    PROVE  x \div y \in Nat /\ (x \div y) * y <= x
OBVIOUS

\* One value less counts for Full less.
LEMMA OneIsMissing ==
    ASSUME NEW n \in Nat, NEW S \in SUBSET (1..n), NEW values \in [S -> Nat], NEW i \in S,
           OnlyIn(S \ {i}, values)
    PROVE  /\ AddedUp(values, n) \in Nat /\ Cardinality(S) \in Nat \ {0} /\ Cardinality(S) <= n
           /\ AddedUp(values, n) <= Full * (Cardinality(S) - 1)
<1> DEFINE T == S \ {i}
<1>1. IsFiniteSet(1..n) /\ Cardinality(1..n) = n
  <2>1. 1 \in Int /\ n \in Int
    OBVIOUS
  <2>2. IsFiniteSet(1..n)
    BY <2>1, FS_Interval
  <2>3. Cardinality(1..n) = IF 1 > n THEN 0 ELSE n - 1 + 1
    BY <2>1, FS_Interval
  <2>4. (IF 1 > n THEN 0 ELSE n - 1 + 1) = n
    OBVIOUS
  <2> QED BY <2>2, <2>3, <2>4
<1>2. IsFiniteSet(S) /\ Cardinality(S) \in Nat /\ Cardinality(S) <= n
  BY <1>1, FS_Subset, FS_CardinalityType
<1>3. IsFiniteSet(T) /\ Cardinality(T) \in Nat
  BY <1>2, FS_Subset, FS_CardinalityType
<1>4. Cardinality(T \cup {i}) = Cardinality(T) + 1
  <2>1. i \notin T
    OBVIOUS
  <2> HIDE DEF T
  <2> QED BY <1>3, <2>1, FS_AddElement
<1>5. T \cup {i} = S
  OBVIOUS
<1>6. T \in SUBSET S /\ OnlyIn(T, values)
  OBVIOUS
<1>7. AddedUp(values, n) \in Nat /\ AddedUp(values, n) <= Full * Cardinality(T)
  <2> HIDE DEF T
  <2> QED BY <1>6, SumsAreBounded
<1> HIDE DEF T
<1>8. Cardinality(S) = Cardinality(T) + 1
  BY <1>4, <1>5
<1> QED BY <1>2, <1>3, <1>7, <1>8 DEF Full

\* Four decimals are enough: a mean that is shown as 1.0 has no value that counts for nothing.
LEMMA FullMeans ==
    ASSUME NEW S \in SUBSET DOMAIN cases, DOMAIN cases = 1..Len(cases), Len(cases) \in Nat,
           Len(cases) < 20000, NEW values \in [S -> {0, Full}], Average(values) >= Full
    PROVE  \A k \in S : values[k] = Full
<1> SUFFICES ASSUME NEW i \in S, values[i] = 0 PROVE FALSE
  OBVIOUS
<1> DEFINE c == Cardinality(S)
           t == AddedUp(values, Len(cases))
<1>1. Len(cases) \in Nat /\ S \in SUBSET (1..Len(cases)) /\ DOMAIN values = S
  OBVIOUS
<1>2. values \in [S -> Nat] /\ OnlyIn(S \ {i}, values)
  BY DEF Full, OnlyIn
<1>3. /\ t \in Nat /\ c \in Nat \ {0} /\ c <= Len(cases)
      /\ t <= Full * (c - 1)
  <2>1. S \in SUBSET (1..Len(cases))
    BY <1>1
  <2>2. \A n \in Nat : S \in SUBSET (1..n) =>
          /\ AddedUp(values, n) \in Nat /\ Cardinality(S) \in Nat \ {0} /\ Cardinality(S) <= n
          /\ AddedUp(values, n) <= Full * (Cardinality(S) - 1)
    BY <1>2, OneIsMissing, SMTT(30)
  <2> QED BY <1>1, <2>1, <2>2
<1>6. Average(values) = (20000 * t + 10000 * c) \div (20000 * c)
  <2>1. DOMAIN values # {}
    BY <1>1
  <2>2. Average(values) = Share(t, Full * c)
    BY <1>1, <2>1 DEF Average, Mean
  <2> HIDE DEF t, c
  <2>3. Share(t, Full * c) = (2 * 10000 * t + 10000 * c) \div (2 * (10000 * c))
    BY DEF Share, Full
  <2>4. 2 * 10000 * t = 20000 * t /\ 2 * (10000 * c) = 20000 * c
    BY <1>3
  <2> QED BY <2>2, <2>3, <2>4
<1> HIDE DEF t, c
<1>7. c \in Nat \ {0} /\ c < 20000 /\ t <= 10000 * (c - 1)
  BY <1>3 DEF Full
<1> DEFINE x == 20000 * t + 10000 * c
           y == 20000 * c
           q == x \div y
<1>8. x \in Nat /\ y \in Nat \ {0}
  BY <1>3, <1>7
<1>9. x < 10000 * y
  BY <1>3, <1>7
<1>10. q \in Nat /\ q * y <= x
  <2> HIDE DEF x, y
  <2> QED BY <1>8, Quotients
<1>11. q >= 10000
  BY <1>6 DEF Full
<1>12. 10000 * y <= q * y
  <2> HIDE DEF x, y, q
  <2> QED BY <1>8, <1>10, <1>11
<1> HIDE DEF x, y, q
<1> QED BY <1>8, <1>9, <1>10, <1>12

\* The mean of one value that counts for nothing is nothing.
LEMMA OneMean ==
    ASSUME DOMAIN cases = 1..Len(cases), Len(cases) \in Nat, NEW i \in DOMAIN cases,
           NEW values \in [{i} -> Nat], values[i] = 0
    PROVE  Mean(values) = 0
<1> DEFINE t == AddedUp(values, Len(cases))
<1>1. t \in Nat /\ t <= Full * Cardinality({})
  <2>1. {i} \in SUBSET (1..Len(cases)) /\ {} \in SUBSET {i}
    OBVIOUS
  <2>2. OnlyIn({}, values)
    BY DEF OnlyIn
  <2> QED BY <2>1, <2>2, SumsAreBounded
<1>2. Cardinality({}) = 0 /\ Cardinality(DOMAIN values) = 1
  <2>1. DOMAIN values = {i}
    OBVIOUS
  <2> QED BY <2>1, FS_EmptySet, FS_Singleton
<1>3. t = 0
  <2> HIDE DEF t
  <2> QED BY <1>1, <1>2 DEF Full
<1>4. Mean(values) = Share(0, Full * 1)
  BY <1>2, <1>3 DEF Mean
<1> QED BY <1>4 DEF Share, Full

-----------------------------------------------------------------------------
(* What the script knows of what it made.                                    *)

\* What is kept of a case.
Case == [folder : Nat, got : Seq(Seq(Nat) \cup {Foreign}), abstained : BOOLEAN]

\* While it seeds, and while it cleans up.
Seeding == {"register", "login", "collection", "ingest", "wait", "discard"}
Cleaning == {"collections", "ended"}

\* A document is known with its collection.
Placed ==
    /\ context \subseteq Seq(Nat)
    /\ script.pc \in {"register", "login"} => context = {}
    /\ script.pc \in {"ingest", "wait", "discard"} => Here \in context
    /\ script.pc \notin Cleaning =>
          \A x \in context : Len(x) = 1 \/ (Len(x) = 3 /\ <<x[1]>> \in context)

\* What the script will still remove.
Remembered ==
    context \cup (IF script.pc \in {"wait", "discard"} THEN {Document} ELSE {})

\* Nothing is left that it neither remembers nor may have missed.
Tracked ==
    ~keep => /\ script.pc \notin Cleaning => server \subseteq unanswered \cup unremoved \cup Remembered
             /\ script.pc = "collections" =>
                   server \subseteq unanswered \cup unremoved \cup {x \in context : Len(x) = 1}
             /\ script.pc = "ended" => server \subseteq unanswered \cup unremoved

\* The cases are asked one after the other, when all is seeded.
InTurn ==
    /\ cases \in Seq(Case) /\ Len(cases) <= Len(Seeds)
    /\ \A i \in DOMAIN cases : cases[i].folder = i
    /\ script.pc \in Seeding => cases = <<>>
    /\ script.pc = "query" => Len(cases) = script.folder - 1

\* The invariant.
EvaluationInv == EvaluationTypeOK /\ Placed /\ Tracked /\ InTurn

\* The script gives up with nothing in hand, or goes on to remove what it has.
LEMMA CleansUp ==
    /\ Cleanup \in {"ended", "documents"}
    /\ Placed /\ script.pc \notin Cleaning /\ Cleanup = "ended" /\ ~keep => context = {}
BY DEF Cleanup, Placed

\* The collections are numbered.
LEMMA SeedsAreListed == Len(Seeds) \in Nat \ {0} /\ DOMAIN Seeds = 1..Len(Seeds)
BY EvaluationAssumption DEF EvaluationAssumption

\* Nothing is seeded at first.
LEMMA EvaluationStart == EvaluationInit => EvaluationInv
BY SeedsAreListed, EvaluationAssumption
   DEF EvaluationAssumption, EvaluationInit, EvaluationInv, EvaluationTypeOK, Placed, Tracked, InTurn,
       Remembered, Seeding, Cleaning

\* The types: where the script goes, and how many failures there were.
LEMMA GoesAreTyped ==
    ASSUME EvaluationTypeOK, keep' = keep,
           NEW pc \in {"register", "login", "collection", "ingest", "wait", "discard", "query",
                       "documents", "collections", "ended"},
           ScriptGoes(pc), NEW o \in Outcome, Ask(o) \/ UNCHANGED failures
    PROVE  EvaluationTypeOK'
<1>1. MaxFailures \in Nat /\ Attempts \in Nat \ {0}
  BY EvaluationAssumption DEF EvaluationAssumption
<1>2. failures' \in 0..MaxFailures
  BY <1>1 DEF EvaluationTypeOK, Ask
<1>3. 1 \in 1..Attempts
  BY <1>1
<1> QED BY <1>2, <1>3 DEF EvaluationTypeOK, ScriptGoes

\* What a place is written as.
LEMMA PlacesAreApart ==
    ASSUME EvaluationTypeOK
    PROVE  /\ Here \in Seq(Nat) /\ Len(Here) = 1
           /\ Document \in Seq(Nat) /\ Len(Document) = 3 /\ <<Document[1]>> = Here
<1>1. script.folder \in Nat /\ script.item \in Nat /\ script.try \in Nat
  BY SeedsAreListed, EvaluationAssumption DEF EvaluationAssumption, EvaluationTypeOK
<1> QED BY <1>1 DEF Here, Document

\* One lemma for each action: signing in, ...
LEMMA AuthenticateStep ==
    ASSUME EvaluationInv, NEW o \in Outcome, Authenticate(o) PROVE EvaluationInv'
<1> DEFINE pc == CASE ~Errs(o) -> "collection"
                   [] Errs(o) /\ ScriptAt("register") /\ o.error # "late" -> "login"
                   [] OTHER -> "ended"
<1>1. pc \in {"collection", "login", "ended"} /\ ScriptGoes(pc) /\ script.pc \in {"register", "login"}
  BY DEF Authenticate, ScriptAt
<1>2. /\ keep' = keep /\ server' = server /\ context' = context /\ unanswered' = unanswered
      /\ unremoved' = unremoved /\ cases' = cases
  BY DEF Authenticate
<1>3. EvaluationTypeOK'
  BY <1>1, <1>2, GoesAreTyped DEF Authenticate, EvaluationInv
<1> HIDE DEF pc
<1>4. script'.pc = pc
  BY <1>1 DEF ScriptGoes, EvaluationInv, EvaluationTypeOK
<1>5. context = {} /\ Placed'
  BY <1>1, <1>2, <1>4 DEF EvaluationInv, Placed, Cleaning
<1>6. Tracked'
  BY <1>1, <1>2, <1>4, <1>5 DEF EvaluationInv, Tracked, Remembered, Cleaning
<1>7. InTurn'
  BY <1>1, <1>2, <1>4 DEF EvaluationInv, InTurn, Seeding
<1> QED BY <1>3, <1>5, <1>6, <1>7 DEF EvaluationInv

\* ... a collection, ...
LEMMA SeedCollectionStep ==
    ASSUME EvaluationInv, NEW o \in Outcome, SeedCollection(o) PROVE EvaluationInv'
<1> DEFINE pc == IF Errs(o) THEN Cleanup ELSE "ingest"
<1>1. /\ pc \in {"ingest", "ended", "documents"} /\ ScriptGoes(pc) /\ script.pc = "collection"
      /\ keep' = keep /\ unremoved' = unremoved /\ cases' = cases
  BY CleansUp DEF SeedCollection, ScriptAt
<1>2. EvaluationTypeOK'
  BY <1>1, GoesAreTyped DEF SeedCollection, EvaluationInv
<1>3. script'.pc = pc /\ Here' = Here
  <2> HIDE DEF pc
  <2> QED BY <1>1 DEF ScriptGoes, EvaluationInv, EvaluationTypeOK, Here
<1>4. Here \in Seq(Nat) /\ Len(Here) = 1
  BY PlacesAreApart DEF EvaluationInv
<1>5. CASE Errs(o)
  <2>1. pc = Cleanup /\ context' = context
    BY <1>5 DEF SeedCollection
  <2>2. server' \ server \subseteq unanswered' /\ unanswered \subseteq unanswered'
    BY <1>5 DEF SeedCollection, Makes
  <2>3. Placed'
    BY <1>1, <1>3, <2>1, CleansUp DEF EvaluationInv, Placed, Cleaning
  <2>4. Tracked'
    <3>1. CASE Cleanup = "ended" /\ ~keep
      BY <1>1, <1>3, <2>1, <2>2, <3>1, CleansUp DEF EvaluationInv, Tracked, Remembered, Cleaning
    <3>2. CASE Cleanup = "documents" \/ keep
      BY <1>1, <1>3, <2>1, <2>2, <3>2, CleansUp DEF EvaluationInv, Tracked, Remembered, Cleaning
    <3> QED BY <3>1, <3>2, CleansUp
  <2>5. InTurn'
    BY <1>1, <1>3, <2>1, CleansUp DEF EvaluationInv, InTurn, Seeding
  <2> QED BY <1>2, <2>3, <2>4, <2>5 DEF EvaluationInv
<1>6. CASE ~Errs(o)
  <2>1. script'.pc = "ingest" /\ context' = context \cup {Here}
    BY <1>3, <1>6 DEF SeedCollection
  <2>2. server' \subseteq server \cup {Here} /\ unanswered' = unanswered
    BY <1>6 DEF SeedCollection, Makes
  <2>3. Placed'
    BY <1>1, <1>3, <1>4, <2>1 DEF EvaluationInv, Placed, Cleaning
  <2>4. Tracked'
    BY <1>1, <2>1, <2>2 DEF EvaluationInv, Tracked, Remembered, Cleaning
  <2>5. InTurn'
    BY <1>1, <2>1 DEF EvaluationInv, InTurn, Seeding
  <2> QED BY <1>2, <2>3, <2>4, <2>5 DEF EvaluationInv
<1> QED BY <1>5, <1>6

\* ... a document, ...
LEMMA IngestStep ==
    ASSUME EvaluationInv, NEW o \in Outcome, Ingest(o) PROVE EvaluationInv'
<1>1. script.pc = "ingest" /\ keep' = keep /\ unremoved' = unremoved /\ cases' = cases /\ context' = context
  BY DEF Ingest, ScriptAt
<1>2. failures' \in 0..MaxFailures
  BY EvaluationAssumption DEF EvaluationAssumption, EvaluationInv, EvaluationTypeOK, Ingest, Ask
<1>3. Here \in context
  BY <1>1 DEF EvaluationInv, Placed
<1>4. CASE ~Errs(o)
  <2>1. /\ script' = [script EXCEPT !.pc = "wait"]
        /\ server' \subseteq server \cup {Document} /\ unanswered' = unanswered
    BY <1>4 DEF Ingest, Makes, Errs
  <2>2. script'.pc = "wait" /\ Here' = Here /\ Document' = Document
    BY <2>1 DEF EvaluationInv, EvaluationTypeOK, Here, Document
  <2>3. EvaluationTypeOK'
    BY <1>1, <1>2, <2>1 DEF EvaluationInv, EvaluationTypeOK
  <2>4. Placed'
    BY <1>1, <1>3, <2>2 DEF EvaluationInv, Placed, Cleaning
  <2>5. Tracked'
    BY <1>1, <2>1, <2>2 DEF EvaluationInv, Tracked, Remembered, Cleaning
  <2>6. InTurn'
    BY <1>1, <2>2 DEF EvaluationInv, InTurn, Seeding
  <2> QED BY <2>3, <2>4, <2>5, <2>6 DEF EvaluationInv
<1>5. CASE Errs(o)
  <2>1. server' \ server \subseteq unanswered' /\ unanswered \subseteq unanswered'
    BY <1>5 DEF Ingest, Makes
  <2>2. CASE o.error = "transient" /\ script.try < Attempts
    <3>1. script' = [script EXCEPT !.try = @ + 1]
      BY <1>5, <2>2 DEF Ingest
    <3>2. script'.pc = "ingest" /\ Here' = Here
      BY <1>1, <3>1 DEF EvaluationInv, EvaluationTypeOK, Here
    <3>3. script.try + 1 \in 1..Attempts
      BY <2>2, EvaluationAssumption DEF EvaluationAssumption, EvaluationInv, EvaluationTypeOK
    <3>4. EvaluationTypeOK'
      BY <1>1, <1>2, <3>1, <3>3 DEF EvaluationInv, EvaluationTypeOK
    <3>5. Placed'
      BY <1>1, <1>3, <3>2 DEF EvaluationInv, Placed, Cleaning
    <3>6. Tracked'
      BY <1>1, <2>1, <3>2 DEF EvaluationInv, Tracked, Remembered, Cleaning
    <3>7. InTurn'
      BY <1>1, <3>2 DEF EvaluationInv, InTurn, Seeding
    <3> QED BY <3>4, <3>5, <3>6, <3>7 DEF EvaluationInv
  <2>3. CASE ~(o.error = "transient" /\ script.try < Attempts)
    <3>1. ScriptGoes(Cleanup)
      BY <1>5, <2>3 DEF Ingest
    <3>2. script'.pc = Cleanup /\ Here' = Here
      BY <3>1 DEF ScriptGoes, EvaluationInv, EvaluationTypeOK, Here
    <3>3. EvaluationTypeOK'
      BY <1>1, <3>1, CleansUp, GoesAreTyped DEF Ingest, EvaluationInv
    <3>4. Placed'
      BY <1>1, <3>2, CleansUp DEF EvaluationInv, Placed, Cleaning
    <3>5. Tracked'
      <4>1. CASE Cleanup = "ended" /\ ~keep
        BY <1>1, <2>1, <3>2, <4>1, CleansUp DEF EvaluationInv, Tracked, Remembered, Cleaning
      <4>2. CASE Cleanup = "documents" \/ keep
        BY <1>1, <2>1, <3>2, <4>2, CleansUp DEF EvaluationInv, Tracked, Remembered, Cleaning
      <4> QED BY <4>1, <4>2, CleansUp
    <3>6. InTurn'
      BY <1>1, <3>2, CleansUp DEF EvaluationInv, InTurn, Seeding
    <3> QED BY <3>3, <3>4, <3>5, <3>6 DEF EvaluationInv
  <2> QED BY <2>2, <2>3
<1> QED BY <1>4, <1>5

\* ... its processing, ...
LEMMA WaitStep ==
    ASSUME EvaluationInv, NEW ready \in BOOLEAN, Wait(ready) PROVE EvaluationInv'
<1>1. /\ script.pc = "wait" /\ keep' = keep /\ unremoved' = unremoved /\ cases' = cases
      /\ server' = server /\ unanswered' = unanswered /\ failures' = failures
  BY DEF Wait, ScriptAt
<1>2. Here \in context
  BY <1>1 DEF EvaluationInv, Placed
<1>3. Document \in Seq(Nat) /\ Len(Document) = 3 /\ <<Document[1]>> = Here
  BY PlacesAreApart DEF EvaluationInv
<1>4. CASE ready
  <2>1. /\ script' = [script EXCEPT !.pc = "ingest", !.item = @ + 1, !.try = 1]
        /\ context' = context \cup {Document}
    BY <1>4 DEF Wait
  <2>2. script'.pc = "ingest" /\ Here' = Here
    BY <2>1 DEF EvaluationInv, EvaluationTypeOK, Here
  <2>3. script.item + 1 \in Nat \ {0} /\ 1 \in 1..Attempts
    BY EvaluationAssumption DEF EvaluationAssumption, EvaluationInv, EvaluationTypeOK
  <2>4. EvaluationTypeOK'
    BY <1>1, <2>1, <2>3 DEF EvaluationInv, EvaluationTypeOK
  <2>5. Placed'
    BY <1>1, <1>2, <1>3, <2>1, <2>2 DEF EvaluationInv, Placed, Cleaning
  <2>6. Tracked'
    BY <1>1, <2>1, <2>2 DEF EvaluationInv, Tracked, Remembered, Cleaning
  <2>7. InTurn'
    BY <1>1, <2>2 DEF EvaluationInv, InTurn, Seeding
  <2> QED BY <2>4, <2>5, <2>6, <2>7 DEF EvaluationInv
<1>5. CASE ~ready
  <2>1. script' = [script EXCEPT !.pc = "discard"] /\ context' = context
    BY <1>5 DEF Wait
  <2>2. script'.pc = "discard" /\ Here' = Here /\ Document' = Document
    BY <2>1 DEF EvaluationInv, EvaluationTypeOK, Here, Document
  <2>3. EvaluationTypeOK'
    BY <1>1, <2>1 DEF EvaluationInv, EvaluationTypeOK
  <2>4. Placed'
    BY <1>1, <1>2, <2>1, <2>2 DEF EvaluationInv, Placed, Cleaning
  <2>5. Tracked'
    BY <1>1, <2>1, <2>2 DEF EvaluationInv, Tracked, Remembered, Cleaning
  <2>6. InTurn'
    BY <1>1, <2>2 DEF EvaluationInv, InTurn, Seeding
  <2> QED BY <2>3, <2>4, <2>5, <2>6 DEF EvaluationInv
<1> QED BY <1>4, <1>5

\* ... its removal, ...
LEMMA DiscardStep ==
    ASSUME EvaluationInv, NEW o \in Outcome, Discard(o) PROVE EvaluationInv'
<1>1. /\ script.pc = "discard" /\ keep' = keep /\ context' = context /\ cases' = cases
      /\ unanswered' = unanswered /\ ScriptGoes(Cleanup)
  BY DEF Discard, ScriptAt
<1>2. script'.pc = Cleanup /\ Here' = Here
  BY <1>1 DEF ScriptGoes, EvaluationInv, EvaluationTypeOK, Here
<1>3. server' \subseteq server /\ (Document \notin server' \/ Document \in unremoved') /\ unremoved \subseteq unremoved'
  BY DEF Discard, Removes
<1>4. EvaluationTypeOK'
  BY <1>1, CleansUp, GoesAreTyped DEF Discard, EvaluationInv
<1>5. Placed'
  BY <1>1, <1>2, CleansUp DEF EvaluationInv, Placed, Cleaning
<1>6. Tracked'
  <2>1. CASE Cleanup = "ended" /\ ~keep
    BY <1>1, <1>2, <1>3, <2>1, CleansUp DEF EvaluationInv, Tracked, Remembered, Cleaning
  <2>2. CASE Cleanup = "documents" \/ keep
    BY <1>1, <1>2, <1>3, <2>2, CleansUp DEF EvaluationInv, Tracked, Remembered, Cleaning
  <2> QED BY <2>1, <2>2, CleansUp
<1>7. InTurn'
  BY <1>1, <1>2, CleansUp DEF EvaluationInv, InTurn, Seeding
<1> QED BY <1>4, <1>5, <1>6, <1>7 DEF EvaluationInv

\* ... the next collection, ...
LEMMA NextCollectionStep == ASSUME EvaluationInv, NextCollection PROVE EvaluationInv'
<1>1. /\ script.pc = "ingest" /\ keep' = keep /\ context' = context /\ cases' = cases
      /\ unanswered' = unanswered /\ unremoved' = unremoved /\ server' = server /\ failures' = failures
  BY DEF NextCollection, ScriptAt
<1>2. cases = <<>>
  BY <1>1 DEF EvaluationInv, InTurn, Seeding
<1>3. 1 \in 1..Attempts /\ script.folder \in 1..Len(Seeds)
  BY SeedsAreListed, EvaluationAssumption DEF EvaluationAssumption, EvaluationInv, EvaluationTypeOK
<1>4. CASE script.folder < Len(Seeds)
  <2>1. script' = [pc |-> "collection", folder |-> script.folder + 1, item |-> 1, try |-> 1]
    BY <1>4 DEF NextCollection
  <2>2. script'.pc = "collection" /\ script.folder + 1 \in DOMAIN Seeds
    BY <1>3, <1>4, <2>1, SeedsAreListed
  <2>3. EvaluationTypeOK'
    BY <1>1, <1>3, <2>1, <2>2 DEF EvaluationInv, EvaluationTypeOK
  <2>4. Placed' /\ Tracked'
    BY <1>1, <2>2 DEF EvaluationInv, Placed, Tracked, Remembered, Cleaning
  <2>5. InTurn'
    BY <1>1, <2>2 DEF EvaluationInv, InTurn, Seeding
  <2> QED BY <2>3, <2>4, <2>5 DEF EvaluationInv
<1>5. CASE ~(script.folder < Len(Seeds))
  <2>1. script' = [pc |-> "query", folder |-> 1, item |-> 1, try |-> 1]
    BY <1>5 DEF NextCollection
  <2>2. script'.pc = "query" /\ script'.folder = 1 /\ 1 \in DOMAIN Seeds
    BY <2>1, SeedsAreListed
  <2>3. EvaluationTypeOK'
    BY <1>1, <1>3, <2>1, <2>2 DEF EvaluationInv, EvaluationTypeOK
  <2>4. Placed' /\ Tracked'
    BY <1>1, <2>2 DEF EvaluationInv, Placed, Tracked, Remembered, Cleaning
  <2>5. InTurn'
    BY <1>1, <1>2, <2>2 DEF EvaluationInv, InTurn, Seeding
  <2> QED BY <2>3, <2>4, <2>5 DEF EvaluationInv
<1> QED BY <1>4, <1>5

\* ... a case, ...
LEMMA QueryStep ==
    ASSUME EvaluationInv, NEW o \in Outcome, NEW got \in Answers, NEW abstained \in BOOLEAN,
           Query(o, got, abstained)
    PROVE  EvaluationInv'
<1>1. /\ script.pc = "query" /\ keep' = keep /\ context' = context
      /\ unanswered' = unanswered /\ unremoved' = unremoved /\ server' = server
  BY DEF Query, ScriptAt
<1>2. Len(cases) = script.folder - 1 /\ cases \in Seq(Case) /\ script.folder \in 1..Len(Seeds)
  BY <1>1, SeedsAreListed DEF EvaluationInv, InTurn, EvaluationTypeOK
<1>3. failures' \in 0..MaxFailures
  BY EvaluationAssumption DEF EvaluationAssumption, EvaluationInv, EvaluationTypeOK, Query, Ask
<1>4. CASE Errs(o)
  <2>1. ScriptGoes(Cleanup) /\ cases' = cases
    BY <1>4 DEF Query
  <2>2. script'.pc = Cleanup
    BY <2>1 DEF ScriptGoes, EvaluationInv, EvaluationTypeOK
  <2>3. EvaluationTypeOK'
    BY <1>1, <2>1, CleansUp, GoesAreTyped DEF Query, EvaluationInv
  <2>4. Placed'
    BY <1>1, <2>2, CleansUp DEF EvaluationInv, Placed, Cleaning
  <2>5. Tracked'
    <3>1. CASE Cleanup = "ended" /\ ~keep
      BY <1>1, <2>2, <3>1, CleansUp DEF EvaluationInv, Tracked, Remembered, Cleaning
    <3>2. CASE Cleanup = "documents" \/ keep
      BY <1>1, <2>2, <3>2, CleansUp DEF EvaluationInv, Tracked, Remembered, Cleaning
    <3> QED BY <3>1, <3>2, CleansUp
  <2>6. InTurn'
    BY <2>1, <2>2, CleansUp DEF EvaluationInv, InTurn, Seeding
  <2> QED BY <2>3, <2>4, <2>5, <2>6 DEF EvaluationInv
<1>5. CASE ~Errs(o)
  <2> DEFINE case == [folder |-> script.folder, got |-> got, abstained |-> abstained]
  <2>1. cases' = Append(cases, case)
    BY <1>5 DEF Query
  <2>2. script' = IF script.folder < Len(Seeds) THEN [script EXCEPT !.folder = @ + 1]
                                                ELSE [script EXCEPT !.pc = Cleanup]
    BY <1>5 DEF Query
  <2>3. case \in Case
    <3>1. got \in SeqOf(context \cup {Foreign}, MaxShown)
      BY DEF Answers
    <3>2. PICK m \in 0..MaxShown : got \in [1..m -> context \cup {Foreign}]
      BY <3>1 DEF SeqOf
    <3>3. m \in Nat
      BY <3>2, EvaluationAssumption DEF EvaluationAssumption
    <3>4. context \cup {Foreign} \subseteq Seq(Nat) \cup {Foreign}
      BY DEF EvaluationInv, Placed
    <3>5. got \in [1..m -> Seq(Nat) \cup {Foreign}]
      BY <3>2, <3>4
    <3>6. got \in Seq(Seq(Nat) \cup {Foreign})
      BY <3>3, <3>5
    <3> QED BY <1>2, <3>6 DEF Case
  <2>4. /\ cases' \in Seq(Case) /\ Len(cases') = script.folder /\ Len(cases') <= Len(Seeds)
        /\ \A i \in DOMAIN cases' : cases'[i].folder = i
    <3>1. cases' \in Seq(Case) /\ Len(cases') = Len(cases) + 1 /\ DOMAIN cases' = 1..(Len(cases) + 1)
      BY <1>2, <2>1, <2>3
    <3>2. ASSUME NEW i \in 1..(Len(cases) + 1) PROVE cases'[i].folder = i
      <4>1. CASE i = Len(cases) + 1
        <5>1. cases'[i] = case
          BY <1>2, <2>1, <2>3, <4>1
        <5> QED BY <1>2, <4>1, <5>1
      <4>2. CASE i # Len(cases) + 1
        <5>1. i \in 1..Len(cases) /\ i \in DOMAIN cases
          BY <1>2, <4>2
        <5>2. cases'[i] = cases[i]
          BY <1>2, <2>1, <2>3, <5>1
        <5> QED BY <5>1, <5>2 DEF EvaluationInv, InTurn
      <4> QED BY <4>1, <4>2
    <3> QED BY <1>2, <3>1, <3>2, SeedsAreListed
  <2>5. CASE script.folder < Len(Seeds)
    <3>1. script' = [script EXCEPT !.folder = @ + 1]
      BY <2>2, <2>5
    <3>2. script'.pc = "query" /\ script'.folder = script.folder + 1 /\ script.folder + 1 \in DOMAIN Seeds
      BY <1>1, <1>2, <2>5, <3>1, SeedsAreListed DEF EvaluationInv, EvaluationTypeOK
    <3>3. EvaluationTypeOK'
      BY <1>1, <1>3, <3>1, <3>2 DEF EvaluationInv, EvaluationTypeOK
    <3>4. Placed' /\ Tracked'
      BY <1>1, <3>2 DEF EvaluationInv, Placed, Tracked, Remembered, Cleaning
    <3>5. InTurn'
      BY <1>2, <2>4, <3>2 DEF InTurn, Seeding
    <3> QED BY <3>3, <3>4, <3>5 DEF EvaluationInv
  <2>6. CASE ~(script.folder < Len(Seeds))
    <3>1. script' = [script EXCEPT !.pc = Cleanup]
      BY <2>2, <2>6
    <3>2. script'.pc = Cleanup
      BY <3>1 DEF EvaluationInv, EvaluationTypeOK
    <3>3. EvaluationTypeOK'
      BY <1>1, <1>3, <3>1, CleansUp DEF EvaluationInv, EvaluationTypeOK
    <3>4. Placed'
      BY <1>1, <3>2, CleansUp DEF EvaluationInv, Placed, Cleaning
    <3>5. Tracked'
      <4>1. CASE Cleanup = "ended" /\ ~keep
        BY <1>1, <3>2, <4>1, CleansUp DEF EvaluationInv, Tracked, Remembered, Cleaning
      <4>2. CASE Cleanup = "documents" \/ keep
        BY <1>1, <3>2, <4>2, CleansUp DEF EvaluationInv, Tracked, Remembered, Cleaning
      <4> QED BY <4>1, <4>2, CleansUp
    <3>6. InTurn'
      BY <2>4, <3>2, CleansUp DEF InTurn, Seeding
    <3> QED BY <3>3, <3>4, <3>5, <3>6 DEF EvaluationInv
  <2> QED BY <2>5, <2>6
<1> QED BY <1>4, <1>5

\* ... the removal of all documents ...
LEMMA RemoveDocumentsStep ==
    ASSUME EvaluationInv, NEW o \in Outcome, RemoveDocuments(o) PROVE EvaluationInv'
<1> DEFINE docs == {x \in context : Len(x) = 3}
           pc == IF o.error = "late" THEN "ended" ELSE "collections"
<1>1. /\ script.pc = "documents" /\ keep' = keep /\ context' = context /\ cases' = cases
      /\ unanswered' = unanswered /\ ScriptGoes(pc)
  BY DEF RemoveDocuments, ScriptAt
<1>2. script'.pc = pc
  <2> HIDE DEF pc
  <2> QED BY <1>1 DEF ScriptGoes, EvaluationInv, EvaluationTypeOK
<1>3. /\ server' \subseteq server /\ unremoved \subseteq unremoved'
      /\ o.error = "late" => context \subseteq unremoved'
      /\ o.error # "late" => \A x \in docs : x \notin server' \/ x \in unremoved'
  <2>1. CASE docs = {}
    BY <2>1 DEF RemoveDocuments
  <2>2. CASE docs # {} /\ o.error # "late"
    BY <2>2 DEF RemoveDocuments, Removes
  <2>3. CASE docs # {} /\ o.error = "late"
    BY <2>3 DEF RemoveDocuments
  <2> QED BY <2>1, <2>2, <2>3
<1>4. EvaluationTypeOK'
  BY <1>1, GoesAreTyped DEF RemoveDocuments, EvaluationInv
<1>5. Placed'
  BY <1>1, <1>2 DEF EvaluationInv, Placed, Cleaning
<1>6. Tracked'
  <2>1. ~keep => server \subseteq unanswered \cup unremoved \cup context
    BY <1>1 DEF EvaluationInv, Tracked, Remembered, Cleaning
  <2>2. \A x \in context : Len(x) = 1 \/ x \in docs
    BY <1>1 DEF EvaluationInv, Placed, Cleaning
  <2> HIDE DEF docs
  <2>3. CASE o.error = "late"
    BY <1>1, <1>2, <1>3, <2>1, <2>3 DEF Tracked, Cleaning
  <2>4. CASE o.error # "late"
    BY <1>1, <1>2, <1>3, <2>1, <2>2, <2>4 DEF Tracked, Cleaning
  <2> QED BY <2>3, <2>4
<1>7. InTurn'
  BY <1>1, <1>2 DEF EvaluationInv, InTurn, Seeding
<1> QED BY <1>4, <1>5, <1>6, <1>7 DEF EvaluationInv

\* ... and of each collection.
LEMMA RemoveCollectionStep ==
    ASSUME EvaluationInv, IsFiniteSet(context), NEW o \in Outcome, RemoveCollection(o)
    PROVE  EvaluationInv'
<1> DEFINE left == {x \in context : Len(x) = 1}
           pc == IF o.error = "late" \/ Cardinality(left) = 1 THEN "ended" ELSE "collections"
<1>1. /\ script.pc = "collections" /\ keep' = keep /\ cases' = cases
      /\ unanswered' = unanswered /\ ScriptGoes(pc)
  BY DEF RemoveCollection, ScriptAt
<1>2. script'.pc = pc
  <2> HIDE DEF pc
  <2> QED BY <1>1 DEF ScriptGoes, EvaluationInv, EvaluationTypeOK
<1>3. PICK x \in left :
          /\ Ask(o) /\ context' = context \ {x}
          /\ server' = IF o.effect THEN server \ {x} ELSE server
          /\ unremoved' = unremoved \cup (IF o.effect THEN {} ELSE {x})
                                    \cup (IF o.error = "late" THEN left \ {x} ELSE {})
  BY DEF RemoveCollection
<1>4. EvaluationTypeOK'
  BY <1>1, <1>3, GoesAreTyped DEF EvaluationInv
<1>5. Placed'
  BY <1>1, <1>2, <1>3 DEF EvaluationInv, Placed, Cleaning
<1>6. Tracked'
  <2>1. ~keep => server \subseteq unanswered \cup unremoved \cup left
    BY <1>1 DEF EvaluationInv, Tracked, Remembered, Cleaning
  <2>2. /\ server' \subseteq server /\ unremoved \subseteq unremoved' /\ (x \notin server' \/ x \in unremoved')
        /\ o.error = "late" => left \ {x} \subseteq unremoved'
    BY <1>3
  <2>3. {y \in context' : Len(y) = 1} = left \ {x}
    BY <1>3
  <2>4. Cardinality(left) = 1 => left \ {x} = {}
    <3> SUFFICES ASSUME Cardinality(left) = 1, NEW y \in left, y # x PROVE FALSE
      OBVIOUS
    <3>1. IsFiniteSet(left)
      BY FS_Subset
    <3> HIDE DEF left
    <3>2. PICK z : left = {z}
      BY <3>1, FS_Singleton
    <3> QED BY <3>2
  <2> HIDE DEF left
  <2>5. CASE pc = "ended"
    BY <1>1, <1>2, <2>1, <2>2, <2>4, <2>5 DEF Tracked, Cleaning
  <2>6. CASE pc = "collections"
    BY <1>1, <1>2, <2>1, <2>2, <2>3, <2>6 DEF Tracked, Cleaning
  <2> QED BY <2>5, <2>6
<1>7. InTurn'
  BY <1>1, <1>2 DEF EvaluationInv, InTurn, Seeding
<1> QED BY <1>4, <1>5, <1>6, <1>7 DEF EvaluationInv

\* One step for each action.
LEMMA EvaluationStep ==
    EvaluationInv /\ IsFiniteSet(context) /\ [EvaluationNext]_evaluationVars =>
        EvaluationInv' /\ IsFiniteSet(context')
<1> SUFFICES ASSUME EvaluationInv, IsFiniteSet(context), [EvaluationNext]_evaluationVars
             PROVE  EvaluationInv' /\ IsFiniteSet(context')
  OBVIOUS
<1>1. CASE UNCHANGED evaluationVars
  <2>1. /\ script' = script /\ keep' = keep /\ server' = server /\ context' = context /\ cases' = cases
        /\ unanswered' = unanswered /\ unremoved' = unremoved /\ failures' = failures
    BY <1>1 DEF evaluationVars
  <2> QED BY <2>1 DEF EvaluationInv, EvaluationTypeOK, Placed, Tracked, InTurn, Remembered, Here, Document
<1>2. ASSUME NEW o \in Outcome, Authenticate(o) PROVE EvaluationInv' /\ IsFiniteSet(context')
  BY <1>2, AuthenticateStep DEF Authenticate
<1>3. ASSUME NEW o \in Outcome, SeedCollection(o) PROVE EvaluationInv' /\ IsFiniteSet(context')
  BY <1>3, SeedCollectionStep, FS_AddElement DEF SeedCollection
<1>4. ASSUME NEW o \in Outcome, Ingest(o) PROVE EvaluationInv' /\ IsFiniteSet(context')
  BY <1>4, IngestStep DEF Ingest
<1>5. ASSUME NEW o \in Outcome, Discard(o) PROVE EvaluationInv' /\ IsFiniteSet(context')
  BY <1>5, DiscardStep DEF Discard
<1>6. ASSUME NEW o \in Outcome, RemoveDocuments(o) PROVE EvaluationInv' /\ IsFiniteSet(context')
  BY <1>6, RemoveDocumentsStep DEF RemoveDocuments
<1>7. ASSUME NEW o \in Outcome, RemoveCollection(o) PROVE EvaluationInv' /\ IsFiniteSet(context')
  <2>1. context' \subseteq context
    BY <1>7 DEF RemoveCollection
  <2> QED BY <1>7, <2>1, RemoveCollectionStep, FS_Subset
<1>8. ASSUME NEW o \in Outcome, NEW got \in Answers, NEW abstained \in BOOLEAN, Query(o, got, abstained)
      PROVE  EvaluationInv' /\ IsFiniteSet(context')
  BY <1>8, QueryStep DEF Query
<1>9. ASSUME NEW ready \in BOOLEAN, Wait(ready) PROVE EvaluationInv' /\ IsFiniteSet(context')
  BY <1>9, WaitStep, FS_AddElement DEF Wait
<1>10. CASE NextCollection
  BY <1>10, NextCollectionStep DEF NextCollection
<1> QED BY <1>1, <1>2, <1>3, <1>4, <1>5, <1>6, <1>7, <1>8, <1>9, <1>10 DEF EvaluationNext

-----------------------------------------------------------------------------
(* What it concludes.                                                        *)

\* What a run that passes has shown.
LEMMA PassShowsNothingElse ==
    ASSUME EvaluationInv, AskedAll, Passes, NEW i \in DOMAIN cases
    PROVE  /\ ToSet(cases[i].got) \cap Intruders = {} /\ Foreign \notin ToSet(cases[i].got)
           /\ \A x \in ToSet(cases[i].got) : x[1] = cases[i].folder
           /\ Negative(cases[i]) => cases[i].abstained
<1>1. /\ DOMAIN cases = 1..Len(cases) /\ Len(cases) \in Nat /\ Len(cases) < 20000
      /\ \A k \in DOMAIN cases : cases[k].abstained \in BOOLEAN
  <2>1. cases \in Seq(Case) /\ Len(cases) < 20000
    BY EvaluationAssumption DEF EvaluationAssumption, EvaluationInv, InTurn, AskedAll
  <2>2. \A k \in DOMAIN cases : cases[k] \in Case
    BY <2>1
  <2> QED BY <2>1, <2>2 DEF Case
<1>2. \A score \in {"noise", "scope", "abstention"} : Sums(score) >= Full
  BY DEF Passes, Required
<1>3. ASSUME NEW score \in {"noise", "scope", "abstention"}, i \in CountedCases(score)
      PROVE  Scores(cases[i])[score] = Full
  <2> DEFINE values == [k \in CountedCases(score) |-> Scores(cases[k])[score]]
  <2>1. \A k \in DOMAIN cases : Scores(cases[k])[score] \in {0, Full}
    BY <1>3 DEF Scores, Grade
  <2>2. CountedCases(score) \in SUBSET DOMAIN cases
    BY DEF CountedCases
  <2>3. values \in [CountedCases(score) -> {0, Full}]
    BY <2>1, <2>2
  <2>4. Average(values) >= Full
    BY <1>2 DEF Sums
  <2>5. \A k \in CountedCases(score) : values[k] = Full
    <3> HIDE DEF values
    <3> QED BY <1>1, <2>2, <2>3, <2>4, FullMeans
  <2> QED BY <1>3, <2>5
<1>4. Full # 0
  BY DEF Full
<1>5. ToSet(cases[i].got) \cap Intruders = {}
  <2>1. i \in CountedCases("noise")
    BY DEF CountedCases
  <2>2. Scores(cases[i])["noise"] = Full
    BY <1>3, <2>1
  <2> QED BY <1>4, <2>2 DEF Scores, Grade
<1>6. \A x \in ToSet(cases[i].got) : x \in context /\ x[1] = cases[i].folder
  <2>1. i \in CountedCases("scope")
    BY DEF CountedCases
  <2>2. Scores(cases[i])["scope"] = Full
    BY <1>3, <2>1
  <2> QED BY <1>4, <2>2 DEF Scores, Grade
<1>7. Foreign \notin context
  BY EvaluationAssumption DEF EvaluationAssumption, EvaluationInv, Placed
<1>8. ASSUME Negative(cases[i]) PROVE cases[i].abstained
  <2>1. i \in CountedCases("abstention")
    BY <1>8 DEF CountedCases
  <2>2. Scores(cases[i])["abstention"] = Full
    BY <1>3, <2>1
  <2> QED BY <1>1, <1>4, <2>2 DEF Scores, Grade
<1> QED BY <1>5, <1>6, <1>7, <1>8

\* What a run that passes the harness has shown.
LEMMA HarnessShowsSomething ==
    ASSUME EvaluationInv, AskedAll, HarnessPasses, NEW i \in DOMAIN cases
    PROVE  /\ ToSet(cases[i].got) \cap Intruders = {}
           /\ ~Negative(cases[i]) => ToSet(cases[i].got) \cap Wanted(cases[i].folder) # {}
<1>1. /\ DOMAIN cases = 1..Len(cases) /\ Len(cases) \in Nat /\ Len(cases) < 20000
      /\ \A k \in DOMAIN cases : cases[k].folder = k
  BY EvaluationAssumption DEF EvaluationAssumption, EvaluationInv, InTurn, AskedAll
<1>2. Full # 0
  BY DEF Full
<1>3. \A k \in DOMAIN cases :
        /\ HarnessScores(cases[k])["noise"] = Scores(cases[k])["noise"]
        /\ HarnessScores(cases[k])["hit"] = RetrievalScores(cases[k].got, Wanted(cases[k].folder)).hit
  BY DEF HarnessScores, RetrievalOf
<1>4. ToSet(cases[i].got) \cap Intruders = {}
  <2> DEFINE values == [k \in DOMAIN cases |-> HarnessScores(cases[k])["noise"]]
  <2>1. HarnessAverage(DOMAIN cases, "noise") >= Full
    BY DEF HarnessPasses, Reaches, RetrievalRequired
  <2>2. Average(values) >= Full
    BY <2>1 DEF HarnessAverage, Average
  <2>3. values \in [DOMAIN cases -> {0, Full}]
    BY <1>3 DEF Scores, Grade
  <2>4. \A k \in DOMAIN cases : values[k] = Full
    <3>1. \A v \in [DOMAIN cases -> {0, Full}] :
            Average(v) >= Full => \A k \in DOMAIN cases : v[k] = Full
      <4>1. ASSUME NEW S \in SUBSET DOMAIN cases
            PROVE  \A v \in [S -> {0, Full}] : Average(v) >= Full => \A k \in S : v[k] = Full
        BY <1>1, FullMeans
      <4> QED BY <4>1
    <3> HIDE DEF values
    <3> QED BY <2>2, <2>3, <3>1
  <2>5. Scores(cases[i])["noise"] = Full
    BY <1>3, <2>4
  <2> QED BY <1>2, <2>5 DEF Scores, Grade
<1>5. ASSUME ~Negative(cases[i]) PROVE ToSet(cases[i].got) \cap Wanted(cases[i].folder) # {}
  <2> DEFINE S == {k \in DOMAIN cases : cases[k].folder = cases[i].folder}
             values == [k \in {i} |-> HarnessScores(cases[k])["hit"]]
             ranks == {k \in DOMAIN cases[i].got : cases[i].got[k] \in Wanted(cases[i].folder)}
  <2>1. S = {i}
    BY <1>1
  <2>2. HarnessAverage(S, "hit") >= 9000
    <3>1. Reaches(S, RetrievalRequired)
      BY DEF HarnessPasses
    <3> QED BY <3>1 DEF Reaches, RetrievalRequired
  <2>3. HarnessAverage({i}, "hit") = Mean(values)
    BY DEF HarnessAverage
  <2>4. HarnessScores(cases[i])["hit"] = Grade(ranks # {})
    BY <1>3, <1>5 DEF RetrievalScores, Negative
  <2>5. ranks # {}
    <3> SUFFICES ASSUME ranks = {} PROVE FALSE
      OBVIOUS
    <3>1. HarnessScores(cases[i])["hit"] = 0
      BY <2>4 DEF Grade
    <3>2. values \in [{i} -> Nat] /\ values[i] = 0
      BY <3>1
    <3>3. Mean(values) = 0
      <4>1. ASSUME NEW v \in [{i} -> Nat], v[i] = 0 PROVE Mean(v) = 0
        <5>1. DOMAIN cases = 1..Len(cases) /\ Len(cases) \in Nat
          BY <1>1
        <5> QED BY <4>1, <5>1, OneMean
      <4> HIDE DEF values
      <4> QED BY <3>2, <4>1
    <3>4. HarnessAverage({i}, "hit") = 0
      BY <2>3, <3>3
    <3>5. HarnessAverage({i}, "hit") >= 9000
      BY <2>1, <2>2
    <3> QED BY <3>4, <3>5
  <2> QED BY <2>5 DEF ToSet
<1> QED BY <1>4, <1>5

\* What is tracked at the end is what may be left.
LEMMA EvaluationConclusion == EvaluationInv => EvaluationIsSound
<1> SUFFICES ASSUME EvaluationInv PROVE EvaluationIsSound
  OBVIOUS
<1>1. SeedsAreRemoved
  BY DEF EvaluationInv, Tracked, SeedsAreRemoved, ScriptAt
<1>2. PassIsClean
  BY PassShowsNothingElse, HarnessShowsSomething DEF PassIsClean
<1> QED BY <1>1, <1>2 DEF EvaluationIsSound

\* For any dataset and any requests that fail, with or without effect: what an evaluation leaves
\* behind it never heard of or failed to remove, and one that passes has shown no noise.
THEOREM EvaluationsAreSound == EvaluationSpec => []EvaluationIsSound
<1>1. EvaluationInit => EvaluationInv /\ IsFiniteSet(context)
  <2>1. EvaluationInit => context = {}
    BY DEF EvaluationInit
  <2>2. IsFiniteSet({})
    BY FS_EmptySet
  <2> QED BY EvaluationStart, <2>1, <2>2
<1>2. EvaluationInv /\ IsFiniteSet(context) /\ [EvaluationNext]_evaluationVars
         => EvaluationInv' /\ IsFiniteSet(context)'
  BY EvaluationStep
<1>3. EvaluationInv => EvaluationIsSound
  BY EvaluationConclusion
<1> QED BY <1>1, <1>2, <1>3, PTL DEF EvaluationSpec

=============================================================================
