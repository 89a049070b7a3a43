------------------------------- MODULE Conflicts ------------------------------
(***************************************************************************)
(* Contradictions between the documents of one owner, about one subject:   *)
(* the claims found in each document, and the conflict found in each       *)
(* collection or in all documents together.  A detection reads the         *)
(* documents, asks a model whether the conflict is one, and replaces the   *)
(* claims and the conflict in a transaction at the end.                    *)
(***************************************************************************)
EXTENDS FiniteSets

CONSTANTS
    Sources,      \* documents that are READY
    Binders,      \* collections
    Detections,   \* detections, each made once
    Everything    \* the scope without a collection

ASSUME ConflictsAssumption == Everything \notin Binders

VARIABLES
    stance,       \* what the text of a document says: for, against, both or neither
    alive,        \* the documents that exist
    binder,       \* their collections
    claims,       \* document_claims: a document and a polarity
    conflict,     \* claim_conflicts: the documents of the conflict of each scope, or none
    detection,    \* the detections
    unsettled     \* history: a text has changed

conflictsVars == <<stance, alive, binder, claims, conflict, detection, unsettled>>

-----------------------------------------------------------------------------

Polarity == {"positive", "negative"}
Scopes   == Binders \cup {Everything}
Claim    == [document : Sources, polarity : Polarity]
NewDetection == [pc |-> "new", scope |-> Everything, read |-> {}, found |-> {}, real |-> FALSE]

ConflictsTypeOK ==
    /\ stance \in [Sources -> SUBSET Polarity]
    /\ alive \subseteq Sources /\ binder \in [Sources -> Binders]
    /\ claims \subseteq Claim
    /\ conflict \in [Scopes -> SUBSET Sources]
    /\ detection \in [Detections -> [pc : {"new", "check", "persist", "done"}, scope : Scopes,
           read : SUBSET Sources, found : SUBSET (Sources \X Polarity), real : BOOLEAN]]
    /\ unsettled \in BOOLEAN

ConflictsInit ==
    /\ stance \in [Sources -> SUBSET Polarity]
    /\ alive = Sources /\ binder \in [Sources -> Binders]
    /\ claims = {} /\ conflict = [s \in Scopes |-> {}]
    /\ detection = [k \in Detections |-> NewDetection] /\ unsettled = FALSE

\* detect_conflicts: claims of both polarities, perhaps of the same document.
Opposed(found) == {f[2] : f \in found} = Polarity
Named(found)   == {f[1] : f \in found}

-----------------------------------------------------------------------------

\* _load_documents and extract_conflict_claims; the limit on documents is left out.
Scan(k, s) ==
    /\ detection[k].pc = "new"
    /\ LET docs == {d \in alive : s \in {binder[d], Everything}} IN
       detection' = [detection EXCEPT ![k] = [NewDetection EXCEPT !.pc = "check", !.scope = s,
           !.read = docs, !.found = UNION {{d} \X stance[d] : d \in docs}]]
    /\ UNCHANGED <<stance, alive, binder, claims, conflict, unsettled>>

\* The model may reject the conflict; if it cannot be asked, the detection is lost.
Judge(k) ==
    /\ detection[k].pc = "check"
    /\ LET opposed == Opposed(detection[k].found) IN
       \/ \E confirmed \in {FALSE, opposed} :
             detection' = [detection EXCEPT ![k].pc = "persist", ![k].real = confirmed]
       \/ opposed /\ detection' = [detection EXCEPT ![k] = [NewDetection EXCEPT !.pc = "done"]]
    /\ UNCHANGED <<stance, alive, binder, claims, conflict, unsettled>>

\* Mutant: a detection replaces the claims of all documents.
Replaced_All(k) == claims

\* replace_claims_for_documents: of the documents that were read, and of no other.
Replaced(k) == {c \in claims : c.document \in detection[k].read}

\* A claim needs its document, while the conflict only has a list of their names.
Persist(k) ==
    /\ detection[k].pc = "persist"
    /\ detection' = [detection EXCEPT ![k] = [NewDetection EXCEPT !.pc = "done"]]
    /\ LET found == detection[k].found IN
       IF Named(found) \subseteq alive
       THEN /\ claims' = (claims \ Replaced(k)) \cup
                   {[document |-> f[1], polarity |-> f[2]] : f \in found}
            /\ conflict' = [conflict EXCEPT ![detection[k].scope] =
                   IF detection[k].real THEN Named(found) ELSE {}]
       ELSE UNCHANGED <<claims, conflict>>
    /\ UNCHANGED <<stance, alive, binder, unsettled>>

EditSource(d, s) ==
    /\ d \in alive /\ s # stance[d]
    /\ stance' = [stance EXCEPT ![d] = s] /\ unsettled' = TRUE
    /\ UNCHANGED <<alive, binder, claims, conflict, detection>>

MoveSource(d, b) ==
    /\ d \in alive /\ b # binder[d]
    /\ binder' = [binder EXCEPT ![d] = b]
    /\ UNCHANGED <<stance, alive, claims, conflict, detection, unsettled>>

\* Its claims go with a document; a conflict that names it stays.
RemoveSource(d) ==
    /\ d \in alive
    /\ alive' = alive \ {d}
    /\ claims' = {c \in claims : c.document # d}
    /\ UNCHANGED <<stance, binder, conflict, detection, unsettled>>

ConflictsNext ==
    \/ \E k \in Detections : (\E s \in Scopes : Scan(k, s)) \/ Judge(k) \/ Persist(k)
    \/ \E d \in Sources : \/ RemoveSource(d)
                          \/ \E s \in SUBSET Polarity : EditSource(d, s)
                          \/ \E b \in Binders : MoveSource(d, b)

ConflictsSpec == ConflictsInit /\ [][ConflictsNext]_conflictsVars

-----------------------------------------------------------------------------

\* A conflict that is kept is backed by claims of both polarities of the documents it names,
\* although detections of other scopes replace claims meanwhile, documents move between
\* collections and others are deleted under a detection.  Only a text that has changed, or a
\* document it names that is gone, may leave it unbacked.
ConflictsAreBacked ==
    ~unsettled => \A s \in Scopes : conflict[s] # {} /\ conflict[s] \subseteq alive =>
        {c.polarity : c \in {x \in claims : x.document \in conflict[s]}} = Polarity

=============================================================================
