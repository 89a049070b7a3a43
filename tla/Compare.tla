------------------------------- MODULE Compare --------------------------------
(***************************************************************************)
(* A comparison of two documents: an answer to a question about both, and  *)
(* a table that says for each dimension which source of either document    *)
(* it rests on.  The answer is an outcome of Answering; its citations are  *)
(* taken as right here.                                                    *)
(***************************************************************************)
EXTENDS Naturals, Sequences, FiniteSets, SequencesExt

CONSTANTS
    Dimensions,
    MaxSources,   \* bound: sources of an answer
    PerSide       \* chunks taken of each document when the question finds nothing

ASSUME CompareAssumption == MaxSources \in Nat /\ PerSide \in Nat

VARIABLES
    there,        \* which of the two documents exist
    step,         \* what the comparison is about to do
    found,        \* the sources of the answer: each is of the left or of the right document
    quoted,       \* per dimension, the numbers that its lines of the answer cite
    kept,         \* the sources that are kept, as places in found
    rows,         \* the evidence that is stored, or NoRows
    inferred      \* the rows are read out of the answer, with confidence 0

compareVars == <<there, step, found, quoted, kept, rows, inferred>>

-----------------------------------------------------------------------------

Sides   == {"left", "right"}
Numbers == 1..MaxSources
Row     == [left : 0..MaxSources, right : 0..MaxSources]   \* numbers as the row cites them
NoRows  == <<>>

CompareTypeOK ==
    /\ there \subseteq Sides
    /\ step \in {"load", "ask", "direct", "rows", "store", "stored", "failed", "none"}
    /\ found \in SeqOf(Sides, MaxSources)
    /\ quoted \in [Dimensions -> SUBSET Numbers]
    /\ kept \in SeqOf(Numbers, MaxSources)
    /\ rows = NoRows \/ rows \in [Dimensions -> Row]
    /\ inferred \in BOOLEAN

CompareInit ==
    /\ there = Sides /\ step = "load" /\ found = <<>>
    /\ quoted = [d \in Dimensions |-> {}] /\ kept = <<>> /\ rows = NoRows
    /\ inferred = FALSE

Places(s) == [i \in DOMAIN s |-> i]

\* The sequence of the numbers in S, the smallest first.
InOrderOf(S) ==
    {k \in SeqOf(Numbers, MaxSources) :
        ToSet(k) = S /\ \A i, j \in DOMAIN k : i < j => k[i] < k[j]}

\* Both documents have to exist and to be the owner's.
LoadDocuments ==
    /\ step = "load"
    /\ step' = IF there = Sides THEN "ask" ELSE "failed"
    /\ UNCHANGED <<there, found, quoted, kept, rows, inferred>>

\* The question is scoped to the two documents.  If the answer cites anything, the sources it
\* does not cite are left out.
AskBoth ==
    /\ step = "ask"
    /\ \E s \in SeqOf(Sides, MaxSources), q \in [Dimensions -> SUBSET Numbers] :
          LET cites == UNION {q[d] : d \in Dimensions}
          IN /\ cites \subseteq DOMAIN s
             /\ found' = s /\ quoted' = q
             /\ kept' \in InOrderOf(IF cites = {} THEN DOMAIN s ELSE cites)
             /\ step' = IF s = <<>> THEN "direct" ELSE "rows"
    /\ UNCHANGED <<there, rows, inferred>>

\* Nothing was found: the first chunks of both, or else what each document says itself.  Those
\* of a document that has gone meanwhile are gone as well.
AskDirectly ==
    /\ step = "direct"
    /\ \E l, r \in 0..PerSide, q \in [Dimensions -> SUBSET Numbers] :
          LET s == [i \in 1..(l + r) |-> IF i <= l THEN "left" ELSE "right"]
          IN /\ l > 0 => "left" \in there
             /\ r > 0 => "right" \in there
             /\ \A d \in Dimensions : q[d] \subseteq DOMAIN s
             /\ found' = s /\ quoted' = q /\ kept' = Places(s)
    /\ step' = "rows"
    /\ UNCHANGED <<there, rows, inferred>>

LoseCompare ==
    /\ step \in {"ask", "direct"} /\ step' = "failed"
    /\ UNCHANGED <<there, found, quoted, kept, rows, inferred>>

\* A structured answer may name any source that is listed; one of the other document counts
\* as none.  It has to cover every dimension, or the rows are inferred.
StructuredRows ==
    /\ step = "rows"
    /\ rows' \in [Dimensions ->
           [left : {0} \cup {i \in DOMAIN kept : found[kept[i]] = "left"},
            right : {0} \cup {i \in DOMAIN kept : found[kept[i]] = "right"}]]
    /\ step' = "store" /\ inferred' = FALSE
    /\ UNCHANGED <<there, found, quoted, kept>>

\* Mutant: the document of a cited source is not looked at.
Evidence_AnySide(d, side) ==
    LET cited == DOMAIN kept \cap quoted[d]
    IN IF cited = {} THEN {0} ELSE cited

\* evidence_row_for_dimension reads the numbers of the answer as places in what is kept.
Evidence(d, side) ==
    LET cited == {i \in DOMAIN kept \cap quoted[d] : found[kept[i]] = side}
    IN IF cited = {} THEN {0} ELSE cited

InferredRows ==
    /\ step = "rows"
    /\ rows' \in {t \in [Dimensions -> Row] :
           \A d \in Dimensions : t[d].left \in Evidence(d, "left")
                              /\ t[d].right \in Evidence(d, "right")}
    /\ step' = "store" /\ inferred' = TRUE
    /\ UNCHANGED <<there, found, quoted, kept>>

\* The row refers to both documents, and goes with either.
StoreComparison ==
    /\ step = "store"
    /\ step' = IF there = Sides THEN "stored" ELSE "failed"
    /\ rows' = IF there = Sides THEN rows ELSE NoRows
    /\ UNCHANGED <<there, found, quoted, kept, inferred>>

DeleteComparison ==
    /\ step = "stored"
    /\ step' = "none" /\ rows' = NoRows
    /\ UNCHANGED <<there, found, quoted, kept, inferred>>

DeleteSide(side) ==
    /\ side \in there
    /\ there' = there \ {side}
    /\ step' = IF step = "stored" THEN "none" ELSE step
    /\ rows' = IF step = "stored" THEN NoRows ELSE rows
    /\ UNCHANGED <<found, quoted, kept, inferred>>

CompareNext ==
    \/ LoadDocuments \/ AskBoth \/ AskDirectly \/ LoseCompare \/ StructuredRows \/ InferredRows
    \/ StoreComparison \/ DeleteComparison
    \/ \E side \in Sides : DeleteSide(side)

CompareSpec == CompareInit /\ [][CompareNext]_compareVars

-----------------------------------------------------------------------------

\* The sources that are kept have the numbers under which the answer cites them.
NumbersHold == kept = Places(kept)

\* What the answer cites for a dimension of one document, by its own numbers.
CitedFor(d, side) == {n \in quoted[d] : found[n] = side}

\* A row that is read out of the answer rests on a source the answer cites for its dimension,
\* and has one whenever the answer cites one; any row names the document it is about.  A
\* reader who follows a citation of the text finds the source of the row.  Leaving out the
\* sources that are not cited renumbers those after them, which breaks it.
EvidenceIsCited ==
    (step = "stored" /\ NumbersHold) =>
        \A d \in Dimensions, side \in Sides :
            /\ rows[d][side] # 0 => found[rows[d][side]] = side
            /\ inferred => IF CitedFor(d, side) = {} THEN rows[d][side] = 0
                           ELSE rows[d][side] \in CitedFor(d, side)

=============================================================================
