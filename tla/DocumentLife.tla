----------------------------- MODULE DocumentLife -----------------------------
(***************************************************************************)
(* What the pipeline promises of a document, whoever works on it and in    *)
(* whatever order: jobs and requests take copies of its row and write one  *)
(* of them back, a row that was deleted is never written again, a text is  *)
(* one that somebody read or wrote, and only the write that makes the      *)
(* document READY lets it be found.  DocumentPipeline implements it.       *)
(***************************************************************************)
CONSTANTS Texts, NoText

VARIABLES
    row,     \* the row of the document
    held,    \* the copies of it that jobs and requests work on
    found    \* whether a search finds something of it

lifeVars == <<row, held, found>>

Statuses == {"PENDING", "QUEUED", "PROCESSING", "READY", "FAILED"}
Rows     == [status : Statuses, content : Texts \cup {NoText}]
GoneRow  == [status |-> "GONE", content |-> NoText]
There    == row # GoneRow

Restated(copy, status) == [copy EXCEPT !.status = status]

LifeInit ==
    /\ row \in Rows /\ row.status = "PENDING"
    /\ held = {row} /\ found = FALSE

\* A job or a request reads the row, and an edit changes what it read.  Whatever happens,
\* copies may be dropped with those who held them.
Take ==
    /\ There
    /\ \E copy \in Rows : copy.status \in {row.status, "READY"} /\ held' \subseteq held \cup {copy}
    /\ UNCHANGED <<row, found>>

\* Jobs and requests end, or are lost.
Forget == held' \subseteq held /\ UNCHANGED <<row, found>>

\* A copy becomes the row, at work or as it was read.
Rewrite ==
    /\ There
    /\ \E copy \in held : row' \in {copy, Restated(copy, "QUEUED"), Restated(copy, "PROCESSING")}
    /\ held' \subseteq held /\ UNCHANGED found

\* A document without a text gets the one that was extracted.
Index ==
    /\ There
    /\ \E copy \in held :
          row' \in [status : {"READY"},
                    content : IF copy.content = NoText THEN Texts ELSE {copy.content}]
    /\ held' \subseteq held /\ found' = TRUE

Fail ==
    /\ There /\ row' = Restated(row, "FAILED")
    /\ held' \subseteq held /\ UNCHANGED found

\* The owner empties the note, marks the document for another run, or deletes it.
Empty ==
    /\ There /\ row' \in held /\ row'.content = NoText
    /\ held' \subseteq held /\ found' = FALSE
Mark ==
    /\ There /\ row' = Restated(row, "QUEUED")
    /\ held' \subseteq held \cup {row'} /\ found' = FALSE
Remove ==
    /\ There /\ row' = GoneRow
    /\ held' \subseteq held /\ found' = FALSE

LifeNext == Take \/ Forget \/ Rewrite \/ Index \/ Fail \/ Empty \/ Mark \/ Remove

LifeSpec == LifeInit /\ [][LifeNext]_lifeVars

=============================================================================
