-------------------------- MODULE MCDocumentOutbox --------------------------
(* Instances of DocumentOutbox for TLC. *)
EXTENDS DocumentOutbox, TLC

CONSTANTS d1, d2, r1, r2, r3, w1, w2

OneDoc        == {d1}
TwoDocs       == {d1, d2}
TwoRequests   == {r1, r2}
ThreeRequests == {r1, r2, r3}
OneDrain      == {w1}
TwoDrains     == {w1, w2}

IngestAndRetry  == {"ingest", "retry"}
IngestAndRepeat == {"ingest", "retry", "reprocess"}

\* Documents, requests and drains are interchangeable.
Symmetry == Permutations(Docs) \cup Permutations(Requests) \cup Permutations(Drains)

=============================================================================
