------------------------- MODULE MCDocumentPipeline -------------------------
(* Instances of DocumentPipeline for TLC. *)
EXTENDS DocumentPipeline, TLC

CONSTANTS t1, t2, j1, j2, j3, u1, u2, u3

TwoTexts   == {t1, t2}
TextsOrNone == {t1, t2, NoText}
TwoJobs    == {j1, j2}
ThreeJobs  == {j1, j2, j3}
TwoUsers   == {u1, u2}
ThreeUsers == {u1, u2, u3}

OnlyText == {"TEXT"}
OnlyEdit == {"edit"}

\* Texts, slots and requests are interchangeable.
Symmetry == Permutations(Texts) \cup Permutations(Jobs) \cup Permutations(Users)

=============================================================================
