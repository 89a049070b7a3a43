----------------------------- MODULE MCRepoSync -----------------------------
(* Instances of RepoSync for TLC. *)
EXTENDS RepoSync, TLC

CONSTANTS p1, p2, v1, v2, d1, d2, d3, r1, r2, r3, u1, u2, w1, w2, j1, j2

OneFile     == {p1}
TwoFiles    == {p1, p2}
TwoVersions == {v1, v2}
OneDoc      == {d1}
TwoDocs     == {d1, d2}
ThreeDocs   == {d1, d2, d3}
OneRow      == {r1}
TwoRows     == {r1, r2}
ThreeRows   == {r1, r2, r3}
OneRun      == {u1}
TwoRuns     == {u1, u2}
OneDrain    == {w1}
TwoDrains   == {w1, w2}
OneJob      == {j1}
TwoJobs     == {j1, j2}

\* All of these are interchangeable.
Symmetry ==
    Permutations(Paths) \cup Permutations(Versions) \cup Permutations(Docs) \cup Permutations(Rows)
        \cup Permutations(Runs) \cup Permutations(Drains) \cup Permutations(Jobs)

=============================================================================
