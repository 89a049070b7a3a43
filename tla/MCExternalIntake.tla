-------------------------- MODULE MCExternalIntake --------------------------
(* Instances of ExternalIntake for TLC. *)
EXTENDS ExternalIntake, TLC

CONSTANTS k1, e1, e2, e3, t1, t2

OneKey          == {k1}
TwoDeliveries   == {e1, e2}
ThreeDeliveries == {e1, e2, e3}
TwoRetries      == {t1, t2}

\* All of these are interchangeable.
Symmetry == Permutations(Keys) \cup Permutations(Deliveries) \cup Permutations(Retries)

=============================================================================
