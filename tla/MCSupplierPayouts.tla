-------------------------- MODULE MCSupplierPayouts --------------------------
(* Instances of SupplierPayouts for TLC.                                       *)
EXTENDS SupplierPayouts, TLC

CONSTANTS e1, e2, s1, s2

OneAndThree == e1 :> 1 @@ e2 :> 3
SweepSymmetry == Permutations({s1, s2})

\* Two sweeps overlap as long as the buyer's payment is whole and no dispute is
\* decided; from then on they take turns.
OverlapFirst ==
    \/ events = 0 /\ dispute \notin {"upheld", "rejected"}
    \/ \E s \in Sweeps : spPhase[s] = "idle"
=============================================================================
