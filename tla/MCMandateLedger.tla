-------------------------- MODULE MCMandateLedger ---------------------------
(* Policies of one or two sections for the runs of MandateLedger. *)
EXTENDS MandateLedger, Functions, TLC

\* A spend section of 2 or 3 units, and one policy with a section that gives no
\* capacity.
MCPolicies == {("spend" :> 2), ("spend" :> 3), ("spend" :> 2) @@ ("audit" :> 0)}

MCSymmetry == Permutations(Actors)

\* The units LiveUnspent counts are the sum live_unspent computes.
ASSUME LiveUnspentIsSum ==
    \A b \in [Actors -> 0..3] :
        LiveUnspent(b) = FoldFunction(LAMBDA x, y : x + y, 0, b)
=============================================================================
