---------------------------- MODULE MCContinuity ----------------------------
(* Declarations over five nodes for the run of Continuity. *)
EXTENDS Continuity, TLC

LOCAL INSTANCE SequencesExt

\* A diamond with a long and a short side, a cycle, and an edge given twice.
Pairs == <<<<1, 3>>, <<1, 2>>, <<2, 4>>, <<3, 5>>, <<5, 4>>, <<4, 1>>, <<1, 2>>>>

\* Every sublist, in this order and in the other.
MCEdges ==
    LET Sublist(I) ==
            LET s == SelectSeq([k \in 1..Len(Pairs) |-> k], LAMBDA k : k \in I)
            IN  [k \in 1..Len(s) |-> Pairs[s[k]]]
        Lists == {Sublist(I) : I \in SUBSET DOMAIN Pairs}
    IN  Lists \cup {Reverse(l) : l \in Lists}

MCChanged == {<<>>, <<1>>, <<3, 2>>, <<4, 5>>, <<1, 1>>}

MCClaims == {{4}, {1, 2, 5}}

\* The second one names evidence the pack does not have.
MCBindings == {<<>>, 4 :> {"e1"}, 5 :> {"e1", "e2"}, 2 :> {"e1"} @@ 5 :> {"e2"}}

MCInputs ==
    {[claims |-> cl, edges |-> e, changed |-> ch, required |-> DOMAIN b,
      available |-> {"e1"}, bindings |-> b] :
        cl \in MCClaims, e \in MCEdges, ch \in MCChanged, b \in MCBindings}
=============================================================================
