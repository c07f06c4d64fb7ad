--------------------------- MODULE ReopeningInput ---------------------------
(***************************************************************************)
(* What a receiver declares for selective reverification                   *)
(* (openline_lite/continuity.py): claims, dependency edges, changed roots, *)
(* required claims and the evidence bound to them.  Size limits and the    *)
(* shapes of the JSON values are left out.                                 *)
(***************************************************************************)
EXTENDS Integers, Sequences

CONSTANTS Nodes,    \* names of claims and of what they depend on
          Evidence, \* evidence ids
          Inputs    \* the declarations the function may be called with

\* available is the pack's evidence_ids; bindings is a function on the claims bound.
Declared(in) ==
    /\ in.claims \subseteq Nodes
    /\ in.edges \in Seq(Nodes \X Nodes)
    /\ in.changed \in Seq(Nodes)
    /\ in.required \subseteq Nodes
    /\ in.available \subseteq Evidence
    /\ DOMAIN in.bindings \subseteq Nodes
    /\ \A c \in DOMAIN in.bindings : in.bindings[c] \subseteq Evidence

ASSUME InputsDeclared == \A in \in Inputs : Declared(in)

\* _validate
Valid(in) ==
    /\ in.claims # {}
    /\ \A i, j \in DOMAIN in.changed : in.changed[i] = in.changed[j] => i = j
    /\ in.required \subseteq in.claims
    /\ DOMAIN in.bindings = in.required
    /\ \A c \in in.required :
          in.bindings[c] # {} /\ in.bindings[c] \subseteq in.available

Roots(in) == {in.changed[i] : i \in DOMAIN in.changed}

Edge(in, a, b) == \E i \in DOMAIN in.edges : in.edges[i] = <<a, b>>

\* The sets of nodes a change cannot leave.
Closed(in, S) ==
    \A i \in DOMAIN in.edges : in.edges[i][1] \in S => in.edges[i][2] \in S

\* Descendants of the changed roots: what every closed set around them contains.
Exposed(in) ==
    {n \in Nodes : \A S \in SUBSET Nodes :
        Roots(in) \subseteq S /\ Closed(in, S) => n \in S}

\* Those of S that are claims.
ClaimsIn(in, S) == S \cap in.claims

\* The result for a set of reopened claims.
Result(in, reopened) ==
    [reopened |-> reopened,
     retained |-> in.claims \ reopened,
     reopenedRequired |-> reopened \cap in.required,
     blocked |-> UNION {in.bindings[c] : c \in reopened \cap in.required}]
=============================================================================
