--------------------------- MODULE MCEvidenceFlow ---------------------------
(* Two policies, two artifacts and a few producers for the run of EvidenceFlow. *)
EXTENDS EvidenceFlow, TLC

\* "x" says ok, "y" does not.
MCFacts == [c \in {"x", "y"} |-> [ok |-> IF c = "x" THEN 1 ELSE 0]]

MCTrust == [k \in {"ann"} |-> "k1"]

Rule(i, e) == [id |-> i, evidence |-> e, pointer |-> "ok", expected |-> 1]

\* A strict policy, and one that asks only for the first artifact and may roll back.
Strict == [actions |-> {"deploy"}, required |-> {"e1", "e2"}, rules |-> {Rule("r1", "e1")},
           maxAge |-> 1, onUndecidable |-> "QUARANTINE", rollback |-> FALSE]
Loose == [actions |-> {"deploy", "read"}, required |-> {"e1"}, rules |-> {Rule("r2", "e1")},
          maxAge |-> 0, onUndecidable |-> "NO_BADGE", rollback |-> TRUE]
MCPolicies == {Strict, Loose}

Base == [format |-> "native", key |-> "ann", public |-> "k1", issuer |-> "ann", skew |-> -1,
         run |-> "run", action |-> "deploy", commits |-> {"e1", "e2"}, shaped |-> TRUE]

\* The usual receipt, by a clock half a second slow; another action on less evidence, in
\* another run, signed for someone else and stamped a second ahead; a malformed one by an unpinned key; a foreign
\* one without a timestamp.
MCDrafts == {
    Base,
    [Base EXCEPT !.action = "read", !.commits = {"e1"}, !.run = "other", !.issuer = "bob",
                 !.skew = 2],
    [Base EXCEPT !.public = "k2", !.shaped = FALSE],
    [Base EXCEPT !.format = "foreign", !.skew = None]}

\* The second artifact supports a claim that the change does or does not reach.
Declaration(root, binding) ==
    [claims |-> {"c"}, edges |-> <<<<"root", "mid">>, <<"mid", "c">>>>, changed |-> <<root>>,
     required |-> {"c"}, available |-> {"e1", "e2"},
     bindings |-> [c \in {"c"} |-> binding]]

MCInputs == {Declaration("root", {"e2"}), Declaration("aside", {"e2"})}

\* Checks of all evidence: without a declaration, under a gate key of the moment; with a
\* change that reaches the claim and with one that does not.
MCPacks == {
    [policy |-> Loose, evidence |-> {"e1", "e2"}, declaration |-> None, side |-> TRUE,
     gate |-> "ephemeral"]} \cup
    {[policy |-> Strict, evidence |-> {"e1", "e2"}, declaration |-> in, side |-> FALSE,
      gate |-> "pinned"] : in \in MCInputs}

\* Decisions about a native receipt and about a foreign one.
MCCalls == {
    [policy |-> Loose, evidence |-> {"e1"}, format |-> "native",
     adapters |-> {"native"}, side |-> TRUE],
    [policy |-> Strict, evidence |-> {"e1", "e2"}, format |-> "foreign",
     adapters |-> {"native", "foreign"}, side |-> FALSE]}
=============================================================================
