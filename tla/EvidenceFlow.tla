---------------------------- MODULE EvidenceFlow ----------------------------
(***************************************************************************)
(* Evidence in use: producers sign source receipts about files that go on  *)
(* changing (cli.py issue), receivers decide about copies of them (cli.py  *)
(* decide, check.py with selective reverification), and decisions pile up. *)
(* From these, chain.py and handoff.py project what a next model is told,  *)
(* and impact.py says which decisions an invalidation reopens.             *)
(***************************************************************************)
EXTENDS EvidenceGate, Sequences

CONSTANTS Nodes, Inputs,  \* of ReopeningInput
          Drafts,         \* what producers sign, and how
          Packs, Calls,   \* what run_check and decide are called with
          FirstFiles,     \* what artifacts hold at first
          MaxClaims,      \* max_claims of a handoff
          MaxClock,       \* bound on the time
          MaxLog,         \* bound: number of sources issued
          MaxDecisions,   \* bound: number of decisions
          MaxEdits,       \* bound: number of file edits
          Absent

Continuity == INSTANCE ReopeningInput

\* A producer stamps by its own clock, which is ahead of the receiver's or behind it; None
\* when its payload has no timestamp.
Draft == [format: {"native", "foreign"}, key: Names, public: Keys, issuer: Names,
          skew: Int \cup {None}, run: Runs, action: Actions, commits: SUBSET Evidence,
          shaped: BOOLEAN]

\* Check packs, and arguments of decide: the policy and the evidence files named, whether
\* a side effect was observed, the gate's key or the formats there are adapters for.
Pack == [policy: Policies, evidence: SUBSET Evidence, declaration: Inputs \cup {None},
         side: BOOLEAN, gate: {"pinned", "ephemeral"}]

Call == [policy: Policies, evidence: SUBSET Evidence, format: {"native", "foreign"},
         adapters: {{"native"}, {"native", "foreign"}}, side: BOOLEAN]

\* Gate keys: "pinned" for a gate whose key receivers pin, "ephemeral" for a key made
\* for one run.
Gates == {"pinned", "ephemeral"}

ASSUME FlowConstants ==
    /\ Drafts \subseteq Draft /\ Packs \subseteq Pack /\ Calls \subseteq Call
    /\ FirstFiles \subseteq Contents
    /\ Absent \notin Contents
    /\ None \notin Inputs
    /\ MaxClaims \in Nat \ {0}
    /\ MaxClock \in Nat /\ MaxLog \in Nat /\ MaxDecisions \in Nat /\ MaxEdits \in Nat

VARIABLES clock, edits,
          file,       \* the artifacts, as they are now
          log,        \* source receipts, in the order they were issued
          decisions   \* decision receipts, each with what the gate was shown

vars == <<clock, edits, file, log, decisions>>

Artifacts == UNION {[S -> Contents] : S \in SUBSET Evidence}

Dispositions == {<<"VERIFIED", "COMMIT">>, <<"REJECTED", "DENY">>,
                 <<"REJECTED", "ROLLBACK_REQUEST">>,
                 <<"UNDECIDABLE", "QUARANTINE">>, <<"UNDECIDABLE", "NO_BADGE">>}

Receipt == [gate: Gates, issuedAt: Nat, format: {"native", "foreign"}, source: Source,
            policy: Policies, side: BOOLEAN, assessments: [Checks -> Statuses],
            disposition: Dispositions]

\* Type invariant; a verdict comes only with the decisions that go with it.
TypeOK ==
    /\ clock \in 0..MaxClock
    /\ edits \in 0..MaxEdits
    /\ file \in [Evidence -> Contents \cup {Absent}]
    /\ log \in Seq(Source)
    /\ decisions \subseteq
          [receipt: Receipt, artifacts: Artifacts, declaration: Inputs \cup {None}]

Init ==
    /\ clock = 0
    /\ edits = 0
    /\ file \in [Evidence -> FirstFiles]
    /\ log = <<>>
    /\ decisions = {}

----------------------------------------------------------------------------
(* Actions.                                                                *)

Tick ==
    /\ clock < MaxClock
    /\ clock' = clock + 1
    /\ UNCHANGED <<edits, file, log, decisions>>

EditFile(e, c) ==
    /\ edits < MaxEdits
    /\ file[e] # c
    /\ edits' = edits + 1
    /\ file' = [file EXCEPT ![e] = c]
    /\ UNCHANGED <<clock, log, decisions>>

\* The receipts of a run so far.
OfRun(run) ==
    {i \in DOMAIN log : log[i].format = "native" /\ log[i].payload # Malformed
                          /\ log[i].payload.run = run}

\* A producer signs a receipt that commits to files as they are now and, in the
\* native format, to the last receipt of its run.
Issue(draft) ==
    LET earlier == OfRun(draft.run)
        last == CHOOSE i \in earlier : \A j \in earlier : j <= i
        payload == [issuer |-> draft.issuer,
                    issuedAt |-> IF draft.skew = None THEN None ELSE clock + draft.skew,
                    run |-> draft.run,
                    sequence |-> Cardinality(earlier),
                    parent |-> IF draft.format = "foreign" \/ earlier = {} THEN None ELSE last,
                    action |-> draft.action,
                    evidence |-> [e \in draft.commits |-> file[e]]]
    IN
    /\ Len(log) < MaxLog
    /\ \A e \in draft.commits : file[e] # Absent
    /\ log' = Append(log,
          [number |-> Len(log) + 1, format |-> draft.format, readable |-> TRUE,
           intact |-> TRUE, key |-> draft.key, public |-> draft.public,
           payload |-> IF draft.shaped THEN payload ELSE Malformed])
    /\ UNCHANGED <<clock, edits, file, decisions>>

\* What cannot be parsed is the same to every reader.
Garbled == [number |-> 0, format |-> "native", readable |-> FALSE, intact |-> FALSE,
            key |-> CHOOSE k \in Names : TRUE, public |-> CHOOSE k \in Keys : TRUE,
            payload |-> Malformed]

\* The copies of a receipt that may reach a receiver.
Copies(s) == {s, [s EXCEPT !.intact = FALSE, !.number = 0], Garbled}

\* Files presented as artifacts: those of S that exist.
Presented(S) == [e \in {x \in S : file[x] # Absent} |-> file[e]]

Record(d, artifacts, declaration) ==
    /\ decisions' = decisions \cup
          {[receipt |-> d, artifacts |-> artifacts, declaration |-> declaration]}
    /\ UNCHANGED <<clock, edits, file, log>>

\* command_decide: every artifact of the manifest must exist.
Decide(s, call) ==
    LET artifacts == Presented(call.evidence) IN
    /\ Cardinality(decisions) < MaxDecisions
    /\ DOMAIN artifacts = call.evidence
    /\ Record(Decision(s, call.format, call.adapters, artifacts, call.policy, clock, call.side,
                       "pinned"), artifacts, None)

\* A deviation: evidence is withheld for claims that are themselves changed roots.
WithheldAtRoots(declaration) ==
    UNION {declaration.bindings[c] :
              c \in declaration.required \cap Continuity!Roots(declaration)}

\* The evidence of required claims that a change reopens.
Withheld(declaration) ==
    Continuity!Result(declaration, declaration.claims \cap Continuity!Exposed(declaration)).blocked

\* run_check: a declaration, when the pack has one, must be valid, and what it blocks is
\* withheld from the gate; a receipt that does not verify would stop the command.
Check(s, pack) ==
    LET declared == pack.declaration # None
        withheld == IF declared THEN Withheld(pack.declaration) ELSE {}
        artifacts == Presented(pack.evidence \ withheld)
        d == Decision(s, "native", {"native"}, artifacts, pack.policy, clock, pack.side,
                      pack.gate)
    IN
    /\ Cardinality(decisions) < MaxDecisions
    /\ declared => /\ Continuity!Valid(pack.declaration)
                   /\ pack.declaration.available = pack.evidence
    /\ VerifyDecision(d, pack.gate)
    /\ Record(d, artifacts, pack.declaration)

Next ==
    \/ Tick
    \/ \E e \in Evidence, c \in Contents \cup {Absent} : EditFile(e, c)
    \/ \E draft \in Drafts : Issue(draft)
    \/ \E i \in DOMAIN log : \E s \in Copies(log[i]) :
          \/ \E call \in Calls : Decide(s, call)
          \/ \E pack \in Packs : Check(s, pack)

Spec == Init /\ [][Next]_vars

----------------------------------------------------------------------------
(* Chain and handoff.                                                      *)

\* verify_native_chain's status of a list of receipts.
Linked(a, b) ==
    /\ b.payload.sequence = a.payload.sequence + 1
    /\ b.payload.parent = a.number
    /\ b.payload.run = a.payload.run
    /\ b.payload.issuer = a.payload.issuer

Intakes(items) == [i \in DOMAIN items |-> Inspect(items[i], "native", {"native"})]

\* Only neighbours that both have a payload are compared.
Broken(items, intake) ==
    LET readable == {i \in DOMAIN items : intake[i].payload \notin {None, Malformed}}
    IN \/ items = <<>>
       \/ 1 \in readable /\ ~(items[1].payload.sequence = 0 /\ items[1].payload.parent = None)
       \/ \E i \in readable : i + 1 \in readable /\ ~Linked(items[i], items[i + 1])

Reports(intake) ==
    UNION {{intake[i].integrity, intake[i].provenance, intake[i].normalization} :
              i \in DOMAIN intake}

ChainStatus(items) ==
    LET intake == Intakes(items)
    IN Worst(Reports(intake) \cup {IF Broken(items, intake) THEN "fail" ELSE "pass"})

\* build_handoff_projection goes through with a valid chain and these decisions: each
\* verifies under the pinned gate key and is about a native receipt of the chain.
Projectable(items, D) ==
    \A d \in D : /\ VerifyDecision(d, "pinned")
                 /\ d.format = "native"
                 /\ \E i \in DOMAIN items : d.source = items[i]

Eligible(s, D, allowed) == {d \in D : d.source = s /\ d.policy \in allowed}

\* A deviation: one commit is enough.
AcceptedByOne(items, D, allowed) ==
    {i \in DOMAIN items : \E d \in Eligible(items[i], D, allowed) : Commits(d)}

\* Receipts with a decision under an allowed policy, and no such decision that is
\* not a commit.
Accepted(items, D, allowed) ==
    {i \in DOMAIN items : /\ Eligible(items[i], D, allowed) # {}
                          /\ \A d \in Eligible(items[i], D, allowed) : Commits(d)}

\* The last MaxClaims of them, and the facts shown for one.
Visible(accepted) ==
    {i \in accepted : Cardinality({j \in accepted : j > i}) < MaxClaims}

ShownFacts(s, D, allowed) == UNION {d.policy.rules : d \in Eligible(s, D, allowed)}

----------------------------------------------------------------------------
(* Impact.                                                                 *)

\* bind_verified_decision accepts the decision and the bytes of its source.  Unlike
\* the gate it asks that the issuer be the key id.
Bindable(d, s) ==
    /\ VerifyDecision(d, "pinned")
    /\ Commits(d)
    /\ d.source = s
    /\ s.format = "native" /\ s.intact /\ s.payload # Malformed
    /\ s.payload.issuer = s.key
    /\ s.key \in DOMAIN Trust /\ Trust[s.key] = s.public
    /\ d.policy.required \subseteq DOMAIN s.payload.evidence

Bound(d, complete) ==
    [decision |-> d, evidence |-> {d.source.payload.evidence[e] : e \in d.policy.required},
     complete |-> complete]

\* build_impact_index: from each bound hash to the decisions that rest on it.
ReverseIndex(B) ==
    [h \in UNION {b.evidence : b \in B} |-> {b.decision : b \in {c \in B : h \in c.evidence}}]

\* A deviation: what is not known to be complete is undetermined, reopened or not.
ImpactOverlapping(B, invalidated) ==
    LET index == ReverseIndex(B)
        impacted == UNION {index[h] : h \in invalidated \cap DOMAIN index}
    IN [reopen |-> {b.decision : b \in {c \in B : c.decision \in impacted}},
        retain |-> {b.decision : b \in {c \in B : c.decision \notin impacted /\ c.complete}},
        undetermined |-> {b.decision : b \in {c \in B : ~c.complete}}]

\* evaluate_impact for invalidated hashes.
Impact(B, invalidated) ==
    LET index == ReverseIndex(B)
        impacted == UNION {index[h] : h \in invalidated \cap DOMAIN index}
    IN [reopen |-> {b.decision : b \in {c \in B : c.decision \in impacted}},
        retain |-> {b.decision : b \in {c \in B : c.decision \notin impacted /\ c.complete}},
        undetermined |-> {b.decision :
                            b \in {c \in B : c.decision \notin impacted /\ ~c.complete}}]

----------------------------------------------------------------------------
(* Properties.                                                             *)

Issued == {log[i] : i \in DOMAIN log}

Receipts == {x.receipt : x \in decisions}

\* Those a handoff can be built from.
Admissible == {d \in Receipts : VerifyDecision(d, "pinned") /\ d.format = "native"}

\* gate.py, claim_support.py, check.py:268: a COMMIT is about a receipt as its producer
\* issued it, under a pinned key, for an allowed action, less than a second ahead and less
\* than a second over its age (gate.py:80 cuts off fractions); every piece of
\* required evidence was presented with the bytes the receipt commits to, the
\* receiver's facts are in them, and none of it is bound to a required claim that
\* descends from a changed root.
CommitEarned ==
    \A x \in decisions : Commits(x.receipt) =>
        LET s == x.receipt.source
            policy == x.receipt.policy
        IN
        /\ s \in Issued
        /\ s.key \in DOMAIN Trust /\ Trust[s.key] = s.public
        /\ s.payload.action \in policy.actions
        /\ s.payload.issuedAt < x.receipt.issuedAt + Second
        /\ x.receipt.issuedAt < s.payload.issuedAt + (policy.maxAge + 1) * Second
        /\ \A e \in policy.required : x.artifacts[e] = s.payload.evidence[e]
        /\ policy.rules # {}
        /\ \A r \in policy.rules : Facts[s.payload.evidence[r.evidence]][r.pointer] = r.expected
        /\ x.declaration # None =>
              \A c \in x.declaration.required \cap Continuity!Exposed(x.declaration) :
                  x.declaration.bindings[c] \cap policy.required = {}

\* What a receiver was shown contradicts itself, its policy or its trust.
Contradicted(d, artifacts) ==
    LET s == d.source
        p == s.payload
    IN
    \/ s.format # "native" \/ ~s.intact \/ p = Malformed
    \/ s.key \in DOMAIN Trust /\ Trust[s.key] # s.public
    \/ p # Malformed /\ (p.action \notin d.policy.actions \/ p.issuedAt = None)
    \/ p # Malformed /\ p.issuedAt # None /\ p.issuedAt >= d.issuedAt + Second
    \/ p # Malformed /\ \E e \in d.policy.required \cap DOMAIN p.evidence \cap DOMAIN artifacts :
                           artifacts[e] # p.evidence[e]
    \/ \E r \in d.policy.rules :
          /\ r.evidence \in DOMAIN artifacts
          /\ \/ r.pointer \notin DOMAIN Facts[artifacts[r.evidence]]
             \/ Facts[artifacts[r.evidence]][r.pointer] # r.expected

\* ARCHITECTURE.md:18 "At least one check fails": what contradicts what a native decision
\* was shown rejects it, whatever else was missing, unknown, withheld or out of date.
\* None is put aside as undecidable, where a later and fuller presentation might pass.
ContradictionRejects ==
    \A x \in decisions :
        x.receipt.format = "native" /\ Contradicted(x.receipt, x.artifacts) =>
            x.receipt.disposition \in {<<"REJECTED", "DENY">>, <<"REJECTED", "ROLLBACK_REQUEST">>}

\* Chains a receiver may be handed and that pass: lists of copies, in any order, with
\* gaps and repetitions.
ValidChains ==
    LET all == UNION {Copies(log[i]) : i \in DOMAIN log}
    IN {items \in UNION {[1..n -> all] : n \in 0..Len(log)} : ChainStatus(items) = "pass"}

\* handoff.py:163, ARCHITECTURE.md:37: what the next model is told is the end of a run
\* as its producer issued it, gaps and damage refused, and every fact shown is true of
\* the bytes the receipt commits to, whichever decisions were handed in.
HandoffRests ==
    \A items \in ValidChains :
        /\ \A i \in DOMAIN items :
              /\ items[i] \in Issued
              /\ {j \in OfRun(items[1].payload.run) : j <= items[i].number}
                    = {items[k].number : k \in 1..i}
        /\ \A D \in SUBSET Receipts, allowed \in SUBSET Policies :
              Projectable(items, D) =>
              \A i \in Visible(Accepted(items, D, allowed)) :
                  \A f \in ShownFacts(items[i], D, allowed) :
                      Facts[items[i].payload.evidence[f.evidence]][f.pointer] = f.expected

\* handoff.py:163 "Conflicting eligible decisions exclude the source instead of letting
\* one COMMIT win": no later decision brings back a receipt that was decided against.
DissentIsFinal ==
    [][\A s \in Issued, allowed \in SUBSET Policies :
          Eligible(s, Admissible, allowed) # {} /\ 1 \in Accepted(<<s>>, Admissible', allowed)
              => 1 \in Accepted(<<s>>, Admissible, allowed)]_vars

\* impact.py:10 "A decision can be RETAINED only when its receiver-declared binding is
\* complete and none of the invalidated evidence hashes appear in that frozen binding":
\* every bound decision gets exactly one standing, none is retained whose facts rest on
\* invalidated bytes, and none is reopened for another's evidence.
ImpactSound ==
    \A D \in SUBSET {d \in Receipts : Bindable(d, d.source)} :
        \A complete \in [D -> BOOLEAN], invalidated \in SUBSET Contents :
            LET result == Impact({Bound(d, complete[d]) : d \in D}, invalidated)
                rests(d) == \E e \in d.policy.required : d.source.payload.evidence[e] \in invalidated
            IN
            /\ result.reopen \cup result.retain \cup result.undetermined = D
            /\ result.reopen \cap result.retain = {} /\ result.reopen \cap result.undetermined = {}
            /\ result.retain \cap result.undetermined = {}
            /\ \A d \in result.retain : complete[d]
            /\ \A d \in result.retain : \A r \in d.policy.rules :
                  d.source.payload.evidence[r.evidence] \notin invalidated
            /\ \A d \in D : d \in result.reopen <=> rests(d)
=============================================================================
