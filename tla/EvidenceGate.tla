---------------------------- MODULE EvidenceGate ----------------------------
(***************************************************************************)
(* From a source receipt to a receiver's decision: intake (gateway.py,     *)
(* mapped_adapter.py, wire.py), policy (policy.py), claim support          *)
(* (claim_support.py), the gate (gate.py) and the verification of its      *)
(* receipts (wire.py).                                                     *)
(*                                                                         *)
(* A hash is what it is the hash of, a valid signature is intact |-> TRUE. *)
(* Reason codes, size limits and JSON shapes are left out: a payload that  *)
(* its validator refuses is Malformed.                                     *)
(***************************************************************************)
EXTENDS Integers, FiniteSets

CONSTANTS Names,     \* key ids and issuers
          Keys,      \* public keys of producers
          Trust,     \* producer_trust: the key pinned for some of Names
          Actions, Runs,
          Evidence,  \* evidence ids
          Contents,  \* bytes an artifact may have
          Facts,     \* Facts[c]: the value at each pointer that resolves in c; no JSON, no pointer
          Policies,  \* the receiver's policies
          Second,    \* units of time in a second: receipts carry fractions of one
          Malformed, None

Statuses == {"pass", "fail", "unavailable"}

Checks == {"integrity", "provenance", "normalization", "policy", "freshness", "evidence",
           "claim_support"}

\* Policy.from_mapping accepts it.
PolicyValid(p) ==
    /\ \A r \in p.rules : r.evidence \in p.required
    /\ \A r, s \in p.rules : r.id = s.id => r = s
    /\ p.onUndecidable \in {"QUARANTINE", "NO_BADGE"}
    /\ p.maxAge \in Nat
    /\ p.rollback \in BOOLEAN

ASSUME GateConstants ==
    /\ DOMAIN Trust \subseteq Names /\ \A k \in DOMAIN Trust : Trust[k] \in Keys
    /\ \A p \in Policies : PolicyValid(p)
    /\ Second \in Nat \ {0}
    /\ Malformed # None

\* What a source says.  issuedAt is None when it is no timestamp; parent is the
\* number of an envelope; evidence commits to the bytes of some artifacts.
Payload == [issuer: Names, issuedAt: Int \cup {None}, run: Runs, sequence: Nat,
            parent: Nat \cup {None}, action: Actions,
            evidence: UNION {[S -> Contents] : S \in SUBSET Evidence}]

\* No payload is not a payload.
ASSUME PayloadConstants == None \notin Payload

\* The bytes of a source receipt.  Its envelope has a number of its own, unless it
\* was damaged: then 0.
Source == [number: Nat, format: {"native", "foreign"}, readable: BOOLEAN, intact: BOOLEAN,
           key: Names, public: Keys, payload: Payload \cup {Malformed}]

----------------------------------------------------------------------------
(* Intake.                                                                 *)

Intake(integrity, provenance, normalization, payload) ==
    [integrity |-> integrity, provenance |-> provenance, normalization |-> normalization,
     payload |-> payload]

Provenance(s) ==
    IF ~s.intact \/ s.key \notin DOMAIN Trust THEN "unavailable"
    ELSE IF Trust[s.key] # s.public THEN "fail"
    ELSE "pass"

\* assess, of either adapter, on a document in its own format.  A native payload
\* reaches the gate even when it is malformed, a foreign one does not.
Assess(s) ==
    Intake(IF s.intact THEN "pass" ELSE "fail",
           Provenance(s),
           IF s.payload = Malformed THEN "fail" ELSE "pass",
           IF s.payload = Malformed /\ s.format = "foreign" THEN None ELSE s.payload)

\* EvidenceGateway.inspect with adapters for these formats: what one of them cannot
\* parse has no payload, and neither has a document of the other format.
Inspect(s, format, adapters) ==
    IF format \notin adapters THEN Intake("unavailable", "unavailable", "unavailable", None)
    ELSE IF ~s.readable THEN Intake("fail", "unavailable", "unavailable", None)
    ELSE IF s.format # format THEN Intake("fail", "unavailable", "fail", None)
    ELSE Assess(s)

----------------------------------------------------------------------------
(* The gate.                                                               *)

Worst(S) == IF "fail" \in S THEN "fail"
            ELSE IF "unavailable" \in S THEN "unavailable" ELSE "pass"

\* Whole seconds between two moments; int() cuts off the fraction on either side of 0,
\* so that less than a second ahead is no age at all.
Age(issuedAt, now) ==
    IF issuedAt <= now THEN (now - issuedAt) \div Second ELSE -((issuedAt - now) \div Second)

Freshness(issuedAt, now, policy) ==
    IF issuedAt = None THEN "fail"
    ELSE IF Age(issuedAt, now) < 0 THEN "fail"
    ELSE IF Age(issuedAt, now) > policy.maxAge THEN "unavailable"
    ELSE "pass"

\* Required evidence, each item committed to, presented, and with these bytes.
EvidenceStatus(commitments, artifacts, policy) ==
    Worst({IF e \notin DOMAIN commitments \cap DOMAIN artifacts THEN "unavailable"
           ELSE IF artifacts[e] # commitments[e] THEN "fail"
           ELSE "pass" : e \in policy.required})

\* A deviation: a fact counts when its pointer resolves.
FactResolves(content, rule) == rule.pointer \in DOMAIN content

\* The pointer of a rule finds the expected value in the bytes.
FactMatches(content, rule) ==
    /\ rule.pointer \in DOMAIN content
    /\ content[rule.pointer] = rule.expected

\* evaluate_claim_support
ClaimSupport(artifacts, policy) ==
    IF policy.rules = {} THEN "unavailable"
    ELSE Worst({IF r.evidence \notin DOMAIN artifacts THEN "unavailable"
                ELSE IF FactMatches(Facts[artifacts[r.evidence]], r) THEN "pass"
                ELSE "fail" : r \in policy.rules})

\* One of the seven assessments.  A malformed payload has none of the fields.
Assessment(intake, artifacts, policy, now, c) ==
    LET payload == intake.payload
        present == payload \notin {None, Malformed}
    IN CASE c = "integrity" -> intake.integrity
         [] c = "provenance" -> intake.provenance
         [] c = "normalization" -> intake.normalization
         [] c \in {"policy", "freshness", "evidence", "claim_support"} /\ payload = None
              -> "unavailable"
         [] c = "policy" /\ payload # None ->
              IF present /\ payload.action \in policy.actions THEN "pass" ELSE "fail"
         [] c = "freshness" /\ payload # None ->
              IF present THEN Freshness(payload.issuedAt, now, policy) ELSE "fail"
         [] c = "evidence" /\ payload # None ->
              EvidenceStatus(IF present THEN payload.evidence ELSE <<>>, artifacts, policy)
         [] c = "claim_support" /\ payload # None -> ClaimSupport(artifacts, policy)

Assessments(intake, artifacts, policy, now) ==
    [c \in Checks |-> Assessment(intake, artifacts, policy, now, c)]

\* A deviation: what cannot be decided is, before what is contradicted.
DispositionDoubtFirst(statuses, policy, side) ==
    IF "unavailable" \in statuses THEN <<"UNDECIDABLE", policy.onUndecidable>>
    ELSE IF "fail" \in statuses
    THEN <<"REJECTED", IF side /\ policy.rollback THEN "ROLLBACK_REQUEST" ELSE "DENY">>
    ELSE <<"VERIFIED", "COMMIT">>

\* A deviation: what is not undone is put aside.
DispositionLenient(statuses, policy, side) ==
    IF "fail" \in statuses
    THEN <<"REJECTED", IF side /\ policy.rollback THEN "ROLLBACK_REQUEST"
                       ELSE policy.onUndecidable>>
    ELSE IF "unavailable" \in statuses THEN <<"UNDECIDABLE", policy.onUndecidable>>
    ELSE <<"VERIFIED", "COMMIT">>

\* disposition_for: verdict and decision.
Disposition(statuses, policy, side) ==
    IF "fail" \in statuses
    THEN <<"REJECTED", IF side /\ policy.rollback THEN "ROLLBACK_REQUEST" ELSE "DENY">>
    ELSE IF "unavailable" \in statuses THEN <<"UNDECIDABLE", policy.onUndecidable>>
    ELSE <<"VERIFIED", "COMMIT">>

\* What the gate's disposition rests on.
GateStatuses(assessments) == {assessments[c] : c \in Checks}

\* ReceiptGate.decide: the signed receipt of its decision.
Decision(s, format, adapters, artifacts, policy, now, side, gate) ==
    LET assessments == Assessments(Inspect(s, format, adapters), artifacts, policy, now)
    IN [gate |-> gate, issuedAt |-> now, format |-> format, source |-> s, policy |-> policy,
        side |-> side, assessments |-> assessments,
        disposition |-> Disposition(GateStatuses(assessments), policy, side)]

\* verify_decision_receipt under the one key that is trusted for the gate: the policy
\* is one, and the disposition is computed again from the assessments.
VerifyDecision(d, trusted) ==
    /\ d.gate = trusted
    /\ PolicyValid(d.policy)
    /\ DOMAIN d.assessments = Checks
    /\ d.disposition = Disposition({d.assessments[c] : c \in Checks}, d.policy, d.side)

Commits(d) == d.disposition = <<"VERIFIED", "COMMIT">>
=============================================================================
