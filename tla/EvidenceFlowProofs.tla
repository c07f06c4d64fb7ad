-------------------------- MODULE EvidenceFlowProofs --------------------------
(***************************************************************************)
(* Proofs about EvidenceFlow for all producers, policies, files, calls and *)
(* declarations, and any bounds on time, receipts, decisions and edits.    *)
(***************************************************************************)
EXTENDS EvidenceFlow, FiniteSetTheorems, WellFoundedInduction, TLAPS

----------------------------------------------------------------------------
(* Numbers.  The least number stands in for induction.                     *)

LEMMA Least ==
    ASSUME NEW T \in SUBSET Nat, T # {}
    PROVE  \E x \in T : \A y \in T : x <= y
<1>1. PICK x \in T : \A y \in T : ~(<<y, x>> \in OpToRel(<, Nat))
  BY NatLessThanWellFounded, WFMin
<1>2. \A y \in T : ~(y < x)
  BY <1>1, Zenon DEF OpToRel
<1> QED
  BY <1>2

LEMMA Greatest ==
    ASSUME NEW n \in Nat, NEW T \in SUBSET (1..n), T # {}
    PROVE  \E x \in T : \A y \in T : y <= x
<1> DEFINE M == {n - x : x \in T}
<1>1. M \in SUBSET Nat /\ M # {}
  <2>1. \A x \in T : n - x \in Nat
    OBVIOUS
  <2>2. \A k \in M : k \in Nat
    BY <2>1, Zenon
  <2>3. M # {}
    BY Zenon
  <2> QED
    BY <2>2, <2>3, Zenon
<1>2. PICK m \in M : \A k \in M : m <= k
  BY <1>1, Least
<1>3. PICK x \in T : m = n - x
  OBVIOUS
<1>4. \A y \in T : n - y \in M
  OBVIOUS
<1>5. \A y \in T : y <= x
  BY <1>2, <1>3, <1>4
<1> QED
  BY <1>3, <1>5

----------------------------------------------------------------------------
(* The gate.                                                               *)

\* The worst of some statuses is a status, and passes only when none is worse.
LEMMA WorstIs ==
    ASSUME NEW S
    PROVE  /\ Worst(S) \in Statuses
           /\ Worst(S) = "pass" => "fail" \notin S /\ "unavailable" \notin S
BY DEF Worst, Statuses

LEMMA IntakeTyped ==
    ASSUME NEW s, NEW format, NEW adapters
    PROVE  /\ Inspect(s, format, adapters).integrity \in Statuses
           /\ Inspect(s, format, adapters).provenance \in Statuses
           /\ Inspect(s, format, adapters).normalization \in Statuses
<1>1. /\ Assess(s).integrity \in Statuses /\ Assess(s).provenance \in Statuses
      /\ Assess(s).normalization \in Statuses
  BY DEF Assess, Intake, Provenance, Statuses
<1> QED
  BY <1>1 DEF Inspect, Intake, Statuses

\* What each of the seven assessments is, without the case distinction.
LEMMA AssessmentValues ==
    ASSUME NEW intake, NEW artifacts, NEW policy, NEW now
    PROVE  LET a == Assessments(intake, artifacts, policy, now)
               payload == intake.payload
               present == payload \notin {None, Malformed}
           IN
           /\ DOMAIN a = Checks
           /\ a["integrity"] = intake.integrity
           /\ a["provenance"] = intake.provenance
           /\ a["normalization"] = intake.normalization
           /\ a["policy"] = IF payload = None THEN "unavailable"
                            ELSE IF present /\ payload.action \in policy.actions THEN "pass"
                            ELSE "fail"
           /\ a["freshness"] = IF payload = None THEN "unavailable"
                               ELSE IF present THEN Freshness(payload.issuedAt, now, policy)
                               ELSE "fail"
           /\ a["evidence"] = IF payload = None THEN "unavailable"
                              ELSE EvidenceStatus(IF present THEN payload.evidence ELSE <<>>,
                                                  artifacts, policy)
           /\ a["claim_support"] = IF payload = None THEN "unavailable"
                                   ELSE ClaimSupport(artifacts, policy)
BY DEF Assessments, Assessment, Checks

LEMMA AssessmentsTyped ==
    ASSUME NEW s, NEW format, NEW adapters, NEW artifacts, NEW policy, NEW now
    PROVE  Assessments(Inspect(s, format, adapters), artifacts, policy, now) \in [Checks -> Statuses]
<1> DEFINE intake == Inspect(s, format, adapters)
           a == Assessments(intake, artifacts, policy, now)
<1> SUFFICES a \in [Checks -> Statuses]
  OBVIOUS
<1>1. a = [c \in Checks |-> Assessment(intake, artifacts, policy, now, c)]
  BY DEF Assessments
<1>2. ASSUME NEW c \in Checks PROVE a[c] \in Statuses
  <2>1. /\ intake.integrity \in Statuses /\ intake.provenance \in Statuses
        /\ intake.normalization \in Statuses
    BY IntakeTyped
  <2>2. \A t : Freshness(t, now, policy) \in Statuses
    BY DEF Freshness, Statuses
  <2>3. \A m : EvidenceStatus(m, artifacts, policy) \in Statuses
    BY WorstIs DEF EvidenceStatus
  <2>4. ClaimSupport(artifacts, policy) \in Statuses
    BY WorstIs DEF ClaimSupport, Statuses
  <2>5. "pass" \in Statuses /\ "fail" \in Statuses /\ "unavailable" \in Statuses
    BY DEF Statuses
  <2> HIDE DEF intake
  <2> QED
    BY <2>1, <2>2, <2>3, <2>4, <2>5, AssessmentValues DEF Checks
<1> HIDE DEF a
<1> QED
  BY <1>1, <1>2

\* A decision to commit has seven assessments that pass.
LEMMA CommitPasses ==
    ASSUME NEW s, NEW format, NEW adapters, NEW artifacts, NEW policy, NEW now, NEW side, NEW gate,
           Commits(Decision(s, format, adapters, artifacts, policy, now, side, gate))
    PROVE  LET a == Assessments(Inspect(s, format, adapters), artifacts, policy, now)
           IN \A c \in Checks : a[c] = "pass"
<1> DEFINE a == Assessments(Inspect(s, format, adapters), artifacts, policy, now)
<1>1. a \in [Checks -> Statuses]
  BY AssessmentsTyped
<1>2. Disposition(GateStatuses(a), policy, side) = <<"VERIFIED", "COMMIT">>
  BY DEF Commits, Decision
<1>3. "fail" \notin GateStatuses(a) /\ "unavailable" \notin GateStatuses(a)
  <2>1. /\ <<"REJECTED", IF side /\ policy.rollback THEN "ROLLBACK_REQUEST" ELSE "DENY">>
             # <<"VERIFIED", "COMMIT">>
        /\ <<"UNDECIDABLE", policy.onUndecidable>> # <<"VERIFIED", "COMMIT">>
    OBVIOUS
  <2> QED
    BY <1>2, <2>1 DEF Disposition
<1> HIDE DEF a
<1>4. \A c \in Checks : a[c] = "pass"
  BY <1>1, <1>3 DEF GateStatuses, Statuses
<1> QED
  BY <1>4 DEF a

\* Seven passing assessments, in terms of the source and the artifacts.
LEMMA PassMeans ==
    ASSUME NEW s, NEW format, NEW adapters, NEW artifacts, NEW policy, NEW now,
           LET a == Assessments(Inspect(s, format, adapters), artifacts, policy, now)
           IN \A c \in Checks : a[c] = "pass"
    PROVE  /\ s.intact
           /\ s.key \in DOMAIN Trust /\ Trust[s.key] = s.public
           /\ s.payload # Malformed /\ s.payload # None
           /\ s.payload.action \in policy.actions
           /\ Freshness(s.payload.issuedAt, now, policy) = "pass"
           /\ EvidenceStatus(s.payload.evidence, artifacts, policy) = "pass"
           /\ ClaimSupport(artifacts, policy) = "pass"
<1> DEFINE intake == Inspect(s, format, adapters)
           a == Assessments(intake, artifacts, policy, now)
<1>1. /\ a["integrity"] = "pass" /\ a["provenance"] = "pass" /\ a["normalization"] = "pass"
      /\ a["policy"] = "pass" /\ a["freshness"] = "pass" /\ a["evidence"] = "pass"
      /\ a["claim_support"] = "pass"
  BY DEF Checks
<1>2. intake.integrity = "pass" /\ intake.provenance = "pass" /\ intake.normalization = "pass"
  BY <1>1, AssessmentValues
<1>3. intake = Assess(s)
  BY <1>2 DEF Inspect, Intake
<1>4. /\ s.intact
      /\ s.key \in DOMAIN Trust /\ Trust[s.key] = s.public
      /\ s.payload # Malformed /\ intake.payload = s.payload
  BY <1>2, <1>3 DEF Assess, Intake, Provenance
<1> HIDE DEF intake
<1>5. s.payload # None
  BY <1>1, <1>4, AssessmentValues
<1>6. /\ s.payload.action \in policy.actions
      /\ Freshness(s.payload.issuedAt, now, policy) = "pass"
      /\ EvidenceStatus(s.payload.evidence, artifacts, policy) = "pass"
      /\ ClaimSupport(artifacts, policy) = "pass"
  BY <1>1, <1>4, <1>5, AssessmentValues
<1> QED
  BY <1>4, <1>5, <1>6

\* Evidence that passes was committed to and presented, with the same bytes.
LEMMA EvidencePasses ==
    ASSUME NEW commitments, NEW artifacts, NEW policy,
           EvidenceStatus(commitments, artifacts, policy) = "pass",
           NEW e \in policy.required
    PROVE  /\ e \in DOMAIN commitments /\ e \in DOMAIN artifacts
           /\ artifacts[e] = commitments[e]
BY WorstIs DEF EvidenceStatus

\* Claims that pass have rules, each met by the bytes presented.
LEMMA ClaimsPass ==
    ASSUME NEW artifacts, NEW policy, ClaimSupport(artifacts, policy) = "pass"
    PROVE  /\ policy.rules # {}
           /\ \A r \in policy.rules :
                 Facts[artifacts[r.evidence]][r.pointer] = r.expected
BY WorstIs DEF ClaimSupport, FactMatches

\* A window of whole seconds, as int() sees it.
LEMMA WholeSeconds ==
    ASSUME NEW a \in Nat, NEW s \in Nat \ {0}, NEW m \in Nat
    PROVE  /\ a \div s \in Nat
           /\ a >= s => a \div s >= 1
           /\ a \div s <= 0 => a < s
           /\ a \div s <= m => a < (m + 1) * s
<1> DEFINE q == a \div s
           r == a % s
<1>1. q \in Int /\ r \in 0..s-1 /\ a = s * q + r
  OBVIOUS
<1> HIDE DEF q, r
<1>2. q >= 0
  <2>1. SUFFICES ASSUME q <= -1 PROVE FALSE
    BY <1>1
  <2>2. s * q <= s * (-1)
    BY <1>1, <2>1
  <2> QED
    BY <1>1, <2>2
<1>3. ASSUME NEW k \in Nat, q <= k PROVE a < (k + 1) * s
  <2>1. s * q <= s * k
    BY <1>1, <1>3
  <2>2. (k + 1) * s = s * k + s
    OBVIOUS
  <2> QED
    BY <1>1, <2>1, <2>2
<1>4. q <= 0 => a < s
  BY <1>1, <1>3
<1>5. a >= s => q >= 1
  BY <1>1, <1>4
<1> QED
  BY <1>1, <1>2, <1>3, <1>4, <1>5 DEF q

\* The window of the gate in the units of its clock.
LEMMA FreshIs ==
    ASSUME NEW issuedAt \in Int \cup {None}, NEW now \in Int, NEW policy, policy.maxAge \in Nat
    PROVE  /\ Freshness(issuedAt, now, policy) = "pass" =>
                 /\ issuedAt # None
                 /\ issuedAt < now + Second /\ now < issuedAt + (policy.maxAge + 1) * Second
           /\ issuedAt = None => Freshness(issuedAt, now, policy) = "fail"
           /\ issuedAt # None /\ issuedAt >= now + Second =>
                 Freshness(issuedAt, now, policy) = "fail"
<1>1. Second \in Nat \ {0}
  BY GateConstants
<1>2. CASE issuedAt = None
  BY <1>2 DEF Freshness
<1>3. CASE issuedAt \in Int /\ issuedAt # None /\ issuedAt <= now
  <2> DEFINE a == now - issuedAt
  <2>1. a \in Nat /\ Age(issuedAt, now) = a \div Second
    BY <1>3 DEF Age
  <2>2. a \div Second \in Nat /\ (a \div Second <= policy.maxAge => a < (policy.maxAge + 1) * Second)
    BY <1>1, <2>1, WholeSeconds
  <2> DEFINE w == (policy.maxAge + 1) * Second
             q == a \div Second
  <2>3. w \in Int
    BY <1>1
  <2>4. Freshness(issuedAt, now, policy) = "pass" => q <= policy.maxAge
    BY <1>3, <2>1, <2>2 DEF Freshness
  <2> HIDE DEF w, q
  <2>5. Freshness(issuedAt, now, policy) = "pass" => a < w
    BY <2>2, <2>4 DEF w, q
  <2>6. Freshness(issuedAt, now, policy) = "pass" => now < issuedAt + w
    BY <1>3, <2>3, <2>5
  <2> QED
    BY <1>1, <1>3, <2>6 DEF w
<1>4. CASE issuedAt \in Int /\ issuedAt # None /\ issuedAt > now
  <2> DEFINE a == issuedAt - now
             q == a \div Second
             w == (policy.maxAge + 1) * Second
  <2>1. a \in Nat /\ Age(issuedAt, now) = -q
    BY <1>4 DEF Age
  <2>2. q \in Nat /\ (a >= Second => q >= 1) /\ (q <= 0 => a < Second)
    BY <1>1, <2>1, WholeSeconds
  <2>3. w \in Nat
    BY <1>1
  <2> HIDE DEF w, q
  <2>4. Freshness(issuedAt, now, policy) = "pass" => q <= 0
    BY <1>4, <2>1, <2>2 DEF Freshness
  <2>5. Freshness(issuedAt, now, policy) = "pass" =>
            issuedAt < now + Second /\ now < issuedAt + w
    BY <1>1, <1>4, <2>2, <2>3, <2>4
  <2>6. issuedAt >= now + Second => Freshness(issuedAt, now, policy) = "fail"
    BY <1>1, <1>4, <2>1, <2>2 DEF Freshness
  <2> QED
    BY <1>4, <2>5, <2>6 DEF w
<1> QED
  BY <1>2, <1>3, <1>4

----------------------------------------------------------------------------
(* Types.                                                                  *)

LEMMA CopiesTyped ==
    ASSUME TypeOK, NEW i \in DOMAIN log, NEW s \in Copies(log[i])
    PROVE  /\ s \in Source
           /\ s.intact => s = log[i]
<1>1. log[i] \in Source
  BY DEF TypeOK
<1>2. CASE s = log[i]
  BY <1>1, <1>2
<1>3. CASE s = [log[i] EXCEPT !.intact = FALSE, !.number = 0]
  BY <1>1, <1>3 DEF Source
<1>4. CASE s = Garbled
  <2>1. (CHOOSE k \in Names : TRUE) \in Names /\ (CHOOSE k \in Keys : TRUE) \in Keys
    BY <1>1 DEF Source
  <2> QED
    BY <1>4, <2>1 DEF Garbled, Source
<1> QED
  BY <1>2, <1>3, <1>4 DEF Copies

LEMMA DecisionTyped ==
    ASSUME NEW s \in Source, NEW format \in {"native", "foreign"}, NEW adapters, NEW artifacts,
           NEW policy \in Policies, NEW now \in Nat, NEW side \in BOOLEAN, NEW gate \in Gates
    PROVE  Decision(s, format, adapters, artifacts, policy, now, side, gate) \in Receipt
<1> DEFINE a == Assessments(Inspect(s, format, adapters), artifacts, policy, now)
<1>1. a \in [Checks -> Statuses]
  BY AssessmentsTyped
<1>2. Disposition(GateStatuses(a), policy, side) \in Dispositions
  BY GateConstants DEF Disposition, Dispositions, PolicyValid
<1> HIDE DEF a
<1> QED
  BY <1>1, <1>2 DEF Decision, Receipt, a

LEMMA PresentedTyped ==
    ASSUME TypeOK, NEW S \in SUBSET Evidence
    PROVE  Presented(S) \in Artifacts
<1> DEFINE D == {x \in S : file[x] # Absent}
<1>1. Presented(S) \in [D -> Contents]
  BY DEF Presented, TypeOK
<1>2. D \in SUBSET Evidence
  OBVIOUS
<1> QED
  BY <1>1, <1>2 DEF Artifacts

LEMMA IssueTyped ==
    ASSUME TypeOK, NEW draft \in Drafts, Issue(draft)
    PROVE  TypeOK'
<1> DEFINE earlier == OfRun(draft.run)
           last == CHOOSE i \in earlier : \A j \in earlier : j <= i
           evidence == [e \in draft.commits |-> file[e]]
           parent == IF draft.format = "foreign" \/ earlier = {} THEN None ELSE last
           payload == [issuer |-> draft.issuer,
                       issuedAt |-> IF draft.skew = None THEN None ELSE clock + draft.skew,
                       run |-> draft.run, sequence |-> Cardinality(earlier), parent |-> parent,
                       action |-> draft.action, evidence |-> evidence]
           source == [number |-> Len(log) + 1, format |-> draft.format, readable |-> TRUE,
                      intact |-> TRUE, key |-> draft.key, public |-> draft.public,
                      payload |-> IF draft.shaped THEN payload ELSE Malformed]
<1>1. draft \in Draft
  BY FlowConstants
<1>2. log' = Append(log, source)
  BY DEF Issue
<1>3. evidence \in UNION {[S -> Contents] : S \in SUBSET Evidence}
  <2>1. evidence \in [draft.commits -> Contents]
    BY <1>1 DEF Issue, TypeOK, Draft
  <2>2. draft.commits \in SUBSET Evidence
    BY <1>1 DEF Draft
  <2> QED
    BY <2>1, <2>2
<1>4. earlier \subseteq Nat /\ Cardinality(earlier) \in Nat
  <2>1. earlier \subseteq 1..Len(log) /\ Len(log) \in Nat
    BY DEF OfRun, TypeOK
  <2>2. IsFiniteSet(1..Len(log)) 
    BY <2>1, FS_Interval
  <2>3. IsFiniteSet(earlier)
    BY <2>1, <2>2, FS_Subset
  <2> QED
    BY <2>1, <2>3, FS_CardinalityType
<1>5. parent \in Nat \cup {None}
  <2>1. CASE earlier = {}
    BY <2>1
  <2>2. CASE earlier # {}
    <3>1. PICK i \in earlier : \A j \in earlier : j <= i
      <4>1. earlier \subseteq 1..Len(log) /\ Len(log) \in Nat
        BY DEF OfRun, TypeOK
      <4> HIDE DEF earlier
      <4> QED
        BY <4>1, <2>2, Greatest
    <3> QED
      BY <3>1, <1>4
  <2> QED
    BY <2>1, <2>2
<1>6. payload \in Payload
  <2> HIDE DEF evidence, parent, earlier
  <2> QED
    BY <1>1, <1>3, <1>4, <1>5 DEF Payload, Draft, TypeOK
<1>7. source \in Source
  <2> HIDE DEF payload
  <2> QED
    BY <1>1, <1>6 DEF Source, Draft, TypeOK
<1> QED
  <2> HIDE DEF source
  <2> QED
    BY <1>2, <1>7 DEF Issue, TypeOK

\* A decision that is recorded, by either command.
LEMMA RecordTyped ==
    ASSUME TypeOK, NEW d \in Receipt, NEW artifacts \in Artifacts,
           NEW declaration \in Inputs \cup {None}, Record(d, artifacts, declaration)
    PROVE  TypeOK'
BY DEF Record, TypeOK

\* Either command decides in the same way; nothing else is recorded.
LEMMA DecisionsMade ==
    ASSUME TypeOK, NEW i \in DOMAIN log, NEW s \in Copies(log[i])
    PROVE  /\ \A call \in Calls : Decide(s, call) =>
                 LET artifacts == Presented(call.evidence)
                 IN /\ call.format \in {"native", "foreign"} /\ call.policy \in Policies
                    /\ call.side \in BOOLEAN /\ artifacts \in Artifacts
                    /\ Record(Decision(s, call.format, call.adapters, artifacts, call.policy,
                                       clock, call.side, "pinned"), artifacts, None)
           /\ \A pack \in Packs : Check(s, pack) =>
                 LET withheld == IF pack.declaration # None THEN Withheld(pack.declaration) ELSE {}
                     artifacts == Presented(pack.evidence \ withheld)
                 IN /\ pack.policy \in Policies /\ pack.side \in BOOLEAN /\ pack.gate \in Gates
                    /\ pack.declaration \in Inputs \cup {None}
                    /\ artifacts \in Artifacts
                    /\ pack.declaration # None => Continuity!Valid(pack.declaration)
                    /\ Record(Decision(s, "native", {"native"}, artifacts, pack.policy, clock,
                                       pack.side, pack.gate),
                              artifacts, pack.declaration)
<1>1. ASSUME NEW call \in Calls, Decide(s, call)
      PROVE  LET artifacts == Presented(call.evidence)
             IN /\ call.format \in {"native", "foreign"} /\ call.policy \in Policies
                /\ call.side \in BOOLEAN /\ artifacts \in Artifacts
                /\ Record(Decision(s, call.format, call.adapters, artifacts, call.policy,
                                   clock, call.side, "pinned"), artifacts, None)
  <2>1. /\ call.format \in {"native", "foreign"} /\ call.policy \in Policies
        /\ call.side \in BOOLEAN /\ call.evidence \in SUBSET Evidence
    BY FlowConstants DEF Call
  <2>2. Presented(call.evidence) \in Artifacts
    BY <2>1, PresentedTyped
  <2> QED
    BY <1>1, <2>1, <2>2 DEF Decide
<1>2. ASSUME NEW pack \in Packs, Check(s, pack)
      PROVE  LET withheld == IF pack.declaration # None THEN Withheld(pack.declaration) ELSE {}
                 artifacts == Presented(pack.evidence \ withheld)
             IN /\ pack.policy \in Policies /\ pack.side \in BOOLEAN /\ pack.gate \in Gates
                /\ pack.declaration \in Inputs \cup {None}
                /\ artifacts \in Artifacts
                /\ pack.declaration # None => Continuity!Valid(pack.declaration)
                /\ Record(Decision(s, "native", {"native"}, artifacts, pack.policy, clock,
                                   pack.side, pack.gate),
                          artifacts, pack.declaration)
  <2> DEFINE withheld == IF pack.declaration # None THEN Withheld(pack.declaration) ELSE {}
             artifacts == Presented(pack.evidence \ withheld)
  <2>1. /\ pack.policy \in Policies /\ pack.side \in BOOLEAN /\ pack.gate \in Gates
        /\ pack.declaration \in Inputs \cup {None} /\ pack.evidence \in SUBSET Evidence
    BY FlowConstants DEF Pack, Gates
  <2>2. artifacts \in Artifacts
    BY <2>1, PresentedTyped
  <2>3. /\ pack.declaration # None => Continuity!Valid(pack.declaration)
        /\ Record(Decision(s, "native", {"native"}, artifacts, pack.policy, clock,
                           pack.side, pack.gate), artifacts, pack.declaration)
    BY <1>2 DEF Check
  <2> QED
    BY <2>1, <2>2, <2>3
<1> QED
  BY <1>1, <1>2

LEMMA TypeInit == Init => TypeOK
BY FlowConstants DEF Init, TypeOK

LEMMA TypeStep == TypeOK /\ [Next]_vars => TypeOK'
<1> SUFFICES ASSUME TypeOK, [Next]_vars PROVE TypeOK'
  OBVIOUS
<1>1. CASE Tick
  BY <1>1, FlowConstants DEF Tick, TypeOK
<1>2. ASSUME NEW e \in Evidence, NEW c \in Contents \cup {Absent}, EditFile(e, c)
      PROVE  TypeOK'
  BY <1>2, FlowConstants DEF EditFile, TypeOK
<1>3. ASSUME NEW draft \in Drafts, Issue(draft) PROVE TypeOK'
  BY <1>3, IssueTyped
<1>4. ASSUME NEW i \in DOMAIN log, NEW s \in Copies(log[i]), NEW call \in Calls, Decide(s, call)
      PROVE  TypeOK'
  <2>1. s \in Source /\ clock \in Nat /\ "pinned" \in Gates
    BY CopiesTyped, FlowConstants DEF TypeOK, Gates
  <2> DEFINE artifacts == Presented(call.evidence)
  <2>2. /\ call.format \in {"native", "foreign"} /\ call.policy \in Policies
        /\ call.side \in BOOLEAN /\ artifacts \in Artifacts
        /\ Record(Decision(s, call.format, call.adapters, artifacts, call.policy, clock,
                           call.side, "pinned"), artifacts, None)
    BY <1>4, DecisionsMade
  <2> HIDE DEF artifacts
  <2>3. Decision(s, call.format, call.adapters, artifacts, call.policy, clock, call.side, "pinned")
          \in Receipt
    BY <2>1, <2>2, DecisionTyped
  <2> QED
    BY <2>2, <2>3, RecordTyped
<1>5. ASSUME NEW i \in DOMAIN log, NEW s \in Copies(log[i]), NEW pack \in Packs, Check(s, pack)
      PROVE  TypeOK'
  <2> DEFINE withheld == IF pack.declaration # None THEN Withheld(pack.declaration) ELSE {}
             artifacts == Presented(pack.evidence \ withheld)
  <2>1. s \in Source /\ clock \in Nat
    BY CopiesTyped, FlowConstants DEF TypeOK
  <2>2. /\ pack.policy \in Policies /\ pack.side \in BOOLEAN /\ pack.gate \in Gates
        /\ pack.declaration \in Inputs \cup {None} /\ artifacts \in Artifacts
        /\ Record(Decision(s, "native", {"native"}, artifacts, pack.policy, clock,
                           pack.side, pack.gate), artifacts, pack.declaration)
    BY <1>5, DecisionsMade
  <2> HIDE DEF artifacts
  <2>3. Decision(s, "native", {"native"}, artifacts, pack.policy, clock, pack.side, pack.gate)
          \in Receipt
    BY <2>1, <2>2, DecisionTyped
  <2> QED
    BY <2>2, <2>3, RecordTyped
<1>6. CASE UNCHANGED vars
  BY <1>6 DEF vars, TypeOK
<1> QED
  BY <1>1, <1>2, <1>3, <1>4, <1>5, <1>6 DEF Next

----------------------------------------------------------------------------
(* Decisions.                                                              *)

\* CommitEarned, of one decision: what the gate sees to, and what run_check does.
Sound(s, artifacts, policy, now) ==
    /\ s \in Issued
    /\ s.key \in DOMAIN Trust /\ Trust[s.key] = s.public
    /\ s.payload.action \in policy.actions
    /\ s.payload.issuedAt < now + Second
    /\ now < s.payload.issuedAt + (policy.maxAge + 1) * Second
    /\ \A e \in policy.required : artifacts[e] = s.payload.evidence[e]
    /\ policy.rules # {}
    /\ \A r \in policy.rules : Facts[s.payload.evidence[r.evidence]][r.pointer] = r.expected

Earned(d, artifacts, declaration) ==
    Commits(d) =>
        /\ Sound(d.source, artifacts, d.policy, d.issuedAt)
        /\ declaration # None =>
              \A c \in declaration.required \cap Continuity!Exposed(declaration) :
                  declaration.bindings[c] \cap d.policy.required = {}

\* What the gate makes sure of, whatever command asked it.
LEMMA DecisionEarned ==
    ASSUME TypeOK, NEW i \in DOMAIN log, NEW s \in Copies(log[i]), NEW format, NEW adapters,
           NEW artifacts, NEW policy \in Policies, NEW side, NEW gate,
           Commits(Decision(s, format, adapters, artifacts, policy, clock, side, gate))
    PROVE  Sound(s, artifacts, policy, clock) /\ policy.required \subseteq DOMAIN artifacts
<1>1. /\ s.intact
      /\ s.key \in DOMAIN Trust /\ Trust[s.key] = s.public
      /\ s.payload # Malformed /\ s.payload # None
      /\ s.payload.action \in policy.actions
      /\ Freshness(s.payload.issuedAt, clock, policy) = "pass"
      /\ EvidenceStatus(s.payload.evidence, artifacts, policy) = "pass"
      /\ ClaimSupport(artifacts, policy) = "pass"
  BY CommitPasses, PassMeans
<1>2. s \in Issued /\ s \in Source
  BY <1>1, CopiesTyped DEF Issued
<1>3. /\ s.payload.issuedAt < clock + Second
      /\ clock < s.payload.issuedAt + (policy.maxAge + 1) * Second
  <2>1. s.payload.issuedAt \in Int \cup {None} /\ clock \in Int /\ policy.maxAge \in Nat
    BY <1>1, <1>2, GateConstants, FlowConstants DEF Source, Payload, TypeOK, PolicyValid
  <2> QED
    BY <1>1, <2>1, FreshIs
<1>4. \A e \in policy.required : e \in DOMAIN artifacts /\ artifacts[e] = s.payload.evidence[e]
  BY <1>1, EvidencePasses
<1>5. /\ policy.rules # {}
      /\ \A r \in policy.rules : Facts[s.payload.evidence[r.evidence]][r.pointer] = r.expected
  <2>1. \A r \in policy.rules : r.evidence \in policy.required
    BY GateConstants DEF PolicyValid
  <2>2. \A r \in policy.rules : artifacts[r.evidence] = s.payload.evidence[r.evidence]
    BY <2>1, <1>4
  <2> QED
    BY <1>1, <2>2, ClaimsPass
<1> QED
  BY <1>1, <1>2, <1>3, <1>4, <1>5 DEF Sound

\* ContradictionRejects, of one decision.
Rejects(d, artifacts) ==
    d.format = "native" /\ Contradicted(d, artifacts) =>
        d.disposition \in {<<"REJECTED", "DENY">>, <<"REJECTED", "ROLLBACK_REQUEST">>}

\* What is contradicted fails one of the seven assessments.
LEMMA ContradictedFails ==
    ASSUME NEW s \in Source, NEW adapters, "native" \in adapters, NEW artifacts,
           NEW policy \in Policies, NEW now \in Int, NEW side, NEW gate,
           Contradicted(Decision(s, "native", adapters, artifacts, policy, now, side, gate), artifacts)
    PROVE  LET a == Assessments(Inspect(s, "native", adapters), artifacts, policy, now)
           IN \E c \in Checks : a[c] = "fail"
<1> DEFINE intake == Inspect(s, "native", adapters)
           a == Assessments(intake, artifacts, policy, now)
           d == Decision(s, "native", adapters, artifacts, policy, now, side, gate)
           p == s.payload
<1> SUFFICES \E c \in Checks : a[c] = "fail"
  OBVIOUS
<1>1. a["integrity"] = intake.integrity /\ a["provenance"] = intake.provenance
      /\ a["normalization"] = intake.normalization
  BY AssessmentValues
<1>2. {"integrity", "provenance", "normalization", "policy", "freshness", "evidence",
       "claim_support"} \subseteq Checks
  BY DEF Checks
<1>3. CASE ~s.readable \/ s.format # "native" \/ ~s.intact
  <2>1. intake.integrity = "fail"
    BY <1>3 DEF Inspect, Intake, Assess
  <2> HIDE DEF a, intake
  <2> QED
    BY <1>1, <1>2, <2>1
<1>4. CASE ~(~s.readable \/ s.format # "native" \/ ~s.intact)
  <2>1. intake = Assess(s)
    BY <1>4 DEF Inspect
  <2>2. intake.payload = p /\ p # None
    BY <1>4, <2>1, PayloadConstants, GateConstants DEF Assess, Intake, Source
  <2>3. CASE s.key \in DOMAIN Trust /\ Trust[s.key] # s.public
    <3>1. intake.provenance = "fail"
      BY <1>4, <2>1, <2>3 DEF Assess, Intake, Provenance
    <3> HIDE DEF a, intake
    <3> QED
      BY <1>1, <1>2, <3>1
  <2>4. CASE p = Malformed
    <3>1. intake.normalization = "fail"
      BY <2>1, <2>4 DEF Assess, Intake
    <3> HIDE DEF a, intake
    <3> QED
      BY <1>1, <1>2, <3>1
  <2>5. CASE p # Malformed /\ (p.action \notin policy.actions \/ p.issuedAt = None
                               \/ p.issuedAt >= now + Second)
    <3>1. p.issuedAt \in Int \cup {None} /\ policy.maxAge \in Nat
      BY <2>5, GateConstants DEF Source, Payload, PolicyValid
    <3>2. /\ a["policy"] = IF p.action \in policy.actions THEN "pass" ELSE "fail"
          /\ a["freshness"] = Freshness(p.issuedAt, now, policy)
      <4> HIDE DEF intake
      <4> QED
        BY <2>2, <2>5, AssessmentValues
    <3> HIDE DEF a, intake
    <3>3. p.action \in policy.actions => Freshness(p.issuedAt, now, policy) = "fail"
      <4>1. CASE p.issuedAt = None
        BY <3>1, <4>1, FreshIs
      <4>2. CASE p.issuedAt # None /\ p.issuedAt >= now + Second
        BY <3>1, <4>2, FreshIs
      <4> QED
        BY <2>5, <4>1, <4>2
    <3> QED
      BY <1>2, <3>2, <3>3
  <2>6. CASE p # Malformed /\ \E e \in policy.required \cap DOMAIN p.evidence \cap DOMAIN artifacts :
                                  artifacts[e] # p.evidence[e]
    <3>1. a["evidence"] = EvidenceStatus(p.evidence, artifacts, policy)
      <4> HIDE DEF intake
      <4> QED
        BY <2>2, <2>6, AssessmentValues
    <3>2. EvidenceStatus(p.evidence, artifacts, policy) = "fail"
      BY <2>6 DEF EvidenceStatus, Worst
    <3> HIDE DEF a, intake
    <3> QED
      BY <1>2, <3>1, <3>2
  <2>7. CASE \E r \in policy.rules :
                /\ r.evidence \in DOMAIN artifacts
                /\ \/ r.pointer \notin DOMAIN Facts[artifacts[r.evidence]]
                   \/ Facts[artifacts[r.evidence]][r.pointer] # r.expected
    <3>1. a["claim_support"] = ClaimSupport(artifacts, policy)
      <4> HIDE DEF intake
      <4> QED
        BY <2>2, AssessmentValues
    <3>2. ClaimSupport(artifacts, policy) = "fail"
      BY <2>7 DEF ClaimSupport, Worst, FactMatches
    <3> HIDE DEF a, intake
    <3> QED
      BY <1>2, <3>1, <3>2
  <2>8. d.source = s /\ d.policy = policy /\ d.issuedAt = now
    BY DEF Decision
  <2>9. Contradicted(d, artifacts)
    OBVIOUS
  <2> HIDE DEF d, a, intake
  <2> QED
    BY <1>4, <2>3, <2>4, <2>5, <2>6, <2>7, <2>8, <2>9 DEF Contradicted
<1> QED
  BY <1>3, <1>4

\* A failed assessment comes before one that is unavailable.
LEMMA DecisionRejects ==
    ASSUME NEW s \in Source, NEW format, NEW adapters, "native" \in adapters, NEW artifacts,
           NEW policy \in Policies, NEW now \in Int, NEW side, NEW gate
    PROVE  Rejects(Decision(s, format, adapters, artifacts, policy, now, side, gate), artifacts)
<1> DEFINE a == Assessments(Inspect(s, format, adapters), artifacts, policy, now)
           d == Decision(s, format, adapters, artifacts, policy, now, side, gate)
<1>1. d.format = format /\ d.disposition = Disposition(GateStatuses(a), policy, side)
  BY DEF Decision
<1>2. SUFFICES ASSUME format = "native", Contradicted(d, artifacts)
               PROVE  "fail" \in GateStatuses(a)
  <2> HIDE DEF a, d
  <2>1. SUFFICES Rejects(d, artifacts)
    BY DEF d
  <2> QED
    BY <1>1, <1>2 DEF Rejects, Disposition
<1>3. \E c \in Checks : a[c] = "fail"
  BY <1>2, ContradictedFails
<1> HIDE DEF a
<1> QED
  BY <1>3 DEF GateStatuses

LEMMA DecideEarns ==
    ASSUME TypeOK, NEW i \in DOMAIN log, NEW s \in Copies(log[i]), NEW format, NEW adapters,
           NEW artifacts, NEW policy \in Policies, NEW side, NEW gate
    PROVE  Earned(Decision(s, format, adapters, artifacts, policy, clock, side, gate), artifacts, None)
<1> DEFINE d == Decision(s, format, adapters, artifacts, policy, clock, side, gate)
<1>1. d.source = s /\ d.policy = policy /\ d.issuedAt = clock
  BY DEF Decision
<1>2. Commits(d) => Sound(s, artifacts, policy, clock)
  BY DecisionEarned
<1> HIDE DEF d
<1>3. Earned(d, artifacts, None)
  BY <1>1, <1>2 DEF Earned
<1> QED
  BY <1>3 DEF d

\* What is bound to a reopened claim was not among the artifacts, so that a policy
\* that requires it does not commit.
LEMMA CheckEarns ==
    ASSUME TypeOK, NEW i \in DOMAIN log, NEW s \in Copies(log[i]), NEW policy \in Policies, NEW side, NEW gate, NEW in, Continuity!Valid(in), NEW S
    PROVE  Earned(Decision(s, "native", {"native"}, Presented(S \ Withheld(in)), policy, clock,
                           side, gate),
                  Presented(S \ Withheld(in)), in)
<1> DEFINE artifacts == Presented(S \ Withheld(in))
           d == Decision(s, "native", {"native"}, artifacts, policy, clock, side, gate)
<1>1. d.source = s /\ d.policy = policy /\ d.issuedAt = clock
  BY DEF Decision
<1>2. SUFFICES ASSUME Commits(d) PROVE Earned(d, artifacts, in)
  BY DEF Earned
<1>3. \A e \in policy.required : e \in DOMAIN artifacts
  BY <1>2, DecisionEarned
<1>4. \A e \in policy.required : e \notin Withheld(in)
  BY <1>3 DEF Presented
<1>5. ASSUME NEW c \in in.required \cap Continuity!Exposed(in)
      PROVE  in.bindings[c] \subseteq Withheld(in)
  <2>1. c \in in.claims
    BY <1>5 DEF Continuity!Valid
  <2> QED
    BY <2>1 DEF Withheld, Continuity!Result
<1>6. \A c \in in.required \cap Continuity!Exposed(in) : in.bindings[c] \cap policy.required = {}
  BY <1>4, <1>5
<1>7. Sound(s, artifacts, policy, clock)
  BY <1>2, DecisionEarned
<1> HIDE DEF artifacts, d
<1> QED
  BY <1>1, <1>6, <1>7 DEF Earned

----------------------------------------------------------------------------
(* The log: each receipt of a run names the one before it.                 *)

\* OfRun, of any list of receipts.
RunIn(l, run) ==
    {i \in DOMAIN l : l[i].format = "native" /\ l[i].payload # Malformed
                          /\ l[i].payload.run = run}

\* For receipt i of such a list: its number, and what comes before it in its run.
Placed(l, i) ==
    LET run == l[i].payload.run
        parent == l[i].payload.parent
    IN
    /\ l[i].number = i
    /\ i \in RunIn(l, run) =>
          IF l[i].payload.sequence = 0 THEN \A j \in RunIn(l, run) : i <= j
          ELSE /\ parent \in RunIn(l, run) /\ parent < i
               /\ \A j \in RunIn(l, run) : j < i => j <= parent

LogInv == \A i \in DOMAIN log : Placed(log, i)

\* A receipt more does not change the runs so far.
LEMMA RunsGrow ==
    ASSUME TypeOK, NEW draft \in Drafts, Issue(draft)
    PROVE  /\ Len(log) \in Nat /\ DOMAIN log = 1..Len(log) /\ DOMAIN log' = 1..Len(log)+1
           /\ \A j \in DOMAIN log : log'[j] = log[j]
           /\ \A run : /\ RunIn(log, run) \subseteq DOMAIN log
                        /\ RunIn(log', run) \subseteq DOMAIN log'
                        /\ \A j \in DOMAIN log : j \in RunIn(log', run) <=> j \in RunIn(log, run)
<1>1. /\ Len(log) \in Nat /\ DOMAIN log = 1..Len(log) /\ DOMAIN log' = 1..Len(log)+1
      /\ \A j \in DOMAIN log : log'[j] = log[j]
  BY DEF Issue, TypeOK
<1> QED
  BY <1>1 DEF RunIn

LEMMA IssuePlaces ==
    ASSUME TypeOK, LogInv, NEW draft \in Drafts, Issue(draft)
    PROVE  LogInv'
<1> DEFINE n == Len(log) + 1
           earlier == RunIn(log, draft.run)
           last == CHOOSE i \in earlier : \A j \in earlier : j <= i
<1>1. /\ Len(log) \in Nat /\ DOMAIN log = 1..Len(log) /\ DOMAIN log' = 1..Len(log)+1
      /\ \A j \in DOMAIN log : log'[j] = log[j]
  BY RunsGrow
<1>2. ASSUME NEW i \in DOMAIN log PROVE Placed(log', i)
  <2>1. Placed(log, i) /\ log'[i] = log[i]
    BY <1>1 DEF LogInv
  <2> DEFINE run == log[i].payload.run
  <2>2. /\ RunIn(log, run) \subseteq DOMAIN log /\ RunIn(log', run) \subseteq DOMAIN log'
        /\ \A j \in DOMAIN log : j \in RunIn(log', run) <=> j \in RunIn(log, run)
    BY RunsGrow
  <2> QED
    BY <1>1, <2>1, <2>2 DEF Placed
<1>3. Placed(log', n)
  <2>1. OfRun(draft.run) = earlier
    BY DEF OfRun, RunIn
  <2>2. /\ log'[n].number = n
        /\ log'[n].payload # Malformed =>
              /\ log'[n].payload.run = draft.run
              /\ log'[n].payload.sequence = Cardinality(earlier)
              /\ log'[n].format = "native" =>
                    log'[n].payload.parent = IF earlier = {} THEN None ELSE last
    BY <2>1 DEF Issue, TypeOK
  <2> HIDE DEF n
  <2>3. CASE n \notin RunIn(log', log'[n].payload.run)
    BY <2>2, <2>3 DEF Placed
  <2>4. CASE n \in RunIn(log', log'[n].payload.run)
    <3>1. log'[n].payload # Malformed /\ log'[n].format = "native"
      BY <2>4 DEF RunIn
    <3>2. /\ earlier \subseteq DOMAIN log /\ RunIn(log', draft.run) \subseteq DOMAIN log'
          /\ \A j \in DOMAIN log : j \in RunIn(log', draft.run) <=> j \in earlier
      BY RunsGrow
    <3> HIDE DEF earlier
    <3>3. IsFiniteSet(earlier)
      <4>1. IsFiniteSet(1..Len(log))
        BY <1>1, FS_Interval
      <4>2. earlier \in SUBSET (1..Len(log))
        BY <1>1, <3>2
      <4> QED
        BY <4>1, <4>2, FS_Subset
    <3>4. Cardinality(earlier) = 0 <=> earlier = {}
      BY <3>3, FS_EmptySet
    <3>5. CASE earlier = {}
      BY <1>1, <2>2, <3>1, <3>2, <3>4, <3>5 DEF Placed, n
    <3>6. CASE earlier # {}
      <4>1. last \in earlier /\ \A j \in earlier : j <= last
        BY <1>1, <3>2, <3>6, Greatest
      <4> HIDE DEF last
      <4> QED
        BY <1>1, <2>2, <3>1, <3>2, <3>4, <3>6, <4>1 DEF Placed, n
    <3> QED
      BY <3>5, <3>6
  <2> QED
    BY <2>3, <2>4
<1>4. \A i \in DOMAIN log' : i \in DOMAIN log \/ i = n
  BY <1>1
<1> QED
  BY <1>2, <1>3, <1>4 DEF LogInv

----------------------------------------------------------------------------
(* The invariant.                                                          *)

IInv == TypeOK /\ LogInv /\ ContradictionRejects /\ CommitEarned

LEMMA RecordKeeps ==
    ASSUME IInv, NEW d, NEW artifacts, NEW declaration, Record(d, artifacts, declaration),
           Rejects(d, artifacts), Earned(d, artifacts, declaration)
    PROVE  LogInv' /\ ContradictionRejects' /\ CommitEarned'
<1>1. /\ decisions' = decisions \cup
            {[receipt |-> d, artifacts |-> artifacts, declaration |-> declaration]}
      /\ UNCHANGED log
  BY DEF Record
<1>2. LogInv'
  BY <1>1 DEF IInv, LogInv
<1>3. ContradictionRejects'
  <2>1. \A x \in decisions' : Rejects(x.receipt, x.artifacts)
    BY <1>1 DEF IInv, ContradictionRejects, Rejects
  <2> QED
    BY <2>1 DEF ContradictionRejects, Rejects
<1>4. \A x \in decisions : Earned(x.receipt, x.artifacts, x.declaration)
  BY DEF IInv, CommitEarned, Earned, Sound
<1>5. \A x \in decisions' : Earned(x.receipt, x.artifacts, x.declaration)
  BY <1>1, <1>4
<1>6. \A x \in decisions' : Earned(x.receipt, x.artifacts, x.declaration)'
  <2>1. Issued' = Issued
    BY <1>1 DEF Issued
  <2> QED
    BY <1>5, <2>1, Zenon DEF Earned, Sound
<1>7. CommitEarned'
  BY <1>6 DEF CommitEarned, Earned, Sound
<1> QED
  BY <1>2, <1>3, <1>7

\* Steps that record nothing: the log stays, or has one receipt more.
LEMMA OthersKeep ==
    ASSUME IInv, UNCHANGED decisions, UNCHANGED log \/ \E draft \in Drafts : Issue(draft)
    PROVE  LogInv' /\ ContradictionRejects' /\ CommitEarned'
<1>1. LogInv'
  BY IssuePlaces DEF IInv, LogInv
<1>2. Issued \subseteq Issued'
  BY RunsGrow DEF Issued, IInv
<1>3. ContradictionRejects' /\ CommitEarned'
  BY <1>2 DEF IInv, ContradictionRejects, CommitEarned
<1> QED
  BY <1>1, <1>3

LEMMA InitInv == Init => IInv
BY TypeInit DEF Init, IInv, LogInv, ContradictionRejects, CommitEarned

LEMMA StepInv == IInv /\ [Next]_vars => IInv'
<1> SUFFICES ASSUME IInv, [Next]_vars PROVE IInv'
  OBVIOUS
<1>1. TypeOK /\ TypeOK'
  BY TypeStep DEF IInv
<1> SUFFICES LogInv' /\ ContradictionRejects' /\ CommitEarned'
  BY <1>1 DEF IInv
<1>2. ASSUME NEW i \in DOMAIN log, NEW s \in Copies(log[i]), NEW call \in Calls, Decide(s, call)
      PROVE  LogInv' /\ ContradictionRejects' /\ CommitEarned'
  <2> DEFINE artifacts == Presented(call.evidence)
             d == Decision(s, call.format, call.adapters, artifacts, call.policy, clock,
                           call.side, "pinned")
  <2>1. call.policy \in Policies /\ Record(d, artifacts, None)
    BY <1>1, <1>2, DecisionsMade
  <2>2. s \in Source /\ clock \in Int /\ "native" \in call.adapters
    BY <1>1, CopiesTyped, FlowConstants DEF TypeOK, Call
  <2>3. Rejects(d, artifacts) /\ Earned(d, artifacts, None)
    BY <1>1, <2>1, <2>2, DecisionRejects, DecideEarns
  <2> HIDE DEF d, artifacts
  <2> QED
    BY <2>1, <2>3, RecordKeeps
<1>3. ASSUME NEW i \in DOMAIN log, NEW s \in Copies(log[i]), NEW pack \in Packs, Check(s, pack)
      PROVE  LogInv' /\ ContradictionRejects' /\ CommitEarned'
  <2> DEFINE withheld == IF pack.declaration # None THEN Withheld(pack.declaration) ELSE {}
             artifacts == Presented(pack.evidence \ withheld)
             d == Decision(s, "native", {"native"}, artifacts, pack.policy, clock,
                           pack.side, pack.gate)
  <2>1. /\ pack.policy \in Policies
        /\ pack.declaration # None => Continuity!Valid(pack.declaration)
        /\ Record(d, artifacts, pack.declaration)
    BY <1>1, <1>3, DecisionsMade
  <2>2. Rejects(d, artifacts)
    <3>1. s \in Source /\ clock \in Int
      BY <1>1, CopiesTyped, FlowConstants DEF TypeOK
    <3> QED
      BY <2>1, <3>1, DecisionRejects
  <2>3. CASE pack.declaration = None
    <3>1. Earned(d, artifacts, None)
      BY <1>1, <2>1, DecideEarns
    <3> HIDE DEF d, artifacts
    <3> QED
      BY <2>1, <2>2, <2>3, <3>1, RecordKeeps
  <2>4. CASE pack.declaration # None
    <3>1. withheld = Withheld(pack.declaration)
      BY <2>4
    <3> DEFINE e == Presented(pack.evidence \ Withheld(pack.declaration))
    <3>2. artifacts = e
      BY <3>1
    <3>3. Earned(Decision(s, "native", {"native"}, e, pack.policy, clock, pack.side, pack.gate),
                 e, pack.declaration)
      BY <1>1, <2>1, <2>4, CheckEarns
    <3>4. Earned(d, artifacts, pack.declaration)
      BY <3>2, <3>3
    <3> HIDE DEF d, artifacts
    <3> QED
      BY <2>1, <2>2, <3>4, RecordKeeps
  <2> QED
    BY <2>3, <2>4
<1>4. CASE Tick
  BY <1>4, OthersKeep DEF Tick
<1>5. ASSUME NEW e \in Evidence, NEW c \in Contents \cup {Absent}, EditFile(e, c)
      PROVE  LogInv' /\ ContradictionRejects' /\ CommitEarned'
  BY <1>5, OthersKeep DEF EditFile
<1>6. ASSUME NEW draft \in Drafts, Issue(draft)
      PROVE  LogInv' /\ ContradictionRejects' /\ CommitEarned'
  <2>1. UNCHANGED decisions
    BY <1>6 DEF Issue
  <2> QED
    BY <1>6, <2>1, OthersKeep
<1>7. CASE UNCHANGED vars
  BY <1>7, OthersKeep DEF vars
<1> QED
  BY <1>2, <1>3, <1>4, <1>5, <1>6, <1>7 DEF Next

----------------------------------------------------------------------------
(* Chains and handoffs.                                                    *)

\* A chain that passes consists of receipts of the log, of one run, without gaps.
LEMMA ChainItems ==
    ASSUME IInv, NEW items \in ValidChains
    PROVE  /\ items # <<>>
           /\ \E n \in Nat : DOMAIN items = 1..n
           /\ \A i \in DOMAIN items :
                 /\ items[i].number \in DOMAIN log /\ items[i] = log[items[i].number]
                 /\ items[i].format = "native"
                 /\ items[i].payload # Malformed /\ items[i].payload # None
           /\ 1 \in DOMAIN items => items[1].payload.sequence = 0
           /\ \A i \in DOMAIN items : i + 1 \in DOMAIN items => Linked(items[i], items[i + 1])
<1> DEFINE intake == Intakes(items)
           readable == {i \in DOMAIN items : intake[i].payload \notin {None, Malformed}}
<1>1. PICK n \in Nat : items \in [1..n -> UNION {Copies(log[i]) : i \in DOMAIN log}]
  BY DEF ValidChains, IInv, TypeOK
<1>2. DOMAIN items = 1..n
  BY <1>1
<1>3. "fail" \notin Reports(intake) /\ "unavailable" \notin Reports(intake) /\ ~Broken(items, intake)
  <2>1. ChainStatus(items) = "pass"
    BY DEF ValidChains
  <2> QED
    BY <2>1, WorstIs DEF ChainStatus
<1>4. /\ items # <<>>
      /\ 1 \in readable => items[1].payload.sequence = 0
      /\ \A i \in readable : i + 1 \in readable => Linked(items[i], items[i + 1])
  BY <1>3 DEF Broken
<1>5. ASSUME NEW i \in DOMAIN items
      PROVE  /\ items[i].number \in DOMAIN log /\ items[i] = log[items[i].number]
             /\ items[i].format = "native"
             /\ items[i].payload # Malformed /\ items[i].payload # None
             /\ i \in readable
  <2>1. /\ intake[i].integrity \in Reports(intake) /\ intake[i].provenance \in Reports(intake)
        /\ intake[i].normalization \in Reports(intake)
    BY DEF Reports, Intakes
  <2>2. /\ intake[i].integrity \in Statuses /\ intake[i].provenance \in Statuses
        /\ intake[i].normalization \in Statuses
    BY IntakeTyped DEF Intakes
  <2>3. /\ intake[i].integrity = "pass" /\ intake[i].provenance = "pass"
        /\ intake[i].normalization = "pass"
    <3> HIDE DEF intake
    <3> QED
      BY <1>3, <2>1, <2>2 DEF Statuses
  <2>4. intake[i] = Inspect(items[i], "native", {"native"})
    BY DEF Intakes
  <2>5. items[i].format = "native" /\ intake[i] = Assess(items[i])
    <3> HIDE DEF intake
    <3> QED
      BY <2>3, <2>4 DEF Inspect, Intake
  <2>6. /\ items[i].intact /\ items[i].payload # Malformed
        /\ intake[i].payload = items[i].payload
    <3> HIDE DEF intake
    <3> QED
      BY <2>3, <2>5 DEF Assess, Intake
  <2>7. PICK k \in DOMAIN log : items[i] \in Copies(log[k])
    BY <1>1, <1>2
  <2>8. items[i] = log[k] /\ items[i] \in Source
    BY <2>6, <2>7, CopiesTyped DEF IInv
  <2>9. log[k].number = k
    BY DEF IInv, LogInv, Placed
  <2>10. items[i].payload # None
    BY <2>6, <2>8, PayloadConstants DEF Source
  <2>11. i \in readable
    BY <2>6, <2>10
  <2> QED
    BY <2>5, <2>6, <2>8, <2>9, <2>10, <2>11
<1>7. 1 \in DOMAIN items => items[1].payload.sequence = 0
  BY <1>4, <1>5
<1>8. \A i \in DOMAIN items : i + 1 \in DOMAIN items => Linked(items[i], items[i + 1])
  BY <1>4, <1>5
<1> QED
  BY <1>2, <1>4, <1>5, <1>7, <1>8

\* The first i items are all receipts of the run up to the last of them.
Prefix(items, i) ==
    /\ items[i].payload.run = items[1].payload.run
    /\ {j \in OfRun(items[1].payload.run) : j <= items[i].number} = {items[k].number : k \in 1..i}

LEMMA PrefixFirst ==
    ASSUME IInv, NEW items \in ValidChains, 1 \in DOMAIN items
    PROVE  Prefix(items, 1)
<1> DEFINE run == items[1].payload.run
           m == items[1].number
<1>1. /\ m \in DOMAIN log /\ items[1] = log[m] /\ log[m].payload.sequence = 0
      /\ m \in OfRun(run) /\ OfRun(run) = RunIn(log, run)
  BY ChainItems DEF OfRun, RunIn
<1>2. \A j \in OfRun(run) : m <= j
  BY <1>1 DEF IInv, LogInv, Placed
<1>3. OfRun(run) \subseteq Nat /\ m \in Nat
  BY <1>1 DEF OfRun, IInv, TypeOK
<1>4. {j \in OfRun(run) : j <= m} = {m}
  BY <1>1, <1>2, <1>3
<1>5. {items[k].number : k \in 1..1} = {m}
  <2>1. \A k \in 1..1 : k = 1
    OBVIOUS
  <2>2. 1 \in 1..1
    OBVIOUS
  <2> QED
    BY <2>1, <2>2
<1> QED
  BY <1>4, <1>5 DEF Prefix

LEMMA PrefixNext ==
    ASSUME IInv, NEW items \in ValidChains, NEW i \in Nat, i \in DOMAIN items, i + 1 \in DOMAIN items,
           1 \in DOMAIN items, i >= 1, Prefix(items, i)
    PROVE  Prefix(items, i + 1)
<1> DEFINE run == items[1].payload.run
           m == items[i].number
           n == items[i + 1].number
<1>1. /\ m \in DOMAIN log /\ items[i] = log[m]
      /\ n \in DOMAIN log /\ items[i + 1] = log[n]
      /\ log[n].format = "native" /\ log[n].payload # Malformed
      /\ log[m].format = "native" /\ log[m].payload # Malformed /\ log[m].payload # None
      /\ log[n].payload # None
  BY ChainItems
<1>2. /\ log[n].payload.sequence = log[m].payload.sequence + 1
      /\ log[n].payload.parent = m /\ log[n].payload.run = run
  BY <1>1, ChainItems DEF Linked, Prefix
<1>3. log[m].payload.sequence \in Nat
  <2>1. log[m] \in Source
    BY <1>1 DEF IInv, TypeOK
  <2>2. log[m].payload \in Payload
    BY <1>1, <2>1 DEF Source
  <2> QED
    BY <2>2 DEF Payload
<1>4. n \in RunIn(log, run) /\ OfRun(run) = RunIn(log, run)
  BY <1>1, <1>2 DEF OfRun, RunIn
<1>5. m \in OfRun(run) /\ m < n /\ \A j \in OfRun(run) : j < n => j <= m
  BY <1>1, <1>2, <1>3, <1>4 DEF IInv, LogInv, Placed
<1>6. OfRun(run) \subseteq Nat /\ m \in Nat /\ n \in Nat
  BY <1>1 DEF OfRun, IInv, TypeOK
<1>7. {j \in OfRun(run) : j <= n} = {j \in OfRun(run) : j <= m} \cup {n}
  BY <1>4, <1>5, <1>6
<1>8. {items[k].number : k \in 1..i+1} = {items[k].number : k \in 1..i} \cup {n}
  <2>1. \A k : k \in 1..i+1 <=> k \in 1..i \/ k = i + 1
    OBVIOUS
  <2> QED
    BY <2>1
<1>9. items[i + 1].payload.run = run
  BY <1>1, <1>2
<1> QED
  BY <1>7, <1>8, <1>9 DEF Prefix

\* By the least item that is none.
LEMMA PrefixAll ==
    ASSUME IInv, NEW items \in ValidChains
    PROVE  \A i \in DOMAIN items : Prefix(items, i)
<1>1. PICK n \in Nat : DOMAIN items = 1..n
  BY ChainItems
<1> DEFINE T == {i \in DOMAIN items : ~Prefix(items, i)}
<1>2. SUFFICES ASSUME T # {} PROVE FALSE
  OBVIOUS
<1>3. T \in SUBSET Nat
  BY <1>1
<1>4. PICK i \in T : \A j \in T : i <= j
  BY <1>2, <1>3, Least
<1>5. 1 \in DOMAIN items /\ i \in 1..n
  BY <1>1, <1>4
<1>6. i # 1
  BY <1>4, <1>5, PrefixFirst
<1>7. i - 1 \in Nat /\ i - 1 \in DOMAIN items /\ i - 1 >= 1 /\ (i - 1) + 1 = i /\ i - 1 \notin T
  BY <1>1, <1>4, <1>5, <1>6
<1>8. Prefix(items, i - 1)
  BY <1>7
<1>9. Prefix(items, (i - 1) + 1)
  <2> DEFINE h == i - 1
  <2>1. h \in Nat /\ h \in DOMAIN items /\ h + 1 \in DOMAIN items /\ h >= 1 /\ Prefix(items, h)
    BY <1>1, <1>5, <1>7, <1>8
  <2> HIDE DEF h
  <2>2. Prefix(items, h + 1)
    BY <1>5, <2>1, PrefixNext
  <2> QED
    BY <2>2 DEF h
<1> QED
  BY <1>4, <1>7, <1>9

LEMMA FactsShown ==
    ASSUME IInv, NEW items \in ValidChains, NEW D \in SUBSET Receipts,
           NEW allowed \in SUBSET Policies, NEW i \in Visible(Accepted(items, D, allowed)),
           NEW f \in ShownFacts(items[i], D, allowed)
    PROVE  Facts[items[i].payload.evidence[f.evidence]][f.pointer] = f.expected
<1>1. PICK d \in Eligible(items[i], D, allowed) : f \in d.policy.rules
  BY DEF ShownFacts
<1>2. Commits(d) /\ d.source = items[i] /\ d \in Receipts
  BY <1>1 DEF Visible, Accepted, Eligible
<1>3. PICK x \in decisions : d = x.receipt
  BY <1>2 DEF Receipts
<1>4. \A r \in d.policy.rules :
         Facts[d.source.payload.evidence[r.evidence]][r.pointer] = r.expected
  BY <1>2, <1>3 DEF IInv, CommitEarned
<1> QED
  BY <1>1, <1>2, <1>4

----------------------------------------------------------------------------
(* Impact.                                                                 *)

Rests(d, invalidated) ==
    \E e \in d.policy.required : d.source.payload.evidence[e] \in invalidated

\* What evaluate_impact computes from the reverse index, decision by decision.
LEMMA ImpactIs ==
    ASSUME NEW D, NEW complete \in [D -> BOOLEAN], NEW invalidated
    PROVE  Impact({Bound(d, complete[d]) : d \in D}, invalidated) =
              [reopen |-> {d \in D : Rests(d, invalidated)},
               retain |-> {d \in D : ~Rests(d, invalidated) /\ complete[d]},
               undetermined |-> {d \in D : ~Rests(d, invalidated) /\ ~complete[d]}]
<1> DEFINE B == {Bound(d, complete[d]) : d \in D}
           index == ReverseIndex(B)
           impacted == UNION {index[h] : h \in invalidated \cap DOMAIN index}
<1>1. \A b \in B : \E d \in D : b = Bound(d, complete[d])
  OBVIOUS
<1>2. \A d \in D : Bound(d, complete[d]) \in B
  OBVIOUS
<1>3. \A d : /\ Bound(d, complete[d]).decision = d
             /\ Bound(d, complete[d]).complete = complete[d]
             /\ \A h : h \in Bound(d, complete[d]).evidence
                          <=> \E e \in d.policy.required : h = d.source.payload.evidence[e]
  BY DEF Bound
<1> HIDE DEF B
<1>4. /\ DOMAIN index = UNION {b.evidence : b \in B}
      /\ \A h \in DOMAIN index : index[h] = {b.decision : b \in {c \in B : h \in c.evidence}}
  BY DEF ReverseIndex
<1> HIDE DEF index
<1>5. ASSUME NEW d \in D PROVE d \in impacted <=> Rests(d, invalidated)
  <2>1. ASSUME d \in impacted PROVE Rests(d, invalidated)
    <3>1. PICK h \in invalidated \cap DOMAIN index : d \in index[h]
      BY <2>1
    <3>2. PICK b \in B : h \in b.evidence /\ b.decision = d
      BY <1>4, <3>1
    <3>3. PICK c \in D : b = Bound(c, complete[c])
      BY <1>1
    <3>4. c = d
      BY <1>3, <3>2, <3>3
    <3>5. h \in Bound(d, complete[d]).evidence
      BY <3>2, <3>3, <3>4
    <3>6. PICK e \in d.policy.required : h = d.source.payload.evidence[e]
      BY <3>5 DEF Bound
    <3> QED
      BY <3>1, <3>6 DEF Rests
  <2>2. ASSUME Rests(d, invalidated) PROVE d \in impacted
    <3>1. PICK e \in d.policy.required : d.source.payload.evidence[e] \in invalidated
      BY <2>2 DEF Rests
    <3> DEFINE h == d.source.payload.evidence[e]
               b == Bound(d, complete[d])
    <3>2. b \in B /\ h \in b.evidence /\ b.decision = d
      BY <1>2, <1>3
    <3> HIDE DEF b, h
    <3>3. h \in DOMAIN index
      BY <1>4, <3>2
    <3>4. d \in index[h]
      BY <1>4, <3>2, <3>3
    <3> QED
      BY <3>1, <3>3, <3>4 DEF h
  <2> QED
    BY <2>1, <2>2
<1> DEFINE result == Impact(B, invalidated)
<1>6. /\ result = [reopen |-> result.reopen, retain |-> result.retain,
                    undetermined |-> result.undetermined]
      /\ result.reopen = {b.decision : b \in {c \in B : c.decision \in impacted}}
      /\ result.retain = {b.decision : b \in {c \in B : c.decision \notin impacted /\ c.complete}}
      /\ result.undetermined =
            {b.decision : b \in {c \in B : c.decision \notin impacted /\ ~c.complete}}
  BY DEF Impact, index
<1> HIDE DEF impacted, result
<1>7. result.reopen = {d \in D : Rests(d, invalidated)}
  BY <1>1, <1>2, <1>3, <1>5, <1>6
<1>8. result.retain = {d \in D : ~Rests(d, invalidated) /\ complete[d]}
  BY <1>1, <1>2, <1>3, <1>5, <1>6
<1>9. result.undetermined = {d \in D : ~Rests(d, invalidated) /\ ~complete[d]}
  BY <1>1, <1>2, <1>3, <1>5, <1>6
<1>10. result = [reopen |-> {d \in D : Rests(d, invalidated)},
                retain |-> {d \in D : ~Rests(d, invalidated) /\ complete[d]},
                undetermined |-> {d \in D : ~Rests(d, invalidated) /\ ~complete[d]}]
  BY <1>6, <1>7, <1>8, <1>9
<1> QED
  BY <1>10 DEF result, B

----------------------------------------------------------------------------
(* Theorems.                                                               *)

\* Types, the order of the log, and the two properties below, in every state.
THEOREM Invariance == Spec => []IInv
BY InitInv, StepInv, PTL DEF Spec

\* Clock, files, receipts and decisions stay within their types; a disposition is one of
\* the five a receiver knows.
THEOREM Typing == Spec => []TypeOK
BY Invariance, PTL DEF IInv

\* gate.py, claim_support.py, check.py:268: whatever is signed, damaged, edited and
\* declared, a COMMIT rests on an authentic receipt within its window of whole seconds,
\* however clocks differ and whatever a second is divided into, on the bytes it commits
\* to and on no evidence of a reopened required claim.
THEOREM CommitsAreEarned == Spec => []CommitEarned
BY Invariance, PTL DEF IInv

\* policy.py:155, ARCHITECTURE.md:18: for any policies, trust, files, clocks and calls, what
\* is contradicted is rejected, whatever else could not be decided.
THEOREM ContradictionsReject == Spec => []ContradictionRejects
BY Invariance, PTL DEF IInv

\* handoff.py:163: a receipt decided against is not brought back by later decisions.
THEOREM DissentStays == Spec => DissentIsFinal
<1>1. [Next]_vars => Admissible \subseteq Admissible'
  <2>1. [Next]_vars => decisions \subseteq decisions'
    BY DEF Next, vars, Tick, EditFile, Issue, Decide, Check, Record
  <2> QED
    BY <2>1 DEF Admissible, Receipts
<1>2. ASSUME [Next]_vars
      PROVE  \A s \in Issued, allowed \in SUBSET Policies :
                Eligible(s, Admissible, allowed) # {} /\ 1 \in Accepted(<<s>>, Admissible', allowed)
                   => 1 \in Accepted(<<s>>, Admissible, allowed)
  <2>1. Admissible \subseteq Admissible'
    BY <1>1, <1>2
  <2>2. \A A, s, allowed : 1 \in Accepted(<<s>>, A, allowed) <=>
            Eligible(s, A, allowed) # {} /\ \A d \in Eligible(s, A, allowed) : Commits(d)
    BY DEF Accepted
  <2>3. \A s, allowed : Eligible(s, Admissible, allowed) \subseteq Eligible(s, Admissible', allowed)
    BY <2>1 DEF Eligible
  <2> QED
    BY <2>2, <2>3
<1> QED
  BY <1>2, PTL DEF Spec, DissentIsFinal

\* handoff.py:163, ARCHITECTURE.md:37: whatever copies in whatever order pass for a
\* chain, they are a run from its beginning, and the facts shown with it are true of the
\* bytes it commits to, for any decisions, policies and limits.
THEOREM HandoffsRest == Spec => []HandoffRests
<1>1. IInv => HandoffRests
  <2>1. IInv => \A items \in ValidChains : \A i \in DOMAIN items : items[i] \in Issued
    BY ChainItems DEF Issued
  <2>2. IInv => \A items \in ValidChains : \A i \in DOMAIN items :
            {j \in OfRun(items[1].payload.run) : j <= items[i].number}
               = {items[k].number : k \in 1..i}
    BY PrefixAll DEF Prefix
  <2> QED
    BY <2>1, <2>2, FactsShown DEF HandoffRests
<1> QED
  BY <1>1, Invariance, PTL

\* impact.py:10: for any decisions that bind, any invalidated bytes and any claim of
\* completeness, reopened are the decisions that rest on them, retained none whose facts
\* do, and each decision is in exactly one of the three lists.
THEOREM ImpactIsSound == Spec => []ImpactSound
<1>1. ASSUME NEW D \in SUBSET {d \in Receipts : Bindable(d, d.source)},
             NEW complete \in [D -> BOOLEAN], NEW invalidated \in SUBSET Contents
      PROVE  LET result == Impact({Bound(d, complete[d]) : d \in D}, invalidated)
                 rests(d) == \E e \in d.policy.required : d.source.payload.evidence[e] \in invalidated
             IN
             /\ result.reopen \cup result.retain \cup result.undetermined = D
             /\ result.reopen \cap result.retain = {} /\ result.reopen \cap result.undetermined = {}
             /\ result.retain \cap result.undetermined = {}
             /\ \A d \in result.retain : complete[d]
             /\ \A d \in result.retain : \A r \in d.policy.rules :
                   d.source.payload.evidence[r.evidence] \notin invalidated
             /\ \A d \in D : d \in result.reopen <=> rests(d)
  <2> DEFINE result == Impact({Bound(d, complete[d]) : d \in D}, invalidated)
  <2>1. result = [reopen |-> {d \in D : Rests(d, invalidated)},
                  retain |-> {d \in D : ~Rests(d, invalidated) /\ complete[d]},
                  undetermined |-> {d \in D : ~Rests(d, invalidated) /\ ~complete[d]}]
    BY ImpactIs
  <2> HIDE DEF result
  <2>2. \A d \in D : \A r \in d.policy.rules : r.evidence \in d.policy.required
    BY DEF Bindable, VerifyDecision, PolicyValid
  <2>3. result.reopen \cup result.retain \cup result.undetermined = D
    BY <2>1
  <2>4. /\ result.reopen \cap result.retain = {} /\ result.reopen \cap result.undetermined = {}
        /\ result.retain \cap result.undetermined = {}
        /\ \A d \in result.retain : complete[d]
    BY <2>1
  <2>5. \A d \in result.retain : \A r \in d.policy.rules :
            d.source.payload.evidence[r.evidence] \notin invalidated
    BY <2>1, <2>2 DEF Rests
  <2>6. \A d \in D : d \in result.reopen <=>
            \E e \in d.policy.required : d.source.payload.evidence[e] \in invalidated
    BY <2>1 DEF Rests
  <2> QED
    BY <2>3, <2>4, <2>5, <2>6 DEF result
<1>2. ImpactSound
  BY <1>1 DEF ImpactSound
<1> QED
  BY <1>2, PTL
=============================================================================
