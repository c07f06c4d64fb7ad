----------------------- MODULE CalibrationTrialProofs -----------------------
(***************************************************************************)
(* Proofs about CalibrationTrial and its verifier for every set of         *)
(* sessions, metric, sample size and lag, and without the bounds TLC needs *)
(* on clock and revisions.                                                 *)
(***************************************************************************)
EXTENDS TrialVerifier, TLAPS

----------------------------------------------------------------------------
(* Type correctness.                                                       *)

\* The row register appends is an eligibility row.
LEMMA EligibilityRowTyped ==
    ASSUME NEW f \in FreezeDoc, NEW rows \in Seq(EligibilityRow), NEW s \in Sessions,
           NEW file \in SessionFile, NEW t \in Nat
    PROVE  NewEligibilityRow(f, rows, s, file, t) \in EligibilityRow
<1>1. Len(rows) + 1 \in Nat \ {0}
  OBVIOUS
<1>2. file.handoff \in Nat /\ file.rev \in Revs
  BY DEF SessionFile
<1>3. (IF rows = <<>> THEN Genesis ELSE rows[Len(rows)].sid) \in Sessions \cup {Genesis}
  <2>1. CASE rows # <<>>
    <3>1. rows[Len(rows)] \in EligibilityRow
      BY <2>1
    <3> QED
      BY <2>1, <3>1 DEF EligibilityRow
  <2> QED
    BY <2>1
<1> QED
  BY <1>1, <1>2, <1>3 DEF NewEligibilityRow, EligibilityRow

\* The row score appends is a prediction row.
LEMMA PredictionRowTyped ==
    ASSUME NEW f \in FreezeDoc, NEW el \in Seq(EligibilityRow),
           NEW rows \in Seq(PredictionRow), Len(rows) + 1 <= Len(el),
           NEW s \in Sessions, NEW file \in SessionFile, NEW t \in Nat
    PROVE  NewPredictionRow(f, el, rows, s, file, t) \in PredictionRow
<1>1. el[Len(rows) + 1] \in EligibilityRow
  OBVIOUS
<1>2. Predict(s, file.rev, f.cut) \in {0, 1} /\ file.rev \in Revs
  BY DEF Predict, SessionFile
<1>3. (IF rows = <<>> THEN Genesis ELSE rows[Len(rows)].entry.sid) \in Sessions \cup {Genesis}
  <2>1. CASE rows # <<>>
    <3>1. rows[Len(rows)] \in PredictionRow
      BY <2>1
    <3> QED
      BY <2>1, <3>1 DEF PredictionRow, EligibilityRow
  <2> QED
    BY <2>1
<1> QED
  BY <1>1, <1>2, <1>3 DEF NewPredictionRow, PredictionRow

\* The empty build directory is typed.
LEMMA InitTyped == Init => TypeOK
BY TrialConstants DEF Init, TypeOK, OrAbsent

\* The part of the types that is about what the world writes.
InputsOK ==
    /\ now \in Nat
    /\ protocol \in Protocols
    /\ session \in [Sessions -> OrAbsent(SessionFile)]
    /\ continuation \in [Sessions -> OrAbsent(ContinuationFile)]

\* The world touches the clock, the protocol, sessions and continuations; what it
\* writes has their types.
LEMMA WorldInputs == InputsOK /\ World => InputsOK'
<1> SUFFICES ASSUME InputsOK, World PROVE InputsOK'
  OBVIOUS
<1> USE DEF OrAbsent
<1>1. CASE Tick
  BY <1>1 DEF Tick, InputsOK
<1>2. ASSUME NEW p \in Protocols, EditProtocol(p) PROVE InputsOK'
  BY <1>2 DEF EditProtocol, InputsOK
<1>3. ASSUME NEW s \in Sessions, Handoff(s) PROVE InputsOK'
  <2>1. [handoff |-> now, rev |-> 0] \in SessionFile
    BY TrialConstants DEF InputsOK, SessionFile, Revs
  <2> QED
    BY <1>3, <2>1 DEF Handoff, InputsOK
<1>4. ASSUME NEW s \in Sessions, NEW r \in Revs, EditSession(s, r) PROVE InputsOK'
  <2>0. session[s] \in SessionFile
    BY <1>4 DEF EditSession, InputsOK
  <2>1. [session[s] EXCEPT !.rev = r] \in SessionFile
    BY <2>0 DEF SessionFile
  <2>2. session' = [session EXCEPT ![s] = [session[s] EXCEPT !.rev = r]]
    BY <1>4 DEF EditSession
  <2> QED
    BY <1>4, <2>1, <2>2 DEF EditSession, InputsOK
<1>5. ASSUME NEW s \in Sessions, StartContinuation(s) PROVE InputsOK'
  <2>1. PICK c \in Contents :
          continuation' = [continuation EXCEPT ![s] =
              [started |-> now, rev |-> 0, corrected |-> c[1], closed |-> c[2]]]
    BY <1>5 DEF StartContinuation
  <2>2. c[1] \in BOOLEAN /\ c[2] \in BOOLEAN
    BY TrialConstants
  <2>3. [started |-> now, rev |-> 0, corrected |-> c[1], closed |-> c[2]] \in ContinuationFile
    BY <2>2, TrialConstants DEF InputsOK, ContinuationFile, Revs
  <2> QED
    BY <1>5, <2>1, <2>3 DEF StartContinuation, InputsOK
<1>6. ASSUME NEW s \in Sessions, GrowContinuation(s) PROVE InputsOK'
  <2>1. PICK c \in Contents :
          continuation' = [continuation EXCEPT
              ![s].rev = @ + 1, ![s].corrected = c[1], ![s].closed = c[2]]
    BY <1>6 DEF GrowContinuation
  <2>2. c[1] \in BOOLEAN /\ c[2] \in BOOLEAN
    BY TrialConstants
  <2> DEFINE grown == [continuation[s] EXCEPT !.rev = continuation[s].rev + 1,
                                              !.corrected = c[1], !.closed = c[2]]
  <2>3. continuation[s] \in ContinuationFile /\ continuation[s].rev + 1 \in Revs
    BY <1>6, TrialConstants DEF GrowContinuation, InputsOK, ContinuationFile, Revs
  <2>4. grown \in ContinuationFile
    BY <2>2, <2>3 DEF ContinuationFile
  <2>5. continuation' = [continuation EXCEPT ![s] = grown]
    BY <2>1, <2>3 DEF InputsOK, ContinuationFile
  <2> HIDE DEF grown
  <2> QED
    BY <1>6, <2>4, <2>5 DEF GrowContinuation, InputsOK
<1> QED
  BY <1>1, <1>2, <1>3, <1>4, <1>5, <1>6 DEF World

LEMMA WorldKeepsFiles == World => UNCHANGED files
BY DEF World, Tick, EditProtocol, Handoff, EditSession, StartContinuation, GrowContinuation

LEMMA WorldTyped == TypeOK /\ World => TypeOK'
<1>1. TypeOK => InputsOK
  BY DEF TypeOK, InputsOK
<1>2. TypeOK /\ InputsOK' /\ UNCHANGED files => TypeOK'
  BY DEF TypeOK, InputsOK, files
<1> QED
  BY <1>1, <1>2, WorldInputs, WorldKeepsFiles

\* Each command writes one file, and what it writes has the file's type.
LEMMA CommandsTyped == TypeOK /\ Commands => TypeOK'
<1> SUFFICES ASSUME TypeOK, Commands PROVE TypeOK'
  OBVIOUS
<1> USE DEF OrAbsent
<1>1. ASSUME NEW cut \in Cuts, Freeze(cut) PROVE TypeOK'
  <2>1. [at |-> now, protocol |-> protocol, cut |-> cut] \in FreezeDoc
    BY DEF TypeOK, FreezeDoc
  <2> QED
    BY <1>1, <2>1 DEF Freeze, TypeOK, inputs
<1>2. ASSUME NEW s \in Sessions, Register(s) PROVE TypeOK'
  <2>1. NewEligibilityRow(freeze, eligibility, s, session[s], now) \in EligibilityRow
    BY <1>2, EligibilityRowTyped DEF Register, TypeOK
  <2>2. eligibility' \in Seq(EligibilityRow)
    BY <1>2, <2>1 DEF Register, TypeOK
  <2> QED
    BY <1>2, <2>2 DEF Register, TypeOK, inputs
<1>3. ASSUME NEW s \in Sessions, Score(s) PROVE TypeOK'
  <2>1. Len(predictions) + 1 <= Len(eligibility)
    BY <1>3 DEF Score, Scorable
  <2>2. NewPredictionRow(freeze, eligibility, predictions, s, session[s], now) \in PredictionRow
    BY <1>3, <2>1, PredictionRowTyped DEF Score, TypeOK
  <2>3. predictions' \in Seq(PredictionRow)
    BY <1>3, <2>2 DEF Score, TypeOK
  <2> QED
    BY <1>3, <2>3 DEF Score, TypeOK, inputs
<1>4. CASE UnlockOutcomes
  <2>1. NewUnlockDoc(freeze, eligibility, predictions, now) \in UnlockDoc
    BY <1>4 DEF UnlockOutcomes, NewUnlockDoc, UnlockDoc, TypeOK
  <2> QED
    BY <1>4, <2>1 DEF UnlockOutcomes, TypeOK, inputs
<1>5. ASSUME NEW s \in Sessions, NEW outcome \in {0, 1}, Label(s, outcome) PROVE TypeOK'
  <2>1. NewOutcomeRow(unlock, s, outcome, continuation[s], now) \in OutcomeRow
    BY <1>5 DEF Label, NewOutcomeRow, OutcomeRow, TypeOK
  <2>2. outcomes' \in Seq(OutcomeRow)
    BY <1>5, <2>1 DEF Label, TypeOK
  <2> QED
    BY <1>5, <2>2 DEF Label, TypeOK, inputs
<1>6. CASE Evaluate
  <2>1. NewEvaluation(freeze, eligibility, predictions, unlock, outcomes) \in EvaluationDoc
    BY <1>6 DEF Evaluate, NewEvaluation, EvaluationDoc, ClassFloorMet, TypeOK
  <2> QED
    BY <1>6, <2>1 DEF Evaluate, TypeOK, inputs
<1> QED
  BY <1>1, <1>2, <1>3, <1>4, <1>5, <1>6 DEF Commands

\* Every step keeps the types, stuttering included.
LEMMA StepTyped == TypeOK /\ [Next]_vars => TypeOK'
<1>1. TypeOK /\ UNCHANGED vars => TypeOK'
  BY DEF TypeOK, vars, inputs, files
<1> QED
  BY <1>1, WorldTyped, CommandsTyped DEF Next

\* No command ever writes a document of another shape.
THEOREM Typing == Spec => []TypeOK
<1> QED
  BY InitTyped, StepTyped, PTL DEF Spec

----------------------------------------------------------------------------
(* The freeze every command insists on.                                    *)

\* Rows of a valid ledger bind the freeze they were validated against, so a
\* ledger is valid under the freeze of its first row.
LEMMA ValidUnderFirst ==
    ASSUME NEW rows \in Seq(EligibilityRow), rows # <<>>,
           NEW p, NEW f, EligibilityValid(p, f, rows)
    PROVE  rows[1].freeze = f /\ rows[1].freeze.protocol = p
<1>1. 1 \in DOMAIN rows
  OBVIOUS
<1> QED
  BY <1>1 DEF EligibilityValid, EligibilityRowValid, BindsFreeze

\* With another freeze.json than the one the first registration binds, every
\* command but freeze itself refuses.
THEOREM ThresholdsStayFixed == Spec => ThresholdsFixed
<1>1. ASSUME TypeOK, eligibility # <<>>, freeze # eligibility[1].freeze, [Next]_vars
      PROVE  UNCHANGED <<eligibility, predictions, unlock, outcomes, evaluation>>
  <2>1. ASSUME EligibilityValid(protocol, freeze, eligibility) PROVE FALSE
    BY <1>1, <2>1, ValidUnderFirst DEF TypeOK
  <2>2. CASE World
    BY <2>2 DEF World, Tick, EditProtocol, Handoff, EditSession, StartContinuation,
                GrowContinuation, files
  <2>3. ASSUME NEW cut \in Cuts, Freeze(cut)
        PROVE  UNCHANGED <<eligibility, predictions, unlock, outcomes, evaluation>>
    BY <2>3 DEF Freeze
  <2>4. ASSUME NEW s \in Sessions, Register(s) PROVE FALSE
    BY <2>1, <2>4 DEF Register, Registrable
  <2>5. ASSUME NEW s \in Sessions, Score(s) PROVE FALSE
    BY <2>1, <2>5 DEF Score, Scorable, ChainsValid
  <2>6. ASSUME UnlockOutcomes PROVE FALSE
    BY <2>1, <2>6 DEF UnlockOutcomes, Unlockable, ChainsValid
  <2>7. ASSUME NEW s \in Sessions, NEW outcome \in {0, 1}, Label(s, outcome) PROVE FALSE
    BY <2>1, <2>7 DEF Label, Labelable, UnlockValid, ChainsValid
  <2>8. ASSUME Evaluate PROVE FALSE
    BY <2>1, <2>8 DEF Evaluate, Evaluable, UnlockValid, ChainsValid
  <2>9. CASE UNCHANGED vars
    BY <2>9 DEF vars, files
  <2> QED
    BY <1>1, <2>2, <2>3, <2>4, <2>5, <2>6, <2>7, <2>8, <2>9 DEF Next, Commands
<1>2. TypeOK /\ [Next]_vars =>
        [eligibility # <<>> /\ freeze # eligibility[1].freeze =>
            UNCHANGED <<eligibility, predictions, unlock, outcomes, evaluation>>]_vars
  BY <1>1
<1> QED
  BY <1>2, Typing, PTL DEF Spec, ThresholdsFixed

----------------------------------------------------------------------------
(* The sealed sample and the blackout.                                     *)

\* The unlock receipt, once there, describes the chains on file, which are
\* complete; labels exist only under it.
SealInv ==
    /\ unlock = Absent => outcomes = <<>>
    /\ unlock # Absent =>
          /\ SampleSealed(eligibility, predictions)
          /\ unlock.eligibility = eligibility
          /\ unlock.predictions = predictions
          /\ SealedBy(predictions, unlock.at)
    /\ \A j \in DOMAIN outcomes :
          outcomes[j].unlock = unlock /\ unlock.at <= outcomes[j].at

\* A complete sample leaves no room in either chain.
LEMMA SealedIsFull ==
    ASSUME SampleSealed(eligibility, predictions)
    PROVE  ~RoomLeft(eligibility) /\ ~RoomLeft(predictions)
BY TrialConstants DEF SampleSealed, RoomLeft

\* Neither chain grows once there is an unlock receipt.
LEMMA ChainsStop ==
    ASSUME SealInv, unlock # Absent, [Next]_vars
    PROVE  UNCHANGED <<eligibility, predictions, unlock>>
<1>1. ~RoomLeft(eligibility) /\ ~RoomLeft(predictions)
  BY SealedIsFull DEF SealInv
<1>2. CASE World
  BY <1>2 DEF World, Tick, EditProtocol, Handoff, EditSession, StartContinuation,
              GrowContinuation, files
<1>3. ASSUME NEW s \in Sessions, Register(s) PROVE FALSE
  BY <1>1, <1>3 DEF Register, Registrable
<1>4. ASSUME NEW s \in Sessions, Score(s) PROVE FALSE
  BY <1>1, <1>4 DEF Score, Scorable
<1>5. ASSUME UnlockOutcomes PROVE FALSE
  BY <1>5 DEF UnlockOutcomes
<1>6. CASE UNCHANGED vars
  BY <1>6 DEF vars, files
<1> QED
  BY <1>2, <1>3, <1>4, <1>5, <1>6 DEF Next, Commands, Freeze, Label, Evaluate

\* Every step keeps the receipt in agreement with the chains and the labels.
LEMMA SealStep == TypeOK /\ SealInv /\ [Next]_vars => SealInv'
<1> SUFFICES ASSUME TypeOK, SealInv, [Next]_vars PROVE SealInv'
  OBVIOUS
<1>1. ASSUME UNCHANGED <<eligibility, predictions, unlock, outcomes>> PROVE SealInv'
  BY <1>1 DEF SealInv, SampleSealed, SealedBy
<1>2. CASE World
  BY <1>1, <1>2 DEF World, Tick, EditProtocol, Handoff, EditSession, StartContinuation,
              GrowContinuation, files
<1>3. ASSUME NEW cut \in Cuts, Freeze(cut) PROVE SealInv'
  BY <1>1, <1>3 DEF Freeze
<1>4. ASSUME NEW s \in Sessions, Register(s) \/ Score(s) PROVE SealInv'
  <2>1. unlock = Absent
    <3>1. RoomLeft(eligibility) \/ RoomLeft(predictions)
      BY <1>4 DEF Register, Registrable, Score, Scorable
    <3> QED
      BY <3>1, SealedIsFull DEF SealInv
  <2> QED
    BY <1>4, <2>1 DEF Register, Score, SealInv
<1>5. CASE UnlockOutcomes
  <2>1. /\ outcomes' = <<>>
        /\ SampleSealed(eligibility, predictions) /\ SealedBy(predictions, now)
        /\ unlock'.eligibility = eligibility /\ unlock'.predictions = predictions
        /\ unlock'.at = now
        /\ UNCHANGED <<eligibility, predictions>>
    BY <1>5 DEF UnlockOutcomes, Unlockable, NewUnlockDoc, SealInv
  <2> QED
    BY <2>1 DEF SealInv, SampleSealed, SealedBy
<1>6. ASSUME NEW s \in Sessions, NEW outcome \in {0, 1}, Label(s, outcome) PROVE SealInv'
  <2> DEFINE row == NewOutcomeRow(unlock, s, outcome, continuation[s], now)
  <2>1. /\ unlock # Absent /\ outcomes' = Append(outcomes, row)
        /\ UNCHANGED <<eligibility, predictions, unlock>>
    BY <1>6 DEF Label
  <2>2. row.unlock = unlock /\ unlock.at <= row.at
    BY <1>6 DEF Label, Labelable, NewOutcomeRow
  <2> HIDE DEF row
  <2>3. outcomes \in Seq(OutcomeRow)
    BY DEF TypeOK
  <2>4. \A j \in DOMAIN outcomes' : outcomes'[j] = row \/ (j \in DOMAIN outcomes /\ outcomes'[j] = outcomes[j])
    BY <2>1, <2>3
  <2>5. \A j \in DOMAIN outcomes' :
          outcomes'[j].unlock = unlock /\ unlock.at <= outcomes'[j].at
    BY <2>2, <2>4 DEF SealInv
  <2> QED
    BY <2>1, <2>5 DEF SealInv, SampleSealed, SealedBy
<1>7. CASE Evaluate
  BY <1>1, <1>7 DEF Evaluate
<1>8. CASE UNCHANGED vars
  BY <1>1, <1>8 DEF vars, files
<1> QED
  BY <1>2, <1>3, <1>4, <1>5, <1>6, <1>7, <1>8 DEF Next, Commands

\* The unlock receipt describes the chains on file in every reachable state.
THEOREM Sealing == Spec => []SealInv
<1>1. Init => SealInv
  BY DEF Init, SealInv
<1> QED
  BY <1>1, SealStep, Typing, PTL DEF Spec

\* No prospective label exists before the whole sample is predicted, and every
\* label binds the one receipt over exactly the predictions on file.
THEOREM BlackoutAlwaysHolds == Spec => []BlackoutHolds
<1>1. ASSUME TypeOK, SealInv, NEW j \in DOMAIN outcomes
      PROVE  /\ Len(predictions) = TestN
             /\ SealedBy(predictions, outcomes[j].at)
             /\ outcomes[j].unlock = unlock
             /\ unlock.predictions = predictions
             /\ unlock.eligibility = eligibility
  <2>1. unlock # Absent /\ unlock \in UnlockDoc
    BY <1>1 DEF SealInv, TypeOK, OrAbsent
  <2>2. outcomes[j].at \in Nat /\ unlock.at \in Nat /\ unlock.at <= outcomes[j].at
    <3>1. outcomes[j] \in OutcomeRow
      BY <1>1 DEF TypeOK
    <3>2. unlock.at <= outcomes[j].at
      BY <1>1 DEF SealInv
    <3> QED
      BY <2>1, <3>1, <3>2 DEF OutcomeRow, UnlockDoc
  <2>3. \A i \in DOMAIN predictions : predictions[i].at \in Nat /\ predictions[i].at <= unlock.at
    <3>1. \A i \in DOMAIN predictions : predictions[i] \in PredictionRow
      BY <1>1 DEF TypeOK
    <3>2. \A i \in DOMAIN predictions : predictions[i].at \in Nat
      BY <3>1 DEF PredictionRow
    <3>3. SealedBy(predictions, unlock.at)
      BY <1>1, <2>1 DEF SealInv
    <3> QED
      BY <3>2, <3>3 DEF SealedBy
  <2>4. SealedBy(predictions, outcomes[j].at)
    BY <2>2, <2>3 DEF SealedBy
  <2> QED
    BY <1>1, <2>1, <2>4 DEF SealInv, SampleSealed
<1>2. TypeOK /\ SealInv => BlackoutHolds
  BY <1>1 DEF BlackoutHolds
<1> QED
  BY <1>2, Typing, Sealing, PTL

\* After the unlock nothing is registered or scored any more.
THEOREM SampleStaysFixed == Spec => SampleFixed
<1>1. SealInv /\ [Next]_vars =>
        [unlock # Absent => UNCHANGED <<eligibility, predictions>>]_vars
  BY ChainsStop
<1> QED
  BY <1>1, Sealing, PTL DEF Spec, SampleFixed

\* A missed window is never repaired: no late score and no unlock follow.
THEOREM MissedWindowStaysMissed == Spec => MissedWindowIsFinal
<1>1. ASSUME TypeOK, SealInv, Missed, [Next]_vars
      PROVE  Missed' /\ unlock' = Absent
  <2>1. PICK i \in DOMAIN eligibility :
          i > Len(predictions) /\ eligibility[i].handoff + MaxLag < now
    BY <1>1 DEF Missed
  <2>2. /\ i \in Nat /\ i <= Len(eligibility) /\ Len(predictions) \in Nat
        /\ eligibility[i] \in EligibilityRow /\ eligibility[i].handoff \in Nat
        /\ now \in Nat /\ MaxLag \in Nat
        /\ eligibility \in Seq(EligibilityRow) /\ predictions \in Seq(PredictionRow)
    <3>1. /\ eligibility \in Seq(EligibilityRow) /\ predictions \in Seq(PredictionRow)
          /\ now \in Nat /\ MaxLag \in Nat
      BY <1>1, TrialConstants DEF TypeOK
    <3>2. /\ eligibility[i] \in EligibilityRow /\ i \in Nat /\ i <= Len(eligibility)
          /\ Len(predictions) \in Nat
      BY <3>1
    <3> QED
      BY <3>1, <3>2 DEF EligibilityRow
  <2>3. Len(eligibility) # Len(predictions)
    BY <2>1, <2>2
  <2>4. unlock = Absent
    BY <1>1, <2>3 DEF SealInv, SampleSealed
  <2>5. ASSUME NEW k, k = Len(predictions'), i > k, now <= now', now' \in Nat,
               i \in DOMAIN eligibility', eligibility'[i] = eligibility[i],
               unlock' = unlock
        PROVE  Missed' /\ unlock' = Absent
    BY <2>1, <2>2, <2>4, <2>5 DEF Missed
  <2>6. ASSUME now <= now', now' \in Nat, UNCHANGED <<eligibility, predictions, unlock>>
        PROVE  Missed' /\ unlock' = Absent
    BY <2>1, <2>2, <2>5, <2>6
  <2>7. CASE World
    <3>1. UNCHANGED files /\ (now' = now \/ now' = now + 1)
      BY <2>7 DEF World, Tick, EditProtocol, Handoff, EditSession,
                  StartContinuation, GrowContinuation
    <3> QED
      BY <2>2, <2>6, <3>1 DEF files
  <2>8. ASSUME NEW s \in Sessions, Register(s) PROVE Missed' /\ unlock' = Absent
    <3>1. /\ \E row : eligibility' = Append(eligibility, row)
          /\ UNCHANGED <<now, predictions, unlock>>
      BY <2>8 DEF Register, inputs
    <3>2. i \in DOMAIN eligibility' /\ eligibility'[i] = eligibility[i]
      BY <2>2, <2>1, <3>1
    <3> QED
      BY <2>1, <2>2, <2>5, <3>1, <3>2
  <2>9. ASSUME NEW s \in Sessions, Score(s) PROVE Missed' /\ unlock' = Absent
    <3>1. /\ \E row : predictions' = Append(predictions, row)
          /\ UNCHANGED <<now, eligibility, unlock>>
      BY <2>9 DEF Score, inputs
    <3>2. /\ eligibility[Len(predictions) + 1].handoff = session[s].handoff
          /\ now <= session[s].handoff + MaxLag
      BY <2>9 DEF Score, Scorable, SameSession, InWindow
    <3>3. i # Len(predictions) + 1
      BY <2>1, <2>2, <3>2
    <3>4. Len(predictions') = Len(predictions) + 1
      BY <2>2, <3>1
    <3> QED
      BY <2>1, <2>2, <2>5, <3>1, <3>3, <3>4
  <2>10. ASSUME UnlockOutcomes PROVE FALSE
    BY <2>3, <2>10 DEF UnlockOutcomes, Unlockable, SampleSealed
  <2>11. ASSUME NEW s \in Sessions, NEW outcome \in {0, 1}, Label(s, outcome) PROVE FALSE
    BY <2>4, <2>11 DEF Label
  <2>12. CASE Evaluate \/ (\E cut \in Cuts : Freeze(cut)) \/ UNCHANGED vars
    BY <2>2, <2>6, <2>12 DEF Evaluate, Freeze, vars, inputs, files
  <2> QED
    BY <1>1, <2>7, <2>8, <2>9, <2>10, <2>11, <2>12 DEF Next, Commands
<1>2. TypeOK /\ SealInv /\ [Next]_vars => [Missed => Missed' /\ unlock' = Absent]_vars
  BY <1>1
<1> QED
  BY <1>2, Typing, Sealing, PTL DEF Spec, MissedWindowIsFinal

----------------------------------------------------------------------------
(* The verdict.                                                            *)

\* The report on file is the one the unlock receipt and the labels on file give,
\* and every handoff of the ledger has its label.
VerdictInv ==
    evaluation # Absent =>
        /\ unlock # Absent
        /\ evaluation = NewEvaluation(unlock.freeze, eligibility, predictions,
                                      unlock, outcomes)
        /\ Sids(outcomes) = Sids(eligibility)

\* A prediction is always that of a registered session.
LEMMA PredictedIsRegistered ==
    ASSUME NEW p, NEW f, NEW el \in Seq(EligibilityRow), NEW rows \in Seq(PredictionRow),
           ChainsValid(p, f, el, rows), NEW i \in DOMAIN rows
    PROVE  i \in DOMAIN el /\ rows[i].entry = el[i] /\ rows[i].entry.sid \in Sids(el)
<1>1. i \in DOMAIN el
  BY DEF ChainsValid, PredictionsValid
<1>2. rows[i].entry = el[i]
  BY DEF ChainsValid, PredictionsValid, PredictionRowValid
<1> QED
  BY <1>1, <1>2 DEF Sids

\* Once there is a report, evaluate can only write it again and label refuses.
LEMMA VerdictStands ==
    ASSUME TypeOK, SealInv, VerdictInv, evaluation # Absent, [Next]_vars
    PROVE  UNCHANGED <<evaluation, eligibility, predictions, unlock, outcomes>>
<1>0. UNCHANGED <<eligibility, predictions, unlock>>
  BY ChainsStop DEF VerdictInv
<1>1. CASE World
  BY <1>1 DEF World, Tick, EditProtocol, Handoff, EditSession, StartContinuation,
              GrowContinuation, files
<1>2. ASSUME NEW cut \in Cuts, Freeze(cut) PROVE UNCHANGED <<evaluation, outcomes>>
  BY <1>2 DEF Freeze
<1>3. ASSUME NEW s \in Sessions, Register(s) \/ Score(s)
      PROVE  UNCHANGED <<evaluation, outcomes>>
  BY <1>3 DEF Register, Score
<1>4. CASE UnlockOutcomes
  BY <1>4 DEF UnlockOutcomes, VerdictInv
<1>5. ASSUME NEW s \in Sessions, NEW outcome \in {0, 1}, Label(s, outcome) PROVE FALSE
  <2>1. PICK i \in DOMAIN predictions : predictions[i].entry.sid = s
    BY <1>5 DEF Label, Labelable
  <2>2. ChainsValid(protocol, freeze, eligibility, predictions)
    BY <1>5 DEF Label, Labelable, UnlockValid
  <2>3. eligibility \in Seq(EligibilityRow) /\ predictions \in Seq(PredictionRow)
    BY DEF TypeOK
  <2>4. s \in Sids(eligibility)
    BY <2>1, <2>2, <2>3, PredictedIsRegistered
  <2> QED
    BY <1>5, <2>4 DEF Label, VerdictInv
<1>6. ASSUME Evaluate PROVE UNCHANGED <<evaluation, outcomes>>
  <2>1. unlock.freeze = freeze
    BY <1>6 DEF Evaluate, Evaluable, UnlockValid
  <2> QED
    BY <1>6, <2>1 DEF Evaluate, VerdictInv
<1>7. CASE UNCHANGED vars
  BY <1>7 DEF vars, files
<1> QED
  BY <1>0, <1>1, <1>2, <1>3, <1>4, <1>5, <1>6, <1>7 DEF Next, Commands

\* Every step keeps the report in agreement with receipt and labels.
LEMMA VerdictStep == TypeOK /\ SealInv /\ VerdictInv /\ [Next]_vars => VerdictInv'
<1> SUFFICES ASSUME TypeOK, SealInv, VerdictInv, [Next]_vars PROVE VerdictInv'
  OBVIOUS
<1>1. CASE evaluation # Absent
  BY <1>1, VerdictStands DEF VerdictInv
<1>2. CASE evaluation' = Absent
  BY <1>2 DEF VerdictInv
<1>3. CASE evaluation = Absent /\ evaluation' # Absent
  <2>1. Evaluate
    BY <1>3 DEF Next, Commands, World, Tick, EditProtocol, Handoff, EditSession,
                StartContinuation, GrowContinuation, files, Freeze, Register, Score,
                UnlockOutcomes, Label, vars
  <2>2. unlock.freeze = freeze /\ Sids(outcomes) = Sids(eligibility) /\ unlock # Absent
    BY <2>1 DEF Evaluate, Evaluable, UnlockValid
  <2> QED
    BY <2>1, <2>2 DEF Evaluate, VerdictInv
<1> QED
  BY <1>1, <1>2, <1>3

\* The report on file follows from the receipt and the labels on file.
THEOREM VerdictInvariance == Spec => []VerdictInv
<1>1. Init => VerdictInv
  BY DEF Init, VerdictInv
<1> QED
  BY <1>1, VerdictStep, Typing, Sealing, PTL DEF Spec

\* Running evaluate again, after edits, new continuations or another freeze,
\* never replaces the report by a different one.
THEOREM VerdictStaysFinal == Spec => VerdictIsFinal
<1>1. TypeOK /\ SealInv /\ VerdictInv /\ [Next]_vars =>
        [evaluation # Absent => UNCHANGED evaluation]_vars
  BY VerdictStands
<1> QED
  BY <1>1, Typing, Sealing, VerdictInvariance, PTL DEF Spec, VerdictIsFinal

----------------------------------------------------------------------------
(* The chains.                                                             *)

\* What register appends to a valid ledger leaves it valid.
LEMMA RegisterExtends ==
    ASSUME NEW rows \in Seq(EligibilityRow), NEW p, NEW f, NEW s \in Sessions,
           NEW file \in SessionFile, NEW t \in Nat,
           NEW row \in EligibilityRow, row = NewEligibilityRow(f, rows, s, file, t),
           Registrable(p, f, rows, s, file, t)
    PROVE  EligibilityValid(p, f, Append(rows, row))
<1> DEFINE k == Len(rows)
           longer == Append(rows, row)
<1>1. /\ k \in Nat /\ DOMAIN longer = 1..(k + 1) /\ longer[k + 1] = row
      /\ \A i \in 1..k : longer[i] = rows[i]
      /\ DOMAIN rows = 1..k
      /\ rows = <<>> <=> k = 0
  OBVIOUS
<1>2. /\ row.index = k + 1 /\ row.sid = s /\ row.handoff = file.handoff
      /\ row.at = t /\ row.freeze = f
      /\ row.prev = IF rows = <<>> THEN Genesis ELSE rows[k].sid
  BY DEF NewEligibilityRow
<1> HIDE DEF longer, k
<1>3. ASSUME NEW i \in 1..k PROVE EligibilityRowValid(p, f, longer, i)
  <2>1. EligibilityRowValid(p, f, rows, i)
    BY <1>1 DEF Registrable, EligibilityValid
  <2>2. \A j \in 1..i : longer[j] = rows[j]
    BY <1>1
  <2>3. i - 1 \in Nat /\ (i > 1 => i - 1 \in 1..i) /\ \A j \in 1..(i-1) : j \in 1..i
    BY <1>1
  <2> QED
    BY <2>1, <2>2, <2>3 DEF EligibilityRowValid
<1>4. EligibilityRowValid(p, f, longer, k + 1)
  <2>1. BindsFreeze(row, p, f) /\ f.at < row.handoff /\ InWindow(row.handoff, row.at)
    BY <1>2 DEF Registrable, BindsFreeze
  <2>2. \A j \in 1..k : longer[j].sid # row.sid
    BY <1>1, <1>2 DEF Registrable
  <2>3. k + 1 > 1 => KeyBefore(longer[k], row)
    BY <1>1, <1>2 DEF Registrable, KeyBefore, k
  <2>4. row.prev = IF k + 1 = 1 THEN Genesis ELSE longer[k].sid
    BY <1>1, <1>2
  <2>5. (k + 1) - 1 = k
    BY <1>1
  <2> QED
    BY <1>1, <1>2, <2>1, <2>2, <2>3, <2>4, <2>5 DEF EligibilityRowValid
<1>5. \A i \in 1..(k + 1) : EligibilityRowValid(p, f, longer, i)
  BY <1>1, <1>3, <1>4
<1> QED
  BY <1>1, <1>5 DEF EligibilityValid, longer

\* Predictions stay valid when the ledger they refer to grows.
LEMMA PredictionsUnderLongerLedger ==
    ASSUME NEW el \in Seq(EligibilityRow), NEW row \in EligibilityRow,
           NEW rows \in Seq(PredictionRow), NEW p, NEW f, PredictionsValid(p, f, el, rows)
    PROVE  PredictionsValid(p, f, Append(el, row), rows)
<1>1. /\ Len(rows) <= Len(Append(el, row))
      /\ \A i \in DOMAIN rows : i \in DOMAIN rows /\ Append(el, row)[i] = el[i]
  BY DEF PredictionsValid
<1>2. \A i \in DOMAIN rows : PredictionRowValid(p, f, Append(el, row), rows, i)
  BY <1>1 DEF PredictionsValid, PredictionRowValid
<1> QED
  BY <1>1, <1>2 DEF PredictionsValid

\* What score appends to a valid prediction chain leaves it valid.
LEMMA ScoreExtends ==
    ASSUME NEW el \in Seq(EligibilityRow), NEW rows \in Seq(PredictionRow), NEW p, NEW f,
           NEW s \in Sessions, NEW file \in SessionFile, NEW t \in Nat,
           NEW row \in PredictionRow, row = NewPredictionRow(f, el, rows, s, file, t),
           Scorable(p, f, el, rows, s, file, t)
    PROVE  PredictionsValid(p, f, el, Append(rows, row))
<1> DEFINE k == Len(rows)
           longer == Append(rows, row)
<1>1. /\ k \in Nat /\ DOMAIN longer = 1..(k + 1) /\ longer[k + 1] = row
      /\ \A i \in 1..k : longer[i] = rows[i]
      /\ DOMAIN rows = 1..k /\ Len(longer) = k + 1
      /\ rows = <<>> <=> k = 0
  OBVIOUS
<1>2. /\ row.entry = el[k + 1] /\ row.at = t /\ row.freeze = f /\ row.rev = file.rev
      /\ row.prev = IF rows = <<>> THEN Genesis ELSE rows[k].entry.sid
  BY DEF NewPredictionRow
<1>3. k + 1 <= Len(el)
  BY DEF Scorable
<1> HIDE DEF longer, k
<1>4. ASSUME NEW i \in 1..k PROVE PredictionRowValid(p, f, el, longer, i)
  <2>1. PredictionRowValid(p, f, el, rows, i)
    BY <1>1 DEF Scorable, ChainsValid, PredictionsValid
  <2>2. longer[i] = rows[i] /\ (i # 1 => longer[i-1] = rows[i-1])
    BY <1>1
  <2> QED
    BY <2>1, <2>2 DEF PredictionRowValid
<1>5. PredictionRowValid(p, f, el, longer, k + 1)
  <2>1. /\ f.protocol = p /\ el[k + 1].at <= t
        /\ el[k + 1].handoff = file.handoff /\ InWindow(file.handoff, t)
        /\ el[k + 1].rev = file.rev
    BY DEF Scorable, SameSession, k
  <2>2. row.prev = IF k + 1 = 1 THEN Genesis ELSE longer[(k + 1) - 1].entry.sid
    BY <1>1, <1>2
  <2> QED
    BY <1>1, <1>2, <2>1, <2>2 DEF PredictionRowValid, BindsFreeze
<1>6. \A i \in 1..(k + 1) : PredictionRowValid(p, f, el, longer, i)
  BY <1>1, <1>4, <1>5
<1> QED
  BY <1>1, <1>3, <1>6 DEF PredictionsValid, longer

\* Every step keeps both chains valid under their own freeze.
LEMMA ChainsStep == TypeOK /\ ChainsSelfValid /\ [Next]_vars => ChainsSelfValid'
<1> SUFFICES ASSUME TypeOK, ChainsSelfValid, [Next]_vars PROVE ChainsSelfValid'
  OBVIOUS
<1>0. eligibility \in Seq(EligibilityRow) /\ predictions \in Seq(PredictionRow)
  BY DEF TypeOK
<1>1. ASSUME UNCHANGED <<eligibility, predictions>> PROVE ChainsSelfValid'
  BY <1>1 DEF ChainsSelfValid
<1>2. CASE World \/ UNCHANGED vars
  BY <1>1, <1>2 DEF World, Tick, EditProtocol, Handoff, EditSession, StartContinuation,
              GrowContinuation, vars, files
<1>3. ASSUME NEW s \in Sessions, Register(s) PROVE ChainsSelfValid'
  <2> DEFINE row == NewEligibilityRow(freeze, eligibility, s, session[s], now)
  <2>1. /\ freeze \in FreezeDoc /\ session[s] \in SessionFile /\ now \in Nat
        /\ Registrable(protocol, freeze, eligibility, s, session[s], now)
        /\ eligibility' = Append(eligibility, row) /\ predictions' = predictions
    BY <1>3 DEF Register, TypeOK, OrAbsent
  <2>2. row \in EligibilityRow /\ row.freeze = freeze
    BY <1>0, <2>1, EligibilityRowTyped DEF NewEligibilityRow
  <2>3. EligibilityValid(protocol, freeze, Append(eligibility, row))
    BY <1>0, <2>1, <2>2, RegisterExtends
  <2> HIDE DEF row
  <2>4. PredictionsValid(protocol, freeze, eligibility, predictions)
    <3>1. CASE eligibility = <<>>
      BY <1>0, <3>1 DEF ChainsSelfValid, PredictionsValid
    <3>2. CASE eligibility # <<>>
      BY <1>0, <2>1, <3>2, ValidUnderFirst DEF ChainsSelfValid, ChainsValid, Registrable
    <3> QED
      BY <3>1, <3>2
  <2>5. PredictionsValid(protocol, freeze, Append(eligibility, row), predictions)
    BY <1>0, <2>2, <2>4, PredictionsUnderLongerLedger
  <2>6. Append(eligibility, row) \in Seq(EligibilityRow) /\ Append(eligibility, row) # <<>>
    BY <1>0, <2>2
  <2>7. /\ Append(eligibility, row)[1].freeze = freeze
        /\ Append(eligibility, row)[1].freeze.protocol = protocol
    BY <2>3, <2>6, ValidUnderFirst
  <2> QED
    BY <2>1, <2>3, <2>5, <2>6, <2>7 DEF ChainsSelfValid, ChainsValid
<1>4. ASSUME NEW s \in Sessions, Score(s) PROVE ChainsSelfValid'
  <2> DEFINE row == NewPredictionRow(freeze, eligibility, predictions, s, session[s], now)
  <2>1. /\ freeze \in FreezeDoc /\ session[s] \in SessionFile /\ now \in Nat
        /\ Scorable(protocol, freeze, eligibility, predictions, s, session[s], now)
        /\ predictions' = Append(predictions, row) /\ eligibility' = eligibility
        /\ Len(predictions) + 1 <= Len(eligibility)
    BY <1>4 DEF Score, Scorable, TypeOK, OrAbsent
  <2>2. row \in PredictionRow
    BY <1>0, <2>1, PredictionRowTyped
  <2>3. PredictionsValid(protocol, freeze, eligibility, Append(predictions, row))
    BY <1>0, <2>1, <2>2, ScoreExtends
  <2> HIDE DEF row
  <2>4. eligibility # <<>> /\ EligibilityValid(protocol, freeze, eligibility)
    BY <1>0, <2>1 DEF Scorable, ChainsValid
  <2>5. eligibility[1].freeze = freeze /\ eligibility[1].freeze.protocol = protocol
    BY <1>0, <2>4, ValidUnderFirst
  <2> QED
    BY <2>1, <2>3, <2>4, <2>5 DEF ChainsSelfValid, ChainsValid
<1> QED
  BY <1>1, <1>2, <1>3, <1>4 DEF Next, Commands, Freeze, UnlockOutcomes, Label, Evaluate

\* No sequence of commands and edits leaves a row the validators refuse under
\* the freeze the chain was begun with: a trial is stopped only from outside it.
THEOREM ChainsStayValid == Spec => []ChainsSelfValid
<1>1. Init => ChainsSelfValid
  BY DEF Init, ChainsSelfValid
<1> QED
  BY <1>1, ChainsStep, Typing, PTL DEF Spec

----------------------------------------------------------------------------
(* The report.                                                             *)

\* Every prediction on file is its own freeze applied to the registered bytes.
PredictedAsFrozen(r) == r.value = Predict(r.entry.sid, r.entry.rev, r.freeze.cut)

ValueInv == \A i \in DOMAIN predictions : PredictedAsFrozen(predictions[i])

\* No label is stamped in the future.
ClockInv == \A j \in DOMAIN outcomes : outcomes[j].at <= now

\* Every step keeps predictions equal to their frozen threshold's answer.
LEMMA ValueStep == TypeOK /\ ValueInv /\ [Next]_vars => ValueInv'
<1> SUFFICES ASSUME TypeOK, ValueInv, [Next]_vars PROVE ValueInv'
  OBVIOUS
<1>1. ASSUME UNCHANGED predictions PROVE ValueInv'
  BY <1>1 DEF ValueInv
<1>2. CASE World \/ UNCHANGED vars
  BY <1>1, <1>2 DEF World, Tick, EditProtocol, Handoff, EditSession, StartContinuation,
              GrowContinuation, vars, files
<1>3. ASSUME NEW s \in Sessions, Score(s) PROVE ValueInv'
  <2> DEFINE row == NewPredictionRow(freeze, eligibility, predictions, s, session[s], now)
  <2>1. predictions' = Append(predictions, row) /\ predictions \in Seq(PredictionRow)
    BY <1>3 DEF Score, TypeOK
  <2>2. row.entry.sid = s /\ row.entry.rev = session[s].rev
    BY <1>3 DEF Score, Scorable, SameSession, NewPredictionRow
  <2>3. row.value = Predict(s, session[s].rev, freeze.cut) /\ row.freeze = freeze
    BY DEF NewPredictionRow
  <2>4. PredictedAsFrozen(row)
    BY <2>2, <2>3 DEF PredictedAsFrozen
  <2> HIDE DEF row
  <2>5. \A i \in DOMAIN predictions' :
          predictions'[i] = row \/ (i \in DOMAIN predictions /\ predictions'[i] = predictions[i])
    BY <2>1
  <2> QED
    BY <2>4, <2>5 DEF ValueInv
<1> QED
  BY <1>1, <1>2, <1>3 DEF Next, Commands, Freeze, Register, UnlockOutcomes, Label, Evaluate

\* No step stamps a label later than the clock.
LEMMA ClockStep == TypeOK /\ ClockInv /\ [Next]_vars => ClockInv'
<1> SUFFICES ASSUME TypeOK, ClockInv, [Next]_vars PROVE ClockInv'
  OBVIOUS
<1>0. /\ outcomes \in Seq(OutcomeRow) /\ now \in Nat
      /\ \A j \in DOMAIN outcomes : outcomes[j].at \in Nat
  <2>1. outcomes \in Seq(OutcomeRow) /\ now \in Nat
    BY DEF TypeOK
  <2>2. \A j \in DOMAIN outcomes : outcomes[j] \in OutcomeRow
    BY <2>1
  <2> QED
    BY <2>1, <2>2 DEF OutcomeRow
<1>1. ASSUME UNCHANGED outcomes, now' = now \/ now' = now + 1 PROVE ClockInv'
  BY <1>0, <1>1 DEF ClockInv
<1>2. CASE World \/ UNCHANGED vars
  BY <1>1, <1>2 DEF World, Tick, EditProtocol, Handoff, EditSession, StartContinuation,
              GrowContinuation, vars, inputs, files
<1>3. ASSUME NEW s \in Sessions, NEW outcome \in {0, 1}, Label(s, outcome) PROVE ClockInv'
  <2> DEFINE row == NewOutcomeRow(unlock, s, outcome, continuation[s], now)
  <2>1. outcomes' = Append(outcomes, row) /\ now' = now
    BY <1>3 DEF Label, inputs
  <2>2. row.at = now
    BY DEF NewOutcomeRow
  <2> HIDE DEF row
  <2>3. \A j \in DOMAIN outcomes' :
          outcomes'[j] = row \/ (j \in DOMAIN outcomes /\ outcomes'[j] = outcomes[j])
    BY <1>0, <2>1
  <2> QED
    BY <1>0, <2>1, <2>2, <2>3 DEF ClockInv
<1> QED
  BY <1>1, <1>2, <1>3 DEF Next, Commands, Freeze, Register, Score, UnlockOutcomes, Evaluate, inputs

\* What evaluate's validators let through went through the trial in order.
LEMMA EvaluableIsOrdered ==
    ASSUME NEW p, NEW f \in FreezeDoc, NEW dir, NEW el \in Seq(EligibilityRow), NEW conts,
           NEW rows \in Seq(PredictionRow), NEW u \in UnlockDoc,
           NEW outs \in Seq(OutcomeRow),
           Evaluable(p, f, dir, el, conts, rows, u, outs)
    PROVE  ReportOrdered(NewEvaluation(f, el, rows, u, outs))
<1> DEFINE e == NewEvaluation(f, el, rows, u, outs)
<1>1. /\ e.freeze = f /\ e.eligibility = el /\ e.predictions = rows
      /\ e.outcomes = outs
  BY DEF NewEvaluation
<1> HIDE DEF e
<1>2. /\ ChainsValid(p, f, el, rows) /\ Len(el) = TestN /\ Len(rows) = TestN
      /\ SealedBy(rows, u.at) /\ Sids(outs) = Sids(el)
  BY DEF Evaluable, UnlockValid, SampleSealed
<1>3. ASSUME NEW i \in 1..TestN
      PROVE  \E j \in DOMAIN outs :
               /\ outs[j].sid = el[i].sid /\ rows[i].entry = el[i]
               /\ f.at < el[i].handoff
               /\ el[i].handoff <= el[i].at /\ el[i].at <= rows[i].at
               /\ rows[i].at <= el[i].handoff + MaxLag
               /\ rows[i].at < outs[j].continuation.started
               /\ outs[j].continuation.started <= outs[j].at
               /\ SealedBy(rows, outs[j].at)
  <2>1. i \in DOMAIN el /\ i \in DOMAIN rows
    BY <1>2, TrialConstants
  <2>2. EligibilityRowValid(p, f, el, i) /\ PredictionRowValid(p, f, el, rows, i)
    BY <1>2, <2>1 DEF ChainsValid, EligibilityValid, PredictionsValid
  <2>3. /\ f.at < el[i].handoff /\ el[i].handoff <= el[i].at
        /\ rows[i].entry = el[i] /\ el[i].at <= rows[i].at
        /\ rows[i].at <= el[i].handoff + MaxLag
    BY <2>2 DEF EligibilityRowValid, PredictionRowValid, InWindow
  <2>5. PICK j \in DOMAIN outs : outs[j].sid = el[i].sid
    BY <1>2, <2>1 DEF Sids
  <2>6. /\ outs[j].continuation = conts[el[i].sid]
        /\ outs[j].continuation.started <= outs[j].at /\ u.at <= outs[j].at
    BY <2>5 DEF Evaluable, OutcomeAccepted
  <2>7. rows[i].at < conts[el[i].sid].started
    BY <2>1, <2>3 DEF Evaluable
  <2>8. SealedBy(rows, outs[j].at)
    <3>1. \A k \in DOMAIN rows : rows[k] \in PredictionRow
      OBVIOUS
    <3>2. \A k \in DOMAIN rows : rows[k].at \in Nat
      BY <3>1 DEF PredictionRow
    <3>3. outs[j] \in OutcomeRow
      OBVIOUS
    <3>4. outs[j].at \in Nat /\ u.at \in Nat
      BY <3>3 DEF OutcomeRow, UnlockDoc
    <3> QED
      BY <1>2, <2>6, <3>2, <3>4 DEF SealedBy
  <2> QED
    BY <2>3, <2>5, <2>6, <2>7, <2>8
<1> QED
  BY <1>1, <1>3 DEF ReportOrdered, e

\* Its predictions are those of the freeze it was made under, when those on file are each
\* that of its own freeze.
LEMMA EvaluableIsComputed ==
    ASSUME NEW p, NEW f \in FreezeDoc, NEW dir, NEW el \in Seq(EligibilityRow), NEW conts,
           NEW rows \in Seq(PredictionRow), NEW u \in UnlockDoc,
           NEW outs \in Seq(OutcomeRow),
           \A i \in DOMAIN rows : PredictedAsFrozen(rows[i]),
           Evaluable(p, f, dir, el, conts, rows, u, outs)
    PROVE  ReportComputed(NewEvaluation(f, el, rows, u, outs))
<1>1. PredictionsValid(p, f, el, rows) /\ DOMAIN rows = 1..TestN
  BY TrialConstants DEF Evaluable, UnlockValid, SampleSealed, ChainsValid
<1>2. ASSUME NEW i \in 1..TestN PROVE rows[i].value = Predict(el[i].sid, el[i].rev, f.cut)
  <2>1. rows[i].entry = el[i] /\ rows[i].freeze = f
    BY <1>1 DEF PredictionsValid, PredictionRowValid, BindsFreeze
  <2> QED
    BY <1>1, <2>1 DEF PredictedAsFrozen
<1> QED
  BY <1>2 DEF ReportComputed, NewEvaluation

\* Every report evaluate writes is sound.
LEMMA SoundStep == TypeOK /\ ValueInv /\ EvaluationSound /\ [Next]_vars => EvaluationSound'
<1> SUFFICES ASSUME TypeOK, ValueInv, EvaluationSound, [Next]_vars PROVE EvaluationSound'
  OBVIOUS
<1>1. ASSUME UNCHANGED evaluation PROVE EvaluationSound'
  BY <1>1 DEF EvaluationSound
<1>2. CASE World \/ UNCHANGED vars
  BY <1>1, <1>2 DEF World, Tick, EditProtocol, Handoff, EditSession, StartContinuation,
              GrowContinuation, vars, files
<1>3. CASE Evaluate
  <2>1. /\ freeze \in FreezeDoc /\ unlock \in UnlockDoc
        /\ eligibility \in Seq(EligibilityRow) /\ predictions \in Seq(PredictionRow)
        /\ outcomes \in Seq(OutcomeRow)
    BY <1>3 DEF Evaluate, TypeOK, OrAbsent
  <2>2. /\ Evaluable(protocol, freeze, [s \in Saved(session) |-> session[s]], eligibility,
                     [s \in Saved(continuation) |-> continuation[s]], predictions, unlock,
                     outcomes)
        /\ evaluation' = NewEvaluation(freeze, eligibility, predictions, unlock, outcomes)
    BY <1>3 DEF Evaluate
  <2>3. ReportOrdered(NewEvaluation(freeze, eligibility, predictions, unlock, outcomes))
    BY <2>1, <2>2, EvaluableIsOrdered
  <2>4. ReportComputed(NewEvaluation(freeze, eligibility, predictions, unlock, outcomes))
    BY <2>1, <2>2, EvaluableIsComputed DEF ValueInv
  <2> QED
    BY <2>2, <2>3, <2>4 DEF EvaluationSound
<1> QED
  BY <1>1, <1>2, <1>3 DEF Next, Commands, Freeze, Register, Score, UnlockOutcomes, Label

\* Predictions are what the freeze they bind says, and labels are never post-dated.
THEOREM ValuesAsFrozen == Spec => [](ValueInv /\ ClockInv)
<1>1. Init => ValueInv /\ ClockInv
  BY DEF Init, ValueInv, ClockInv
<1> QED
  BY <1>1, ValueStep, ClockStep, Typing, PTL DEF Spec

\* Every report ever written is about handoffs predicted in time, in order, from
\* the registered bytes, before their continuation and before any label.
THEOREM ReportsAreSound == Spec => []EvaluationSound
<1>1. Init => EvaluationSound
  BY DEF Init, EvaluationSound
<1> QED
  BY <1>1, SoundStep, Typing, ValuesAsFrozen, PTL DEF Spec

\* Every evaluated handoff lies in the past.
LEMMA EvaluatedLieBehind ==
    ASSUME TypeOK, SealInv, VerdictInv, ClockInv, EvaluationSound, evaluation # Absent,
           NEW i \in DOMAIN evaluation.eligibility
    PROVE  evaluation.eligibility[i].handoff \in Nat /\ evaluation.eligibility[i].handoff < now
<1>1. /\ evaluation.eligibility = eligibility /\ evaluation.outcomes = outcomes
      /\ evaluation.predictions = predictions
      /\ SampleSealed(eligibility, predictions)
  BY DEF VerdictInv, NewEvaluation, SealInv
<1>2. eligibility \in Seq(EligibilityRow) /\ outcomes \in Seq(OutcomeRow) /\ now \in Nat
      /\ predictions \in Seq(PredictionRow)
  BY DEF TypeOK
<1>3. i \in 1..TestN /\ i \in DOMAIN predictions
  BY <1>1, <1>2 DEF SampleSealed
<1>4. PICK j \in DOMAIN outcomes :
        /\ eligibility[i].handoff <= eligibility[i].at
        /\ eligibility[i].at <= predictions[i].at
        /\ predictions[i].at < outcomes[j].continuation.started
        /\ outcomes[j].continuation.started <= outcomes[j].at
  BY <1>1, <1>3 DEF EvaluationSound, ReportOrdered
<1>5. outcomes[j].at <= now
  BY DEF ClockInv
<1>6. /\ eligibility[i] \in EligibilityRow /\ predictions[i] \in PredictionRow
      /\ outcomes[j] \in OutcomeRow
  BY <1>1, <1>2, <1>3
<1>7. /\ eligibility[i].handoff \in Nat /\ eligibility[i].at \in Nat
      /\ predictions[i].at \in Nat /\ outcomes[j].at \in Nat
      /\ outcomes[j].continuation.started \in Nat
  BY <1>6 DEF EligibilityRow, PredictionRow, OutcomeRow, ContinuationFile
<1> QED
  BY <1>1, <1>2, <1>4, <1>5, <1>7, SMTT(30)

\* Neither a new handoff nor a new report puts an unevaluated handoff first.
LEMMA FirstStep ==
    ASSUME TypeOK, SealInv, VerdictInv, ClockInv, EvaluationSound,
           FirstHandoffsEvaluated, [Next]_vars
    PROVE  FirstHandoffsEvaluated'
<1>1. ASSUME UNCHANGED <<evaluation, session>> PROVE FirstHandoffsEvaluated'
  BY <1>1 DEF FirstHandoffsEvaluated, Saved
<1>2. CASE Evaluate
  <2>1. Saved(session) = Sids(eligibility)
    BY <1>2 DEF Evaluate, Evaluable, Aligned
  <2>2. evaluation'.eligibility = eligibility /\ UNCHANGED session
    BY <1>2 DEF Evaluate, NewEvaluation, inputs
  <2> QED
    BY <2>1, <2>2 DEF FirstHandoffsEvaluated, Saved
<1>3. ASSUME NEW s \in Sessions, Handoff(s) PROVE FirstHandoffsEvaluated'
  <2>1. /\ evaluation' = evaluation
        /\ session' = [session EXCEPT ![s] = [handoff |-> now, rev |-> 0]]
        /\ session \in [Sessions -> OrAbsent(SessionFile)]
    BY <1>3 DEF Handoff, files, TypeOK
  <2>2. SUFFICES ASSUME evaluation # Absent, NEW r \in Saved(session') \ Sids(evaluation.eligibility),
                        NEW i \in DOMAIN evaluation.eligibility
                 PROVE  evaluation.eligibility[i].handoff < session'[r].handoff
    BY <2>1 DEF FirstHandoffsEvaluated, Saved
  <2>3. CASE r = s
    BY <2>1, <2>2, <2>3, EvaluatedLieBehind
  <2>4. CASE r # s
    BY <2>1, <2>2, <2>4 DEF FirstHandoffsEvaluated, Saved
  <2> QED
    BY <2>3, <2>4
<1>4. ASSUME NEW s \in Sessions, NEW v \in Revs, EditSession(s, v)
      PROVE  FirstHandoffsEvaluated'
  <2>1. /\ evaluation' = evaluation
        /\ session[s] # Absent /\ session[s] \in SessionFile
        /\ session' = [session EXCEPT ![s].rev = v]
        /\ session \in [Sessions -> OrAbsent(SessionFile)]
    BY <1>4 DEF EditSession, files, TypeOK, OrAbsent
  <2>2. \A r \in Sessions : r # s => session'[r] = session[r]
    BY <2>1
  <2>3. session'[s].handoff = session[s].handoff
    BY <2>1 DEF SessionFile
  <2>4. \A r \in Sessions : session'[r] # Absent =>
          session[r] # Absent /\ session'[r].handoff = session[r].handoff
    BY <2>1, <2>2, <2>3
  <2> QED
    BY <2>1, <2>4 DEF FirstHandoffsEvaluated, Saved
<1> QED
  BY <1>1, <1>2, <1>3, <1>4 DEF Next, World, Commands, Tick, EditProtocol, StartContinuation,
     GrowContinuation, Freeze, Register, Score, UnlockOutcomes, Label, vars, inputs, files

\* A report is about the first TestN handoffs on file, for good: a handoff saved
\* but not evaluated is later than every evaluated one.
THEOREM FirstHandoffsAreEvaluated == Spec => []FirstHandoffsEvaluated
<1>1. Init => FirstHandoffsEvaluated
  BY DEF Init, FirstHandoffsEvaluated
<1>2. /\ TypeOK /\ SealInv /\ VerdictInv /\ ValueInv /\ ClockInv /\ EvaluationSound
      /\ FirstHandoffsEvaluated /\ [Next]_vars
      => FirstHandoffsEvaluated'
  BY FirstStep
<1> QED
  BY <1>1, <1>2, Typing, Sealing, VerdictInvariance, ValuesAsFrozen, ReportsAreSound,
     PTL DEF Spec

----------------------------------------------------------------------------
(* The independent verifier and evaluate agree: from the files of any      *)
(* state in which a freeze and an unlock receipt exist, one passes exactly *)
(* when the other would repeat the report.  The verifier computes each     *)
(* prediction again where evaluate trusts the sealed row, so the proof     *)
(* needs ValueInv.                                                         *)

\* freeze refuses while calibration data is not older than its own second.
FreezeInv == freeze # Absent => CalibrationEnd < freeze.at

LEMMA FreezeStep == TypeOK /\ FreezeInv /\ [Next]_vars => FreezeInv'
<1> SUFFICES ASSUME TypeOK, FreezeInv, [Next]_vars PROVE FreezeInv'
  OBVIOUS
<1>1. ASSUME NEW cut \in Cuts, Freeze(cut) PROVE FreezeInv'
  BY <1>1 DEF Freeze, FreezeInv
<1>2. ASSUME UNCHANGED freeze PROVE FreezeInv'
  BY <1>2 DEF FreezeInv
<1> QED
  BY <1>1, <1>2 DEF Next, World, Commands, Tick, EditProtocol, Handoff, EditSession,
     StartContinuation, GrowContinuation, Register, Score, UnlockOutcomes, Label,
     Evaluate, vars, inputs, files

Sessions0 == [s \in Saved(session) |-> session[s]]
Continuations0 == [s \in Saved(continuation) |-> continuation[s]]

\* A complete sample: both chains have the same TestN indices, and TestN > 0.
LEMMA SameIndices ==
    ASSUME TypeOK, Len(eligibility) = TestN, Len(predictions) = TestN
    PROVE  /\ DOMAIN eligibility = 1..TestN /\ DOMAIN predictions = 1..TestN
           /\ 1 \in 1..TestN
           /\ eligibility \in Seq(EligibilityRow) /\ predictions \in Seq(PredictionRow)
BY TrialConstants DEF TypeOK

\* Whatever passes the verifier, evaluate would report again.
LEMMA VerifierIsSound ==
    ASSUME TypeOK, VerifierPasses
    PROVE  EvaluateAgrees
<1> DEFINE ss == Sessions0
           cs == Continuations0
<1>1. /\ freeze # Absent /\ unlock # Absent
      /\ Verified(protocol, freeze, ss, eligibility, cs, predictions, unlock, outcomes,
                  evaluation)
  BY DEF VerifierPasses, Sessions0, Continuations0
<1> HIDE DEF ss, cs
<1>2. /\ DOMAIN eligibility = 1..TestN /\ DOMAIN predictions = 1..TestN
      /\ 1 \in 1..TestN
      /\ Len(eligibility) = TestN /\ Len(predictions) = TestN
  BY <1>1, SameIndices DEF Verified
<1>3. \A i \in 1..TestN :
        /\ VerifierEligibility(protocol, freeze, ss, eligibility, i)
        /\ VerifierPrediction(protocol, freeze, ss, eligibility, predictions, i)
  BY <1>1, <1>2 DEF Verified
<1>4. EligibilityValid(protocol, freeze, eligibility)
  BY <1>2, <1>3 DEF EligibilityValid, EligibilityRowValid, VerifierEligibility, InWindow,
     BindsFreeze
<1>5. \A i \in 1..TestN : SameSession(eligibility[i], ss[eligibility[i].sid])
  BY <1>3 DEF VerifierEligibility, SameSession
<1>6. \A i \in 1..TestN : PredictionRowValid(protocol, freeze, eligibility, predictions, i)
  <2> SUFFICES ASSUME NEW i \in 1..TestN
               PROVE  PredictionRowValid(protocol, freeze, eligibility, predictions, i)
    OBVIOUS
  <2> DEFINE e == eligibility[i]
             f == ss[e.sid]
  <2>1. e \in EligibilityRow
    BY <1>2 DEF TypeOK
  <2>2. e.rev = f.rev /\ e.handoff = f.handoff
    BY <1>3 DEF VerifierEligibility
  <2>3. [e EXCEPT !.rev = f.rev, !.handoff = f.handoff] = e
    BY <2>1, <2>2 DEF EligibilityRow
  <2>4. VerifierPrediction(protocol, freeze, ss, eligibility, predictions, i)
    BY <1>3
  <2>5. predictions[i].entry = e /\ predictions[i].freeze = freeze
        /\ predictions[i].rev = f.rev
        /\ predictions[i].prev = (IF i = 1 THEN Genesis ELSE predictions[i-1].entry.sid)
    BY <2>3, <2>4 DEF VerifierPrediction
  <2> QED
    BY <2>2, <2>4, <2>5 DEF VerifierPrediction, PredictionRowValid, BindsFreeze, InWindow
<1>7. UnlockValid(protocol, freeze, eligibility, predictions, unlock)
  BY <1>1, <1>2, <1>4, <1>6
  DEF UnlockValid, ChainsValid, PredictionsValid, SampleSealed, SealedBy, Verified,
      VerifierUnlock
<1>8. Aligned(ss, eligibility) /\ Aligned(cs, eligibility) /\ Sids(outcomes) = Sids(eligibility)
  BY <1>1, <1>2 DEF Verified, Aligned, Sids
<1>9. \A j \in DOMAIN outcomes : OutcomeAccepted(outcomes, j, unlock, cs)
  <2> SUFFICES ASSUME NEW j \in DOMAIN outcomes
               PROVE  OutcomeAccepted(outcomes, j, unlock, cs)
    OBVIOUS
  <2>1. VerifierOutcome(cs, unlock, outcomes, j) /\ unlock.at <= outcomes[j].at
    BY <1>1 DEF Verified
  <2>2. outcomes[j].outcome \in {0, 1}
    <3>1. outcomes \in Seq(OutcomeRow)
      BY DEF TypeOK
    <3>2. outcomes[j] \in OutcomeRow
      BY <3>1
    <3> QED
      BY <3>2 DEF OutcomeRow
  <2>3. FirstOfItsSession(outcomes, j)
    BY <2>1 DEF VerifierOutcome, FirstOfItsSession
  <2>4. OutcomeSupported(outcomes[j].outcome, outcomes[j].continuation)
    BY <2>1, <2>2 DEF VerifierOutcome, OutcomeSupported
  <2> QED
    BY <2>1, <2>3, <2>4 DEF VerifierOutcome, OutcomeAccepted
<1>10. \A i \in DOMAIN predictions :
         predictions[i].at < cs[predictions[i].entry.sid].started
  <2>1. \A i \in DOMAIN predictions : predictions[i].at < cs[eligibility[i].sid].started
    BY <1>1 DEF Verified
  <2> QED
    BY <1>2, <1>6, <2>1 DEF PredictionRowValid
<1>11. Evaluable(protocol, freeze, ss, eligibility, cs, predictions, unlock, outcomes)
  BY <1>2, <1>5, <1>7, <1>8, <1>9, <1>10 DEF Evaluable
<1>12. evaluation = NewEvaluation(freeze, eligibility, predictions, unlock, outcomes)
  BY <1>1 DEF Verified, NewEvaluation, ClassFloorMet
<1> QED
  BY <1>1, <1>11, <1>12 DEF EvaluateAgrees, ss, cs, Sessions0, Continuations0

\* Whatever evaluate would report again passes the verifier.
LEMMA VerifierIsComplete ==
    ASSUME TypeOK, ValueInv, FreezeInv, EvaluateAgrees
    PROVE  VerifierPasses
<1> DEFINE ss == Sessions0
           cs == Continuations0
<1>1. /\ freeze # Absent /\ unlock # Absent
      /\ Evaluable(protocol, freeze, ss, eligibility, cs, predictions, unlock, outcomes)
      /\ evaluation = NewEvaluation(freeze, eligibility, predictions, unlock, outcomes)
  BY DEF EvaluateAgrees, Sessions0, Continuations0
<1> HIDE DEF ss, cs
<1>2. /\ DOMAIN eligibility = 1..TestN /\ DOMAIN predictions = 1..TestN
      /\ 1 \in 1..TestN
      /\ Len(eligibility) = TestN /\ Len(predictions) = TestN
  BY <1>1, SameIndices DEF Evaluable, UnlockValid, SampleSealed
<1>3. \A i \in 1..TestN :
        /\ EligibilityRowValid(protocol, freeze, eligibility, i)
        /\ PredictionRowValid(protocol, freeze, eligibility, predictions, i)
        /\ SameSession(eligibility[i], ss[eligibility[i].sid])
        /\ eligibility[i].sid \in DOMAIN ss
  BY <1>1, <1>2 DEF Evaluable, UnlockValid, ChainsValid, EligibilityValid, PredictionsValid,
     Aligned, Sids
<1>4. freeze.protocol = protocol
  BY <1>2, <1>3 DEF EligibilityRowValid, BindsFreeze
<1>5. \A i \in 1..TestN : VerifierEligibility(protocol, freeze, ss, eligibility, i)
  BY <1>3, <1>4 DEF EligibilityRowValid, VerifierEligibility, SameSession, InWindow,
     BindsFreeze
<1>6. \A i \in 1..TestN :
        VerifierPrediction(protocol, freeze, ss, eligibility, predictions, i)
  <2> SUFFICES ASSUME NEW i \in 1..TestN
               PROVE  VerifierPrediction(protocol, freeze, ss, eligibility, predictions, i)
    OBVIOUS
  <2> DEFINE e == eligibility[i]
             f == ss[e.sid]
             r == predictions[i]
  <2>1. e \in EligibilityRow /\ r \in PredictionRow
    BY <1>2 DEF TypeOK
  <2>2. e.rev = f.rev /\ e.handoff = f.handoff
    BY <1>3 DEF SameSession
  <2>3. [e EXCEPT !.rev = f.rev, !.handoff = f.handoff] = e
    BY <2>1, <2>2 DEF EligibilityRow
  <2>4. PredictionRowValid(protocol, freeze, eligibility, predictions, i)
    BY <1>3
  <2>5. r.value = Predict(e.sid, f.rev, freeze.cut)
    BY <1>2, <2>2, <2>4 DEF ValueInv, PredictedAsFrozen, PredictionRowValid, BindsFreeze
  <2>6. r = [entry |-> e, rev |-> f.rev, at |-> r.at, freeze |-> freeze,
             prev |-> IF i = 1 THEN Genesis ELSE predictions[i-1].entry.sid,
             value |-> Predict(e.sid, f.rev, freeze.cut)]
    BY <2>1, <2>2, <2>4, <2>5 DEF PredictionRow, PredictionRowValid, BindsFreeze
  <2> QED
    BY <1>3, <1>4, <2>2, <2>3, <2>4, <2>6
    DEF VerifierPrediction, PredictionRowValid, InWindow
<1>7. VerifierUnlock(protocol, freeze, eligibility, predictions, unlock)
  BY <1>1, <1>2, <1>4 DEF Evaluable, UnlockValid, VerifierUnlock, SealedBy
<1>8. \A j \in DOMAIN outcomes :
        VerifierOutcome(cs, unlock, outcomes, j) /\ unlock.at <= outcomes[j].at
  <2> SUFFICES ASSUME NEW j \in DOMAIN outcomes
               PROVE  VerifierOutcome(cs, unlock, outcomes, j) /\ unlock.at <= outcomes[j].at
    OBVIOUS
  <2>1. OutcomeAccepted(outcomes, j, unlock, cs)
    BY <1>1 DEF Evaluable
  <2>2. outcomes[j].sid \in DOMAIN cs
    BY <1>1 DEF Evaluable, Aligned, Sids
  <2>3. outcomes[j].sid \notin {outcomes[k].sid : k \in 1..j-1}
    BY <2>1 DEF OutcomeAccepted, FirstOfItsSession
  <2>4. IF outcomes[j].outcome = 1 THEN outcomes[j].continuation.corrected
                                   ELSE outcomes[j].continuation.closed
    BY <2>1 DEF OutcomeAccepted, OutcomeSupported
  <2> QED
    BY <2>1, <2>2, <2>3, <2>4 DEF OutcomeAccepted, VerifierOutcome
<1>9. /\ {eligibility[i].sid : i \in DOMAIN predictions} = Sids(eligibility)
      /\ Sids(outcomes) = Sids(eligibility)
      /\ DOMAIN ss = Sids(eligibility) /\ DOMAIN cs = Sids(eligibility)
  BY <1>1, <1>2 DEF Evaluable, Aligned, Sids
<1>10. \A i \in DOMAIN predictions : predictions[i].at < cs[eligibility[i].sid].started
  BY <1>1, <1>2, <1>3 DEF Evaluable, PredictionRowValid
<1>11. CalibrationEnd < freeze.at
  BY <1>1 DEF FreezeInv
<1>12. evaluation = [freeze |-> freeze, eligibility |-> eligibility,
                     predictions |-> predictions, unlock |-> unlock, outcomes |-> outcomes,
                     eligible |->
                       /\ Cardinality({j \in DOMAIN outcomes : outcomes[j].outcome = 0}) >= MinClass
                       /\ Cardinality({j \in DOMAIN outcomes : outcomes[j].outcome = 1}) >= MinClass]
  BY <1>1 DEF NewEvaluation, ClassFloorMet
<1>13. Verified(protocol, freeze, ss, eligibility, cs, predictions, unlock, outcomes, evaluation)
  BY <1>2, <1>4, <1>5, <1>6, <1>7, <1>8, <1>9, <1>10, <1>11, <1>12 DEF Verified, Sids
<1> QED
  BY <1>1, <1>13 DEF VerifierPasses, ss, cs, Sessions0, Continuations0

\* The two implementations agree in every state, whatever was edited or frozen
\* again since the report was written.
THEOREM VerifierAlwaysAgrees == Spec => []VerifierAgrees
<1>1. Init => FreezeInv
  BY DEF Init, FreezeInv
<1>2. TypeOK /\ ValueInv /\ FreezeInv => VerifierAgrees
  BY VerifierIsSound, VerifierIsComplete DEF VerifierAgrees
<1> QED
  BY <1>1, <1>2, FreezeStep, Typing, ValuesAsFrozen, PTL DEF Spec

----------------------------------------------------------------------------
(* The trial implements the sealed one.                                    *)

\* Rows keep their sessions, and a row more is an item more.
LEMMA EnrolledGrows ==
    ASSUME NEW rows \in Seq(EligibilityRow), NEW row \in EligibilityRow
    PROVE  /\ Sids(Enrolled(rows)) = Sids(rows)
           /\ Len(Enrolled(rows)) = Len(rows)
           /\ Enrolled(Append(rows, row)) =
                 Append(Enrolled(rows), [sid |-> row.sid, rev |-> row.rev, cut |-> row.freeze.cut])
<1> DEFINE item(r) == [sid |-> r.sid, rev |-> r.rev, cut |-> r.freeze.cut]
           last == Len(rows) + 1
<1>1. Len(rows) \in Nat /\ DOMAIN rows = 1 .. Len(rows)
  OBVIOUS
<1>2. /\ DOMAIN Append(rows, row) = 1 .. last
      /\ Append(rows, row)[last] = row
      /\ \A i \in 1 .. Len(rows) : Append(rows, row)[i] = rows[i]
  BY <1>1
<1>3. Enrolled(rows) = [i \in 1 .. Len(rows) |-> item(rows[i])]
  BY <1>1 DEF Enrolled
<1>4. Enrolled(Append(rows, row)) = [i \in 1 .. last |-> item(Append(rows, row)[i])]
  BY <1>2 DEF Enrolled
<1> HIDE DEF item
<1>5. Len(Enrolled(rows)) = Len(rows)
  BY <1>1, <1>3
<1>6. Append(Enrolled(rows), item(row)) =
         [i \in 1 .. last |-> IF i = last THEN item(row) ELSE item(rows[i])]
  BY <1>1, <1>3
<1>7. Enrolled(Append(rows, row)) = Append(Enrolled(rows), item(row))
  BY <1>1, <1>2, <1>4, <1>6
<1>8. Sids(Enrolled(rows)) = Sids(rows)
  BY DEF Sids, Enrolled
<1> QED
  BY <1>5, <1>7, <1>8 DEF item

LEMMA AnsweredGrows ==
    ASSUME NEW rows \in Seq(PredictionRow), NEW row \in PredictionRow
    PROVE  /\ Len(Answered(rows)) = Len(rows)
           /\ Answered(Append(rows, row)) = Append(Answered(rows), row.value)
BY DEF Answered

LEMMA SeenGrows ==
    ASSUME NEW rows \in Seq(OutcomeRow), NEW row \in OutcomeRow
    PROVE  /\ Sids(Seen(rows)) = Sids(rows)
           /\ Seen(Append(rows, row)) =
                 Append(Seen(rows), [sid |-> row.sid, outcome |-> row.outcome])
BY DEF Seen, Sids

\* register enrols the session it appends, under the threshold of those before it.
LEMMA RegisterEnrols ==
    ASSUME TypeOK, TypeOK', SealInv, NEW s \in Sessions, Register(s)
    PROVE  Promise!Enrol([sid |-> s, rev |-> session[s].rev, cut |-> freeze.cut])
<1> DEFINE row == NewEligibilityRow(freeze, eligibility, s, session[s], now)
<1>1. /\ freeze # Absent /\ session[s] # Absent
      /\ Registrable(protocol, freeze, eligibility, s, session[s], now)
      /\ eligibility' = Append(eligibility, row)
      /\ UNCHANGED <<predictions, unlock, outcomes, evaluation>>
  BY DEF Register
<1>2. /\ eligibility \in Seq(EligibilityRow)
      /\ row \in EligibilityRow
      /\ row.sid = s /\ row.rev = session[s].rev /\ row.freeze = freeze
  <2>1. freeze \in FreezeDoc /\ session[s] \in SessionFile /\ now \in Nat
        /\ eligibility \in Seq(EligibilityRow)
    BY <1>1 DEF TypeOK, OrAbsent
  <2>2. row \in EligibilityRow
    BY <2>1, EligibilityRowTyped
  <2> QED
    BY <2>1, <2>2 DEF NewEligibilityRow
<1>3. Len(eligibility) < TestN
  BY <1>1 DEF Registrable, RoomLeft
<1>4. unlock = Absent
  BY <1>3, SealedIsFull DEF SealInv, RoomLeft
<1>5. \A i \in DOMAIN eligibility : eligibility[i].sid # s /\ eligibility[i].freeze = freeze
  BY <1>1 DEF Registrable, EligibilityValid, EligibilityRowValid, BindsFreeze
<1> HIDE DEF row
<1>6. /\ Enrolled(eligibility') =
            Append(Enrolled(eligibility), [sid |-> s, rev |-> session[s].rev, cut |-> freeze.cut])
      /\ Len(Enrolled(eligibility)) = Len(eligibility)
  BY <1>1, <1>2, EnrolledGrows
<1>7. \A i \in DOMAIN Enrolled(eligibility) :
         Enrolled(eligibility)[i].sid # s /\ Enrolled(eligibility)[i].cut = freeze.cut
  BY <1>5 DEF Enrolled
<1> QED
  BY <1>1, <1>3, <1>4, <1>6, <1>7 DEF Promise!Enrol

\* score answers the next session by the threshold it was registered under.
LEMMA ScoreAnswers ==
    ASSUME TypeOK, SealInv, NEW s \in Sessions, Score(s)
    PROVE  Promise!Answer
<1> DEFINE row == NewPredictionRow(freeze, eligibility, predictions, s, session[s], now)
           next == Len(predictions) + 1
<1>1. /\ freeze # Absent /\ session[s] # Absent
      /\ Scorable(protocol, freeze, eligibility, predictions, s, session[s], now)
      /\ predictions' = Append(predictions, row)
      /\ UNCHANGED <<eligibility, unlock, outcomes, evaluation>>
  BY DEF Score
<1>2. /\ freeze \in FreezeDoc /\ session[s] \in SessionFile /\ now \in Nat
      /\ eligibility \in Seq(EligibilityRow) /\ predictions \in Seq(PredictionRow)
  BY <1>1 DEF TypeOK, OrAbsent
<1>3. /\ next <= Len(eligibility) /\ next \in DOMAIN eligibility
      /\ eligibility[next].sid = s /\ eligibility[next].rev = session[s].rev
      /\ eligibility[next].freeze = freeze
  <2>1. next \in DOMAIN eligibility
    BY <1>1, <1>2 DEF Scorable
  <2> QED
    BY <1>1, <2>1 DEF Scorable, SameSession, ChainsValid, EligibilityValid, EligibilityRowValid,
       BindsFreeze
<1>4. row \in PredictionRow
  BY <1>2, <1>3, PredictionRowTyped
<1>5. unlock = Absent
  <2>1. RoomLeft(predictions)
    BY <1>1 DEF Scorable
  <2> QED
    BY <2>1, SealedIsFull DEF SealInv
<1>6. row.value = IF Metric[s][session[s].rev] >= freeze.cut THEN 1 ELSE 0
  BY DEF NewPredictionRow, Predict
<1> HIDE DEF row
<1>7. /\ Answered(predictions') = Append(Answered(predictions), row.value)
      /\ Len(Answered(predictions)) = Len(predictions)
  BY <1>1, <1>2, <1>4, AnsweredGrows
<1>8. /\ Enrolled(eligibility)[next] = [sid |-> s, rev |-> session[s].rev, cut |-> freeze.cut]
      /\ Len(Enrolled(eligibility)) = Len(eligibility)
  <2>1. Len(Enrolled(eligibility)) = Len(eligibility)
    BY <1>2 DEF Enrolled
  <2> QED
    BY <1>3, <2>1 DEF Enrolled
<1>9. Len(predictions) < Len(eligibility)
  BY <1>2, <1>3
<1> QED
  BY <1>1, <1>5, <1>6, <1>7, <1>8, <1>9 DEF Promise!Answer

\* label sees the outcome of a session of the sample that has none.
LEMMA LabelSees ==
    ASSUME TypeOK, NEW s \in Sessions, NEW outcome \in {0, 1}, Label(s, outcome),
           evaluation = Absent
    PROVE  Promise!See([sid |-> s, outcome |-> outcome])
<1> DEFINE row == NewOutcomeRow(unlock, s, outcome, continuation[s], now)
<1>1. /\ unlock # Absent /\ continuation[s] # Absent
      /\ Labelable(protocol, freeze, eligibility, predictions, unlock, s, outcome,
                   continuation[s], now)
      /\ s \notin Sids(outcomes)
      /\ outcomes' = Append(outcomes, row)
      /\ UNCHANGED <<eligibility, predictions, unlock, evaluation>>
  BY DEF Label
<1>2. /\ unlock \in UnlockDoc /\ continuation[s] \in ContinuationFile /\ now \in Nat
      /\ eligibility \in Seq(EligibilityRow) /\ predictions \in Seq(PredictionRow)
      /\ outcomes \in Seq(OutcomeRow)
  BY <1>1 DEF TypeOK, OrAbsent
<1>3. row \in OutcomeRow /\ row.sid = s /\ row.outcome = outcome
  BY <1>2 DEF NewOutcomeRow, OutcomeRow
<1>4. s \in Sids(eligibility)
  <2>1. PICK i \in DOMAIN predictions : predictions[i].entry.sid = s
    BY <1>1 DEF Labelable
  <2>2. ChainsValid(protocol, freeze, eligibility, predictions)
    BY <1>1 DEF Labelable, UnlockValid
  <2> QED
    BY <1>2, <2>1, <2>2, PredictedIsRegistered
<1> HIDE DEF row
<1>5. /\ Seen(outcomes') = Append(Seen(outcomes), [sid |-> s, outcome |-> outcome])
      /\ Sids(Seen(outcomes)) = Sids(outcomes)
  BY <1>1, <1>2, <1>3, SeenGrows
<1>6. Promise!Sids(Enrolled(eligibility)) = Sids(eligibility)
      /\ Promise!Sids(Seen(outcomes)) = Sids(outcomes)
  BY DEF Promise!Sids, Sids, Enrolled, Seen
<1> QED
  BY <1>1, <1>4, <1>5, <1>6 DEF Promise!See

\* Every step of the trial is a step of the sealed trial, or none.
LEMMA SealedStep ==
    ASSUME TypeOK, TypeOK', SealInv, VerdictInv, [Next]_vars
    PROVE  [Promise!Next]_(Promise!vars)
<1>1. ASSUME UNCHANGED <<eligibility, predictions, unlock, outcomes, evaluation>>
      PROVE  UNCHANGED Promise!vars
  BY <1>1 DEF Promise!vars
<1>2. CASE UNCHANGED vars
  BY <1>1, <1>2 DEF vars, files
<1>3. CASE World
  BY <1>1, <1>3, WorldKeepsFiles DEF files
<1>4. ASSUME NEW cut \in Cuts, Freeze(cut) PROVE UNCHANGED Promise!vars
  BY <1>1, <1>4 DEF Freeze
<1>5. ASSUME NEW s \in Sessions, Register(s) PROVE Promise!Next
  <2>1. [sid |-> s, rev |-> session[s].rev, cut |-> freeze.cut] \in [sid: Sessions, rev: Revs, cut: Cuts]
    BY <1>5 DEF Register, TypeOK, OrAbsent, SessionFile, FreezeDoc
  <2> QED
    BY <1>5, <2>1, RegisterEnrols DEF Promise!Next, Promise!Revs, Revs
<1>6. ASSUME NEW s \in Sessions, Score(s) PROVE Promise!Next
  BY <1>6, ScoreAnswers DEF Promise!Next
<1>7. CASE UnlockOutcomes
  <2>1. /\ unlock = Absent /\ Len(eligibility) = TestN /\ Len(predictions) = TestN
        /\ UNCHANGED <<eligibility, predictions, outcomes, evaluation>>
    BY <1>7 DEF UnlockOutcomes, Unlockable, SampleSealed
  <2>2. Len(Enrolled(eligibility)) = TestN /\ Len(Answered(predictions)) = TestN
    BY <2>1 DEF Enrolled, Answered, TypeOK
  <2>3. CASE unlock' # Absent
    BY <2>1, <2>2, <2>3 DEF Promise!Next, Promise!Open
  <2>4. CASE unlock' = Absent
    BY <1>1, <2>1, <2>4
  <2> QED
    BY <2>3, <2>4
<1>8. ASSUME NEW s \in Sessions, NEW outcome \in {0, 1}, Label(s, outcome)
      PROVE  [Promise!Next]_(Promise!vars)
  <2>1. CASE evaluation # Absent
    BY <1>1, <2>1, VerdictStands
  <2>2. CASE evaluation = Absent
    <3>1. [sid |-> s, outcome |-> outcome] \in [sid: Sessions, outcome: {0, 1}]
      OBVIOUS
    <3> QED
      BY <1>8, <2>2, <3>1, LabelSees DEF Promise!Next
  <2> QED
    BY <2>1, <2>2
<1>9. CASE Evaluate
  <2>1. CASE evaluation # Absent \/ evaluation' = Absent
    BY <1>1, <1>9, <2>1, VerdictStands DEF Evaluate
  <2>2. CASE evaluation = Absent /\ evaluation' # Absent
    <3>1. /\ unlock # Absent /\ Sids(outcomes) = Sids(eligibility)
          /\ evaluation' = NewEvaluation(freeze, eligibility, predictions, unlock, outcomes)
          /\ UNCHANGED <<eligibility, predictions, unlock, outcomes>>
      BY <1>9 DEF Evaluate, Evaluable
    <3>2. Reported(evaluation') = [sample |-> Enrolled(eligibility),
              answers |-> Answered(predictions), labels |-> Seen(outcomes)]
      BY <3>1 DEF Reported, NewEvaluation
    <3>3. Promise!Sids(Enrolled(eligibility)) = Sids(eligibility)
          /\ Promise!Sids(Seen(outcomes)) = Sids(outcomes)
      BY DEF Promise!Sids, Sids, Enrolled, Seen
    <3> QED
      BY <2>2, <3>1, <3>2, <3>3 DEF Promise!Next, Promise!Report
  <2> QED
    BY <2>1, <2>2
<1> QED
  BY <1>2, <1>3, <1>4, <1>5, <1>6, <1>7, <1>8, <1>9 DEF Next, Commands

\* The commands, over files that are edited and frozen again at any moment, implement the
\* sealed trial: one threshold, no answer after an outcome, each session labelled
\* once, one report about all of them.
THEOREM TrialIsSealed == Spec => ImplementsSealedTrial
<1>1. Init => Promise!Init
  BY DEF Init, Promise!Init, Enrolled, Answered, Seen
<1>2. TypeOK /\ TypeOK' /\ SealInv /\ VerdictInv /\ [Next]_vars => [Promise!Next]_(Promise!vars)
  BY SealedStep
<1> QED
  BY <1>1, <1>2, Typing, Sealing, VerdictInvariance, PTL
     DEF Spec, ImplementsSealedTrial, Promise!Spec
=============================================================================
