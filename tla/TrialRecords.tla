---------------------------- MODULE TrialRecords ----------------------------
(***************************************************************************)
(* The receipts the calibration trial writes, and the validators every     *)
(* command runs over the files it reads (calibration_trial/trial.py).      *)
(*                                                                         *)
(* SHA-256 is modelled as injective: a hash of a document is the document. *)
(* A row of a hash chain names the session of the row before it: rows are  *)
(* never rewritten and their sessions differ, so the session identifies    *)
(* the row.  Timestamps are whole seconds (now_utc), hence naturals, and   *)
(* two of them may be equal.                                               *)
(***************************************************************************)
EXTENDS Integers, Sequences, FiniteSets

CONSTANTS Sessions,  \* session ids; their order is the order of the id strings
          Protocols, \* the byte contents protocol.yaml may have
          Cuts,      \* the thresholds a freeze may fit to the primary metric
          Metric,    \* Metric[s][r]: delta_hol of revision r of session file s
          Measured,  \* <<s, r>> whose delta_hol is available
          Contents,  \* <<corrected, closed>> a continuation file may show
          MaxRev,    \* bound: highest revision of a session or continuation file
          TestN,     \* sample.test_n, the fixed size of the prospective sample
          MaxLag,    \* split.max_prediction_lag_seconds
          MinClass   \* sample.minimum_test_per_class

ASSUME TrialConstants ==
    /\ Sessions \subseteq Nat \ {0}
    /\ MaxRev \in Nat
    /\ TestN \in Nat \ {0}
    /\ MaxLag \in Nat
    /\ MinClass \in Nat
    /\ Cuts \subseteq Int
    /\ Contents \subseteq BOOLEAN \X BOOLEAN
    /\ Metric \in [Sessions -> [0..MaxRev -> Int]]
    /\ Measured \subseteq Sessions \X (0..MaxRev)

Revs == 0..MaxRev

Genesis == 0   \* previous_*_hash of the first row

----------------------------------------------------------------------------
(* Documents.                                                              *)

FreezeDoc == [at: Nat, protocol: Protocols, cut: Cuts]

SessionFile == [handoff: Nat, rev: Revs]

EligibilityRow == [index: Nat \ {0}, sid: Sessions, handoff: Nat, rev: Revs,
                   at: Nat, freeze: FreezeDoc, prev: Sessions \cup {Genesis}]

\* rev: session_sha256, taken of the file again after the entry was compared with it.
PredictionRow == [entry: EligibilityRow, rev: Revs, at: Nat, freeze: FreezeDoc,
                  prev: Sessions \cup {Genesis}, value: {0, 1}]

UnlockDoc == [at: Nat, freeze: FreezeDoc, eligibility: Seq(EligibilityRow),
              predictions: Seq(PredictionRow)]

\* What a label depends on in a continuation: when it began, which revision of
\* the file was reviewed, whether a user correction lies inside the window, and
\* whether the window is complete or the continuation has ended.
ContinuationFile == [started: Nat, rev: Revs, corrected: BOOLEAN, closed: BOOLEAN]

OutcomeRow == [sid: Sessions, outcome: {0, 1}, continuation: ContinuationFile,
               at: Nat, unlock: UnlockDoc]

----------------------------------------------------------------------------
(* Validators.                                                             *)

\* (handoff, sid) of row a is below that of row b
KeyBefore(a, b) ==
    \/ a.handoff < b.handoff
    \/ a.handoff = b.handoff /\ a.sid < b.sid

\* A deviation: one second too many.
InWindowLate(handoff, t) == handoff <= t /\ t <= handoff + MaxLag + 1

InWindow(handoff, t) == handoff <= t /\ t <= handoff + MaxLag

\* freeze_sha256 and protocol_sha256 of a row
BindsFreeze(row, protocol, freeze) ==
    /\ row.freeze = freeze
    /\ row.freeze.protocol = protocol

\* handoff_at_utc and session_sha256 of a row
SameSession(row, file) ==
    /\ row.handoff = file.handoff
    /\ row.rev = file.rev

\* A deviation: the ledger is checked for itself and not against the freeze.
EligibilityRowUnbound(protocol, freeze, rows, i) ==
    LET row == rows[i] IN
    /\ row.index = i
    /\ \A j \in 1..i-1 : rows[j].sid # row.sid
    /\ InWindow(row.handoff, row.at)
    /\ i > 1 => KeyBefore(rows[i-1], row)
    /\ row.prev = IF i = 1 THEN Genesis ELSE rows[i-1].sid

EligibilityRowValid(protocol, freeze, rows, i) ==
    LET row == rows[i] IN
    /\ BindsFreeze(row, protocol, freeze)
    /\ row.index = i
    /\ \A j \in 1..i-1 : rows[j].sid # row.sid
    /\ freeze.at < row.handoff
    /\ InWindow(row.handoff, row.at)
    /\ i > 1 => KeyBefore(rows[i-1], row)
    /\ row.prev = IF i = 1 THEN Genesis ELSE rows[i-1].sid

EligibilityValid(protocol, freeze, rows) ==
    \A i \in DOMAIN rows : EligibilityRowValid(protocol, freeze, rows, i)

PredictionRowValid(protocol, freeze, eligibility, rows, i) ==
    LET row == rows[i] IN
    /\ BindsFreeze(row, protocol, freeze)
    /\ row.entry = eligibility[i]
    /\ row.rev = row.entry.rev
    /\ row.entry.at <= row.at
    /\ InWindow(row.entry.handoff, row.at)
    /\ row.prev = IF i = 1 THEN Genesis ELSE rows[i-1].entry.sid

PredictionsValid(protocol, freeze, eligibility, rows) ==
    /\ Len(rows) <= Len(eligibility)
    /\ \A i \in DOMAIN rows :
          PredictionRowValid(protocol, freeze, eligibility, rows, i)

\* The two validations every command that opens both files starts with.
ChainsValid(protocol, freeze, eligibility, predictions) ==
    /\ EligibilityValid(protocol, freeze, eligibility)
    /\ PredictionsValid(protocol, freeze, eligibility, predictions)

\* A deviation: whatever is registered is predicted, be it TestN or fewer.
AllRegisteredPredicted(eligibility, predictions) ==
    Len(eligibility) = Len(predictions)

\* The prospective sample is complete: TestN registered and TestN predicted.
SampleSealed(eligibility, predictions) ==
    /\ Len(eligibility) = TestN
    /\ Len(predictions) = TestN

SealedBy(predictions, t) == \A i \in DOMAIN predictions : predictions[i].at <= t

UnlockValid(protocol, freeze, eligibility, predictions, unlock) ==
    /\ ChainsValid(protocol, freeze, eligibility, predictions)
    /\ SampleSealed(eligibility, predictions)
    /\ unlock.freeze = freeze
    /\ unlock.eligibility = eligibility
    /\ unlock.predictions = predictions
    /\ SealedBy(predictions, unlock.at)

----------------------------------------------------------------------------
(* Refusals and rows of the commands, from the files as the command reads  *)
(* them and the second t at which it takes its timestamp.                  *)

\* A deviation: an off-by-one in the sample size.
RoomForOneMore(rows) == Len(rows) <= TestN

RoomLeft(rows) == Len(rows) < TestN

Registrable(protocol, freeze, rows, s, file, t) ==
    /\ freeze.protocol = protocol
    /\ EligibilityValid(protocol, freeze, rows)
    /\ RoomLeft(rows)
    /\ \A i \in DOMAIN rows : rows[i].sid # s
    /\ freeze.at < file.handoff
    /\ InWindow(file.handoff, t)
    /\ rows # <<>> => KeyBefore(rows[Len(rows)], [handoff |-> file.handoff, sid |-> s])

\* A deviation: rows are numbered from zero.
EligibilityRowFromZero(freeze, rows, s, file, t) ==
    [index |-> Len(rows), sid |-> s, handoff |-> file.handoff, rev |-> file.rev,
     at |-> t, freeze |-> freeze,
     prev |-> IF rows = <<>> THEN Genesis ELSE rows[Len(rows)].sid]

NewEligibilityRow(freeze, rows, s, file, t) ==
    [index |-> Len(rows) + 1, sid |-> s, handoff |-> file.handoff, rev |-> file.rev,
     at |-> t, freeze |-> freeze,
     prev |-> IF rows = <<>> THEN Genesis ELSE rows[Len(rows)].sid]

Scorable(protocol, freeze, eligibility, rows, s, file, t) ==
    LET next == Len(rows) + 1 IN
    /\ ChainsValid(protocol, freeze, eligibility, rows)
    /\ RoomLeft(rows)
    /\ next <= Len(eligibility)
    /\ eligibility[next].sid = s
    /\ SameSession(eligibility[next], file)
    /\ eligibility[next].at <= t
    /\ freeze.protocol = protocol
    /\ freeze.at < file.handoff
    /\ InWindow(file.handoff, t)

\* require_complete_primary
PrimaryComplete(s, file) == <<s, file.rev>> \in Measured

\* A deviation: the distance from the threshold is recorded, not the class.
Margin(s, rev, cut) == Metric[s][rev] - cut

\* _pred with direction "high"
Predict(s, rev, cut) == IF Metric[s][rev] >= cut THEN 1 ELSE 0

NewPredictionRow(freeze, eligibility, rows, s, file, t) ==
    [entry |-> eligibility[Len(rows) + 1], rev |-> file.rev, at |-> t, freeze |-> freeze,
     prev |-> IF rows = <<>> THEN Genesis ELSE rows[Len(rows)].entry.sid,
     value |-> Predict(s, file.rev, freeze.cut)]

Unlockable(protocol, freeze, eligibility, predictions, t) ==
    /\ ChainsValid(protocol, freeze, eligibility, predictions)
    /\ SampleSealed(eligibility, predictions)
    /\ SealedBy(predictions, t)

NewUnlockDoc(freeze, eligibility, predictions, t) ==
    [at |-> t, freeze |-> freeze, eligibility |-> eligibility,
     predictions |-> predictions]

\* An outcome as validate_outcome and validate_outcome_against_continuation admit it.
OutcomeSupported(outcome, cont) ==
    \/ outcome = 1 /\ cont.corrected
    \/ outcome = 0 /\ cont.closed

Labelable(protocol, freeze, eligibility, predictions, unlock, s, outcome, cont, t) ==
    /\ UnlockValid(protocol, freeze, eligibility, predictions, unlock)
    /\ \E i \in DOMAIN predictions :
          /\ predictions[i].entry.sid = s
          /\ predictions[i].at < cont.started
          /\ predictions[i].at < t
    /\ unlock.at <= t
    /\ cont.started <= t
    /\ OutcomeSupported(outcome, cont)

NewOutcomeRow(unlock, s, outcome, cont, t) ==
    [sid |-> s, outcome |-> outcome, continuation |-> cont, at |-> t,
     unlock |-> unlock]

Sids(rows) == {rows[i].sid : i \in DOMAIN rows}

\* A deviation: sessions that were saved and never registered are overlooked.
Covers(directory, eligibility) == Sids(eligibility) \subseteq DOMAIN directory

\* A directory is a function on the sessions with a file in it: no session of
\* the ledger is missing there and no other one is there.
Aligned(directory, eligibility) == DOMAIN directory = Sids(eligibility)

\* A deviation: two labels of one session are taken.
DuplicatesKept(outcomes, j) == TRUE

FirstOfItsSession(outcomes, j) ==
    \A k \in 1..j-1 : outcomes[k].sid # outcomes[j].sid

\* Row j of the label file, against the unlock receipt and the continuations.
OutcomeAccepted(outcomes, j, unlock, continuations) ==
    LET row == outcomes[j] IN
    /\ FirstOfItsSession(outcomes, j)
    /\ row.unlock = unlock
    /\ row.continuation = continuations[row.sid]
    /\ OutcomeSupported(row.outcome, row.continuation)
    /\ row.continuation.started <= row.at
    /\ unlock.at <= row.at

Evaluable(protocol, freeze, sessions, eligibility, continuations, predictions, unlock, outcomes) ==
    /\ UnlockValid(protocol, freeze, eligibility, predictions, unlock)
    /\ Aligned(sessions, eligibility)
    /\ \A i \in DOMAIN eligibility :
          SameSession(eligibility[i], sessions[eligibility[i].sid])
    /\ Aligned(continuations, eligibility)
    /\ Sids(outcomes) = Sids(eligibility)
    /\ \A j \in DOMAIN outcomes : OutcomeAccepted(outcomes, j, unlock, continuations)
    /\ \A i \in DOMAIN predictions :
          predictions[i].at < continuations[predictions[i].entry.sid].started

\* y.count(o) >= minimum_test_per_class for both classes
ClassFloorMet(outcomes) ==
    \A o \in {0, 1} :
        MinClass <= Cardinality({j \in DOMAIN outcomes : outcomes[j].outcome = o})

NewEvaluation(freeze, eligibility, predictions, unlock, outcomes) ==
    [freeze |-> freeze, eligibility |-> eligibility, predictions |-> predictions,
     unlock |-> unlock, outcomes |-> outcomes, eligible |-> ClassFloorMet(outcomes)]
=============================================================================
