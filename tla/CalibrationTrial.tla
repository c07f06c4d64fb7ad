-------------------------- MODULE CalibrationTrial --------------------------
(***************************************************************************)
(* The calibration trial as one operator drives it: each command of        *)
(* `python -m calibration_trial` runs alone, from its first read to its    *)
(* last write.  The state is the files the commands share and the clock;   *)
(* TrialCommands takes the same commands apart to interleave them.         *)
(***************************************************************************)
EXTENDS TrialRecords

CONSTANTS CalibrationEnd, \* latest calibration handoff; every calibration label
                          \* is made by the next second
          MaxTime,        \* bound: the clock stops here
          Absent          \* a file that does not exist

ASSUME TrialBounds == CalibrationEnd \in Nat /\ MaxTime \in Nat

VARIABLES now,           \* the machine's clock, in seconds
          protocol,      \* protocol.yaml
          freeze,        \* build/freeze.json
          session,       \* data/test/<s>.json
          eligibility,   \* build/eligibility.jsonl
          predictions,   \* build/predictions.jsonl
          unlock,        \* build/outcome-unlock.json
          continuation,  \* continuations/test/<s>.json
          outcomes,      \* labels/test.jsonl
          evaluation     \* build/evaluation.json

inputs == <<now, protocol, session, continuation>>
files == <<freeze, eligibility, predictions, unlock, outcomes, evaluation>>
vars == <<inputs, files>>

OrAbsent(S) == S \cup {Absent}

EvaluationDoc == [freeze: FreezeDoc, eligibility: Seq(EligibilityRow),
                  predictions: Seq(PredictionRow), unlock: UnlockDoc,
                  outcomes: Seq(OutcomeRow), eligible: BOOLEAN]

\* Type invariant.
TypeOK ==
    /\ now \in Nat
    /\ protocol \in Protocols
    /\ freeze \in OrAbsent(FreezeDoc)
    /\ session \in [Sessions -> OrAbsent(SessionFile)]
    /\ eligibility \in Seq(EligibilityRow)
    /\ predictions \in Seq(PredictionRow)
    /\ unlock \in OrAbsent(UnlockDoc)
    /\ continuation \in [Sessions -> OrAbsent(ContinuationFile)]
    /\ outcomes \in Seq(OutcomeRow)
    /\ evaluation \in OrAbsent(EvaluationDoc)

Init ==
    /\ now = 0
    /\ protocol \in Protocols
    /\ freeze = Absent
    /\ session = [s \in Sessions |-> Absent]
    /\ eligibility = <<>>
    /\ predictions = <<>>
    /\ unlock = Absent
    /\ continuation = [s \in Sessions |-> Absent]
    /\ outcomes = <<>>
    /\ evaluation = Absent

----------------------------------------------------------------------------
(* The world the commands read: clock, handoffs, continuations, edits.     *)

Tick ==
    /\ now < MaxTime
    /\ now' = now + 1
    /\ UNCHANGED <<protocol, session, continuation, files>>

\* Someone changes the bytes of protocol.yaml (or changes them back).
EditProtocol(p) ==
    /\ p # protocol
    /\ protocol' = p
    /\ UNCHANGED <<now, session, continuation, files>>

\* A handoff happens now and its pre-handoff transcript is saved.
Handoff(s) ==
    /\ session[s] = Absent
    /\ session' = [session EXCEPT ![s] = [handoff |-> now, rev |-> 0]]
    /\ UNCHANGED <<now, protocol, continuation, files>>

\* The bytes of a saved session file change (or change back).
EditSession(s, r) ==
    /\ session[s] # Absent
    /\ session[s].rev # r
    /\ session' = [session EXCEPT ![s].rev = r]
    /\ UNCHANGED <<now, protocol, continuation, files>>

\* The work handed off is continued from now on.
StartContinuation(s) ==
    /\ session[s] # Absent
    /\ continuation[s] = Absent
    /\ \E c \in Contents :
          continuation' = [continuation EXCEPT ![s] =
              [started |-> now, rev |-> 0, corrected |-> c[1], closed |-> c[2]]]
    /\ UNCHANGED <<now, protocol, session, files>>

\* The continuation goes on: its file is rewritten with more events.
GrowContinuation(s) ==
    /\ continuation[s] # Absent
    /\ continuation[s].rev < MaxRev
    /\ \E c \in Contents :
          /\ continuation[s].corrected => c[1]
          /\ continuation[s].closed => c[2]
          /\ continuation' = [continuation EXCEPT
                ![s].rev = @ + 1, ![s].corrected = c[1], ![s].closed = c[2]]
    /\ UNCHANGED <<now, protocol, session, files>>

World ==
    \/ Tick
    \/ \E p \in Protocols : EditProtocol(p)
    \/ \E s \in Sessions :
          Handoff(s) \/ StartContinuation(s) \/ GrowContinuation(s)
    \/ \E s \in Sessions, r \in Revs : EditSession(s, r)

----------------------------------------------------------------------------
(* The commands.                                                           *)

\* Writes whatever was there over: nothing keeps an earlier freeze.
Freeze(cut) ==
    /\ CalibrationEnd < now
    /\ freeze' = [at |-> now, protocol |-> protocol, cut |-> cut]
    /\ UNCHANGED <<inputs, eligibility, predictions, unlock, outcomes, evaluation>>

Register(s) ==
    /\ freeze # Absent
    /\ session[s] # Absent
    /\ Registrable(protocol, freeze, eligibility, s, session[s], now)
    /\ eligibility' =
          Append(eligibility, NewEligibilityRow(freeze, eligibility, s, session[s], now))
    /\ UNCHANGED <<inputs, freeze, predictions, unlock, outcomes, evaluation>>

Score(s) ==
    /\ freeze # Absent
    /\ session[s] # Absent
    /\ Scorable(protocol, freeze, eligibility, predictions, s, session[s], now)
    /\ PrimaryComplete(s, session[s])
    /\ predictions' =
          Append(predictions,
                 NewPredictionRow(freeze, eligibility, predictions, s, session[s], now))
    /\ UNCHANGED <<inputs, freeze, eligibility, unlock, outcomes, evaluation>>

UnlockOutcomes ==
    /\ unlock = Absent
    /\ freeze # Absent
    /\ Unlockable(protocol, freeze, eligibility, predictions, now)
    /\ unlock' = NewUnlockDoc(freeze, eligibility, predictions, now)
    /\ UNCHANGED <<inputs, freeze, eligibility, predictions, outcomes, evaluation>>

\* A deviation: labelling a session again replaces its row.
Relabel(s, outcome) ==
    /\ freeze # Absent /\ unlock # Absent /\ continuation[s] # Absent
    /\ Labelable(protocol, freeze, eligibility, predictions, unlock, s, outcome,
                 continuation[s], now)
    /\ outcomes' = Append(SelectSeq(outcomes, LAMBDA r : r.sid # s),
                         NewOutcomeRow(unlock, s, outcome, continuation[s], now))
    /\ UNCHANGED <<inputs, freeze, eligibility, predictions, unlock, evaluation>>

Label(s, outcome) ==
    /\ freeze # Absent
    /\ unlock # Absent
    /\ continuation[s] # Absent
    /\ Labelable(protocol, freeze, eligibility, predictions, unlock, s, outcome,
                 continuation[s], now)
    /\ s \notin Sids(outcomes)
    /\ outcomes' = Append(outcomes, NewOutcomeRow(unlock, s, outcome, continuation[s], now))
    /\ UNCHANGED <<inputs, freeze, eligibility, predictions, unlock, evaluation>>

Saved(f) == {s \in Sessions : f[s] # Absent}

\* The directories hold every session and continuation file saved so far.
\* The report is written over the one before it.
Evaluate ==
    /\ freeze # Absent
    /\ unlock # Absent
    /\ Evaluable(protocol, freeze, [s \in Saved(session) |-> session[s]], eligibility,
                 [s \in Saved(continuation) |-> continuation[s]], predictions, unlock,
                 outcomes)
    /\ evaluation' = NewEvaluation(freeze, eligibility, predictions, unlock, outcomes)
    /\ UNCHANGED <<inputs, freeze, eligibility, predictions, unlock, outcomes>>

Commands ==
    \/ \E cut \in Cuts : Freeze(cut)
    \/ \E s \in Sessions : Register(s) \/ Score(s)
    \/ UnlockOutcomes
    \/ \E s \in Sessions, outcome \in {0, 1} : Label(s, outcome)
    \/ Evaluate

Next == World \/ Commands

Spec == Init /\ [][Next]_vars

----------------------------------------------------------------------------
(* Properties.                                                             *)

\* What register and score append, the validators accept for ever after: both
\* chains stay valid under the freeze their first row binds, whatever happens
\* to freeze.json, the protocol and the session files meanwhile.
ChainsSelfValid ==
    /\ eligibility = <<>> => predictions = <<>>
    /\ eligibility # <<>> =>
          LET bound == eligibility[1].freeze IN
          ChainsValid(bound.protocol, bound, eligibility, predictions)

\* The label-data blackout: a prospective label exists only when the whole
\* sample is sealed, was made no earlier than the last prediction, and binds
\* the one unlock receipt, which binds exactly the predictions on file.
BlackoutHolds ==
    \A j \in DOMAIN outcomes :
        /\ Len(predictions) = TestN
        /\ SealedBy(predictions, outcomes[j].at)
        /\ outcomes[j].unlock = unlock
        /\ unlock.predictions = predictions
        /\ unlock.eligibility = eligibility

\* Every session behind the report e went freeze < handoff <= registration <=
\* prediction < continuation <= label within the lag, and no label came before any
\* prediction.
ReportOrdered(e) ==
    \A i \in 1..TestN : \E j \in DOMAIN e.outcomes :
        LET row == e.eligibility[i]
            pred == e.predictions[i]
            label == e.outcomes[j]
        IN  /\ label.sid = row.sid /\ pred.entry = row
            /\ e.freeze.at < row.handoff
            /\ row.handoff <= row.at /\ row.at <= pred.at
            /\ pred.at <= row.handoff + MaxLag
            /\ pred.at < label.continuation.started
            /\ label.continuation.started <= label.at
            /\ SealedBy(e.predictions, label.at)

\* Each prediction is the threshold of the freeze applied to the bytes that were
\* registered.
ReportComputed(e) ==
    \A i \in 1..TestN :
        e.predictions[i].value =
            Predict(e.eligibility[i].sid, e.eligibility[i].rev, e.freeze.cut)

\* A report is about sessions that went through the trial in order, and its predictions
\* are those of the frozen threshold (CLAIM_BOUNDARY.md: "time-bounded, ordered,
\* hash-chained, and bound to exact session bytes before scoring").
EvaluationSound ==
    evaluation # Absent => ReportOrdered(evaluation) /\ ReportComputed(evaluation)

\* The evaluated sample is the first TestN handoffs on file: an earlier handoff
\* that was saved but never registered makes evaluate refuse.
FirstHandoffsEvaluated ==
    evaluation # Absent =>
        \A s \in Saved(session) \ Sids(evaluation.eligibility) :
            \A i \in DOMAIN evaluation.eligibility :
                evaluation.eligibility[i].handoff < session[s].handoff

\* No extension once outcomes can be seen: after the unlock neither chain grows.
SampleFixed ==
    [][unlock # Absent => UNCHANGED <<eligibility, predictions>>]_vars

\* A registered handoff whose window closed without a prediction ends the trial:
\* it is never scored late and outcomes are never unlocked.
Missed ==
    \E i \in DOMAIN eligibility :
        i > Len(predictions) /\ eligibility[i].handoff + MaxLag < now

MissedWindowIsFinal == [][Missed => Missed' /\ unlock' = Absent]_vars

\* No threshold changes after the first registration: with any other freeze in
\* freeze.json no command adds to the trial.
ThresholdsFixed ==
    [][eligibility # <<>> /\ freeze # eligibility[1].freeze =>
          UNCHANGED <<eligibility, predictions, unlock, outcomes, evaluation>>]_vars

\* Evaluate may be run again and overwrites its report, but never to say
\* anything else than the first time (generated_at_utc, which is not part of the
\* model's report, apart).
VerdictIsFinal ==
    [][evaluation # Absent => UNCHANGED evaluation]_vars

\* CLAIM_BOUNDARY.md: "Scoring cannot ... occur after continuation start."
ScoredBeforeContinuation ==
    \A i \in DOMAIN predictions :
        LET c == continuation[predictions[i].entry.sid] IN
        c # Absent => predictions[i].at < c.started

----------------------------------------------------------------------------
(* What the files say of the trial, hashes and stamps apart.               *)

Enrolled(rows) ==
    [i \in DOMAIN rows |->
        [sid |-> rows[i].sid, rev |-> rows[i].rev, cut |-> rows[i].freeze.cut]]

Answered(rows) == [i \in DOMAIN rows |-> rows[i].value]

Seen(rows) == [j \in DOMAIN rows |-> [sid |-> rows[j].sid, outcome |-> rows[j].outcome]]

Reported(e) ==
    [sample |-> Enrolled(e.eligibility), answers |-> Answered(e.predictions),
     labels |-> Seen(e.outcomes)]

Promise ==
    INSTANCE SealedTrial WITH
        Pending <- Absent,
        sample <- Enrolled(eligibility),
        answers <- Answered(predictions),
        opened <- unlock # Absent,
        labels <- Seen(outcomes),
        verdict <- IF evaluation = Absent THEN Absent ELSE Reported(evaluation)

\* Whatever is edited, frozen again and run again between them, each command takes a
\* step of a sealed trial or none: one threshold, answers before outcomes, each session
\* labelled once, one report.
ImplementsSealedTrial == Promise!Spec
=============================================================================
