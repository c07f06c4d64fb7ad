---------------------------- MODULE TrialVerifier ----------------------------
(***************************************************************************)
(* The independent verifier of the calibration trial                       *)
(* (calibration_trial/independent_verify.py).  It shares no code with the  *)
(* commands: every rule of theirs is stated a second time, in another      *)
(* order and over other structures (a dictionary of the session directory, *)
(* a dictionary of labels), and every value a receipt reports is computed  *)
(* again from the files.  It only reads, so it adds no action: Verified is *)
(* what `verify` answers on the files as they are.                         *)
(*                                                                         *)
(* Directories are functions on the sessions that have a file there.  The  *)
(* calibration directories are taken to be those freeze.json was fitted    *)
(* to, so that refitting gives its cut.                                    *)
(***************************************************************************)
EXTENDS CalibrationTrial

\* Rows are compared with the session files, not only with each other.
VerifierEligibility(p, f, sessions, rows, i) ==
    LET row == rows[i] IN
    /\ row.sid \in DOMAIN sessions
    /\ row.sid \notin {rows[j].sid : j \in 1..i-1}
    /\ row.freeze = f /\ f.protocol = p
    /\ row.index = i
    /\ row.rev = sessions[row.sid].rev /\ row.handoff = sessions[row.sid].handoff
    /\ f.at < row.handoff /\ row.handoff <= row.at /\ row.at <= row.handoff + MaxLag
    /\ i > 1 => KeyBefore(rows[i-1], row)
    /\ row.prev = (IF i = 1 THEN Genesis ELSE rows[i-1].sid)

\* The whole row is built again from the session file and must be equal.
VerifierPrediction(p, f, sessions, elig, rows, i) ==
    LET entry == elig[i]
        row == rows[i]
        sid == entry.sid
    IN
    /\ sid \in DOMAIN sessions
    /\ f.protocol = p
    /\ entry.at <= row.at /\ sessions[sid].handoff <= row.at
    /\ row.at <= sessions[sid].handoff + MaxLag
    /\ row = [entry |-> [entry EXCEPT !.rev = sessions[sid].rev,
                                      !.handoff = sessions[sid].handoff],
              rev |-> sessions[sid].rev, at |-> row.at, freeze |-> f,
              prev |-> IF i = 1 THEN Genesis ELSE rows[i-1].entry.sid,
              value |-> Predict(sid, sessions[sid].rev, f.cut)]

VerifierUnlock(p, f, elig, preds, u) ==
    /\ f.protocol = p /\ u.freeze = f
    /\ Len(preds) = TestN /\ Len(elig) = TestN
    /\ u.eligibility = elig /\ u.predictions = preds
    /\ \A i \in DOMAIN preds : preds[i].at <= u.at

\* A deviation: the label's continuation hash is not compared with the file.
VerifierOutcomeUnbound(continuations, u, rows, j) ==
    LET row == rows[j] IN
    /\ row.sid \notin {rows[k].sid : k \in 1..j-1}
    /\ row.sid \in DOMAIN continuations
    /\ row.unlock = u
    /\ row.continuation.started <= row.at

\* load_outcomes: one label per session, for a continuation on file, bound to
\* the unlock receipt and to the bytes of the continuation.
VerifierOutcome(continuations, u, rows, j) ==
    LET row == rows[j] IN
    /\ row.sid \notin {rows[k].sid : k \in 1..j-1}
    /\ row.sid \in DOMAIN continuations
    /\ row.unlock = u
    /\ row.continuation = continuations[row.sid]
    /\ row.continuation.started <= row.at
    /\ IF row.outcome = 1 THEN row.continuation.corrected ELSE row.continuation.closed

\* verify, from the protocol to the comparison with the report on file
Verified(p, f, sessions, elig, continuations, preds, u, rows, report) ==
    LET ids == {elig[i].sid : i \in DOMAIN elig}
        predicted == {elig[i].sid : i \in DOMAIN preds}
        labelled == {rows[j].sid : j \in DOMAIN rows}
        count(o) == Cardinality({j \in DOMAIN rows : rows[j].outcome = o})
    IN
    /\ f.protocol = p
    /\ CalibrationEnd < f.at
    /\ \A i \in DOMAIN elig : VerifierEligibility(p, f, sessions, elig, i)
    /\ Len(elig) = TestN
    /\ DOMAIN sessions = ids
    /\ Len(preds) = Len(elig)
    /\ \A i \in DOMAIN elig :
          VerifierPrediction(p, f, sessions, elig, preds, i)
    /\ VerifierUnlock(p, f, elig, preds, u)
    /\ \A j \in DOMAIN rows : VerifierOutcome(continuations, u, rows, j)
    /\ predicted = labelled /\ predicted = DOMAIN continuations
    /\ predicted = DOMAIN sessions
    /\ \A i \in DOMAIN preds :
          preds[i].at < continuations[elig[i].sid].started
    /\ \A j \in DOMAIN rows : u.at <= rows[j].at
    /\ report = [freeze |-> f, eligibility |-> elig, predictions |-> preds,
                 unlock |-> u, outcomes |-> rows,
                 eligible |-> count(0) >= MinClass /\ count(1) >= MinClass]

\* On the files as they are: PASS.
VerifierPasses ==
    /\ freeze # Absent /\ unlock # Absent
    /\ Verified(protocol, freeze, [s \in Saved(session) |-> session[s]], eligibility,
                [s \in Saved(continuation) |-> continuation[s]], predictions, unlock,
                outcomes, evaluation)

\* What evaluate would report if it were run again now is what the report says.
EvaluateAgrees ==
    /\ freeze # Absent /\ unlock # Absent
    /\ Evaluable(protocol, freeze, [s \in Saved(session) |-> session[s]], eligibility,
                 [s \in Saved(continuation) |-> continuation[s]], predictions, unlock,
                 outcomes)
    /\ evaluation = NewEvaluation(freeze, eligibility, predictions, unlock, outcomes)

\* The two implementations never drift apart: once there is a report, whatever
\* is edited, saved or frozen again afterwards, the independent verifier passes
\* exactly when evaluate would repeat that report.
VerifierAgrees == evaluation # Absent => (VerifierPasses <=> EvaluateAgrees)
=============================================================================
