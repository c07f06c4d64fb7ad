--------------------------- MODULE TrialCommands ----------------------------
(***************************************************************************)
(* The trial's commands as operating-system processes that share one       *)
(* directory.  Nothing locks it.  A command reads its files, validates     *)
(* them, takes its timestamp and prepares what it will write (one step,    *)
(* but for the session file), and only then writes.  The session file is   *)
(* read more than once: score loads it before the ledgers, and register    *)
(* and score hash it once more for the row they write.                     *)
(* append_jsonl_no_overwrite looks for the session id once more before it  *)
(* appends; write_json truncates the file before it fills it.  A process   *)
(* may die between any two steps.                                          *)
(***************************************************************************)
EXTENDS CalibrationTrial

CONSTANTS Procs, \* the processes that may run commands
          Torn   \* a file truncated and not yet written: invalid JSON

VARIABLE running \* running[p]: the write process p still has to do

runVars == <<vars, running>>

Idle == [step |-> "idle"]

\* What is left of a command after its reads.
Pending(step, file, doc) == [step |-> step, file |-> file, doc |-> doc]

Present(file) == file \notin {Absent, Torn}

RunInit == Init /\ running = [p \in Procs |-> Idle]

Prepare(p, step, file, doc) ==
    /\ running[p] = Idle
    /\ running' = [running EXCEPT ![p] = Pending(step, file, doc)]
    /\ UNCHANGED vars

----------------------------------------------------------------------------
(* First halves: read, validate, stamp.                                    *)

BeginFreeze(p, cut) ==
    /\ CalibrationEnd < now
    /\ Prepare(p, "truncate", "freeze", [at |-> now, protocol |-> protocol, cut |-> cut])

BeginRegister(p, s) ==
    /\ Present(freeze)
    /\ session[s] # Absent
    /\ Registrable(protocol, freeze, eligibility, s, session[s], now)
    /\ Prepare(p, "hash", "eligibility",
               NewEligibilityRow(freeze, eligibility, s, session[s], now))

\* score loads the session; what it loaded is what it will measure.
LoadSession(p, s) ==
    /\ session[s] # Absent
    /\ Prepare(p, "loaded", "session", [sid |-> s, file |-> session[s]])

\* The ledgers are read, and the hash in the entry is compared with that of the file as
\* it is now; the row is computed from what was loaded.
BeginScore(p) ==
    LET s == running[p].doc.sid
        loaded == running[p].doc.file
    IN
    /\ running[p].step = "loaded"
    /\ Present(freeze)
    /\ Scorable(protocol, freeze, eligibility, predictions, s, session[s], now)
    /\ PrimaryComplete(s, loaded)
    /\ running' = [running EXCEPT ![p] =
          Pending("hash", "predictions",
                  NewPredictionRow(freeze, eligibility, predictions, s, loaded, now))]
    /\ UNCHANGED vars

\* out.exists() is asked here; the file is written two steps later.
BeginUnlock(p) ==
    /\ unlock = Absent
    /\ Present(freeze)
    /\ Unlockable(protocol, freeze, eligibility, predictions, now)
    /\ Prepare(p, "truncate", "unlock", NewUnlockDoc(freeze, eligibility, predictions, now))

BeginLabel(p, s, outcome) ==
    /\ Present(freeze)
    /\ Present(unlock)
    /\ continuation[s] # Absent
    /\ Labelable(protocol, freeze, eligibility, predictions, unlock, s, outcome,
                 continuation[s], now)
    /\ Prepare(p, "recheck", "outcomes",
               NewOutcomeRow(unlock, s, outcome, continuation[s], now))

BeginEvaluate(p) ==
    /\ Present(freeze)
    /\ Present(unlock)
    /\ Evaluable(protocol, freeze, [s \in Saved(session) |-> session[s]], eligibility,
                 [s \in Saved(continuation) |-> continuation[s]], predictions, unlock,
                 outcomes)
    /\ Prepare(p, "truncate", "evaluation",
               NewEvaluation(freeze, eligibility, predictions, unlock, outcomes))

----------------------------------------------------------------------------
(* Second halves: write.                                                   *)

\* The file named f holds v after the step, the others what they held.
Store(f, v) ==
    /\ freeze' = IF f = "freeze" THEN v ELSE freeze
    /\ eligibility' = IF f = "eligibility" THEN v ELSE eligibility
    /\ predictions' = IF f = "predictions" THEN v ELSE predictions
    /\ unlock' = IF f = "unlock" THEN v ELSE unlock
    /\ outcomes' = IF f = "outcomes" THEN v ELSE outcomes
    /\ evaluation' = IF f = "evaluation" THEN v ELSE evaluation
    /\ UNCHANGED inputs

\* The session ids of the rows now in an append-only file.
Listed(f) == CASE f = "eligibility" -> Sids(eligibility)
               [] f = "predictions" -> {predictions[i].entry.sid : i \in DOMAIN predictions}
               [] f = "outcomes" -> Sids(outcomes)

RowSid(f, row) == IF f = "predictions" THEN row.entry.sid ELSE row.sid

\* session_sha256 of the row is the hash of the file as it is now.
Hash(p) ==
    LET r == running[p]
        s == RowSid(r.file, r.doc)
    IN
    /\ r.step = "hash"
    /\ session[s] # Absent
    /\ running' = [running EXCEPT ![p] =
          Pending("recheck", r.file, [r.doc EXCEPT !.rev = session[s].rev])]
    /\ UNCHANGED vars

\* append_jsonl_no_overwrite: refuse a session that is listed by now.
Recheck(p) ==
    LET r == running[p] IN
    /\ r.step = "recheck"
    /\ running' = [running EXCEPT ![p] =
          IF RowSid(r.file, r.doc) \in Listed(r.file)
          THEN Idle ELSE Pending("append", r.file, r.doc)]
    /\ UNCHANGED vars

\* A deviation: an eligibility row is numbered when it is appended.
AppendNumbered(p) ==
    LET r == running[p] IN
    /\ r.step = "append"
    /\ Store(r.file, CASE r.file = "eligibility" ->
                             Append(eligibility, [r.doc EXCEPT !.index = Len(eligibility) + 1])
                       [] r.file = "predictions" -> Append(predictions, r.doc)
                       [] r.file = "outcomes" -> Append(outcomes, r.doc))
    /\ running' = [running EXCEPT ![p] = Idle]

AppendRow(p) ==
    LET r == running[p] IN
    /\ r.step = "append"
    /\ Store(r.file, CASE r.file = "eligibility" -> Append(eligibility, r.doc)
                       [] r.file = "predictions" -> Append(predictions, r.doc)
                       [] r.file = "outcomes" -> Append(outcomes, r.doc))
    /\ running' = [running EXCEPT ![p] = Idle]

Truncate(p) ==
    LET r == running[p] IN
    /\ r.step = "truncate"
    /\ Store(r.file, Torn)
    /\ running' = [running EXCEPT ![p] = Pending("fill", r.file, r.doc)]

\* A deviation: the freeze is read again when the report is written.
FillLate(p) ==
    LET r == running[p] IN
    /\ r.step = "fill"
    /\ Store(r.file, IF r.file = "evaluation" /\ Present(freeze)
                     THEN [r.doc EXCEPT !.freeze = freeze] ELSE r.doc)
    /\ running' = [running EXCEPT ![p] = Idle]

Fill(p) ==
    LET r == running[p] IN
    /\ r.step = "fill"
    /\ Store(r.file, r.doc)
    /\ running' = [running EXCEPT ![p] = Idle]

Crash(p) ==
    /\ running[p] # Idle
    /\ running' = [running EXCEPT ![p] = Idle]
    /\ UNCHANGED vars

Process(p) ==
    \/ \E cut \in Cuts : BeginFreeze(p, cut)
    \/ \E s \in Sessions : BeginRegister(p, s) \/ LoadSession(p, s)
    \/ BeginScore(p)
    \/ BeginUnlock(p)
    \/ \E s \in Sessions, outcome \in {0, 1} : BeginLabel(p, s, outcome)
    \/ BeginEvaluate(p)
    \/ Hash(p) \/ Recheck(p) \/ AppendRow(p) \/ Truncate(p) \/ Fill(p) \/ Crash(p)

RunNext ==
    \/ World /\ UNCHANGED running
    \/ \E p \in Procs : Process(p)

RunSpec == RunInit /\ [][RunNext]_runVars

----------------------------------------------------------------------------
(* Properties.                                                             *)

\* The blackout survives races and crashes: every label on file binds an unlock
\* receipt over TestN predictions that are still the first ones on file, and no
\* prediction on file, raced ones included, was stamped after the label.
LabelsFollowSealing ==
    \A j \in DOMAIN outcomes :
        LET sealed == outcomes[j].unlock.predictions IN
        /\ Len(sealed) = TestN
        /\ Len(sealed) <= Len(predictions)
        /\ \A i \in 1..TestN : predictions[i] = sealed[i]
        /\ SealedBy(predictions, outcomes[j].at)

\* No row took the number of another.
Numbered ==
    /\ \A i \in DOMAIN eligibility : eligibility[i].index = i
    /\ \A i \in DOMAIN predictions : predictions[i].entry.index = i

\* No session file was edited between the two times score hashed it.
HashedAlike == \A i \in DOMAIN predictions : predictions[i].rev = predictions[i].entry.rev

\* Commands that raced for an append-only file cannot go unseen: if the rows are
\* numbered in the order they lie on file and bear the hash they were registered with,
\* each was made from exactly the rows before it, and both chains are what commands run
\* one after the other would have written.
RacesShow == Numbered /\ HashedAlike => ChainsSelfValid

\* A report is written from one consistent reading even when other commands append,
\* overwrite or die between evaluate's reads and its write, and session files are edited
\* under the commands that predict from them.
RacedReportSound == Present(evaluation) => ReportOrdered(evaluation)

\* All reports that are on file or about to be written say the same, so it does
\* not matter which of several evaluate processes writes last (but for the
\* generated_at_utc stamp, which the model's report leaves out).
Reports ==
    {running[p].doc : p \in {q \in Procs : running[q] # Idle
                                       /\ running[q].file = "evaluation"}}
        \cup ({evaluation} \ {Absent, Torn})

ReportsAgree == \A a, b \in Reports : a = b

\* DATA_FORMAT.md: "The unlock file is write-once through the CLI."
UnlockWriteOnce == [][Present(unlock) => UNCHANGED unlock]_runVars
=============================================================================
