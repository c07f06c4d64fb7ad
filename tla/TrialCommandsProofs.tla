------------------------- MODULE TrialCommandsProofs -------------------------
(***************************************************************************)
(* Proofs about TrialCommands for any number of processes, every sample    *)
(* size and lag, and every order in which they read, write and die.        *)
(***************************************************************************)
EXTENDS TrialCommands, CalibrationTrialProofs

----------------------------------------------------------------------------
(* The invariant.                                                          *)

\* Append-only files: b begins with a.
Begins(a, b) == Len(a) <= Len(b) /\ \A i \in 1..Len(a) : b[i] = a[i]

Rows(s) == {s[i] : i \in DOMAIN s}

\* What processes are about to write to file f.
PendingIn(work, f) ==
    {work[p].doc : p \in {q \in Procs : work[q] # Idle /\ work[q].file = f}}

\* Whatever was stamped and may still be on file or get there.
PredictionsMade == Rows(predictions) \cup PendingIn(running, "predictions")
LabelsMade == Rows(outcomes) \cup PendingIn(running, "outcomes")
ReportsMade == PendingIn(running, "evaluation") \cup ({evaluation} \ {Absent, Torn})

\* score has loaded a session.
Loaded(r) ==
    /\ r.step = "loaded" /\ r.file = "session"
    /\ r.doc.sid \in Sessions /\ r.doc.file \in SessionFile

\* A row is ready but for its session_sha256.
Hashing(r) ==
    /\ r.step = "hash"
    /\ \/ r.file = "eligibility" /\ r.doc \in EligibilityRow
       \/ r.file = "predictions" /\ r.doc \in PredictionRow

Appending(r) ==
    /\ r.step \in {"recheck", "append"}
    /\ \/ r.file = "eligibility" /\ r.doc \in EligibilityRow
       \/ r.file = "predictions" /\ r.doc \in PredictionRow
       \/ r.file = "outcomes" /\ r.doc \in OutcomeRow

Replacing(r) ==
    /\ r.step \in {"truncate", "fill"}
    /\ \/ r.file = "freeze" /\ r.doc \in FreezeDoc
       \/ r.file = "unlock" /\ r.doc \in UnlockDoc
       \/ r.file = "evaluation"

Working(r) == r = Idle \/ Loaded(r) \/ Hashing(r) \/ Appending(r) \/ Replacing(r)

\* Types, files that may be torn included.
RunTypes ==
    /\ InputsOK
    /\ freeze \in FreezeDoc \cup {Absent, Torn}
    /\ unlock \in UnlockDoc \cup {Absent, Torn}
    /\ eligibility \in Seq(EligibilityRow)
    /\ predictions \in Seq(PredictionRow)
    /\ outcomes \in Seq(OutcomeRow)
    /\ DOMAIN running = Procs /\ running = [p \in Procs |-> running[p]]
    /\ \A p \in Procs : Working(running[p])

\* No prediction is stamped in the future.
PredictionsInv == \A d \in PredictionsMade : d.at <= now

\* A label came after TestN predictions, which stay the first on file, and after
\* whatever other prediction a process may still append.
Sealed(l) ==
    /\ Len(l.unlock.predictions) = TestN
    /\ Begins(l.unlock.predictions, predictions)
LabelsInv ==
    \A l \in LabelsMade : Sealed(l) /\ \A d \in PredictionsMade : d.at <= l.at

\* A report is about complete files, and the files still begin with what it read.
Complete(e) ==
    /\ e = NewEvaluation(e.freeze, e.eligibility, e.predictions, e.unlock, e.outcomes)
    /\ e.eligibility \in Seq(EligibilityRow) /\ Len(e.eligibility) = TestN
    /\ e.predictions \in Seq(PredictionRow) /\ Len(e.predictions) = TestN
    /\ e.outcomes \in Seq(OutcomeRow) /\ e.outcomes # <<>>
    /\ e.freeze = e.eligibility[1].freeze
    /\ e.unlock = e.outcomes[1].unlock
    /\ Sids(e.outcomes) = Sids(e.eligibility)
    /\ \A j \in DOMAIN e.outcomes : FirstOfItsSession(e.outcomes, j)

Current(e) ==
    /\ Begins(e.eligibility, eligibility)
    /\ Begins(e.predictions, predictions)
    /\ Begins(e.outcomes, outcomes)

ReportsInv == \A e \in ReportsMade : ReportOrdered(e) /\ Complete(e) /\ Current(e)

RunInv == RunTypes /\ PredictionsInv /\ LabelsInv /\ ReportsInv

----------------------------------------------------------------------------
(* What a step leaves as it was.                                           *)

LEMMA BeginsTransitive ==
    ASSUME NEW S, NEW a, NEW b \in Seq(S), NEW c \in Seq(S), Len(a) \in Nat,
           Begins(a, b), Begins(b, c)
    PROVE  Begins(a, c)
BY DEF Begins

LEMMA BeginsItself == ASSUME NEW S, NEW a \in Seq(S) PROVE Begins(a, a)
BY DEF Begins

LEMMA AppendBegins ==
    ASSUME NEW S, NEW a \in Seq(S), NEW d \in S
    PROVE  /\ Append(a, d) \in Seq(S) /\ Begins(a, Append(a, d))
           /\ Rows(Append(a, d)) \subseteq Rows(a) \cup {d}
BY DEF Begins, Rows

LEMMA MadeTyped ==
    ASSUME RunTypes
    PROVE  PredictionsMade \subseteq PredictionRow /\ LabelsMade \subseteq OutcomeRow
<1>1. PendingIn(running, "predictions") \subseteq PredictionRow
  BY DEF RunTypes, PendingIn, Working, Loaded, Hashing, Appending, Replacing
<1>2. PendingIn(running, "outcomes") \subseteq OutcomeRow
  BY DEF RunTypes, PendingIn, Working, Loaded, Hashing, Appending, Replacing
<1>3. Rows(predictions) \subseteq PredictionRow /\ Rows(outcomes) \subseteq OutcomeRow
  BY DEF RunTypes, Rows
<1> QED
  BY <1>1, <1>2, <1>3 DEF PredictionsMade, LabelsMade

LEMMA StampTyped ==
    ASSUME RunTypes
    PROVE  /\ now \in Nat /\ \A d \in PredictionsMade : d.at \in Nat
           /\ \A l \in LabelsMade : l.at \in Nat /\ Len(l.unlock.predictions) \in Nat
<1>1. \A d \in PredictionRow : d.at \in Nat
  BY DEF PredictionRow
<1>2. \A l \in OutcomeRow : l.at \in Nat /\ l.unlock.predictions \in Seq(PredictionRow)
  BY DEF OutcomeRow, UnlockDoc
<1> QED
  BY <1>1, <1>2, MadeTyped DEF RunTypes, InputsOK

\* No prediction is new.
LEMMA PredictionsCarry ==
    ASSUME RunTypes, RunTypes', PredictionsInv, now <= now',
           PredictionsMade' \subseteq PredictionsMade
    PROVE  PredictionsInv'
<1>1. \A d \in PredictionsMade : d.at \in Nat /\ d.at <= now
  BY StampTyped DEF PredictionsInv
<1>2. now \in Nat /\ now' \in Nat
  BY DEF RunTypes, InputsOK
<1>3. \A d \in PredictionsMade' : d.at <= now'
  BY <1>1, <1>2
<1> QED
  BY <1>3 DEF PredictionsInv

\* Neither prediction nor label is new.
LEMMA LabelsCarry ==
    ASSUME RunTypes, RunTypes', LabelsInv, Begins(predictions, predictions'),
           PredictionsMade' \subseteq PredictionsMade, LabelsMade' \subseteq LabelsMade
    PROVE  LabelsInv'
<1>1. ASSUME NEW l \in LabelsMade'
      PROVE  /\ Len(l.unlock.predictions) = TestN
             /\ Begins(l.unlock.predictions, predictions')
             /\ \A d \in PredictionsMade' : d.at <= l.at
  <2>1. /\ Len(l.unlock.predictions) = TestN /\ Len(l.unlock.predictions) \in Nat
        /\ Begins(l.unlock.predictions, predictions)
        /\ \A d \in PredictionsMade : d.at <= l.at
    BY StampTyped DEF LabelsInv, Sealed
  <2>2. Begins(l.unlock.predictions, predictions')
    BY <2>1, BeginsTransitive DEF RunTypes
  <2> QED
    BY <2>1, <2>2
<1> QED
  BY <1>1 DEF LabelsInv, Sealed

\* No report is new.
LEMMA ReportsCarry ==
    ASSUME RunTypes, RunTypes', ReportsInv, Begins(eligibility, eligibility'),
           Begins(predictions, predictions'), Begins(outcomes, outcomes'),
           ReportsMade' \subseteq ReportsMade
    PROVE  ReportsInv'
<1>1. ASSUME NEW e \in ReportsMade'
      PROVE  /\ ReportOrdered(e) /\ Complete(e)
             /\ Begins(e.eligibility, eligibility') /\ Begins(e.predictions, predictions')
             /\ Begins(e.outcomes, outcomes')
  <2>1. ReportOrdered(e) /\ Complete(e) /\ Current(e)
    BY DEF ReportsInv
  <2>2. /\ Len(e.eligibility) \in Nat /\ Len(e.predictions) \in Nat /\ Len(e.outcomes) \in Nat
    BY <2>1 DEF Complete
  <2> QED
    BY <2>1, <2>2, BeginsTransitive DEF Current, RunTypes
<1> QED
  BY <1>1 DEF ReportsInv, Current
\* One process's work changes; the rest of the work stays.
LEMMA WorkAfter ==
    ASSUME DOMAIN running = Procs, NEW p \in Procs, NEW r,
           running' = [running EXCEPT ![p] = r]
    PROVE  /\ DOMAIN running' = Procs /\ running' = [q \in Procs |-> running'[q]]
           /\ running'[p] = r /\ \A q \in Procs : q # p => running'[q] = running[q]
           /\ \A f, d : d \in PendingIn(running', f) =>
                 d \in PendingIn(running, f) \/ (r # Idle /\ r.file = f /\ d = r.doc)
<1>1. /\ DOMAIN running' = Procs /\ running'[p] = r
      /\ \A q \in Procs : q # p => running'[q] = running[q]
  OBVIOUS
<1>2. running' = [q \in Procs |-> running'[q]]
  OBVIOUS
<1>3. ASSUME NEW f, NEW d \in PendingIn(running', f)
      PROVE  d \in PendingIn(running, f) \/ (r # Idle /\ r.file = f /\ d = r.doc)
  <2>1. PICK q \in Procs : running'[q] # Idle /\ running'[q].file = f /\ d = running'[q].doc
    BY DEF PendingIn
  <2>2. CASE q = p
    BY <1>1, <2>1, <2>2
  <2>3. CASE q # p
    BY <1>1, <2>1, <2>3 DEF PendingIn
  <2> QED
    BY <2>2, <2>3
<1> QED
  BY <1>1, <1>2, <1>3

LEMMA RunInitInv == RunInit => RunInv
<1> SUFFICES ASSUME RunInit PROVE RunInv
  OBVIOUS
<1>1. \A f : PendingIn(running, f) = {}
  BY DEF RunInit, PendingIn
<1>2. TypeOK
  BY InitTyped DEF RunInit
<1>3. RunTypes
  BY <1>2 DEF RunInit, Init, TypeOK, RunTypes, Working, InputsOK
<1>4. PredictionsMade = {} /\ LabelsMade = {} /\ ReportsMade = {}
  BY <1>1 DEF PredictionsMade, LabelsMade, ReportsMade, Rows, RunInit, Init
<1> QED
  BY <1>3, <1>4 DEF RunInv, PredictionsInv, LabelsInv, ReportsInv

\* A step of the world.
LEMMA WorldInv ==
    ASSUME RunInv, World, UNCHANGED running
    PROVE  RunInv'
<1>1. UNCHANGED files /\ InputsOK'
  BY WorldInputs, WorldKeepsFiles DEF RunInv, RunTypes
<1>2. now <= now'
  <2>1. now \in Nat
    BY DEF RunInv, RunTypes, InputsOK
  <2>2. now' = now \/ now' = now + 1
    BY DEF World, Tick, EditProtocol, Handoff, EditSession, StartContinuation,
           GrowContinuation
  <2> QED
    BY <2>1, <2>2
<1>3. RunTypes'
  BY <1>1 DEF RunInv, RunTypes, files
<1>4. /\ PredictionsMade' = PredictionsMade /\ LabelsMade' = LabelsMade
      /\ ReportsMade' = ReportsMade
  BY <1>1 DEF PredictionsMade, LabelsMade, ReportsMade, files
<1>5. /\ Begins(eligibility, eligibility') /\ Begins(predictions, predictions')
      /\ Begins(outcomes, outcomes')
  BY <1>1, BeginsItself DEF RunInv, RunTypes, files
<1>6. PredictionsInv'
  BY <1>2, <1>3, <1>4, PredictionsCarry DEF RunInv
<1>7. LabelsInv'
  BY <1>3, <1>4, <1>5, LabelsCarry DEF RunInv
<1>8. ReportsInv'
  BY <1>3, <1>4, <1>5, ReportsCarry DEF RunInv
<1> QED
  BY <1>3, <1>6, <1>7, <1>8 DEF RunInv

\* A process writes, or goes on to its next step; it has nothing new to say.
LEMMA WorkInv ==
    ASSUME RunInv, RunTypes', now' = now,
           Begins(eligibility, eligibility'), Begins(predictions, predictions'),
           Begins(outcomes, outcomes'),
           PredictionsMade' \subseteq PredictionsMade, LabelsMade' \subseteq LabelsMade,
           ReportsMade' \subseteq ReportsMade
    PROVE  RunInv'
<1>1. now <= now'
  BY DEF RunInv, RunTypes, InputsOK
<1>2. PredictionsInv'
  BY <1>1, PredictionsCarry DEF RunInv
<1>3. LabelsInv'
  BY LabelsCarry DEF RunInv
<1>4. ReportsInv'
  BY ReportsCarry DEF RunInv
<1> QED
  BY <1>2, <1>3, <1>4 DEF RunInv
----------------------------------------------------------------------------
(* Writing.                                                                *)

LEMMA StepsKept ==
    ASSUME RunInv, NEW p \in Procs, NEW r, running' = [running EXCEPT ![p] = r],
           r # Idle => r.file = running[p].file /\ r.doc = running[p].doc /\ running[p] # Idle
    PROVE  \A f : PendingIn(running', f) \subseteq PendingIn(running, f)
<1>1. DOMAIN running = Procs
  BY DEF RunInv, RunTypes
<1>2. /\ DOMAIN running' = Procs /\ running'[p] = r
      /\ \A q \in Procs : q # p => running'[q] = running[q]
  BY <1>1
<1>3. ASSUME NEW f, NEW d \in PendingIn(running', f) PROVE d \in PendingIn(running, f)
  <2>1. PICK q \in Procs : running'[q] # Idle /\ running'[q].file = f /\ d = running'[q].doc
    BY DEF PendingIn
  <2>2. running[q] # Idle /\ running[q].file = f /\ d = running[q].doc
    BY <1>2, <2>1
  <2> QED
    BY <2>2 DEF PendingIn
<1> QED
  BY <1>3

\* Looked again, or died.
LEMMA GoneOn ==
    ASSUME RunInv, NEW p \in Procs, NEW r, running' = [running EXCEPT ![p] = r],
           UNCHANGED vars, r = Idle \/ Appending(r),
           r # Idle => r.file = running[p].file /\ r.doc = running[p].doc /\ running[p] # Idle
    PROVE  RunInv'
<1>1. \A f : PendingIn(running', f) \subseteq PendingIn(running, f)
  BY StepsKept
<1>2. UNCHANGED <<freeze, eligibility, predictions, unlock, outcomes, evaluation>>
      /\ UNCHANGED <<now, protocol, session, continuation>>
  BY DEF vars, inputs, files
<1>3. /\ DOMAIN running' = Procs /\ running' = [q \in Procs |-> running'[q]]
      /\ running'[p] = r /\ \A q \in Procs : q # p => running'[q] = running[q]
  BY WorkAfter DEF RunInv, RunTypes
<1>4. \A q \in Procs : Working(running'[q])
  BY <1>3 DEF RunInv, RunTypes, Working
<1>5. RunTypes'
  <2>1. InputsOK'
    BY <1>2 DEF RunInv, RunTypes, InputsOK
  <2> QED
    BY <1>2, <1>3, <1>4, <2>1 DEF RunInv, RunTypes, Working, Loaded, Hashing, Appending, Replacing
<1>6. /\ PredictionsMade' \subseteq PredictionsMade /\ LabelsMade' \subseteq LabelsMade
      /\ ReportsMade' \subseteq ReportsMade
  BY <1>1, <1>2 DEF PredictionsMade, LabelsMade, ReportsMade
<1>7. /\ Begins(eligibility, eligibility') /\ Begins(predictions, predictions')
      /\ Begins(outcomes, outcomes')
  BY <1>2, BeginsItself DEF RunInv, RunTypes
<1> QED
  BY <1>2, <1>5, <1>6, <1>7, WorkInv

LEMMA RecheckInv == ASSUME RunInv, NEW p \in Procs, Recheck(p) PROVE RunInv'
<1> DEFINE w == running[p]
           r == IF RowSid(w.file, w.doc) \in Listed(w.file)
                THEN Idle ELSE Pending("append", w.file, w.doc)
<1>1. w.step = "recheck" /\ running' = [running EXCEPT ![p] = r] /\ UNCHANGED vars
  BY DEF Recheck
<1>2. w # Idle /\ Appending(w)
  <2>1. Working(w)
    BY DEF RunInv, RunTypes
  <2> QED
    BY <1>1, <2>1 DEF Idle, Working, Loaded, Hashing, Replacing
<1>3. r = Idle \/ Appending(r)
  BY <1>2 DEF Appending, Pending
<1>4. r # Idle => r.file = w.file /\ r.doc = w.doc
  BY DEF Pending
<1> HIDE DEF r
<1> QED
  BY <1>1, <1>2, <1>3, <1>4, GoneOn

LEMMA CrashInv == ASSUME RunInv, NEW p \in Procs, Crash(p) PROVE RunInv'
<1>1. running' = [running EXCEPT ![p] = Idle] /\ UNCHANGED vars
  BY DEF Crash
<1> QED
  BY <1>1, GoneOn

\* A row is appended.
LEMMA AppendInv == ASSUME RunInv, NEW p \in Procs, AppendRow(p) PROVE RunInv'
<1> DEFINE w == running[p]
           d == w.doc
<1>1. /\ w.step = "append" /\ running' = [running EXCEPT ![p] = Idle]
      /\ UNCHANGED <<now, protocol, session, continuation>>
  BY DEF AppendRow, Store, inputs
<1>2. w # Idle /\ Appending(w)
  <2>1. Working(w)
    BY DEF RunInv, RunTypes
  <2> QED
    BY <1>1, <2>1 DEF Idle, Working, Loaded, Hashing, Replacing
<1>3. d \in PendingIn(running, w.file)
  BY <1>2 DEF PendingIn
<1>4. \A f : PendingIn(running', f) \subseteq PendingIn(running, f)
  BY <1>1, StepsKept
<1>5. /\ DOMAIN running' = Procs /\ running' = [q \in Procs |-> running'[q]]
      /\ \A q \in Procs : running'[q] = Idle \/ running'[q] = running[q]
  BY <1>1, WorkAfter DEF RunInv, RunTypes
<1>6. \A q \in Procs : Working(running'[q])
  BY <1>5 DEF RunInv, RunTypes, Working
<1>7. InputsOK'
  BY <1>1 DEF RunInv, RunTypes, InputsOK
<1>8. CASE w.file = "eligibility"
  <2>1. /\ eligibility' = Append(eligibility, d) /\ d \in EligibilityRow
        /\ UNCHANGED <<freeze, predictions, unlock, outcomes, evaluation>>
    BY <1>2, <1>8 DEF AppendRow, Store, Appending
  <2>2. eligibility' \in Seq(EligibilityRow) /\ Begins(eligibility, eligibility')
    BY <2>1, AppendBegins DEF RunInv, RunTypes
  <2>3. Begins(predictions, predictions') /\ Begins(outcomes, outcomes')
    BY <2>1, BeginsItself DEF RunInv, RunTypes
  <2>4. RunTypes'
    BY <1>5, <1>6, <1>7, <2>1, <2>2 DEF RunInv, RunTypes, Working, Loaded, Hashing, Appending, Replacing
  <2>5. /\ PredictionsMade' \subseteq PredictionsMade /\ LabelsMade' \subseteq LabelsMade
        /\ ReportsMade' \subseteq ReportsMade
    BY <1>4, <2>1 DEF PredictionsMade, LabelsMade, ReportsMade
  <2> QED
    BY <1>1, <2>2, <2>3, <2>4, <2>5, WorkInv
<1>9. CASE w.file = "predictions"
  <2>1. /\ predictions' = Append(predictions, d) /\ d \in PredictionRow
        /\ UNCHANGED <<freeze, eligibility, unlock, outcomes, evaluation>>
    BY <1>2, <1>9 DEF AppendRow, Store, Appending
  <2>2. /\ predictions' \in Seq(PredictionRow) /\ Begins(predictions, predictions')
        /\ Rows(predictions') \subseteq Rows(predictions) \cup {d}
    BY <2>1, AppendBegins DEF RunInv, RunTypes
  <2>3. Begins(eligibility, eligibility') /\ Begins(outcomes, outcomes')
    BY <2>1, BeginsItself DEF RunInv, RunTypes
  <2>4. RunTypes'
    BY <1>5, <1>6, <1>7, <2>1, <2>2 DEF RunInv, RunTypes, Working, Loaded, Hashing, Appending, Replacing
  <2>5. /\ LabelsMade' \subseteq LabelsMade /\ ReportsMade' \subseteq ReportsMade
    BY <1>4, <2>1 DEF LabelsMade, ReportsMade
  <2>6. PredictionsMade' \subseteq PredictionsMade
    BY <1>3, <1>4, <1>9, <2>2 DEF PredictionsMade
  <2> QED
    BY <1>1, <2>2, <2>3, <2>4, <2>5, <2>6, WorkInv
<1>10. CASE w.file = "outcomes"
  <2>1. /\ outcomes' = Append(outcomes, d) /\ d \in OutcomeRow
        /\ UNCHANGED <<freeze, eligibility, predictions, unlock, evaluation>>
    BY <1>2, <1>10 DEF AppendRow, Store, Appending
  <2>2. /\ outcomes' \in Seq(OutcomeRow) /\ Begins(outcomes, outcomes')
        /\ Rows(outcomes') \subseteq Rows(outcomes) \cup {d}
    BY <2>1, AppendBegins DEF RunInv, RunTypes
  <2>3. Begins(eligibility, eligibility') /\ Begins(predictions, predictions')
    BY <2>1, BeginsItself DEF RunInv, RunTypes
  <2>4. RunTypes'
    BY <1>5, <1>6, <1>7, <2>1, <2>2 DEF RunInv, RunTypes, Working, Loaded, Hashing, Appending, Replacing
  <2>5. /\ PredictionsMade' \subseteq PredictionsMade /\ ReportsMade' \subseteq ReportsMade
    BY <1>4, <2>1 DEF PredictionsMade, ReportsMade
  <2>6. LabelsMade' \subseteq LabelsMade
    BY <1>3, <1>4, <1>10, <2>2 DEF LabelsMade
  <2> QED
    BY <1>1, <2>2, <2>3, <2>4, <2>5, <2>6, WorkInv
<1> QED
  BY <1>2, <1>8, <1>9, <1>10 DEF Appending
\* A file is truncated or filled.
LEMMA Replaced ==
    ASSUME RunInv, NEW p \in Procs, NEW r, NEW v,
           running[p] # Idle, Replacing(running[p]), v = Torn \/ v = running[p].doc,
           Store(running[p].file, v), running' = [running EXCEPT ![p] = r],
           r = Idle \/ Replacing(r),
           r # Idle => r.file = running[p].file /\ r.doc = running[p].doc /\ running[p] # Idle
    PROVE  RunInv'
<1> DEFINE w == running[p]
<1>1. \A f : PendingIn(running', f) \subseteq PendingIn(running, f)
  BY StepsKept
<1>2. /\ DOMAIN running' = Procs /\ running' = [q \in Procs |-> running'[q]]
      /\ running'[p] = r /\ \A q \in Procs : q # p => running'[q] = running[q]
  BY WorkAfter DEF RunInv, RunTypes
<1>3. \A q \in Procs : Working(running'[q])
  BY <1>2 DEF RunInv, RunTypes, Working
<1>4. w.file \in {"freeze", "unlock", "evaluation"}
  BY DEF Replacing
<1>5. /\ UNCHANGED <<now, protocol, session, continuation, eligibility, predictions, outcomes>>
      /\ freeze' = IF w.file = "freeze" THEN v ELSE freeze
      /\ unlock' = IF w.file = "unlock" THEN v ELSE unlock
      /\ evaluation' = IF w.file = "evaluation" THEN v ELSE evaluation
  BY <1>4 DEF Store, inputs
<1>6. /\ freeze' \in FreezeDoc \cup {Absent, Torn} /\ unlock' \in UnlockDoc \cup {Absent, Torn}
  BY <1>5 DEF RunInv, RunTypes, Replacing
<1>7. InputsOK'
  BY <1>5 DEF RunInv, RunTypes, InputsOK
<1>8. RunTypes'
  BY <1>2, <1>3, <1>5, <1>6, <1>7 DEF RunInv, RunTypes, Working, Loaded, Hashing, Appending, Replacing
<1>9. PredictionsMade' \subseteq PredictionsMade /\ LabelsMade' \subseteq LabelsMade
  BY <1>1, <1>5 DEF PredictionsMade, LabelsMade
<1>10. ReportsMade' \subseteq ReportsMade
  <2>1. w.doc \in PendingIn(running, w.file)
    BY DEF PendingIn
  <2> QED
    BY <1>1, <1>5, <2>1 DEF ReportsMade
<1>11. /\ Begins(eligibility, eligibility') /\ Begins(predictions, predictions')
       /\ Begins(outcomes, outcomes')
  BY <1>5, BeginsItself DEF RunInv, RunTypes
<1> QED
  BY <1>5, <1>8, <1>9, <1>10, <1>11, WorkInv

LEMMA TruncateInv == ASSUME RunInv, NEW p \in Procs, Truncate(p) PROVE RunInv'
<1> DEFINE w == running[p]
           r == Pending("fill", w.file, w.doc)
<1>1. /\ w.step = "truncate" /\ Store(w.file, Torn)
      /\ running' = [running EXCEPT ![p] = r]
  BY DEF Truncate
<1>2. w # Idle /\ Replacing(w)
  <2>1. Working(w)
    BY DEF RunInv, RunTypes
  <2> QED
    BY <1>1, <2>1 DEF Idle, Working, Loaded, Hashing, Appending
<1>3. Replacing(r) /\ r.file = w.file /\ r.doc = w.doc
  BY <1>2 DEF Replacing, Pending
<1> HIDE DEF r
<1> QED
  BY <1>1, <1>2, <1>3, Replaced

LEMMA FillInv == ASSUME RunInv, NEW p \in Procs, Fill(p) PROVE RunInv'
<1> DEFINE w == running[p]
           v == w.doc
<1>1. /\ w.step = "fill" /\ Store(w.file, v) /\ running' = [running EXCEPT ![p] = Idle]
  BY DEF Fill
<1>2. w # Idle /\ Replacing(w)
  <2>1. Working(w)
    BY DEF RunInv, RunTypes
  <2> QED
    BY <1>1, <2>1 DEF Idle, Working, Loaded, Hashing, Appending
<1> QED
  BY <1>1, <1>2, Replaced

----------------------------------------------------------------------------
(* Reading.                                                                *)

\* A command has read files and goes on with what it made of them.
LEMMA GoesOnWith ==
    ASSUME RunInv, NEW p \in Procs, NEW step, NEW file, NEW doc,
           running' = [running EXCEPT ![p] = Pending(step, file, doc)], UNCHANGED vars,
           Working(Pending(step, file, doc))
    PROVE  /\ RunTypes'
           /\ UNCHANGED <<now, protocol, session, continuation>>
           /\ UNCHANGED <<freeze, eligibility, predictions, unlock, outcomes, evaluation>>
           /\ Begins(eligibility, eligibility') /\ Begins(predictions, predictions')
           /\ Begins(outcomes, outcomes')
           /\ \A d \in PredictionsMade' :
                 d \in PredictionsMade \/ (file = "predictions" /\ d = doc)
           /\ \A l \in LabelsMade' : l \in LabelsMade \/ (file = "outcomes" /\ l = doc)
           /\ \A e \in ReportsMade' : e \in ReportsMade \/ (file = "evaluation" /\ e = doc)
<1> DEFINE r == Pending(step, file, doc)
<1>1. r.step = step /\ r.file = file /\ r.doc = doc /\ running' = [running EXCEPT ![p] = r]
  BY DEF Pending
<1>2. Working(r)
  OBVIOUS
<1> HIDE DEF r
<1>3. /\ DOMAIN running' = Procs /\ running' = [q \in Procs |-> running'[q]]
      /\ running'[p] = r /\ \A q \in Procs : q # p => running'[q] = running[q]
  BY <1>1, WorkAfter DEF RunInv, RunTypes
<1>4. ASSUME NEW f, NEW d \in PendingIn(running', f)
      PROVE  d \in PendingIn(running, f) \/ (f = file /\ d = doc)
  <2>1. PICK q \in Procs : running'[q] # Idle /\ running'[q].file = f /\ d = running'[q].doc
    BY DEF PendingIn
  <2>2. CASE q = p
    BY <1>1, <1>3, <2>1, <2>2
  <2>3. CASE q # p
    BY <1>3, <2>1, <2>3 DEF PendingIn
  <2> QED
    BY <2>2, <2>3
<1>5. /\ UNCHANGED <<now, protocol, session, continuation>>
      /\ UNCHANGED <<freeze, eligibility, predictions, unlock, outcomes, evaluation>>
  BY DEF vars, inputs, files
<1>6. \A q \in Procs : Working(running'[q])
  BY <1>2, <1>3 DEF RunInv, RunTypes
<1>7. InputsOK'
  BY <1>5 DEF RunInv, RunTypes, InputsOK
<1>8. RunTypes'
  BY <1>3, <1>5, <1>6, <1>7 DEF RunInv, RunTypes, Working, Loaded, Hashing, Appending, Replacing
<1>9. \A d \in PredictionsMade' :
         d \in PredictionsMade \/ (file = "predictions" /\ d = doc)
  BY <1>4, <1>5 DEF PredictionsMade
<1>10. \A l \in LabelsMade' : l \in LabelsMade \/ (file = "outcomes" /\ l = doc)
  BY <1>4, <1>5 DEF LabelsMade
<1>11. \A e \in ReportsMade' : e \in ReportsMade \/ (file = "evaluation" /\ e = doc)
  BY <1>4, <1>5 DEF ReportsMade
<1>12. /\ Begins(eligibility, eligibility') /\ Begins(predictions, predictions')
       /\ Begins(outcomes, outcomes')
  BY <1>5, BeginsItself DEF RunInv, RunTypes
<1> QED
  BY <1>5, <1>8, <1>9, <1>10, <1>11, <1>12

\* A command that starts goes on with what it prepared.
LEMMA Prepared ==
    ASSUME NEW p \in Procs, NEW step, NEW file, NEW doc, Prepare(p, step, file, doc)
    PROVE  running' = [running EXCEPT ![p] = Pending(step, file, doc)] /\ UNCHANGED vars
BY DEF Prepare

LEMMA BeginFreezeInv ==
    ASSUME RunInv, NEW p \in Procs, NEW cut \in Cuts, BeginFreeze(p, cut)
    PROVE  RunInv'
<1> DEFINE doc == [at |-> now, protocol |-> protocol, cut |-> cut]
<1>1. doc \in FreezeDoc
  BY DEF RunInv, RunTypes, InputsOK, FreezeDoc
<1>2. Prepare(p, "truncate", "freeze", doc)
  BY DEF BeginFreeze
<1> HIDE DEF doc
<1>3. Working(Pending("truncate", "freeze", doc))
  BY <1>1 DEF Working, Replacing, Pending
<1> QED
  BY <1>2, <1>3, Prepared, GoesOnWith, WorkInv

LEMMA BeginRegisterInv ==
    ASSUME RunInv, NEW p \in Procs, NEW s \in Sessions, BeginRegister(p, s)
    PROVE  RunInv'
<1> DEFINE doc == NewEligibilityRow(freeze, eligibility, s, session[s], now)
<1>1. doc \in EligibilityRow
  <2>1. freeze \in FreezeDoc /\ eligibility \in Seq(EligibilityRow) /\ now \in Nat
        /\ session[s] \in SessionFile
    BY DEF BeginRegister, Present, RunInv, RunTypes, InputsOK, OrAbsent
  <2> QED
    BY <2>1, EligibilityRowTyped
<1>2. Prepare(p, "hash", "eligibility", doc)
  BY DEF BeginRegister
<1> HIDE DEF doc
<1>3. Working(Pending("hash", "eligibility", doc))
  BY <1>1 DEF Working, Hashing, Pending
<1> QED
  BY <1>2, <1>3, Prepared, GoesOnWith, WorkInv

LEMMA LoadSessionInv ==
    ASSUME RunInv, NEW p \in Procs, NEW s \in Sessions, LoadSession(p, s)
    PROVE  RunInv'
<1> DEFINE doc == [sid |-> s, file |-> session[s]]
<1>1. doc.sid \in Sessions /\ doc.file \in SessionFile
  BY DEF LoadSession, RunInv, RunTypes, InputsOK, OrAbsent
<1>2. Prepare(p, "loaded", "session", doc)
  BY DEF LoadSession
<1> HIDE DEF doc
<1>3. Working(Pending("loaded", "session", doc))
  BY <1>1 DEF Working, Loaded, Pending
<1> QED
  BY <1>2, <1>3, Prepared, GoesOnWith, WorkInv

LEMMA BeginUnlockInv ==
    ASSUME RunInv, NEW p \in Procs, BeginUnlock(p)
    PROVE  RunInv'
<1> DEFINE doc == NewUnlockDoc(freeze, eligibility, predictions, now)
<1>1. doc \in UnlockDoc
  BY DEF BeginUnlock, Present, RunInv, RunTypes, InputsOK, NewUnlockDoc, UnlockDoc
<1>2. Prepare(p, "truncate", "unlock", doc)
  BY DEF BeginUnlock
<1> HIDE DEF doc
<1>3. Working(Pending("truncate", "unlock", doc))
  BY <1>1 DEF Working, Replacing, Pending
<1> QED
  BY <1>2, <1>3, Prepared, GoesOnWith, WorkInv

\* What score has loaded is a session.
LEMMA LoadedTyped ==
    ASSUME RunInv, NEW p \in Procs, running[p].step = "loaded"
    PROVE  running[p].doc.sid \in Sessions /\ running[p].doc.file \in SessionFile
<1>1. Working(running[p])
  BY DEF RunInv, RunTypes
<1> QED
  BY <1>1 DEF Working, Idle, Loaded, Hashing, Appending, Replacing

\* Where there is room for a prediction there is neither label nor pending label.
LEMMA BeginScoreInv ==
    ASSUME RunInv, NEW p \in Procs, BeginScore(p)
    PROVE  RunInv'
<1> DEFINE s == running[p].doc.sid
           loaded == running[p].doc.file
           doc == NewPredictionRow(freeze, eligibility, predictions, s, loaded, now)
           next == Len(predictions) + 1
<1>1. /\ freeze \in FreezeDoc /\ eligibility \in Seq(EligibilityRow)
      /\ predictions \in Seq(PredictionRow) /\ now \in Nat
      /\ s \in Sessions /\ loaded \in SessionFile
  BY LoadedTyped DEF BeginScore, Present, RunInv, RunTypes, InputsOK
<1>2. RoomLeft(predictions) /\ next <= Len(eligibility)
  BY DEF BeginScore, Scorable
<1>5. running' = [running EXCEPT ![p] = Pending("hash", "predictions", doc)] /\ UNCHANGED vars
  BY DEF BeginScore
<1> HIDE DEF s, loaded
<1>3. doc \in PredictionRow
  BY <1>1, <1>2, PredictionRowTyped
<1>4. doc.at = now
  BY DEF NewPredictionRow
<1> HIDE DEF doc
<1>6. Working(Pending("hash", "predictions", doc))
  BY <1>3 DEF Working, Hashing, Pending
<1>7. /\ RunTypes' /\ now' = now
      /\ Begins(eligibility, eligibility') /\ Begins(predictions, predictions')
      /\ Begins(outcomes, outcomes')
      /\ \A d \in PredictionsMade' : d \in PredictionsMade \/ d = doc
      /\ LabelsMade' \subseteq LabelsMade /\ ReportsMade' \subseteq ReportsMade
  BY <1>5, <1>6, GoesOnWith
<1>8. PredictionsInv'
  <2>1. \A d \in PredictionsMade' : d.at <= now
    <3> SUFFICES ASSUME NEW d \in PredictionsMade' PROVE d.at <= now
      OBVIOUS
    <3>1. CASE d \in PredictionsMade
      BY <3>1 DEF RunInv, PredictionsInv
    <3>2. CASE d = doc
      BY <1>1, <1>4, <3>2
    <3> QED
      BY <1>7, <3>1, <3>2
  <2> QED
    BY <1>7, <2>1 DEF PredictionsInv
<1>9. LabelsMade = {}
  <2> SUFFICES ASSUME NEW l \in LabelsMade PROVE FALSE
    OBVIOUS
  <2>1. Len(l.unlock.predictions) = TestN /\ Begins(l.unlock.predictions, predictions)
    BY DEF RunInv, LabelsInv, Sealed
  <2>2. TestN <= Len(predictions) /\ Len(predictions) \in Nat /\ TestN \in Nat
    BY <1>1, <2>1, TrialConstants DEF Begins
  <2> QED
    BY <1>2, <2>2 DEF RoomLeft
<1>10. LabelsInv'
  BY <1>7, <1>9 DEF LabelsInv
<1>11. ReportsInv'
  BY <1>7, ReportsCarry DEF RunInv
<1> QED
  BY <1>7, <1>8, <1>10, <1>11 DEF RunInv

LEMMA BeginLabelInv ==
    ASSUME RunInv, NEW p \in Procs, NEW s \in Sessions, NEW outcome \in {0, 1},
           BeginLabel(p, s, outcome)
    PROVE  RunInv'
<1> DEFINE doc == NewOutcomeRow(unlock, s, outcome, continuation[s], now)
<1>1. /\ unlock \in UnlockDoc /\ continuation[s] \in ContinuationFile /\ now \in Nat
      /\ predictions \in Seq(PredictionRow)
  BY DEF BeginLabel, Present, RunInv, RunTypes, InputsOK, OrAbsent
<1>2. doc \in OutcomeRow /\ doc.unlock = unlock /\ doc.at = now
  BY <1>1 DEF NewOutcomeRow, OutcomeRow
<1>3. unlock.predictions = predictions /\ Len(predictions) = TestN
  BY DEF BeginLabel, Labelable, UnlockValid, SampleSealed
<1>4. Prepare(p, "recheck", "outcomes", doc)
  BY DEF BeginLabel
<1> HIDE DEF doc
<1>5. Working(Pending("recheck", "outcomes", doc))
  BY <1>2 DEF Working, Appending, Pending
<1>6. /\ RunTypes' /\ now' = now /\ predictions' = predictions
      /\ Begins(eligibility, eligibility') /\ Begins(predictions, predictions')
      /\ Begins(outcomes, outcomes')
      /\ PredictionsMade' \subseteq PredictionsMade
      /\ \A l \in LabelsMade' : l \in LabelsMade \/ l = doc
      /\ ReportsMade' \subseteq ReportsMade
  BY <1>4, <1>5, Prepared, GoesOnWith
<1>7. PredictionsInv'
  BY <1>1, <1>6, PredictionsCarry DEF RunInv
<1>8. LabelsInv'
  <2>1. ASSUME NEW l \in LabelsMade'
        PROVE  /\ Len(l.unlock.predictions) = TestN
               /\ Begins(l.unlock.predictions, predictions)
               /\ \A d \in PredictionsMade' : d.at <= l.at
    <3>1. CASE l \in LabelsMade
      BY <1>6, <3>1 DEF RunInv, LabelsInv, Sealed
    <3>2. CASE l = doc
      <4>1. Begins(l.unlock.predictions, predictions)
        BY <1>1, <1>2, <1>3, <3>2, BeginsItself
      <4>2. \A d \in PredictionsMade' : d.at <= now
        BY <1>6 DEF RunInv, PredictionsInv
      <4> QED
        BY <1>2, <1>3, <3>2, <4>1, <4>2
    <3> QED
      BY <1>6, <3>1, <3>2
  <2> QED
    BY <1>6, <2>1 DEF LabelsInv, Sealed
<1>9. ReportsInv'
  BY <1>6, ReportsCarry DEF RunInv
<1> QED
  BY <1>6, <1>7, <1>8, <1>9 DEF RunInv

\* What evaluate lets through is complete.
LEMMA EvaluableIsComplete ==
    ASSUME NEW q, NEW f \in FreezeDoc, NEW dir, NEW el \in Seq(EligibilityRow), NEW conts,
           NEW rows \in Seq(PredictionRow), NEW u \in UnlockDoc,
           NEW outs \in Seq(OutcomeRow),
           Evaluable(q, f, dir, el, conts, rows, u, outs)
    PROVE  Complete(NewEvaluation(f, el, rows, u, outs))
<1> DEFINE e == NewEvaluation(f, el, rows, u, outs)
<1>1. /\ e.freeze = f /\ e.eligibility = el /\ e.predictions = rows /\ e.unlock = u
      /\ e.outcomes = outs
  BY DEF NewEvaluation
<1>2. e = NewEvaluation(e.freeze, e.eligibility, e.predictions, e.unlock, e.outcomes)
  BY <1>1
<1> HIDE DEF e
<1>3. /\ EligibilityValid(q, f, el) /\ Len(el) = TestN /\ Len(rows) = TestN
      /\ Sids(outs) = Sids(el) /\ \A j \in DOMAIN outs : OutcomeAccepted(outs, j, u, conts)
  BY DEF Evaluable, UnlockValid, ChainsValid, SampleSealed
<1>4. 1 \in DOMAIN el
  BY <1>3, TrialConstants
<1>5. el[1].freeze = f
  BY <1>3, <1>4 DEF EligibilityValid, EligibilityRowValid, BindsFreeze
<1>6. outs # <<>>
  <2>1. el[1].sid \in Sids(outs)
    BY <1>3, <1>4 DEF Sids
  <2> QED
    BY <2>1 DEF Sids
<1>7. 1 \in DOMAIN outs
  BY <1>6
<1>8. outs[1].unlock = u /\ \A j \in DOMAIN outs : FirstOfItsSession(outs, j)
  BY <1>3, <1>7 DEF OutcomeAccepted
<1>9. Complete(e)
  BY <1>1, <1>2, <1>3, <1>5, <1>6, <1>8 DEF Complete
<1> QED
  BY <1>9 DEF e

LEMMA BeginEvaluateInv ==
    ASSUME RunInv, NEW p \in Procs, BeginEvaluate(p)
    PROVE  RunInv'
<1> DEFINE doc == NewEvaluation(freeze, eligibility, predictions, unlock, outcomes)
<1>1. /\ freeze \in FreezeDoc /\ unlock \in UnlockDoc
      /\ eligibility \in Seq(EligibilityRow) /\ predictions \in Seq(PredictionRow)
      /\ outcomes \in Seq(OutcomeRow)
  BY DEF BeginEvaluate, Present, RunInv, RunTypes
<1>3. Evaluable(protocol, freeze, [s \in Saved(session) |-> session[s]], eligibility,
                [s \in Saved(continuation) |-> continuation[s]], predictions, unlock,
                outcomes)
  BY DEF BeginEvaluate
<1>4. ReportOrdered(doc) /\ Complete(doc)
  BY <1>1, <1>3, EvaluableIsOrdered, EvaluableIsComplete
<1>5. /\ doc.eligibility = eligibility /\ doc.predictions = predictions
      /\ doc.outcomes = outcomes
  BY DEF NewEvaluation
<1>6. Prepare(p, "truncate", "evaluation", doc)
  BY DEF BeginEvaluate
<1> HIDE DEF doc
<1>7. Working(Pending("truncate", "evaluation", doc))
  BY DEF Working, Replacing, Pending
<1>8. /\ RunTypes' /\ now' = now
      /\ UNCHANGED <<eligibility, predictions, outcomes>>
      /\ Begins(eligibility, eligibility') /\ Begins(predictions, predictions')
      /\ Begins(outcomes, outcomes')
      /\ PredictionsMade' \subseteq PredictionsMade /\ LabelsMade' \subseteq LabelsMade
      /\ \A e \in ReportsMade' : e \in ReportsMade \/ e = doc
  BY <1>6, <1>7, Prepared, GoesOnWith
<1>9. now <= now'
  BY <1>8 DEF RunInv, RunTypes, InputsOK
<1>10. PredictionsInv'
  BY <1>8, <1>9, PredictionsCarry DEF RunInv
<1>11. LabelsInv'
  BY <1>8, LabelsCarry DEF RunInv
<1>12. Current(doc)
  BY <1>1, <1>5, BeginsItself DEF Current
<1>13. \A e \in ReportsMade' : ReportOrdered(e) /\ Complete(e) /\ Current(e)
  <2> SUFFICES ASSUME NEW e \in ReportsMade' PROVE ReportOrdered(e) /\ Complete(e) /\ Current(e)
    OBVIOUS
  <2>1. CASE e \in ReportsMade
    BY <2>1 DEF RunInv, ReportsInv
  <2>2. CASE e = doc
    BY <1>4, <1>12, <2>2
  <2> QED
    BY <1>8, <2>1, <2>2
<1>14. ReportsInv'
  BY <1>8, <1>13 DEF ReportsInv, Current
<1> QED
  BY <1>8, <1>10, <1>11, <1>14 DEF RunInv

\* A hashed row is the row but for its rev.
LEMMA HashedRow ==
    ASSUME RunInv, NEW p \in Procs, Hash(p)
    PROVE  LET w == running[p]
               d == [w.doc EXCEPT !.rev = session[RowSid(w.file, w.doc)].rev]
           IN  /\ w # Idle
               /\ \/ w.file = "eligibility" /\ w.doc \in EligibilityRow /\ d \in EligibilityRow
                  \/ w.file = "predictions" /\ w.doc \in PredictionRow /\ d \in PredictionRow
<1> DEFINE w == running[p]
           s == RowSid(w.file, w.doc)
<1>1. Working(w) /\ w.step = "hash" /\ session[s] # Absent
  BY DEF RunInv, RunTypes, Hash
<1>2. Hashing(w) /\ w # Idle
  BY <1>1 DEF Working, Idle, Loaded, Appending, Replacing
<1>3. s \in Sessions
  BY <1>2 DEF Hashing, RowSid, EligibilityRow, PredictionRow
<1>4. session[s].rev \in Revs
  BY <1>1, <1>3 DEF RunInv, RunTypes, InputsOK, OrAbsent, SessionFile
<1> HIDE DEF s
<1>5. \A x \in EligibilityRow, r \in Revs : [x EXCEPT !.rev = r] \in EligibilityRow
  BY DEF EligibilityRow
<1>6. \A x \in PredictionRow, r \in Revs : [x EXCEPT !.rev = r] \in PredictionRow
  BY DEF PredictionRow
<1> QED
  BY <1>2, <1>4, <1>5, <1>6 DEF Hashing, s

LEMMA HashInv == ASSUME RunInv, NEW p \in Procs, Hash(p) PROVE RunInv'
<1> DEFINE w == running[p]
           old == w.doc
           d == [w.doc EXCEPT !.rev = session[RowSid(w.file, w.doc)].rev]
<1>1. running' = [running EXCEPT ![p] = Pending("recheck", w.file, d)] /\ UNCHANGED vars
  BY DEF Hash
<1>2. /\ w # Idle
      /\ \/ w.file = "eligibility" /\ old \in EligibilityRow /\ d \in EligibilityRow
         \/ w.file = "predictions" /\ old \in PredictionRow /\ d \in PredictionRow
  BY HashedRow
<1>3. old \in PredictionRow => d.at = old.at
  BY DEF PredictionRow
<1>4. old \in PendingIn(running, w.file)
  BY <1>2 DEF PendingIn
<1> HIDE DEF d, old
<1>5. Working(Pending("recheck", w.file, d))
  BY <1>2 DEF Working, Appending, Pending
<1>6. /\ RunTypes' /\ now' = now /\ predictions' = predictions
      /\ Begins(eligibility, eligibility') /\ Begins(predictions, predictions')
      /\ Begins(outcomes, outcomes')
      /\ \A x \in PredictionsMade' :
            x \in PredictionsMade \/ (w.file = "predictions" /\ x = d)
      /\ LabelsMade' \subseteq LabelsMade /\ ReportsMade' \subseteq ReportsMade
  <2> HIDE DEF w
  <2>1. w.file \notin {"outcomes", "evaluation"}
    BY <1>2
  <2> QED
    BY <1>1, <1>5, <2>1, GoesOnWith
<1>7. \A x \in PredictionsMade' : \E y \in PredictionsMade : x.at = y.at
  BY <1>2, <1>3, <1>4, <1>6 DEF PredictionsMade
<1>8. PredictionsInv'
  <2>1. \A x \in PredictionsMade' : x.at <= now
    BY <1>7 DEF RunInv, PredictionsInv
  <2> QED
    BY <1>6, <2>1 DEF PredictionsInv
<1>9. LabelsInv'
  <2>1. \A l \in LabelsMade' :
           /\ Len(l.unlock.predictions) = TestN /\ Begins(l.unlock.predictions, predictions)
           /\ \A x \in PredictionsMade' : x.at <= l.at
    BY <1>6, <1>7 DEF RunInv, LabelsInv, Sealed
  <2> QED
    BY <1>6, <2>1 DEF LabelsInv, Sealed
<1>10. ReportsInv'
  BY <1>6, ReportsCarry DEF RunInv
<1> QED
  BY <1>6, <1>8, <1>9, <1>10 DEF RunInv

----------------------------------------------------------------------------
(* Theorems.                                                               *)

LEMMA RunStepInv == RunInv /\ [RunNext]_runVars => RunInv'
<1> SUFFICES ASSUME RunInv, [RunNext]_runVars PROVE RunInv'
  OBVIOUS
<1>1. CASE World /\ UNCHANGED running
  BY <1>1, WorldInv
<1>2. ASSUME NEW p \in Procs, Process(p) PROVE RunInv'
  <2>1. ASSUME NEW cut \in Cuts, BeginFreeze(p, cut) PROVE RunInv'
    BY <2>1, BeginFreezeInv
  <2>2. ASSUME NEW s \in Sessions, BeginRegister(p, s) \/ LoadSession(p, s) PROVE RunInv'
    BY <2>2, BeginRegisterInv, LoadSessionInv
  <2>3. ASSUME NEW s \in Sessions, NEW outcome \in {0, 1}, BeginLabel(p, s, outcome)
        PROVE  RunInv'
    BY <2>3, BeginLabelInv
  <2>4. CASE BeginScore(p) \/ BeginUnlock(p) \/ BeginEvaluate(p)
    BY <2>4, BeginScoreInv, BeginUnlockInv, BeginEvaluateInv
  <2>5. CASE Hash(p) \/ Recheck(p) \/ AppendRow(p) \/ Truncate(p) \/ Fill(p) \/ Crash(p)
    BY <2>5, HashInv, RecheckInv, AppendInv, TruncateInv, FillInv, CrashInv
  <2> QED
    BY <1>2, <2>1, <2>2, <2>3, <2>4, <2>5 DEF Process
<1>3. CASE UNCHANGED runVars
  <2>1. UNCHANGED <<freeze, eligibility, predictions, unlock, outcomes, evaluation>>
        /\ UNCHANGED <<now, protocol, session, continuation>> /\ UNCHANGED running
    BY <1>3 DEF runVars, vars, inputs, files
  <2>2. RunTypes'
    BY <2>1 DEF RunInv, RunTypes, InputsOK, Working, Loaded, Hashing, Appending, Replacing
  <2>3. /\ PredictionsMade' = PredictionsMade /\ LabelsMade' = LabelsMade
        /\ ReportsMade' = ReportsMade
    BY <2>1 DEF PredictionsMade, LabelsMade, ReportsMade
  <2>4. /\ Begins(eligibility, eligibility') /\ Begins(predictions, predictions')
        /\ Begins(outcomes, outcomes')
    BY <2>1, BeginsItself DEF RunInv, RunTypes
  <2> QED
    BY <2>1, <2>2, <2>3, <2>4, WorkInv
<1> QED
  BY <1>1, <1>2, <1>3 DEF RunNext

\* The invariant holds whatever processes do to one another's files.
THEOREM RunInvariance == RunSpec => []RunInv
<1> QED
  BY RunInitInv, RunStepInv, PTL DEF RunSpec

\* LabelsFollowSealing: however many processes race and wherever they die, a label on
\* file binds an unlock receipt over TestN predictions that are still the first on file,
\* and no prediction, appended late ones included, was stamped after it.
THEOREM LabelsAlwaysFollow == RunSpec => []LabelsFollowSealing
<1>1. ASSUME RunInv PROVE LabelsFollowSealing
  <2> SUFFICES ASSUME NEW j \in DOMAIN outcomes
               PROVE  LET sealed == outcomes[j].unlock.predictions IN
                      /\ Len(sealed) = TestN /\ Len(sealed) <= Len(predictions)
                      /\ \A i \in 1..TestN : predictions[i] = sealed[i]
                      /\ SealedBy(predictions, outcomes[j].at)
    BY DEF LabelsFollowSealing
  <2>1. outcomes[j] \in LabelsMade
    BY DEF LabelsMade, Rows
  <2>2. \A i \in DOMAIN predictions : predictions[i] \in PredictionsMade
    BY DEF PredictionsMade, Rows
  <2>3. Sealed(outcomes[j]) /\ \A d \in PredictionsMade : d.at <= outcomes[j].at
    BY <1>1, <2>1 DEF RunInv, LabelsInv
  <2> QED
    BY <2>2, <2>3 DEF Sealed, Begins, SealedBy
<1> QED
  BY <1>1, RunInvariance, PTL

\* RacedReportSound: the report on file comes from one consistent reading of the files,
\* whatever other commands did between evaluate's reads and its write.
THEOREM RacedReportsAreSound == RunSpec => []RacedReportSound
<1>1. RunInv => RacedReportSound
  BY DEF RunInv, ReportsInv, ReportsMade, RacedReportSound, Present
<1> QED
  BY <1>1, RunInvariance, PTL

\* A sequence is its length and its items.
LEMMA SameItems ==
    ASSUME NEW R, NEW s \in Seq(R), NEW t \in Seq(R),
           Len(s) = Len(t), \A i \in 1..Len(s) : s[i] = t[i]
    PROVE  s = t
OBVIOUS

\* Two complete reports whose files are the beginnings of the same files are equal.
LEMMA CompleteAgree ==
    ASSUME RunTypes, NEW a, NEW b, Complete(a), Current(a), Complete(b), Current(b)
    PROVE  a = b
<1>1. /\ a.eligibility \in Seq(EligibilityRow) /\ b.eligibility \in Seq(EligibilityRow)
      /\ a.predictions \in Seq(PredictionRow) /\ b.predictions \in Seq(PredictionRow)
      /\ a.outcomes \in Seq(OutcomeRow) /\ b.outcomes \in Seq(OutcomeRow)
      /\ TestN \in Nat \ {0}
  BY TrialConstants DEF Complete
<1>2. a.eligibility = b.eligibility
  <2>1. Len(a.eligibility) = TestN /\ Len(b.eligibility) = TestN
    BY DEF Complete
  <2>2. \A i \in 1..TestN : a.eligibility[i] = b.eligibility[i]
    BY <2>1 DEF Current, Begins
  <2> QED
    BY <1>1, <2>1, <2>2, SameItems
<1>3. a.predictions = b.predictions
  <2>1. Len(a.predictions) = TestN /\ Len(b.predictions) = TestN
    BY DEF Complete
  <2>2. \A i \in 1..TestN : a.predictions[i] = b.predictions[i]
    BY <2>1 DEF Current, Begins
  <2> QED
    BY <1>1, <2>1, <2>2, SameItems
<1>4. ASSUME NEW x, NEW y, x.outcomes \in Seq(OutcomeRow), y.outcomes \in Seq(OutcomeRow),
             Begins(x.outcomes, outcomes), Begins(y.outcomes, outcomes),
             Sids(x.outcomes) = Sids(y.outcomes),
             \A j \in DOMAIN y.outcomes : FirstOfItsSession(y.outcomes, j)
      PROVE  Len(y.outcomes) <= Len(x.outcomes)
  <2> DEFINE n == Len(x.outcomes)
             m == Len(y.outcomes)
  <2>1. n \in Nat /\ m \in Nat /\ DOMAIN x.outcomes = 1..n /\ DOMAIN y.outcomes = 1..m
    BY <1>4
  <2> SUFFICES ASSUME n < m PROVE FALSE
    BY <2>1
  <2>2. n + 1 \in DOMAIN y.outcomes
    BY <2>1
  <2>3. y.outcomes[n + 1].sid \in Sids(x.outcomes)
    BY <1>4, <2>2 DEF Sids
  <2>4. PICK k \in 1..n : x.outcomes[k].sid = y.outcomes[n + 1].sid
    BY <2>1, <2>3 DEF Sids
  <2>5. k \in 1..m /\ x.outcomes[k] = y.outcomes[k]
    BY <1>4, <2>1 DEF Begins
  <2>6. k \in 1..(n + 1)-1
    BY <2>1
  <2>7. y.outcomes[k].sid # y.outcomes[n + 1].sid
    BY <1>4, <2>2, <2>6 DEF FirstOfItsSession
  <2> QED
    BY <2>4, <2>5, <2>7
<1>5. a.outcomes = b.outcomes
  <2>1. Sids(a.outcomes) = Sids(b.outcomes)
    BY <1>2 DEF Complete
  <2>2. Begins(a.outcomes, outcomes) /\ Begins(b.outcomes, outcomes)
    BY DEF Current
  <2>3. /\ \A j \in DOMAIN a.outcomes : FirstOfItsSession(a.outcomes, j)
        /\ \A j \in DOMAIN b.outcomes : FirstOfItsSession(b.outcomes, j)
    BY DEF Complete
  <2>4. Len(b.outcomes) <= Len(a.outcomes)
    BY <1>1, <1>4, <2>1, <2>2, <2>3
  <2>5. Len(a.outcomes) <= Len(b.outcomes)
    BY <1>1, <1>4, <2>1, <2>2, <2>3
  <2>6. Len(a.outcomes) = Len(b.outcomes)
    BY <1>1, <2>4, <2>5
  <2>7. \A i \in 1..Len(a.outcomes) : a.outcomes[i] = b.outcomes[i]
    BY <2>2, <2>6 DEF Begins
  <2> QED
    BY <1>1, <2>6, <2>7, SameItems
<1>6. a.freeze = b.freeze /\ a.unlock = b.unlock
  BY <1>2, <1>5 DEF Complete
<1>7. /\ a = NewEvaluation(a.freeze, a.eligibility, a.predictions, a.unlock, a.outcomes)
      /\ b = NewEvaluation(b.freeze, b.eligibility, b.predictions, b.unlock, b.outcomes)
  BY DEF Complete
<1> QED
  BY <1>2, <1>3, <1>5, <1>6, <1>7

\* ReportsAgree: of several evaluate processes it does not matter which one writes last,
\* even when another unlock receipt was written over the first one in between.
THEOREM ReportsAlwaysAgree == RunSpec => []ReportsAgree
<1>1. ASSUME RunInv PROVE ReportsAgree
  <2>1. Reports = ReportsMade
    BY DEF Reports, ReportsMade, PendingIn
  <2> SUFFICES ASSUME NEW a \in ReportsMade, NEW b \in ReportsMade PROVE a = b
    BY <2>1 DEF ReportsAgree
  <2>2. Complete(a) /\ Current(a) /\ Complete(b) /\ Current(b)
    BY <1>1 DEF RunInv, ReportsInv
  <2> QED
    BY <1>1, <2>2, CompleteAgree DEF RunInv
<1> QED
  BY <1>1, RunInvariance, PTL

----------------------------------------------------------------------------
(* Races for a chain show.                                                 *)

EligibilityMade == Rows(eligibility) \cup PendingIn(running, "eligibility")

\* Row d was made from the first rows, and they were valid under its freeze.
Continues(rows, d) ==
    /\ d \in EligibilityRow
    /\ d.index <= Len(rows) + 1
    /\ d.freeze.at < d.handoff
    /\ InWindow(d.handoff, d.at)
    /\ \A j \in DOMAIN rows : j < d.index => rows[j].sid # d.sid /\ rows[j].freeze = d.freeze
    /\ d.index > 1 => KeyBefore(rows[d.index - 1], d)
    /\ d.prev = IF d.index = 1 THEN Genesis ELSE rows[d.index - 1].sid

\* Prediction d answers the entry that bears its number, after the predictions for the
\* entries before it.
Follows(entries, rows, d) ==
    /\ d \in PredictionRow
    /\ d.entry.index \in DOMAIN entries
    /\ entries[d.entry.index] = d.entry
    /\ d.entry.index <= Len(rows) + 1
    /\ d.freeze = d.entry.freeze
    /\ d.entry.at <= d.at
    /\ InWindow(d.entry.handoff, d.at)
    /\ d.prev = IF d.entry.index = 1 THEN Genesis ELSE rows[d.entry.index - 1].entry.sid

EntriesInv == \A d \in EligibilityMade : Continues(eligibility, d)
AnswersInv == \A d \in PredictionsMade : Follows(eligibility, predictions, d)
SerialInv == EntriesInv /\ AnswersInv

\* What a row was made from stays where it was.
LEMMA ContinuesLonger ==
    ASSUME NEW a \in Seq(EligibilityRow), NEW b \in Seq(EligibilityRow), Begins(a, b),
           NEW d, Continues(a, d)
    PROVE  Continues(b, d)
<1>1. /\ d.index \in Nat \ {0} /\ Len(a) \in Nat /\ Len(b) \in Nat /\ Len(a) <= Len(b)
      /\ d.index <= Len(a) + 1
      /\ DOMAIN a = 1..Len(a) /\ DOMAIN b = 1..Len(b)
      /\ \A i \in 1..Len(a) : b[i] = a[i]
  BY DEF Continues, Begins, EligibilityRow
<1>2. \A j \in DOMAIN b : j < d.index => j \in DOMAIN a /\ b[j] = a[j]
  BY <1>1
<1>3. d.index > 1 => b[d.index - 1] = a[d.index - 1]
  BY <1>1
<1>4. d.index # 1 => d.index > 1
  BY <1>1
<1> QED
  BY <1>1, <1>2, <1>3, <1>4 DEF Continues

LEMMA FollowsLonger ==
    ASSUME NEW e \in Seq(EligibilityRow), NEW f \in Seq(EligibilityRow), Begins(e, f),
           NEW a \in Seq(PredictionRow), NEW b \in Seq(PredictionRow), Begins(a, b),
           NEW d, Follows(e, a, d)
    PROVE  Follows(f, b, d)
<1> DEFINE k == d.entry.index
<1>1. k \in Nat \ {0}
  BY DEF Follows, PredictionRow, EligibilityRow
<1>2. /\ Len(a) \in Nat /\ Len(b) \in Nat /\ Len(a) <= Len(b)
      /\ \A i \in 1..Len(a) : b[i] = a[i]
  BY DEF Begins
<1>3. k <= Len(a) + 1
  BY DEF Follows
<1>4. k \in DOMAIN f /\ f[k] = d.entry
  BY DEF Follows, Begins
<1>5. d.prev = IF k = 1 THEN Genesis ELSE a[k - 1].entry.sid
  BY DEF Follows
<1> HIDE DEF k
<1>6. k # 1 => b[k - 1] = a[k - 1]
  BY <1>1, <1>2, <1>3
<1>7. k <= Len(b) + 1
  BY <1>1, <1>2, <1>3
<1>8. d.prev = IF k = 1 THEN Genesis ELSE b[k - 1].entry.sid
  BY <1>5, <1>6
<1> QED
  BY <1>4, <1>7, <1>8 DEF Follows, k

\* Nothing but files gone longer, and one row more that continues them.
LEMMA SerialCarry ==
    ASSUME RunTypes, RunTypes', SerialInv,
           Begins(eligibility, eligibility'), Begins(predictions, predictions'),
           \A d \in EligibilityMade' : d \in EligibilityMade \/ Continues(eligibility, d),
           \A d \in PredictionsMade' :
              d \in PredictionsMade \/ Follows(eligibility, predictions, d)
    PROVE  SerialInv'
<1>1. \A d \in EligibilityMade' : Continues(eligibility', d)
  BY ContinuesLonger DEF SerialInv, EntriesInv, RunTypes
<1>2. \A d \in PredictionsMade' : Follows(eligibility', predictions', d)
  BY FollowsLonger DEF SerialInv, AnswersInv, RunTypes
<1> QED
  BY <1>1, <1>2 DEF SerialInv, EntriesInv, AnswersInv

\* No command's work but that of register and score adds rows to come.
LEMMA NothingNew ==
    ASSUME RunInv, NEW p \in Procs, NEW r, running' = [running EXCEPT ![p] = r],
           \/ r = Idle \/ r.file \notin {"eligibility", "predictions"}
           \/ r.file = running[p].file /\ r.doc = running[p].doc /\ running[p] # Idle
    PROVE  /\ PendingIn(running', "eligibility") \subseteq PendingIn(running, "eligibility")
           /\ PendingIn(running', "predictions") \subseteq PendingIn(running, "predictions")
<1>1. /\ DOMAIN running' = Procs /\ running'[p] = r
      /\ \A q \in Procs : q # p => running'[q] = running[q]
  BY DEF RunInv, RunTypes
<1>2. ASSUME NEW f, NEW d \in PendingIn(running', f)
      PROVE  d \in PendingIn(running, f) \/ (r # Idle /\ r.file = f /\ d = r.doc)
  <2>1. PICK q \in Procs : running'[q] # Idle /\ running'[q].file = f /\ d = running'[q].doc
    BY DEF PendingIn
  <2>2. CASE q = p
    BY <1>1, <2>1, <2>2
  <2>3. CASE q # p
    BY <1>1, <2>1, <2>3 DEF PendingIn
  <2> QED
    BY <2>2, <2>3
<1>3. running[p] # Idle => running[p].doc \in PendingIn(running, running[p].file)
  BY DEF PendingIn
<1> QED
  BY <1>2, <1>3

\* Whatever goes on without new rows.
LEMMA SerialSame ==
    ASSUME RunInv, RunTypes', SerialInv, UNCHANGED <<eligibility, predictions>>,
           PendingIn(running', "eligibility") \subseteq PendingIn(running, "eligibility"),
           PendingIn(running', "predictions") \subseteq PendingIn(running, "predictions")
    PROVE  SerialInv'
<1>1. Begins(eligibility, eligibility') /\ Begins(predictions, predictions')
  BY BeginsItself DEF RunInv, RunTypes
<1>2. EligibilityMade' \subseteq EligibilityMade /\ PredictionsMade' \subseteq PredictionsMade
  BY DEF EligibilityMade, PredictionsMade
<1> QED
  BY <1>1, <1>2, SerialCarry DEF RunInv

\* The row register prepares continues the rows it read.
LEMMA RegisterContinues ==
    ASSUME RunInv, NEW p \in Procs, NEW s \in Sessions, BeginRegister(p, s)
    PROVE  Continues(eligibility, NewEligibilityRow(freeze, eligibility, s, session[s], now))
<1> DEFINE d == NewEligibilityRow(freeze, eligibility, s, session[s], now)
<1>1. /\ freeze \in FreezeDoc /\ eligibility \in Seq(EligibilityRow) /\ now \in Nat
      /\ session[s] \in SessionFile
  BY DEF BeginRegister, Present, RunInv, RunTypes, InputsOK, OrAbsent
<1>2. d \in EligibilityRow
  BY <1>1, EligibilityRowTyped
<1>3. Registrable(protocol, freeze, eligibility, s, session[s], now)
  BY DEF BeginRegister
<1>4. /\ d.index = Len(eligibility) + 1 /\ d.sid = s /\ d.handoff = session[s].handoff
      /\ d.at = now /\ d.freeze = freeze
      /\ d.prev = IF eligibility = <<>> THEN Genesis ELSE eligibility[Len(eligibility)].sid
  BY DEF NewEligibilityRow
<1>5. d.freeze.at < d.handoff /\ InWindow(d.handoff, d.at)
  BY <1>3, <1>4 DEF Registrable
<1>6. \A j \in DOMAIN eligibility : eligibility[j].sid # d.sid /\ eligibility[j].freeze = d.freeze
  BY <1>3, <1>4 DEF Registrable, EligibilityValid, EligibilityRowValid, BindsFreeze
<1>7. eligibility # <<>> => KeyBefore(eligibility[Len(eligibility)], d)
  BY <1>3, <1>4 DEF Registrable, KeyBefore
<1>8. /\ Len(eligibility) \in Nat /\ d.index - 1 = Len(eligibility)
      /\ (eligibility = <<>> <=> d.index = 1)
  BY <1>1, <1>4
<1> HIDE DEF d
<1>9. d.index > 1 => KeyBefore(eligibility[d.index - 1], d)
  BY <1>4, <1>7, <1>8
<1>10. d.prev = IF d.index = 1 THEN Genesis ELSE eligibility[d.index - 1].sid
  BY <1>4, <1>8
<1> QED
  BY <1>2, <1>4, <1>5, <1>6, <1>8, <1>9, <1>10 DEF Continues, d

\* The prediction score prepares follows the predictions it read.
LEMMA ScoreFollows ==
    ASSUME RunInv, NEW p \in Procs, BeginScore(p)
    PROVE  Follows(eligibility, predictions,
                   NewPredictionRow(freeze, eligibility, predictions, running[p].doc.sid,
                                    running[p].doc.file, now))
<1> DEFINE s == running[p].doc.sid
           loaded == running[p].doc.file
           d == NewPredictionRow(freeze, eligibility, predictions, s, loaded, now)
           next == Len(predictions) + 1
<1>1. /\ freeze \in FreezeDoc /\ eligibility \in Seq(EligibilityRow)
      /\ predictions \in Seq(PredictionRow) /\ now \in Nat
      /\ s \in Sessions /\ loaded \in SessionFile
  BY LoadedTyped DEF BeginScore, Present, RunInv, RunTypes, InputsOK
<1>2. Scorable(protocol, freeze, eligibility, predictions, s, session[s], now)
  BY DEF BeginScore
<1>3. /\ next <= Len(eligibility) /\ SameSession(eligibility[next], session[s])
      /\ eligibility[next].sid = s
      /\ eligibility[next].at <= now /\ InWindow(session[s].handoff, now)
      /\ EligibilityValid(protocol, freeze, eligibility)
  BY <1>2 DEF Scorable, ChainsValid
<1> HIDE DEF s, loaded
<1>4. d \in PredictionRow
  BY <1>1, <1>3, PredictionRowTyped
<1>5. next \in DOMAIN eligibility
  BY <1>1, <1>3
<1>6. eligibility[next].index = next /\ eligibility[next].freeze = freeze
  BY <1>3, <1>5 DEF EligibilityValid, EligibilityRowValid, BindsFreeze
<1>7. /\ d.entry = eligibility[next] /\ d.at = now /\ d.freeze = freeze
      /\ d.prev = IF predictions = <<>> THEN Genesis ELSE predictions[Len(predictions)].entry.sid
  BY DEF NewPredictionRow
<1>8. /\ Len(predictions) \in Nat /\ next - 1 = Len(predictions)
      /\ (predictions = <<>> <=> next = 1)
  BY <1>1
<1> HIDE DEF d, next
<1>9. d.prev = IF next = 1 THEN Genesis ELSE predictions[next - 1].entry.sid
  BY <1>7, <1>8
<1>10. next <= Len(predictions) + 1
  BY DEF next
<1>11. Follows(eligibility, predictions, d)
  BY <1>3, <1>4, <1>5, <1>6, <1>7, <1>9, <1>10 DEF Follows, SameSession
<1> QED
  BY <1>11 DEF d, s, loaded

\* An append takes a row that was to come.
LEMMA AppendSerial ==
    ASSUME RunInv, RunInv', SerialInv, NEW p \in Procs, AppendRow(p)
    PROVE  SerialInv'
<1> DEFINE w == running[p]
           d == w.doc
<1>1. w.step = "append" /\ running' = [running EXCEPT ![p] = Idle]
  BY DEF AppendRow
<1>2. w # Idle /\ Appending(w)
  <2>1. Working(w)
    BY DEF RunInv, RunTypes
  <2> QED
    BY <1>1, <2>1 DEF Idle, Working, Loaded, Hashing, Replacing
<1>3. d \in PendingIn(running, w.file)
  BY <1>2 DEF PendingIn
<1>4. /\ PendingIn(running', "eligibility") \subseteq PendingIn(running, "eligibility")
      /\ PendingIn(running', "predictions") \subseteq PendingIn(running, "predictions")
  BY <1>1, NothingNew
<1>5. CASE w.file = "eligibility"
  <2>1. eligibility' = Append(eligibility, d) /\ d \in EligibilityRow /\ predictions' = predictions
    BY <1>2, <1>5 DEF AppendRow, Store, Appending
  <2>2. /\ Begins(eligibility, eligibility') /\ Begins(predictions, predictions')
        /\ Rows(eligibility') \subseteq Rows(eligibility) \cup {d}
    BY <2>1, AppendBegins, BeginsItself DEF RunInv, RunTypes
  <2>3. EligibilityMade' \subseteq EligibilityMade /\ PredictionsMade' \subseteq PredictionsMade
    BY <1>3, <1>4, <1>5, <2>1, <2>2 DEF EligibilityMade, PredictionsMade
  <2> QED
    BY <2>2, <2>3, SerialCarry DEF RunInv
<1>6. CASE w.file = "predictions"
  <2>1. predictions' = Append(predictions, d) /\ d \in PredictionRow /\ eligibility' = eligibility
    BY <1>2, <1>6 DEF AppendRow, Store, Appending
  <2>2. /\ Begins(predictions, predictions') /\ Begins(eligibility, eligibility')
        /\ Rows(predictions') \subseteq Rows(predictions) \cup {d}
    BY <2>1, AppendBegins, BeginsItself DEF RunInv, RunTypes
  <2>3. EligibilityMade' \subseteq EligibilityMade /\ PredictionsMade' \subseteq PredictionsMade
    BY <1>3, <1>4, <1>6, <2>1, <2>2 DEF EligibilityMade, PredictionsMade
  <2> QED
    BY <2>2, <2>3, SerialCarry DEF RunInv
<1>7. CASE w.file = "outcomes"
  <2>1. UNCHANGED <<eligibility, predictions>>
    BY <1>7 DEF AppendRow, Store
  <2> QED
    BY <1>4, <2>1, SerialSame DEF RunInv
<1> QED
  BY <1>2, <1>5, <1>6, <1>7 DEF Appending

\* A command that goes on with what it made of its files: only register and score have a
\* row to come.
LEMMA GoesOnSerial ==
    ASSUME RunInv, RunInv', SerialInv, NEW p \in Procs, NEW step, NEW file, NEW doc,
           running' = [running EXCEPT ![p] = Pending(step, file, doc)], UNCHANGED vars,
           file = "eligibility" => Continues(eligibility, doc),
           file = "predictions" => Follows(eligibility, predictions, doc)
    PROVE  SerialInv'
<1> DEFINE r == Pending(step, file, doc)
<1>1. /\ running' = [running EXCEPT ![p] = r] /\ r.file = file /\ r.doc = doc
      /\ UNCHANGED <<eligibility, predictions>>
  BY DEF Pending, vars, files
<1> HIDE DEF r
<1>2. DOMAIN running = Procs
  BY DEF RunInv, RunTypes
<1>3. ASSUME NEW f, NEW d \in PendingIn(running', f)
      PROVE  d \in PendingIn(running, f) \/ (f = file /\ d = doc)
  <2>1. PICK q \in Procs : running'[q] # Idle /\ running'[q].file = f /\ d = running'[q].doc
    BY DEF PendingIn
  <2>2. CASE q = p
    BY <1>1, <1>2, <2>1, <2>2
  <2>3. CASE q # p
    BY <1>1, <1>2, <2>1, <2>3 DEF PendingIn
  <2> QED
    BY <2>2, <2>3
<1>4. Begins(eligibility, eligibility') /\ Begins(predictions, predictions')
  BY <1>1, BeginsItself DEF RunInv, RunTypes
<1>5. \A d \in EligibilityMade' : d \in EligibilityMade \/ Continues(eligibility, d)
  BY <1>1, <1>3 DEF EligibilityMade
<1>6. \A d \in PredictionsMade' : d \in PredictionsMade \/ Follows(eligibility, predictions, d)
  BY <1>1, <1>3 DEF PredictionsMade
<1> QED
  BY <1>4, <1>5, <1>6, SerialCarry DEF RunInv

\* A row that is hashed again comes from and follows the same rows.
LEMMA HashSerial ==
    ASSUME RunInv, RunInv', SerialInv, NEW p \in Procs, Hash(p)
    PROVE  SerialInv'
<1> DEFINE w == running[p]
           old == w.doc
           d == [w.doc EXCEPT !.rev = session[RowSid(w.file, w.doc)].rev]
<1>1. running' = [running EXCEPT ![p] = Pending("recheck", w.file, d)] /\ UNCHANGED vars
  BY DEF Hash
<1>2. /\ w # Idle
      /\ \/ w.file = "eligibility" /\ old \in EligibilityRow /\ d \in EligibilityRow
         \/ w.file = "predictions" /\ old \in PredictionRow /\ d \in PredictionRow
  BY HashedRow
<1>3. old \in PendingIn(running, w.file)
  BY <1>2 DEF PendingIn
<1>4. CASE w.file = "eligibility"
  <2>1. Continues(eligibility, old) /\ old \in EligibilityRow /\ d \in EligibilityRow
    BY <1>2, <1>3, <1>4 DEF SerialInv, EntriesInv, EligibilityMade
  <2>2. /\ d.index = old.index /\ d.sid = old.sid /\ d.handoff = old.handoff
        /\ d.at = old.at /\ d.freeze = old.freeze /\ d.prev = old.prev
    BY <2>1 DEF EligibilityRow
  <2> HIDE DEF d, old
  <2>3. Continues(eligibility, d)
    BY <2>1, <2>2 DEF Continues, KeyBefore
  <2> QED
    BY <1>1, <1>4, <2>3, GoesOnSerial
<1>5. CASE w.file = "predictions"
  <2>1. Follows(eligibility, predictions, old) /\ old \in PredictionRow /\ d \in PredictionRow
    BY <1>2, <1>3, <1>5 DEF SerialInv, AnswersInv, PredictionsMade
  <2>2. d.entry = old.entry /\ d.at = old.at /\ d.freeze = old.freeze /\ d.prev = old.prev
    BY <2>1 DEF PredictionRow
  <2> HIDE DEF d, old
  <2>3. Follows(eligibility, predictions, d)
    BY <2>1, <2>2 DEF Follows
  <2> QED
    BY <1>1, <1>5, <2>3, GoesOnSerial
<1> QED
  BY <1>2, <1>4, <1>5

LEMMA SerialStep == RunInv /\ RunInv' /\ SerialInv /\ [RunNext]_runVars => SerialInv'
<1> SUFFICES ASSUME RunInv, RunInv', SerialInv, [RunNext]_runVars PROVE SerialInv'
  OBVIOUS
<1>1. CASE UNCHANGED <<eligibility, predictions, running>>
  <2>1. /\ PendingIn(running', "eligibility") \subseteq PendingIn(running, "eligibility")
        /\ PendingIn(running', "predictions") \subseteq PendingIn(running, "predictions")
    BY <1>1
  <2> QED
    BY <1>1, <2>1, SerialSame DEF RunInv
<1>2. ASSUME NEW p \in Procs, Process(p) PROVE SerialInv'
  <2>1. ASSUME NEW cut \in Cuts, BeginFreeze(p, cut) PROVE SerialInv'
    BY <2>1, Prepared, GoesOnSerial DEF BeginFreeze
  <2>2. ASSUME NEW s \in Sessions, BeginRegister(p, s) PROVE SerialInv'
    BY <2>2, Prepared, GoesOnSerial, RegisterContinues DEF BeginRegister
  <2>3. CASE BeginScore(p)
    BY <2>3, GoesOnSerial, ScoreFollows DEF BeginScore
  <2>10. ASSUME NEW s \in Sessions, LoadSession(p, s) PROVE SerialInv'
    BY <2>10, Prepared, GoesOnSerial DEF LoadSession
  <2>11. CASE Hash(p)
    BY <2>11, HashSerial
  <2>4. CASE BeginUnlock(p)
    BY <2>4, Prepared, GoesOnSerial DEF BeginUnlock
  <2>5. ASSUME NEW s \in Sessions, NEW outcome \in {0, 1}, BeginLabel(p, s, outcome)
        PROVE  SerialInv'
    BY <2>5, Prepared, GoesOnSerial DEF BeginLabel
  <2>6. CASE BeginEvaluate(p)
    BY <2>6, Prepared, GoesOnSerial DEF BeginEvaluate
  <2>7. CASE AppendRow(p)
    BY <2>7, AppendSerial
  <2>8. CASE Recheck(p) \/ Crash(p)
    <3>1. UNCHANGED <<eligibility, predictions>>
      BY <2>8 DEF Recheck, Crash, vars, files
    <3>2. PICK r : /\ running' = [running EXCEPT ![p] = r]
                   /\ \/ r = Idle
                      \/ r.file = running[p].file /\ r.doc = running[p].doc /\ running[p] # Idle
      BY <2>8 DEF Recheck, Crash, Pending, Idle
    <3> QED
      BY <3>1, <3>2, NothingNew, SerialSame DEF RunInv
  <2>9. CASE Truncate(p) \/ Fill(p)
    <3>1. running[p].step \in {"truncate", "fill"} /\ running[p] # Idle
      BY <2>9 DEF Truncate, Fill, Idle
    <3>2. running[p].file \in {"freeze", "unlock", "evaluation"}
      BY <3>1 DEF RunInv, RunTypes, Working, Loaded, Hashing, Appending, Replacing
    <3>3. UNCHANGED <<eligibility, predictions>>
      BY <2>9, <3>2 DEF Truncate, Fill, Store
    <3>4. PICK r : /\ running' = [running EXCEPT ![p] = r]
                   /\ \/ r = Idle
                      \/ r.file = running[p].file /\ r.doc = running[p].doc /\ running[p] # Idle
      BY <2>9, <3>1 DEF Truncate, Fill, Pending
    <3> QED
      BY <3>3, <3>4, NothingNew, SerialSame DEF RunInv
  <2> QED
    BY <1>2, <2>1, <2>2, <2>3, <2>4, <2>5, <2>6, <2>7, <2>8, <2>9, <2>10, <2>11 DEF Process
<1>3. CASE World /\ UNCHANGED running
  BY <1>1, <1>3, WorldKeepsFiles DEF files
<1>4. CASE UNCHANGED runVars
  BY <1>1, <1>4 DEF runVars, vars, files
<1> QED
  BY <1>2, <1>3, <1>4 DEF RunNext

\* Rows numbered in their order on file and hashed alike form valid chains.
LEMMA NumberedIsValid ==
    ASSUME RunTypes, SerialInv, Numbered, HashedAlike
    PROVE  ChainsSelfValid
<1> DEFINE bound == eligibility[1].freeze
<1>1. eligibility \in Seq(EligibilityRow) /\ predictions \in Seq(PredictionRow)
  BY DEF RunTypes
<1>2. /\ Len(eligibility) \in Nat /\ DOMAIN eligibility = 1..Len(eligibility)
      /\ Len(predictions) \in Nat /\ DOMAIN predictions = 1..Len(predictions)
  BY <1>1
<1>3. \A i \in DOMAIN eligibility :
         Continues(eligibility, eligibility[i]) /\ eligibility[i].index = i
  BY DEF SerialInv, EntriesInv, EligibilityMade, Rows, Numbered
<1>4. \A i \in DOMAIN predictions :
         Follows(eligibility, predictions, predictions[i]) /\ predictions[i].entry.index = i
  BY DEF SerialInv, AnswersInv, PredictionsMade, Rows, Numbered
<1>5. \A i \in DOMAIN predictions : i \in DOMAIN eligibility /\ predictions[i].entry = eligibility[i]
  BY <1>4 DEF Follows
<1>6. \A i \in DOMAIN eligibility : eligibility[i].freeze = bound
  <2> SUFFICES ASSUME NEW i \in DOMAIN eligibility, i # 1 PROVE eligibility[i].freeze = bound
    OBVIOUS
  <2>1. 1 \in DOMAIN eligibility /\ 1 < i
    BY <1>2
  <2> QED
    BY <1>3, <2>1 DEF Continues
<1>7. ASSUME NEW i \in DOMAIN eligibility
      PROVE  EligibilityRowValid(bound.protocol, bound, eligibility, i)
  <2>1. Continues(eligibility, eligibility[i]) /\ eligibility[i].index = i
        /\ eligibility[i].freeze = bound /\ i \in Nat
    BY <1>2, <1>3, <1>6
  <2>2. \A j \in 1..i-1 : j \in DOMAIN eligibility /\ j < i
    BY <1>2
  <2>3. \A j \in 1..i-1 : eligibility[j].sid # eligibility[i].sid
    BY <2>1, <2>2 DEF Continues
  <2> HIDE DEF bound
  <2> QED
    BY <2>1, <2>3 DEF Continues, EligibilityRowValid, BindsFreeze
<1>8. ASSUME NEW i \in DOMAIN predictions
      PROVE  PredictionRowValid(bound.protocol, bound, eligibility, predictions, i)
  <2>1. /\ Follows(eligibility, predictions, predictions[i]) /\ predictions[i].entry.index = i
        /\ predictions[i].entry = eligibility[i] /\ eligibility[i].freeze = bound
        /\ predictions[i].rev = predictions[i].entry.rev
    BY <1>4, <1>5, <1>6 DEF HashedAlike
  <2> HIDE DEF bound
  <2> QED
    BY <2>1 DEF Follows, PredictionRowValid, BindsFreeze
<1>9. Len(predictions) <= Len(eligibility)
  BY <1>2, <1>5
<1>10. eligibility = <<>> => predictions = <<>>
  BY <1>1, <1>2, <1>9
<1> QED
  BY <1>7, <1>8, <1>9, <1>10 DEF ChainsSelfValid, ChainsValid, EligibilityValid, PredictionsValid

\* What was prepared from the files is about their beginnings, for ever.
THEOREM RowsStaySerial == RunSpec => []SerialInv
<1>1. RunInit => SerialInv
  BY DEF RunInit, Init, SerialInv, EntriesInv, AnswersInv, EligibilityMade, PredictionsMade,
     Rows, PendingIn
<1> QED
  BY <1>1, SerialStep, RunInvariance, PTL DEF RunSpec

\* RacesShow: registrations and scores that raced for a file leave a row with another's
\* number, and an edit between score's two hashes one with another hash than its entry;
\* every later command refuses either.  Where there is none, both chains are valid, as if
\* the commands had run one after the other.
THEOREM RacesAlwaysShow == RunSpec => []RacesShow
<1>1. RunInv /\ SerialInv => RacesShow
  BY NumberedIsValid DEF RunInv, RacesShow
<1> QED
  BY <1>1, RunInvariance, RowsStaySerial, PTL
=============================================================================
