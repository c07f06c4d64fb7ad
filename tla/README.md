# Verification of OpenLine Lite

TLA+ modules, TLC models and TLAPS proofs for the Python code of this repository
(`openline_lite/` and `experiments/calibration-trial/`). Every definition is
translated from the source; `PROJECT.json` names, for each, the lines it stands for.

## 1. The system

| Component | State it keeps | Operations | Hard behaviour | What makes it correct |
|---|---|---|---|---|
| **Calibration trial** (`calibration_trial/trial.py`, `common.py`) | files: `protocol.yaml`, `freeze.json`, `eligibility.jsonl`, `predictions.jsonl`, `outcome-unlock.json`, `labels/test.jsonl`, `evaluation.json`; directories of session and continuation files | `freeze`, `register`, `score`, `unlock-outcomes`, `label`, `evaluate` (`preregister`) | separate processes over days, no lock, wall-clock windows, files edited in between, crashes between truncate and write | no label before every prediction is sealed; fixed first-come sample; thresholds frozen; report about registered bytes only |
| **Policy archive** (`policy_root.py`) | versions with root hash and content | `admit`, `root_content`, `make_binding`, `verify_binding` | aliasing of archived content; label reuse | one root per version; bindings verify for ever |
| **Mandate ledger** (`mandate_ledger.py`) | balances, committed capacity, receipts | `begin`, `admit_actor`, `allocate`, `commit_external` | long sequences of splits and spends, self-transfers | capacity is conserved; receipts tell the history |
| **Selective reverification** (`continuity.py`) | none (one call) | `analyze_continuity` | cycles, duplicate edges, claims inside paths | reopens exactly the descendants of changed roots; terminates |
| **Receipt intake** (`gateway.py`, `mapped_adapter.py`, `wire.py`, `canonical.py`, `pointer.py`, `crypto.py`) | none | `inspect`, `assess`, receipt verification | three-valued checks; failures at any stage | nothing unverified becomes a payload |
| **Gate** (`gate.py`, `policy.py`, `claim_support.py`) | none | `decide` | seven assessments collapse into one verdict | COMMIT iff all pass; fail beats unavailable |
| **Check** (`check.py`, `cli.py`) | output files | `run_check` | continuity withholds evidence from the gate | a reopened required claim does not commit on inherited evidence |
| **Chain and handoff** (`chain.py`, `handoff.py`) | none | `verify_native_chain`, `build_handoff_projection` | conflicting decisions, limits | only unanimous allowed COMMITs are shown |
| **Impact** (`impact.py`, `impact_cli.py`) | an index file | `bind`, `evaluate_impact` | incomplete bindings | reopen / retain / undetermined partition |
| **Living wiki** (`wiki.py`, `wiki_cli.py`) | config and sidecar records | `init`, `record`, `scan`, `context` | pages and sources edited while they are hashed; torn sidecars | a page is retained only on the sources it was recorded against |
| **Model handoff** (`model_handoff.py`, `model_cli.py`, `funes_handoff.py`) | state, task, decision files | `init`, `task`, `verify` | workspace written during verification; several writes per command; eviction at limits | every state descends from a committed decision |
| **Independent verifier** (`independent_verify.py`) | none | `verify` | every rule of the trial stated twice | accepts exactly what `evaluate` would report again |
| **Trial statistics** (`trial.py:84-135, 775-916`) | none | `_fit_threshold`, `_exact_paired_randomization`, `_exact_stratified_bootstrap_ci`, the primary gate | rounding, ties and levels met exactly | equal to the definitions the protocol names |
| Funes handoff, metrics, canonical JSON, benchmark, demos, conformance, release checks | – | – | – | see section 7 |

Interactions: `check.py` calls continuity, intake and gate in this order; impact
and handoff read the receipts the gate signed; the mandate ledger opens ledgers on
policies of the archive; the trial's commands talk to one another only through files.

## 2. Modules

| Module | Models | Extends |
|---|---|---|
| `SealedTrial` | abstract specification of a preregistered trial: no files, hashes, clocks or thresholds that change | `TrialRecords` |
| `TrialRecords` | documents, validators, refusals and rows of the trial, as operators | |
| `CalibrationTrial` | the trial as one operator drives it: each command one step, the world (clock, handoffs, editors) the others; implements `SealedTrial` | `TrialRecords` |
| `TrialCommands` | the same commands as processes: read, recheck, append / truncate, fill; crashes | `CalibrationTrial` |
| `PolicyArchive` | versions, roots, bindings | |
| `MandateLedger` | ledgers opened on the archive | `PolicyArchive` |
| `ReopeningInput` | declarations: validation, reachability, result | |
| `Reopening` | abstract specification of selective reverification: one step | `ReopeningInput` |
| `Continuity` | `analyze_continuity`, one step per loop iteration; implements `Reopening` | `ReopeningInput` |
| `TrialVerifier` | the independent verifier: the same files, judged by its own rules | `CalibrationTrial` |
| `TrialStatistics` | threshold fitting, randomization test, bootstrap interval and primary gate, one step per loop iteration | |
| `EvidenceGate` | intake, policy, claim support, the gate's decision and its verification, as operators | |
| `EvidenceFlow` | sources issued over changing files, decisions about copies of them (with selective reverification), handoff projection, impact | `EvidenceGate`, instance of `ReopeningInput` |
| `Wiki` | `init`, `record` and `scan` as processes reading file by file while editors write | |
| `Lineage` | abstract specification of the handoff: no files, hashes or half-done steps; a commit is one step | |
| `ModelHandoff` | `init`, `task` and `verify` as processes over an edited workspace; the lineage of states; implements `Lineage` | instance of `Lineage` |
| `CalibrationTrialProofs` (also about `TrialVerifier`), `TrialCommandsProofs`, `TrialStatisticsProofs`, `MandateLedgerProofs`, `ContinuityProofs`, `EvidenceFlowProofs`, `WikiProofs`, `ModelHandoffProofs` | theorems | their module, `TLAPS` |
| `MC...` | values of constants for TLC | the module they are named after |

Operators marked *a deviation* are not part of a specification: each is a plausible
bug of the definition below it, and TLC finds the named property violated when the
definition is replaced by it (`mutants` in `PROJECT.json`).

### How state and actions correspond to the code

*Trial.* One variable per file or directory of the trial and `now` for the clock (`now_utc` has whole seconds, so
events may share a second). Hashes are injective: a field `freeze_sha256` is modelled by the freeze document itself,
`session_sha256` by the revision of the session file. `previous_*_hash` is the session of the row before, which
identifies it because rows are never rewritten and sessions differ. Of a session file the model keeps handoff time and
revision, of a revision the value of the primary metric (`Metric`) and whether it is available (`Measured`). An editor
may write any revision, an earlier one too. A prediction has two hashes of the session file, as in the code: that of
its entry and its own (`rev`). A continuation file is its start, its revision, and whether it contains a correction in
the window and is complete, which is what the two outcome validators read. The actions `Freeze`, `Register`, `Score`,
`UnlockOutcomes`, `Label`, `Evaluate` are the functions of the same names with all the validators they run; a command
that refuses changes nothing and is no step. `Handoff`, `EditSession`, `StartContinuation`, `GrowContinuation`,
`EditProtocol` are the world outside. Assumptions of this model, all stated where they are used:

- a session file is saved when its handoff happens, and `evaluate` is pointed at the
  directories of all saved files (`FirstHandoffsEvaluated` rests on it);
- the clock does not run backwards, and the command line offers no way to set a time;
- edits of `protocol.yaml` change its bytes, not `test_n` and the lags;
- the report's `generated_at_utc` is left out, so "the same report" means all but its stamp.

*Commands as processes.* A command's reads are one step (while it reads, other
commands can only append to or replace files it validates together, which makes it
refuse), but for the session file: `LoadSession` is the load at the top of `score`, `BeginScore` reads the ledgers
and compares the file's hash with the entry, and `Hash` is the hash `register` and `score` take of the file
for the row they write. The write is two steps: `append_jsonl_no_overwrite` looks for the session id and
then appends; `write_json` truncates and then fills. Nothing locks, every process
may die between any two steps, and a file that is truncated and not filled is `Torn`.

*Archive and ledger.* A policy is a function from sections to their
`mandate_capacity`. A ledger is a record of the object's fields; `LiveUnspent` counts
units instead of adding balances, so that it can be proved about (an ASSUME of the MC module
checks that this is the sum). `WriteThrough` is a caller that writes to the
dictionary `root_content` returned; only `SharedSpec` has it.

*Continuity.* The loop variables of the function. One step discovers one node
(passing over an edge to a seen node is no step), takes the next source, or walks one
predecessor back. The declaration is chosen in the initial state and includes invalid ones.

*Verifier.* It only reads, so it adds no action: `Verified` is what `verify` would answer
on the files of the moment. It finds sessions in dictionaries built from directories where
`evaluate` walks the ledgers, so its rules are written over those and not shared with
`TrialRecords`. Files a validator only parses, and the transcript features, are left out. So is the calibration half of
`verify` (lines 847-984, but for the directories it loads): a freeze on file is taken as reproduced.

*Statistics.* The initial state picks a calibration or a sample. `TryThreshold` is one
turn of the loop in `_fit_threshold`; `Randomize` one session of the randomization test,
`Draw` one draw of the bootstrap, for each comparator in turn; `Conclude` the primary
gate. Distributions are functions from values to counts, as the dictionaries in the code.
The integers are Python's; the instances stay below TLC's 32 bits.

*Evidence.* Time runs in fractions of a `Second`, and a producer's stamp is the clock and its own `skew`; `Age` is in
whole seconds and cuts fractions off towards zero, as `int()` does. A signature is a field `intact`, a hash is what it
is the hash of. Adapters, policies and facts are small records; a payload its validator refuses is `Malformed`.
`Issue` signs what the files hold, `EditFile` changes them afterwards, `Decide` and `Check` take any copy of any
receipt (as issued, altered, or unreadable) with whatever the files hold by then. `Check` withholds the evidence bound
to a reopened claim, as `run_check` does, by presenting it as missing. Chains, projections and impact are functions of
the receipts that exist: the properties quantify over every list of copies and every set of decisions a receiver may
hand in.

*Wiki.* Each read, and each of the two halves of a write in place, is a step of a process;
editors write between any two of them. The second half leaves the text or a torn file: cut short, or with a
tail of what another command wrote meanwhile. Pages are taken in the order of their names.
`held` is a history variable: what was on disk at some moment since the command began.

*Model handoff.* A command's reads and writes are steps, over one workspace that is edited meanwhile. The hash of a
state is its position in `log`, the list of all states. `tasks` and `published` are history: tasks handed out, and
commits whose decision file has surely been complete. Two `verify`s with one `--out-dir` may have `decision.json` open
at once: `spoilt` holds the commands that would write over the other's text, and `mixed` the directories where a
COMMIT was written so; what the file then holds depends on the lengths of the two texts. The `.sha256` files are read
by nothing and have no variable. For `Lineage`, a commit is what the decision of a state of `log` was for, a directory
shows the position its `state.json` holds (nothing while it is absent or torn), and a command watches while its items
are being checked. What follows a verdict (two files in place, truncated first) is no step of the lineage until the
directory shows the state.

## 3. What is checked

| Run | Properties | What it shows |
|---|---|---|
| `trial_order` | `TypeOK`, `ChainsSelfValid`, `BlackoutHolds`, `FirstHandoffsEvaluated`, `ImplementsSealedTrial`, `ThresholdsFixed`, `MissedWindowIsFinal` | three sessions for a sample of two, in every order; one has no metric and can block the trial |
| `trial_edits` | `EvaluationSound`, `VerdictIsFinal`, `VerifierAgrees` | one session; protocol, thresholds, session and continuation are edited between any two commands, for five seconds |
| `trial_commands` | `LabelsFollowSealing`, `RacedReportSound`, `ReportsAgree`, `RacesShow` | two processes, two sessions, every interleaving, crashes at every step |
| `trial_score_late` | `ScoredBeforeContinuation` (violated) | finding 1 |
| `trial_unlock_race` | `UnlockWriteOnce` (violated) | finding 2 |
| `mandate_ledger` | `TypeOK`, `Conservation`, `ReceiptsReplay`, `ReceiptTrail`, `OneRootPerVersion` | three actors, two versions, policies of capacity 2 and 3 |
| `policy_shared` | `OneRootPerVersion` (violated) | finding 3 |
| `continuity` | `PathsExplain`, `ShortestPaths`, `ImplementsReopening`, `Terminates` | 9280 declarations over five nodes |
| `trial_statistics` | `FitBest`, `InferenceExact` | every calibration of four to six sessions with four values, every sample of four to six sessions with two comparators, two levels |
| `evidence_flow` | `TypeOK`, `CommitEarned`, `ContradictionRejects`, `HandoffRests`, `DissentIsFinal`, `ImpactSound` | two sources of four kinds by clocks behind and ahead, two decisions under a strict and a loose policy, an edit of the evidence, every chain of copies, every set of decisions |
| `wiki` | `TypeOK`, `RetainedHeld`, `RecordObserved`, `QuietScanExact` | two processes, two pages, two sources in two directories, an edit, crashes and torn files at every step |
| `model_handoff` | `LineageCommitted`, `DecisionPrecedesState`, `CommitsObserved`, `LatestCarried`, `ImplementsLineage` | two processes on one directory, lineages of three states, forks, decisions and states written over one another, an edit of the workspace, crashes at every step |

The trial may end (a missed window is final, a complete report changes no more), the
ledger's receipt list is bounded and a call returns: the runs allow deadlock for that.

**Bounds.** `MaxTime` 3–5 seconds: with `CalibrationEnd` 0 the freeze is at 1 or later, so a whole trial (freeze,
handoff, score, continuation, label in four seconds or in one second where the code allows it) and every missed or
re-frozen window fit. `TestN` 2 of 3 sessions is the least that has an order, a first one, a last one and one too
many. `MaxLag` 0 in the orderings (a window of one second) and 1 where edits fall inside it; there five seconds leave
one in which a prediction is late and its outcome can still be labelled. `MaxRev` 1: two contents of each file,
between which editors go back and forth; a third differs from them in nothing a validator sees. `trial_commands` has
`MaxRev` 0, because two processes, two sessions and an editor are too many states (with `TestN` 1 and two seconds they
are 5 million, and the properties hold); the theorems about the commands cover every `MaxRev`. Two processes: every
race in the code is between two. `MaxReceipts` 3: a split, a transfer and a spend. Five nodes and seven edges: a
diamond with sides of different length, a cycle back to the root, an edge given twice.

`model_handoff`: `MaxFacts` 2 and `MaxFiles` 1 with a lineage of three (no task is made for the third state), so that
the oldest entry is evicted and a confirmed one moves to the end; `MaxEdits` 1, so that an item can be true when the
task is made and false when it is read, or the reverse; the workspace starts as `FirstFiles`. One directory is where
commands can meet. `wiki`: `MaxRuns` 2 (two `record`s race for one sidecar, or an `init --force` moves the source
directory under a record). `evidence_flow`: `MaxLog` 2 is a chain with a head and a successor, or a duplicate and a
gap; `MaxDecisions` 2 is a COMMIT and a dissent; with `Second` 2 the skews -1 and 2 are half a second behind and a
whole one ahead, and `MaxClock` 1 brings stamps less than a second over their age and ahead, at the limit, and past
it. `trial_statistics`: `MinClass` 2, classes of two to four; the levels 250000 (a dyadic fraction, met exactly by two
discordant sessions) and 140000 (between two attainable p-values); the confidences 500000 and 999999, whose tails are
a quarter and, rounded down, nothing. Symmetry is used for processes and contents that no action or property tells
apart.

**Fairness.** Only `Continuity` states any: weak fairness of its next step, because it is one function call which the
interpreter runs to its end. The trial's commands are started by people, as are those of the wiki and the model
handoff; nothing in the code makes anyone run them, so no liveness is claimed.

## 4. What is proved

For all values of the constants that satisfy the named assumptions (`TrialConstants`, `TrialBounds`,
`PolicyConstants`, `LedgerConstants`, `InputsDeclared`, `NoNodeApart`, `GateConstants`, `PayloadConstants`,
`FlowConstants`, `WikiConstants`, `RecordConstants`, `HandoffConstants`, `StatisticsConstants`, `CalibrationSizes`);
the bounds (`Max...`) may be any natural numbers.

*Trial* (`CalibrationTrialProofs`). `BlackoutHolds` is not inductive: a label binds the
unlock receipt, the receipt binds both chains, and the chains must not grow once they are
full. `SealInv` says this for all three at once; with it `SampleFixed`
and `MissedWindowIsFinal` follow, because a prediction past its window is refused and
an unlock needs all `TestN`. `VerdictInv` relates a report to the files it was made from, so that a
second `evaluate`, if it is accepted at all, reads the same; `ChainsSelfValid` is proved by
re-establishing every validator for a chain one row longer. `ValueInv` (each prediction is the
frozen threshold applied to the registered revision) and `ClockInv` (no stamp lies in the future)
give `EvaluationSound` and `FirstHandoffsEvaluated`. `TrialIsSealed` is the refinement: the
mapping (`Enrolled`, `Answered`, `Seen`, `Reported`) forgets documents, hashes and stamps. `register` enrols under the
threshold of the rows before it because a freeze they do not bind is refused; `score` answers by the enrolled
threshold for the same reason; `label` sees a session of the sample because labels need a sealed one. A `label` or
`evaluate` after a report maps to a stutter, which is where `VerdictInv` is needed: the report is not made from other
labels the second time. Every other step leaves the mapped state as it is.

*Commands as processes* (`TrialCommandsProofs`). A process writes what it prepared some steps before, so `RunInv`
speaks of pending documents as of those on file. `PredictionsInv`: no prediction made is stamped in the future.
`LabelsInv`: a label came after `TestN` predictions that stay first on file, and after every prediction a process may
still append, because scoring needs room in the file when it reads it and a label needs the file full. `ReportsInv`: a
report is in order, rests on whole files (`Complete`), and the files on disk still begin with those it read
(`Current`). Two such reports are equal (`CompleteAgree`), even when the unlock receipt was overwritten in between:
their labels are the same, and the labels name the receipt. `SerialInv` says of each row, on file or to come, that it
continues the first rows of its file up to its number (`Continues`, `Follows`), which later rows do not change; a row
of which the hash is still to be taken may yet come to bear another (`GoesOnWith`). So a chain whose rows are numbered
in order and hashed as they were registered is valid (`RacesShow`), and one where commands raced, or an editor came
between, has a row which every validator refuses. What a prediction was computed from is not bound by the row (finding
3), so nothing is claimed of it here; `EvaluationSound` says it of commands that run one at a time. The theorems hold
for any set of processes, with crashes between the steps and torn documents.

*Ledger* (`MandateLedgerProofs`). `LedgerInv`: an archived root is the hash of its
content; a ledger's binding verifies, actors that were not admitted hold nothing, and
balances, receipts and capacity agree. The lemmas `SetBalance`, `CreditUnits` and `MoveUnits` count
units and carry `Conservation` through a transfer, to oneself too.

*Continuity* (`ContinuityProofs`). `SearchInv`: whatever is seen lies in every closed set
around the roots, and a seen node is queued, is the current source, or has all its
edges followed. When the queue is empty the seen nodes are closed, hence
exactly the exposed ones, and the step `Return` is the abstract `Answer`.
`WalkInv` does the same for the paths. That paths are shortest needs `DepthInv`: every seen node has a depth, one
more than the node it was found from; the queue holds depths in ascending order that differ by at most one,
so no followed edge skips a depth, and a path given back is as long as its claim is deep. The types (`Continuity`'s `TypeOK`)
are part of the invariant and only proved.

*Verifier* (end of `CalibrationTrialProofs`). Given the trial's invariants, each rule of the verifier is shown
equivalent to a rule of `evaluate` on every reachable state; so both answer alike (`VerifierAgrees`),
for any sessions, protocols and sample size. The verifier computes each prediction
again where `evaluate` trusts the sealed row, so the proof rests on `ValueInv`.

*Model handoff* (`ModelHandoffProofs`). `LineageCommitted` speaks of the log only, and a step adds to the log what a
process prepared many steps before. The invariant `IInv` therefore says of every process between its steps what its
job rests on: the state it read is in the log, its task was handed out, the items verified so far were held in the
workspace, a decision to commit is complete for its candidate, and a state to be written has its decision published
(or its directory mixed). `LineageCommitted`, `DecisionPrecedesState` and `CommitsObserved` follow. For the second the
invariant says that a command which has written its decision has published it or its directory is `mixed`; a command
that opens the file empties it, so that no other opener's text is in the way at that moment (`OpenDecision`).
`LatestCarried` compares the bounded lists of a state with the whole list of items its ancestors committed. `At` lists
the items of a sequence at a set of positions in order (`AtLists` says what that is, `ListsOnce` that it is unique);
`MergeLatest` shows that merging new items into the latest ones of a history gives the latest ones of the longer
history, duplicates and evictions included. `CarriedInv` says this of every state in the log and of the states
processes are about to write. `TypeOK` follows from it: the lists stay within their limits because they are the last
so many distinct items. It is proved only: no run checks it beside these. `LineageIsImplemented` is the refinement.
Each step maps to one of `Lineage` or to none: `Initialize` and `OpenState` hide what a directory showed, `WriteState`
shows a state or leaves a torn file, `Begin` watches, a denial, a doubt or a death leaves. `Conclude` is the commit,
and the abstract one requires that nothing was committed twice: `MadeInv` says that each state is a function of its
task, its candidate's body and the state before (`Made`), so that a second commit of the same makes a state that is
already there, `Recorded` adds nothing, and the command leaves.

*Statistics* (`TrialStatisticsProofs`). `BestInv`: what is kept is a candidate tried, and no other tried ranks above
it. The rest is arithmetic: every integer predicts like some candidate (`LikeCandidate`); a gain of one hit survives
rounding down twice if the classes are small next to the units (`GainRounds`, `CalibrationSizes`); an exact tie moves
both rates by a whole number of units if the greatest common divisor of the class sizes divides them (`Bezout`,
`TieRounds`); and of two thresholds that hit equally often in both classes each predicts the same (`OnePredicts`).

`InferenceExact` compares distributions built in a loop with counts of exchanges and resamples, for samples of
any size. The link is `Tally`: a distribution is the tally of an enumeration, and
`StatInv` says of which one at every step. In the randomization it is `Walk`, the ways to exchange the discordant
sessions so far with the difference each makes; in the bootstrap `Draws`, the lists of draws from
one class. One step of the loop tallies the enumeration of one session or draw more (`WalkDiscordant`, `WalkConcordant`,
`DrawsStep`), because pairing two enumerations crosses their tallies (`CrossedTallies`). At the end a subset of all
sessions is one of the discordant and one of the concordant sessions, so what the test counts is the definition's
count up to a common factor (`WalkEnd`, `CountsExchanges`); pairs of lists of draws match resamples one for one
(`ResamplesMatch`), and the quantile of a tally is one of what it tallies (`QuantileIs`). The verdict then
follows because a positive difference survives the rounding of the accuracies (`GainShows`), the
p-value's because rounding up preserves comparisons with whole numbers (`CeilIs`). The inductions over sessions and draws are
those of the program's own steps; a power and the number of lists, whose recursion no step follows, are compared by the least
counterexample (`PowerCounts`).

*Evidence* (`EvidenceFlowProofs`). `CommitEarned` and `ContradictionRejects` are inductive with the types: a decision
is earned when it is recorded (`DecisionEarned`, which rests on what `Age` is within a second of), a contradiction
fails one of the seven checks whatever the others say, and the files a later edit changes were copied into it.
`HandoffRests` also needs `LogInv`: each receipt of a run names the last one before it. Then a chain without gaps is
every receipt of its run up to its last (`Prefix`), because the least item where this fails would follow one where it
holds (`Least`: an inhabited set of numbers has a least member). `DissentIsFinal` and `ImpactSound` speak of every
list of copies and every set of decisions, and follow from the definitions of the projection and of the partition
(`ImpactIs`).

*Wiki* (`WikiProofs`). `held` only grows, so it is enough that a process saw a byte when it read it: `Local`
says of a process in each of its states what it has seen, of the record it makes and of the sources it
has already compared, and `TreeSeen` that a process sees the tree as it changes. `QuietScanExact` needs more: as long as
nothing changed, the standings so far are exact, `changed` tells whether one of the
sources compared so far differs, and it is reset from page to page (`ExactIn`).

**Only model-checked:** `Terminates` (liveness). Liveness under fairness and ENABLED are outside the prover's reach,
and so are the library's induction theorems, which take an operator; where a proof needs only that a set of numbers
has a least member, that is derived from the well-founded order of the naturals. Sums over sets are folds, which the
provers know by their definition only: `SumIs` derives from it what the proofs use.

## 5. Findings

1. `CLAIM_BOUNDARY.md:9` says scoring cannot occur after continuation start (and
   `DATA_FORMAT.md:68` that predictions are strictly before it). `score` never reads the continuation: it
   appends such a prediction, and the session can then never be labelled, so that
   the trial cannot be completed. The report stays sound (`EvaluationSound`).
2. `DATA_FORMAT.md:89` says the unlock file is write-once through the CLI. The test for the
   file and its writing are far apart; of two concurrent commands the second overwrites
   the first, and labels that bind the first are refused from then on.
3. `policy_root.py:131-134` promises immutable admission and one root per version, and the archive copies
   what it is given for that reason; but `root_content` returns the archived dictionary
   itself, and a caller's write changes what the version verifies.

Observations, which no run shows as violations:

- `FitBest` is conditional: two divisions round accuracies down, so that for classes of 3 and 3 an exact tie
  (1/3 + 2/3 against 1/2 + 1/2) is broken by a rounding error before the protocol's tie-break is
  asked. It cannot happen when the greatest common divisor of the class sizes divides 1000000, and for
  the protocol's 20 calibration sessions it always does. `CalibrationSizes` (three times the product of the class
  sizes is at most 1000000) is the other condition; the protocol's 300 meets it.
- A prediction row is meant to bind exact session bytes and the metrics computed from them (`DATA_FORMAT.md:65`). `score` reads the
  session file for the metrics and again for the hash: after an edit that is undone in between, the row bears the registered hash with the
  metrics of other bytes. No command computes them again, so `evaluate` reports them; the independent verifier does and refuses. If the edit comes
  between the two hashes, the row is one that every later command refuses, and the trial stops.
- `BENCHMARK.md:44` lists a receipt from the future as `DENY`. The gate cuts ages off to whole seconds (`gate.py:80`), so that a stamp
  less than a second ahead passes, and so does one less than a second over the limit. `CommitEarned` states these bounds.
- Two `verify`s with one `--out-dir` write `decision.json` in place: the shorter text can leave a tail of the longer, and
  `state.json` follows beside a decision that cannot be read. `DecisionPrecedesState` says what holds in a directory where that did not happen.
- A ledger operation whose receipt cannot be hashed (more than 100000 actors, a name without UTF-8) raises after the balances have
  changed (`mandate_ledger.py:176`). The model has no such names; `ReceiptTrail` is about ledgers that never raised so.
- `issue` signs any payload; that the receipts of a run are numbered one after the other is the producer's (`OfRun`), and `HandoffRests` is
  about such producers. Without a receiver's own count, copies that lack the last receipts of a run still pass as a chain.
- The verifier accepts a correction with an index below zero (`independent_verify.py:313-315`), which the commands refuse
  (`common.py:463-468`). A continuation is one document here, so this difference in shapes is not among what `VerifierAgrees` compares.
- One page over the size limit or unreadable ends a whole wiki scan (`wiki.py:377`); `Wiki` models the abort.
- `init --force` may change the directory of sources; records do not bind it, so that a record
  made under one directory is compared with another's files. `QuietScanExact` speaks of the current one.
- The gate does not compare a native receipt's issuer with its key id, but the impact binding does
  (`impact.py:147`): a COMMIT can be unbindable.
- Withheld evidence stops a COMMIT only if the policy requires it; a declaration whose bindings
  name evidence the policy does not ask for has no effect on the gate. `CommitEarned` says exactly that.
- A torn unlock receipt leaves a trial that can neither unlock nor label (`trial.py:608`).
- The gate verifies its own receipt before it gives it out (`check.py:293`); the model has that step, and since it recomputes what
  was just signed there is nothing to state about it.

## 6. What remains

Every module, property and proof of the plan is there. What could be added: the independent recomputation of the
statistics in `independent_verify.py`, the funes handoff's bundle, and liveness of the commands under a
scheduler the repository does not have.

## 7. Not modelled

- The features the trial's thresholds are applied to (`metrics.py`, receiver profile, curvature, drift, epsilon):
  fixed-point arithmetic on transcripts; a metric is a value of `Metric`, and in `TrialStatistics` any small integer.
  Descriptive fields of the report.
- The funes handoff: it wraps the model handoff's task in a directory of three files and drives an external memory tool.
- Canonical JSON and signatures: string and number-theoretic transformations, used as injective functions.
- `preregister`: its output is read by no command.
- Benchmarks, demos, conformance runner, release checks: scripts without state of their own.
- Size limits (`MAX_*`) of inputs except where a property is about them (`MAX_STATE_FACTS`, the wiki's
  page limit, `max_claims`), symbolic links, argument parsing, rendering of cards and JSON.
