---------------------------- MODULE ModelHandoff ----------------------------
(***************************************************************************)
(* The verified model handoff (openline_lite/model_handoff.py and its      *)
(* command line model_cli.py): init, task and verify as processes over one *)
(* control directory tree and one workspace that models keep editing.      *)
(*                                                                         *)
(* The hash of a verified state is its position in log, the list of all    *)
(* states that ever were: equal states have equal positions.  The hash of  *)
(* any other document is the document.  A state file holds such a position.*)
(* No command reads decision.json or the .sha256 files: of the former the  *)
(* model keeps which commands would write over another's text, and which   *)
(* commits it has surely held in full; of the latter nothing.              *)
(***************************************************************************)
EXTENDS Integers, Sequences, FiniteSets, SequencesExt

CONSTANTS Procs,     \* running commands
          Dirs,      \* control directories, each with a state.json
          Paths,     \* relative paths a candidate may name
          Inside,    \* those of Paths that resolve inside the workspace
          Contents,  \* bytes a file may have
          FirstFiles,  \* what files may hold at first
          Reads,     \* Reads[c]: the value the pointer of a fact finds in c, or Unresolved
          Unresolved,
          Names,     \* task ids with their instructions
          Bodies,    \* what candidates may declare
          MaxFacts,  \* MAX_STATE_FACTS
          MaxFiles,  \* MAX_STATE_FILES
          MaxLog,    \* bound: number of states; no task is made for the last of them
          MaxEdits,  \* bound: number of workspace edits
          Absent,    \* a file that does not exist
          Torn,      \* a file truncated and not yet written: no reader accepts it
          None

FactDecl == [id: STRING, path: Paths, content: Contents, value: Int]
ChangeDecl == [path: Paths, content: Contents \cup {Absent}]

\* claims: for each claim the set of fact ids it cites.  shaped: the JSON has
\* the shape _candidate_shape_errors asks for.
Body == [changes: Seq(ChangeDecl), facts: Seq(FactDecl), claims: SUBSET SUBSET STRING,
         unresolved: BOOLEAN, shaped: BOOLEAN]

\* No id and no path is declared twice, or the shape is an error.
DistinctKeys(body) ==
    /\ \A i, j \in DOMAIN body.changes : body.changes[i].path = body.changes[j].path => i = j
    /\ \A i, j \in DOMAIN body.facts : body.facts[i].id = body.facts[j].id => i = j

ASSUME HandoffConstants ==
    /\ Inside \subseteq Paths
    /\ Absent \notin Contents
    /\ FirstFiles \subseteq Contents \cup {Absent}
    /\ Torn \notin Nat /\ Absent \notin Nat
    /\ Bodies \subseteq Body
    /\ \A b \in Bodies : b.shaped => DistinctKeys(b)
    /\ MaxFacts \in Nat /\ MaxFiles \in Nat /\ MaxLog \in Nat /\ MaxEdits \in Nat

VARIABLES log,          \* every verified state there ever was
          tasks,        \* task envelopes handed out
          workspace,    \* the receiver's workspace
          edits,        \* number of edits so far
          stateFile,    \* <dir>/state.json
          pc, job,      \* the commands: control point and local variables
          held,         \* (path, content) pairs the workspace held since verify began
          spoilt,       \* commands whose open decision.json another has written since
          mixed,        \* directories where a COMMIT was written over another's text
          published     \* states whose decision.json has surely been complete on disk

decisionFiles == <<spoilt, mixed, published>>
disk == <<stateFile, decisionFiles>>
vars == <<log, tasks, workspace, edits, disk, pc, job, held>>

Task == [state: Nat, name: Names]
Candidate == [task: Task, body: Bodies]

Decision == [verdict: {"COMMIT", "QUARANTINE", "DENY"}, task: Task, candidate: Candidate,
             changes: Seq(ChangeDecl), facts: Seq(FactDecl)]

\* The task and candidate hashes of a state are those of its decision.
State == [sequence: Nat, parent: Nat, decision: Decision \cup {None},
          facts: Seq(FactDecl), files: Seq(ChangeDecl)]

InitialState == [sequence |-> 0, parent |-> 0, decision |-> None,
                 facts |-> <<>>, files |-> <<>>]

\* A command's local variables: the directory it writes to, what it has checked
\* so far, whether something is in doubt, and what it will write.
Job == [out: Dirs, task: Task \cup {None}, candidate: Candidate \cup {None}, item: Nat,
        changes: Seq(ChangeDecl), facts: Seq(FactDecl), doubt: BOOLEAN,
        decision: Decision \cup {None}, next: Nat]

Points == {"idle", "checking", "decision open", "decided", "state open"}

\* Type invariant, with the sizes _validate_state admits.
TypeOK ==
    /\ log \in Seq(State)
    /\ \A i \in DOMAIN log :
          Len(log[i].facts) <= MaxFacts /\ Len(log[i].files) <= MaxFiles
    /\ tasks \subseteq Task
    /\ workspace \in [Inside -> Contents \cup {Absent}]
    /\ edits \in Nat
    /\ stateFile \in [Dirs -> Nat \cup {Absent, Torn}]
    /\ pc \in [Procs -> Points]
    /\ job \in [Procs -> Job \cup {None}]
    /\ \A p \in Procs : pc[p] # "idle" => job[p] \in Job
    /\ held \in [Procs -> SUBSET (Inside \X (Contents \cup {Absent}))]
    /\ spoilt \subseteq Procs /\ mixed \subseteq Dirs
    /\ published \subseteq Nat

Init ==
    /\ log = <<InitialState>>
    /\ tasks = {}
    /\ workspace \in [Inside -> FirstFiles]
    /\ edits = 0
    /\ stateFile = [d \in Dirs |-> Absent]
    /\ pc = [p \in Procs |-> "idle"]
    /\ job = [p \in Procs |-> None]
    /\ held = [p \in Procs |-> {}]
    /\ spoilt = {} /\ mixed = {}
    /\ published = {1}

----------------------------------------------------------------------------
(* Operators.                                                              *)

\* A deviation: an item that comes again keeps its old place.
MergeInPlace(previous, additions, key, maximum) ==
    LET keys(s) == {s[i][key] : i \in DOMAIN s}
        new == SelectSeq(additions, LAMBDA a : a[key] \notin keys(previous))
        updated == [i \in DOMAIN previous |->
                      IF previous[i][key] \in keys(additions)
                      THEN additions[CHOOSE j \in DOMAIN additions :
                                        additions[j][key] = previous[i][key]]
                      ELSE previous[i]]
        all == updated \o new
        drop == IF Len(all) > maximum THEN Len(all) - maximum ELSE 0
    IN SubSeq(all, drop + 1, Len(all))

\* The items of s at the positions K, in order.
At(s, K) == [k \in 1..Cardinality(K) |->
                s[CHOOSE i \in K : Cardinality({j \in K : j <= i}) = k]]

\* _merge: what is added again moves to the end, the oldest fall out.
Merge(previous, additions, key, maximum) ==
    LET added == {additions[i][key] : i \in DOMAIN additions}
        all == At(previous, {i \in DOMAIN previous : previous[i][key] \notin added})
               \o additions
        drop == IF Len(all) > maximum THEN Len(all) - maximum ELSE 0
    IN SubSeq(all, drop + 1, Len(all))

\* The position of a state: its own if it is in the log, else the next one.
Position(l, s) == IF \E i \in DOMAIN l : l[i] = s
                  THEN CHOOSE i \in DOMAIN l : l[i] = s
                  ELSE Len(l) + 1

Recorded(l, s) == IF \E i \in DOMAIN l : l[i] = s THEN l ELSE Append(l, s)

\* A deviation: the candidate's hashes are not compared with the task.
AnyCandidate(task, candidate) == candidate.body.shaped

\* Shape and the three bindings to task id, state and packet.
WellBound(task, candidate) == candidate.body.shaped /\ candidate.task = task

\* A declared change holds: absent, or present with these bytes.
ChangeHolds(c) == workspace[c.path] = c.content

\* A deviation: the evidence is not hashed, the value is looked up in what is there.
FactFound(f) == workspace[f.path] # Absent /\ Reads[workspace[f.path]] = f.value

\* A declared fact holds: these bytes, and the pointer finds this value in them.
FactHolds(f) == workspace[f.path] = f.content /\ Reads[f.content] = f.value

Verdict(j) ==
    LET body == j.candidate.body
        ids == {j.facts[i].id : i \in DOMAIN j.facts}
    IN IF j.doubt \/ body.unresolved \/ \E c \in body.claims : ~(c \subseteq ids)
       THEN "QUARANTINE" ELSE "COMMIT"

MakeDecision(verdict, j) ==
    [verdict |-> verdict, task |-> j.task, candidate |-> j.candidate,
     changes |-> j.changes, facts |-> j.facts]

NextState(j, decision) ==
    LET state == log[j.task.state] IN
    [sequence |-> state.sequence + 1, parent |-> j.task.state, decision |-> decision,
     facts |-> Merge(state.facts, j.facts, "id", MaxFacts),
     files |-> Merge(state.files, j.changes, "path", MaxFiles)]

----------------------------------------------------------------------------
(* Commands.                                                               *)

\* The workspace and the commands' view of it.
EditWorkspace(f, c) ==
    /\ edits < MaxEdits
    /\ workspace[f] # c
    /\ edits' = edits + 1
    /\ workspace' = [workspace EXCEPT ![f] = c]
    /\ held' = [p \in Procs |-> IF pc[p] = "checking" THEN held[p] \cup {<<f, c>>}
                                                      ELSE held[p]]
    /\ UNCHANGED <<log, tasks, disk, pc, job>>

Idle(p) ==
    /\ pc' = [pc EXCEPT ![p] = "idle"]
    /\ job' = [job EXCEPT ![p] = None]
    /\ held' = [held EXCEPT ![p] = {}]

\* A command's local variables before its first check.
NewJob(out, task, candidate, next) ==
    [out |-> out, task |-> task, candidate |-> candidate, item |-> 1, changes |-> <<>>,
     facts |-> <<>>, doubt |-> FALSE, decision |-> None, next |-> next]

\* command_init: state.json is truncated, whatever it held; WriteState follows.
Initialize(p, d) ==
    /\ pc[p] = "idle"
    /\ pc' = [pc EXCEPT ![p] = "state open"]
    /\ job' = [job EXCEPT ![p] = NewJob(d, None, None, 1)]
    /\ stateFile' = [stateFile EXCEPT ![d] = Torn]
    /\ UNCHANGED <<log, tasks, workspace, edits, decisionFiles, held>>

\* command_task
MakeTask(d, name) ==
    /\ stateFile[d] \notin {Absent, Torn}
    /\ stateFile[d] < MaxLog
    /\ tasks' = tasks \cup {[state |-> stateFile[d], name |-> name]}
    /\ UNCHANGED <<log, workspace, edits, disk, pc, job, held>>

\* The commands other than p that have decision.json of d open.
Openers(p, d) == {q \in Procs \ {p} : pc[q] = "decision open" /\ job[q].out = d}

\* decision.json is truncated: there is nothing to write over, for any of its openers.
OpenDecision(p, d) ==
    /\ spoilt' = spoilt \ Openers(p, d)
    /\ UNCHANGED <<mixed, published>>

\* A deviation: state.json is written first.
DecideStateFirst(p, verdict, j) ==
    LET decision == MakeDecision(verdict, j)
        state == NextState(j, decision)
    IN
    /\ OpenDecision(p, j.out)
    /\ log' = IF verdict = "COMMIT" THEN Recorded(log, state) ELSE log
    /\ job' = [job EXCEPT ![p] = [j EXCEPT !.decision = decision,
                   !.next = IF verdict = "COMMIT" THEN Position(log, state) ELSE @]]
    /\ pc' = [pc EXCEPT ![p] = IF verdict = "COMMIT" THEN "decided" ELSE "decision open"]

\* The verdict is known: the next state is made on COMMIT only, and
\* decision.json is opened for writing.
Decide(p, verdict, j) ==
    LET decision == MakeDecision(verdict, j)
        state == NextState(j, decision)
    IN
    /\ OpenDecision(p, j.out)
    /\ log' = IF verdict = "COMMIT" THEN Recorded(log, state) ELSE log
    /\ job' = [job EXCEPT ![p] = [j EXCEPT !.decision = decision,
                   !.next = IF verdict = "COMMIT" THEN Position(log, state) ELSE @]]
    /\ pc' = [pc EXCEPT ![p] = "decision open"]

\* A deviation: a task of any state will do, if there is one.
AnyState(from, task) == stateFile[from] \notin {Absent, Torn}

\* _validate_task: the task was made for the state that is read.
Current(from, task) == stateFile[from] = task.state

\* command_verify reads state, task and candidate; _validate_task refuses a task
\* of another state.  A candidate that is malformed or was made for another
\* task is denied at once.
Begin(p, from, out, task, candidate) ==
    /\ pc[p] = "idle"
    /\ Current(from, task)
    /\ LET j == NewJob(out, task, candidate, 0)
       IN IF WellBound(task, candidate)
          THEN /\ pc' = [pc EXCEPT ![p] = "checking"]
               /\ job' = [job EXCEPT ![p] = j]
               /\ UNCHANGED <<log, decisionFiles>>
          ELSE Decide(p, "DENY", j)
    /\ held' = [held EXCEPT ![p] = {<<f, workspace[f]>> : f \in Inside}]
    /\ UNCHANGED <<tasks, workspace, edits, stateFile>>

\* One declared change is compared with the file at its path.
CheckChange(p) ==
    LET j == job[p]
        c == j.candidate.body.changes[j.item]
    IN
    /\ pc[p] = "checking"
    /\ j.item <= Len(j.candidate.body.changes)
    /\ IF c.path \notin Inside
       THEN Decide(p, "DENY", j)
       ELSE /\ job' = [job EXCEPT ![p] =
                  IF ChangeHolds(c)
                  THEN [j EXCEPT !.item = @ + 1, !.changes = Append(@, c)]
                  ELSE [j EXCEPT !.item = @ + 1, !.doubt = TRUE]]
            /\ UNCHANGED <<log, pc, decisionFiles>>
    /\ UNCHANGED <<tasks, workspace, edits, stateFile, held>>

\* One declared fact is resolved in the file at its path.
CheckFact(p) ==
    LET j == job[p]
        body == j.candidate.body
        f == body.facts[j.item - Len(body.changes)]
    IN
    /\ pc[p] = "checking"
    /\ Len(body.changes) < j.item /\ j.item <= Len(body.changes) + Len(body.facts)
    /\ IF f.path \notin Inside
       THEN Decide(p, "DENY", j)
       ELSE /\ job' = [job EXCEPT ![p] =
                  IF FactHolds(f)
                  THEN [j EXCEPT !.item = @ + 1, !.facts = Append(@, f)]
                  ELSE [j EXCEPT !.item = @ + 1, !.doubt = TRUE]]
            /\ UNCHANGED <<log, pc, decisionFiles>>
    /\ UNCHANGED <<tasks, workspace, edits, stateFile, held>>

\* All items are checked: claims and unresolved items settle the verdict.
Conclude(p) ==
    LET j == job[p] IN
    /\ pc[p] = "checking"
    /\ j.item > Len(j.candidate.body.changes) + Len(j.candidate.body.facts)
    /\ Verdict(j) = "COMMIT" => Len(Recorded(log, NextState(j, MakeDecision("COMMIT", j)))) <= MaxLog
    /\ Decide(p, Verdict(j), j)
    /\ UNCHANGED <<tasks, workspace, edits, stateFile, held>>

\* The decision is written; only a COMMIT goes on to state.json.  Over the text of
\* another command that wrote meanwhile it may leave a tail of that text behind: it is
\* not surely complete, and the command goes on all the same.
WriteDecision(p) ==
    LET j == job[p] IN
    /\ pc[p] = "decision open"
    /\ spoilt' = (spoilt \ {p}) \cup Openers(p, j.out)
    /\ IF j.decision.verdict = "COMMIT"
       THEN /\ pc' = [pc EXCEPT ![p] = "decided"]
            /\ IF p \in spoilt
               THEN mixed' = mixed \cup {j.out} /\ UNCHANGED published
               ELSE published' = published \cup {j.next} /\ UNCHANGED mixed
            /\ UNCHANGED <<job, held>>
       ELSE Idle(p) /\ UNCHANGED <<mixed, published>>
    /\ UNCHANGED <<log, tasks, workspace, edits, stateFile>>

OpenState(p) ==
    /\ pc[p] = "decided"
    /\ pc' = [pc EXCEPT ![p] = "state open"]
    /\ stateFile' = [stateFile EXCEPT ![job[p].out] = Torn]
    /\ UNCHANGED <<log, tasks, workspace, edits, decisionFiles, job, held>>

\* The same for the state: whole or, over another's text, with a tail of it; over
\* nothing, Torn is a write that is cut short.
WriteState(p) ==
    /\ pc[p] = "state open"
    /\ \E s \in {job[p].next, Torn} : stateFile' = [stateFile EXCEPT ![job[p].out] = s]
    /\ Idle(p)
    /\ UNCHANGED <<log, tasks, workspace, edits, decisionFiles>>

\* The process dies, or a file it was to read is gone: nothing more is written.
Crash(p) ==
    /\ pc[p] # "idle"
    /\ Idle(p)
    /\ spoilt' = spoilt \ {p}
    /\ UNCHANGED <<log, tasks, workspace, edits, stateFile, mixed, published>>

Next ==
    \/ \E f \in Inside, c \in Contents \cup {Absent} : EditWorkspace(f, c)
    \/ \E d \in Dirs, name \in Names : MakeTask(d, name)
    \/ \E p \in Procs, d \in Dirs : Initialize(p, d)
    \/ \E p \in Procs, from, out \in Dirs, task, other \in tasks, body \in Bodies :
          Begin(p, from, out, task, [task |-> other, body |-> body])
    \/ \E p \in Procs :
          \/ CheckChange(p) \/ CheckFact(p) \/ Conclude(p)
          \/ WriteDecision(p) \/ OpenState(p) \/ WriteState(p) \/ Crash(p)

Spec == Init /\ [][Next]_vars

----------------------------------------------------------------------------
(* Properties.                                                             *)

\* The decision d commits everything its candidate declares, made for the task
\* the decision is about: changes and facts verified, claims resting on them,
\* nothing left open.
CommitsAll(d) ==
    LET body == d.candidate.body IN
    /\ d.verdict = "COMMIT"
    /\ d.candidate.task = d.task
    /\ d.changes = body.changes /\ d.facts = body.facts
    /\ \A c \in body.claims : c \subseteq {d.facts[k].id : k \in DOMAIN d.facts}
    /\ ~body.unresolved

\* Every state but the first was made by such a decision, on an earlier state, for
\* a task handed out for that very state.
LineageCommitted ==
    \A i \in DOMAIN log :
        \/ log[i] = InitialState
        \/ /\ CommitsAll(log[i].decision)
           /\ log[i].decision.task \in tasks
           /\ log[i].decision.task.state = log[i].parent
           /\ log[i].parent \in 1..i-1
           /\ log[i].sequence = log[log[i].parent].sequence + 1

\* model_cli.py:72-84: a state file that can be read holds a state, and the decision that
\* made it has been complete on disk before it, whatever crashed in between and whoever
\* else was verifying; except in a directory where two had decision.json open at once and
\* a COMMIT landed over the other's text, as nothing keeps them from it.
DecisionPrecedesState ==
    \A d \in Dirs : stateFile[d] \notin {Absent, Torn} =>
        /\ stateFile[d] \in DOMAIN log
        /\ d \notin mixed => stateFile[d] \in published

\* MODEL_HANDOFF.md: "COMMIT means every declared file state and fact checked
\* out": each was what the workspace held at some moment of the verification,
\* while the workspace may have been edited all along.
CommitsObserved ==
    \A p \in Procs :
        pc[p] = "decision open" /\ job[p].decision.verdict = "COMMIT" =>
            LET body == job[p].candidate.body IN
            /\ \A i \in DOMAIN body.changes :
                  <<body.changes[i].path, body.changes[i].content>> \in held[p]
            /\ \A i \in DOMAIN body.facts :
                  /\ <<body.facts[i].path, body.facts[i].content>> \in held[p]
                  /\ Reads[body.facts[i].content] = body.facts[i].value

\* The last n distinct items of a history, in the order of their last occurrence.
Latest(h, key, n) ==
    LET all == At(h, {k \in DOMAIN h : \A m \in k+1..Len(h) : h[m][key] # h[k][key]})
        drop == IF Len(all) > n THEN Len(all) - n ELSE 0
    IN SubSeq(all, drop + 1, Len(all))

\* What the decisions on the way from the initial state to each state committed, in
\* their order.
History(field) ==
    LET history[i \in DOMAIN log] ==
            IF log[i] = InitialState THEN <<>>
            ELSE history[log[i].parent] \o log[i].decision[field]
    IN history

\* What a state carries is what its whole lineage verified, latest last and the
\* oldest forgotten: merging state by state loses and reorders nothing else.
LatestCarried ==
    \A i \in DOMAIN log :
        /\ log[i].facts = Latest(History("facts")[i], "id", MaxFacts)
        /\ log[i].files = Latest(History("changes")[i], "path", MaxFiles)

----------------------------------------------------------------------------
(* What the log and the files say of the lineage, half-done steps apart.   *)

Commits ==
    [i \in 1..Len(log) - 1 |->
        [task |-> log[i + 1].decision.task, body |-> log[i + 1].decision.candidate.body]]

Shown == [d \in {e \in Dirs : stateFile[e] \notin {Absent, Torn}} |-> stateFile[d]]

Watching ==
    [p \in {q \in Procs : pc[q] = "checking"} |-> [task |-> job[p].task, seen |-> held[p]]]

Promise ==
    INSTANCE Lineage WITH commits <- Commits, shown <- Shown, watching <- Watching

\* A verification takes many steps, while the workspace is edited, others verify, files
\* are half written and commands die; and it is as if its state were committed in
\* one step, once, from what it saw since its task was read (MODEL_HANDOFF.md: only
\* "receiver-verified facts and file hashes from the last committed state" go on).
ImplementsLineage == Promise!Spec
=============================================================================
