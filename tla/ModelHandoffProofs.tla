------------------------- MODULE ModelHandoffProofs -------------------------
(***************************************************************************)
(* Proofs about ModelHandoff for every number of commands, directories,    *)
(* files, candidates and edits, and without the bounds on log and edits.   *)
(*                                                                         *)
(* IInv, about the log only as a sequence, comes first.  What the states   *)
(* carry is a second invariant on top of it, CarriedInv: it rests on what  *)
(* _merge does to the latest items of a history (MergeLatest).  A third,   *)
(* MadeInv, says which commit made each state, so that none is made twice: *)
(* with it every step is one of the abstract Lineage, or none.             *)
(***************************************************************************)
EXTENDS ModelHandoff, SequenceTheorems, FiniteSetTheorems, WellFoundedInduction, TLAPS

\* The state at position i may be shown in directory d: its decision has been
\* complete, or decisions there have been written over one another.
Presentable(d, i) == i \in DOMAIN log /\ (d \notin mixed => i \in published)

\* The shared state: the log starts with the initial state, tasks are for states
\* in it, and what is on disk is a state that may be shown there.
SharedInv ==
    /\ \E S : log \in Seq(S)
    /\ 1 \in DOMAIN log /\ log[1] = InitialState
    /\ tasks \subseteq [state: DOMAIN log, name: Names]
    /\ 1 \in published /\ published \subseteq DOMAIN log
    /\ spoilt \subseteq Procs /\ mixed \subseteq Dirs
    /\ stateFile \in [Dirs -> DOMAIN log \cup {Absent, Torn}]
    /\ \A d \in Dirs : stateFile[d] \notin {Absent, Torn} => Presentable(d, stateFile[d])

\* Everything of TypeOK about the workspace and the commands.
LocalInv ==
    /\ workspace \in [Inside -> Contents \cup {Absent}]
    /\ pc \in [Procs -> Points]
    /\ job \in [Procs -> Job \cup {None}]
    /\ \A p \in Procs : pc[p] # "idle" => job[p] \in Job
    /\ held \in [Procs -> SUBSET (Inside \X (Contents \cup {Absent}))]

\* What the workspace is known to have held when the first k-1 items of a
\* candidate's changes, or of its facts, have been checked without a doubt.
ChangesHeld(p, body, k) ==
    \A i \in DOMAIN body.changes : i < k =>
        <<body.changes[i].path, body.changes[i].content>> \in held[p]

FactsHeld(p, body, k) ==
    \A i \in DOMAIN body.facts : Len(body.changes) + i < k =>
        /\ <<body.facts[i].path, body.facts[i].content>> \in held[p]
        /\ Reads[body.facts[i].content] = body.facts[i].value

\* The verified lists are prefixes of the declared ones.
Copied(verified, declared, n) ==
    /\ Len(verified) = n
    /\ \A i \in 1..n : verified[i] = declared[i]

Checked(p, j) ==
    LET body == j.candidate.body
        n == Len(body.changes)
    IN
    /\ j.task \in tasks /\ j.candidate \in Candidate /\ j.candidate.task = j.task
    /\ j.item \in 1..(n + Len(body.facts) + 1)
    /\ ~j.doubt =>
          /\ ChangesHeld(p, body, j.item) /\ FactsHeld(p, body, j.item)
          /\ Copied(j.changes, body.changes, IF j.item <= n THEN j.item - 1 ELSE n)
          /\ Copied(j.facts, body.facts, IF j.item <= n THEN 0 ELSE j.item - 1 - n)

\* A COMMIT still to be written: its state is known and everything was held.
Observed(p, j) ==
    /\ j.next \in DOMAIN log
    /\ \A i \in DOMAIN j.candidate.body.changes :
          <<j.candidate.body.changes[i].path, j.candidate.body.changes[i].content>> \in held[p]
    /\ \A i \in DOMAIN j.candidate.body.facts :
          /\ <<j.candidate.body.facts[i].path, j.candidate.body.facts[i].content>> \in held[p]
          /\ Reads[j.candidate.body.facts[i].content] = j.candidate.body.facts[i].value

ProcInv(p) ==
    /\ pc[p] = "checking" =>
          Checked(p, job[p]) /\ \A f \in Inside : <<f, workspace[f]>> \in held[p]
    /\ pc[p] = "decision open" /\ job[p].decision.verdict = "COMMIT" => Observed(p, job[p])
    /\ pc[p] \in {"decided", "state open"} => Presentable(job[p].out, job[p].next)

IInv == SharedInv /\ LocalInv /\ LineageCommitted /\ \A p \in Procs : ProcInv(p)

----------------------------------------------------------------------------
(* Lemmas.                                                                 *)

\* A sequence that copies all of another one is that one.
LEMMA CopiedIsEqual ==
    ASSUME NEW S, NEW s \in Seq(S), NEW t \in Seq(S), Copied(t, s, Len(s))
    PROVE  t = s
BY DEF Copied

\* Copying one item more.
LEMMA CopyOneMore ==
    ASSUME NEW S, NEW s \in Seq(S), NEW t \in Seq(S), NEW n \in Nat, n < Len(s),
           Copied(t, s, n)
    PROVE  Copied(Append(t, s[n+1]), s, n + 1)
BY DEF Copied

\* The parts of a declared body.
LEMMA BodyTyped ==
    ASSUME NEW c \in Candidate
    PROVE  /\ c.body \in Bodies
           /\ c.body.changes \in Seq(ChangeDecl) /\ c.body.facts \in Seq(FactDecl)
           /\ Len(c.body.changes) \in Nat /\ Len(c.body.facts) \in Nat
<1>1. c.body \in Body
  BY HandoffConstants DEF Candidate
<1> QED
  BY <1>1 DEF Body, Candidate

\* Recording a state keeps the log, or adds the state behind it; its position is
\* where it then is.
LEMMA Recording ==
    ASSUME NEW l, NEW s, \E S : l \in Seq(S)
    PROVE  /\ \E S : Recorded(l, s) \in Seq(S)
           /\ DOMAIN l \subseteq DOMAIN Recorded(l, s)
           /\ \A i \in DOMAIN l : Recorded(l, s)[i] = l[i]
           /\ \A i \in DOMAIN Recorded(l, s) :
                 i \in DOMAIN l \/ (Recorded(l, s)[i] = s /\ i = Len(l) + 1)
           /\ Position(l, s) \in DOMAIN Recorded(l, s)
           /\ Position(l, s) \in Nat
           /\ DOMAIN l \subseteq Nat
<1>1. PICK S : l \in Seq(S)
  OBVIOUS
<1>2. CASE \E i \in DOMAIN l : l[i] = s
  <2>1. Recorded(l, s) = l /\ Position(l, s) \in DOMAIN l
    BY <1>2 DEF Recorded, Position
  <2> QED
    BY <1>1, <2>1
<1>3. CASE ~\E i \in DOMAIN l : l[i] = s
  <2>1. Recorded(l, s) = Append(l, s) /\ Position(l, s) = Len(l) + 1
    BY <1>3 DEF Recorded, Position
  <2>2. l \in Seq(S \cup {s})
    BY <1>1
  <2>3. Append(l, s) \in Seq(S \cup {s}) /\ Len(Append(l, s)) = Len(l) + 1
    BY <2>2
  <2>4. DOMAIN Append(l, s) = 1..Len(l) + 1 /\ DOMAIN l = 1..Len(l) /\ Len(l) \in Nat
    BY <2>2, <2>3
  <2>5. \A i \in DOMAIN l : Append(l, s)[i] = l[i]
    BY <2>2, <2>4
  <2>6. Append(l, s)[Len(l) + 1] = s
    BY <2>2
  <2> QED
    BY <2>1, <2>3, <2>4, <2>5, <2>6
<1> QED
  BY <1>2, <1>3

\* What a command knows stays true while others act: logs, tasks, publications, mixed
\* directories and what the workspace has held only grow.
LEMMA KnowledgeStays ==
    ASSUME NEW q \in Procs, ProcInv(q), pc'[q] = pc[q], job'[q] = job[q],
           held[q] \subseteq held'[q],
           pc[q] = "checking" =>
              \A f \in Inside : workspace'[f] = workspace[f] \/ <<f, workspace'[f]>> \in held'[q],
           tasks \subseteq tasks', published \subseteq published', mixed \subseteq mixed',
           DOMAIN log \subseteq DOMAIN log'
    PROVE  ProcInv(q)'
BY DEF ProcInv, Checked, Observed, ChangesHeld, FactsHeld, Presentable

\* Deciding: the log stays a lineage of complete commits, and on COMMIT the
\* command knows the position of its state.
LEMMA Deciding ==
    ASSUME SharedInv, LocalInv, LineageCommitted,
           NEW p \in Procs, NEW j \in Job, NEW verdict \in {"COMMIT", "QUARANTINE", "DENY"},
           j.task \in tasks, j.candidate \in Candidate,
           verdict = "COMMIT" => CommitsAll(MakeDecision(verdict, j)),
           Decide(p, verdict, j), UNCHANGED <<tasks, stateFile>>
    PROVE  /\ SharedInv' /\ LineageCommitted'
           /\ DOMAIN log \subseteq DOMAIN log'
           /\ pc' = [pc EXCEPT ![p] = "decision open"]
           /\ \A q \in Procs : q # p => job'[q] = job[q]
           /\ job' \in [Procs -> Job \cup {None}] /\ job'[p] \in Job
           /\ job'[p].candidate = j.candidate
           /\ job'[p].decision.verdict = verdict
           /\ verdict = "COMMIT" => job'[p].next \in DOMAIN log'
           /\ UNCHANGED <<mixed, published>>
<1> DEFINE d == MakeDecision(verdict, j)
           s == NextState(j, d)
           pos == IF verdict = "COMMIT" THEN Position(log, s) ELSE j.next
           j1 == [j EXCEPT !.decision = d, !.next = pos]
<1>1. /\ log' = IF verdict = "COMMIT" THEN Recorded(log, s) ELSE log
      /\ job' = [job EXCEPT ![p] = j1]
      /\ pc' = [pc EXCEPT ![p] = "decision open"]
      /\ spoilt' \subseteq spoilt /\ UNCHANGED <<mixed, published>>
  BY DEF Decide, OpenDecision
<1>2. d \in Decision /\ d.verdict = verdict /\ d.task = j.task
  <2>1. j.task \in Task /\ j.changes \in Seq(ChangeDecl) /\ j.facts \in Seq(FactDecl)
    <3>1. j.task \in [state: DOMAIN log, name: Names] /\ DOMAIN log \subseteq Nat
      BY DEF SharedInv
    <3> QED
      BY <3>1 DEF Task, Job
  <2> QED
    BY <2>1 DEF MakeDecision, Decision
<1>3. /\ s.decision = d /\ s.parent = j.task.state
      /\ s.sequence = log[j.task.state].sequence + 1
  BY DEF NextState
<1>4. /\ \E S : Recorded(log, s) \in Seq(S)
      /\ DOMAIN log \subseteq DOMAIN Recorded(log, s)
      /\ \A i \in DOMAIN log : Recorded(log, s)[i] = log[i]
      /\ \A i \in DOMAIN Recorded(log, s) :
            i \in DOMAIN log \/ (Recorded(log, s)[i] = s /\ i = Len(log) + 1)
      /\ Position(log, s) \in DOMAIN Recorded(log, s)
      /\ Position(log, s) \in Nat
      /\ DOMAIN log \subseteq Nat
  BY Recording DEF SharedInv
<1> HIDE DEF d, s
<1>5. DOMAIN log \subseteq DOMAIN log' /\ \A i \in DOMAIN log : log'[i] = log[i]
  BY <1>1, <1>4
<1>6. SharedInv'
  BY <1>1, <1>4, <1>5 DEF SharedInv, Presentable
<1>7. j1 \in Job /\ j1.candidate = j.candidate /\ j1.decision = d /\ j1.next = pos
  BY <1>2, <1>4 DEF Job
<1>8. /\ job' \in [Procs -> Job \cup {None}] /\ job'[p] = j1
      /\ \A q \in Procs : q # p => job'[q] = job[q]
  BY <1>1, <1>7 DEF LocalInv
<1>9. verdict = "COMMIT" => pos \in DOMAIN log'
  BY <1>1, <1>4
<1>10. LineageCommitted'
  <2> SUFFICES ASSUME NEW i \in DOMAIN log', log'[i] # InitialState
               PROVE  /\ CommitsAll(log'[i].decision)
                      /\ log'[i].decision.task \in tasks
                      /\ log'[i].decision.task.state = log'[i].parent
                      /\ log'[i].parent \in 1..i-1
                      /\ log'[i].sequence = log'[log'[i].parent].sequence + 1
    BY DEF LineageCommitted, CommitsAll
  <2>0. PICK S : log \in Seq(S)
    BY DEF SharedInv
  <2>1. CASE i \in DOMAIN log
    <3>1. log'[i] = log[i] /\ log[i].parent \in 1..i-1 /\ 1..i-1 \subseteq DOMAIN log
      BY <1>5, <2>0, <2>1 DEF LineageCommitted
    <3>2. log'[log[i].parent] = log[log[i].parent]
      BY <1>5, <3>1
    <3> QED
      BY <2>1, <3>1, <3>2 DEF LineageCommitted
  <2>2. CASE i \notin DOMAIN log
    <3>1. verdict = "COMMIT" /\ log'[i] = s /\ i = Len(log) + 1
      BY <1>1, <1>4, <2>2
    <3>2. CommitsAll(d) /\ d.task \in tasks
      BY <1>2, <3>1 DEF d
    <3>3. j.task.state \in DOMAIN log
      BY DEF SharedInv
    <3>4. j.task.state \in 1..i-1 /\ log'[j.task.state] = log[j.task.state]
      BY <1>5, <2>0, <3>1, <3>3
    <3> QED
      BY <1>2, <1>3, <3>1, <3>2, <3>4
  <2> QED
    BY <2>1, <2>2
<1> QED
  BY <1>1, <1>2, <1>5, <1>6, <1>7, <1>8, <1>9, <1>10

----------------------------------------------------------------------------
(* The steps.                                                              *)

LEMMA InitSafe == Init => IInv
<1> SUFFICES ASSUME Init PROVE IInv
  OBVIOUS
<1>1. log \in Seq({InitialState}) /\ DOMAIN log = {1} /\ log[1] = InitialState
  BY DEF Init
<1>2. SharedInv
  BY <1>1 DEF Init, SharedInv
<1>3. LocalInv
  BY HandoffConstants DEF Init, LocalInv, Points
<1>4. LineageCommitted
  BY <1>1 DEF LineageCommitted
<1> QED
  BY <1>2, <1>3, <1>4 DEF Init, IInv, ProcInv

\* The log and the tasks untouched, the lineage is.
LEMMA LineageStays ==
    ASSUME LineageCommitted, log' = log, tasks \subseteq tasks'
    PROVE  LineageCommitted'
BY DEF LineageCommitted, CommitsAll

LEMMA EditSafe ==
    ASSUME IInv, NEW f \in Inside, NEW c \in Contents \cup {Absent}, EditWorkspace(f, c)
    PROVE  IInv'
<1> USE DEF IInv, EditWorkspace, disk, decisionFiles
<1>1. SharedInv'
  BY DEF SharedInv, Presentable
<1>2. LocalInv'
  BY DEF LocalInv
<1>3. LineageCommitted'
  BY LineageStays
<1>4. ASSUME NEW q \in Procs PROVE ProcInv(q)'
  <2>1. held[q] \subseteq held'[q]
    BY <1>4
  <2>2. pc[q] = "checking" =>
          \A g \in Inside : workspace'[g] = workspace[g] \/ <<g, workspace'[g]>> \in held'[q]
    BY <1>4 DEF LocalInv
  <2> QED
    BY <1>4, <2>1, <2>2, KnowledgeStays
<1> QED
  BY <1>1, <1>2, <1>3, <1>4

LEMMA TaskSafe ==
    ASSUME IInv, NEW d \in Dirs, NEW name \in Names, MakeTask(d, name)
    PROVE  IInv'
<1> USE DEF IInv, MakeTask, disk, decisionFiles
<1>1. SharedInv'
  BY DEF SharedInv, Presentable
<1>2. LocalInv'
  BY DEF LocalInv
<1>3. LineageCommitted'
  BY LineageStays
<1>4. \A q \in Procs : ProcInv(q)'
  BY KnowledgeStays
<1> QED
  BY <1>1, <1>2, <1>3, <1>4

LEMMA NewJobTyped ==
    ASSUME NEW d \in Dirs, NEW task \in Task \cup {None},
           NEW candidate \in Candidate \cup {None}, NEW next \in Nat
    PROVE  /\ NewJob(d, task, candidate, next) \in Job
           /\ NewJob(d, task, candidate, next).task = task
           /\ NewJob(d, task, candidate, next).candidate = candidate
           /\ NewJob(d, task, candidate, next).next = next
           /\ NewJob(d, task, candidate, next).item = 1
           /\ NewJob(d, task, candidate, next).changes = <<>>
           /\ NewJob(d, task, candidate, next).facts = <<>>
BY DEF NewJob, Job

LEMMA InitializeSafe ==
    ASSUME IInv, NEW p \in Procs, NEW d \in Dirs, Initialize(p, d)
    PROVE  IInv'
<1> USE DEF IInv, Initialize, decisionFiles
<1>1. SharedInv'
  BY DEF SharedInv, Presentable
<1>2. LocalInv'
  BY NewJobTyped DEF LocalInv, Points
<1>3. LineageCommitted'
  BY LineageStays
<1>4. ASSUME NEW q \in Procs PROVE ProcInv(q)'
  <2>1. CASE q = p
    <3>0. NewJob(d, None, None, 1).next = 1
      BY DEF NewJob
    <3>1. pc'[p] = "state open" /\ job'[p].next = 1
      BY <3>0 DEF LocalInv
    <3>2. \A e : Presentable(e, 1)'
      BY DEF SharedInv, Presentable
    <3> QED
      BY ONLY <2>1, <3>1, <3>2 DEF ProcInv
  <2>2. CASE q # p
    BY <1>4, <2>2, KnowledgeStays DEF LocalInv
  <2> QED
    BY <2>1, <2>2
<1> QED
  BY <1>1, <1>2, <1>3, <1>4

\* What every action that decides leaves: the invariant, if the COMMIT observed
\* everything and the others saw held only grow.
LEMMA DecidedSafe ==
    ASSUME IInv,
           NEW p \in Procs, NEW j \in Job, NEW verdict \in {"COMMIT", "QUARANTINE", "DENY"},
           j.task \in tasks, j.candidate \in Candidate,
           verdict = "COMMIT" =>
              /\ CommitsAll(MakeDecision(verdict, j))
              /\ ChangesHeld(p, j.candidate.body, j.item)
              /\ FactsHeld(p, j.candidate.body, j.item)
              /\ j.item > Len(j.candidate.body.changes) + Len(j.candidate.body.facts)
              /\ held' = held,
           Decide(p, verdict, j),
           UNCHANGED <<tasks, workspace, stateFile>>,
           held' \in [Procs -> SUBSET (Inside \X (Contents \cup {Absent}))],
           \A q \in Procs : q # p => held'[q] = held[q]
    PROVE  IInv'
<1>1. /\ SharedInv' /\ LineageCommitted'
      /\ DOMAIN log \subseteq DOMAIN log'
      /\ pc' = [pc EXCEPT ![p] = "decision open"]
      /\ \A q \in Procs : q # p => job'[q] = job[q]
      /\ job' \in [Procs -> Job \cup {None}] /\ job'[p] \in Job
      /\ job'[p].candidate = j.candidate
      /\ job'[p].decision.verdict = verdict
      /\ verdict = "COMMIT" => job'[p].next \in DOMAIN log'
      /\ UNCHANGED <<mixed, published>>
  <2>1. SharedInv /\ LocalInv /\ LineageCommitted
    BY DEF IInv
  <2>2. UNCHANGED <<tasks, stateFile>>
    OBVIOUS
  <2>3. verdict = "COMMIT" => CommitsAll(MakeDecision(verdict, j))
    OBVIOUS
  <2>4. Decide(p, verdict, j)
    OBVIOUS
  <2> QED
    BY ONLY <2>1, <2>2, <2>3, <2>4, Deciding, j \in Job, p \in Procs,
       verdict \in {"COMMIT", "QUARANTINE", "DENY"}, j.task \in tasks, j.candidate \in Candidate
<1>2. LocalInv'
  <2>1. pc' \in [Procs -> Points] /\ workspace' \in [Inside -> Contents \cup {Absent}]
    BY <1>1 DEF IInv, LocalInv, Points
  <2>2. \A q \in Procs : pc'[q] # "idle" => job'[q] \in Job
    BY <1>1 DEF IInv, LocalInv
  <2> QED
    BY <1>1, <2>1, <2>2 DEF LocalInv
<1>3. ASSUME NEW q \in Procs PROVE ProcInv(q)'
  <2>1. CASE q # p
    <3>1. pc'[q] = pc[q] /\ job'[q] = job[q] /\ held'[q] = held[q] /\ ProcInv(q)
      BY <1>1, <2>1 DEF IInv, LocalInv
    <3> QED
      BY <1>1, <3>1, KnowledgeStays
  <2>2. CASE q = p
    <3>1. pc'[p] = "decision open"
      BY <1>1 DEF IInv, LocalInv
    <3>2. ASSUME verdict = "COMMIT" PROVE Observed(p, job[p])'
      <4> DEFINE cs == j.candidate.body.changes
                 fs == j.candidate.body.facts
      <4>0. j.item > Len(cs) + Len(fs)
        BY <3>2
      <4>1. cs \in Seq(ChangeDecl) /\ fs \in Seq(FactDecl) /\ j.item \in Nat
        BY BodyTyped DEF Job
      <4> HIDE DEF cs, fs
      <4>2. \A i \in DOMAIN cs : i < j.item
        BY <4>0, <4>1
      <4>3. \A i \in DOMAIN fs : Len(cs) + i < j.item
        BY <4>0, <4>1
      <4> QED
        BY <1>1, <3>2, <4>2, <4>3 DEF Observed, ChangesHeld, FactsHeld, cs, fs
    <3> QED
      BY <1>1, <2>2, <3>1, <3>2 DEF ProcInv
  <2> QED
    BY <2>1, <2>2
<1> QED
  BY <1>1, <1>2, <1>3 DEF IInv

LEMMA BeginSafe ==
    ASSUME IInv, NEW p \in Procs, NEW from \in Dirs, NEW out \in Dirs, NEW task \in tasks,
           NEW candidate \in Candidate, Begin(p, from, out, task, candidate)
    PROVE  IInv'
<1> DEFINE j == NewJob(out, task, candidate, 0)
<1>1. /\ j \in Job /\ j.task = task /\ j.candidate = candidate /\ j.item = 1
      /\ j.changes = <<>> /\ j.facts = <<>>
  <2>1. task \in Task
    <3>1. task \in [state: DOMAIN log, name: Names] /\ DOMAIN log \subseteq Nat
      BY Recording DEF IInv, SharedInv
    <3> QED
      BY <3>1 DEF Task
  <2> QED
    BY <2>1, NewJobTyped
<1>2. /\ held' = [held EXCEPT ![p] = {<<f, workspace[f]>> : f \in Inside}]
      /\ UNCHANGED <<tasks, workspace, stateFile>>
  BY DEF Begin
<1>3. held' \in [Procs -> SUBSET (Inside \X (Contents \cup {Absent}))]
  BY <1>2 DEF IInv, LocalInv
<1>4. \A q \in Procs : q # p => held'[q] = held[q]
  BY <1>2 DEF IInv, LocalInv
<1>5. CASE ~WellBound(task, candidate)
  <2>1. Decide(p, "DENY", j)
    BY <1>5 DEF Begin
  <2> HIDE DEF j
  <2> QED
    BY <1>1, <1>2, <1>3, <1>4, <2>1, DecidedSafe
<1>6. CASE WellBound(task, candidate)
  <2>1. /\ pc' = [pc EXCEPT ![p] = "checking"]
        /\ job' = [job EXCEPT ![p] = j]
        /\ log' = log
        /\ UNCHANGED <<spoilt, mixed, published>>
    BY <1>6 DEF Begin, decisionFiles
  <2> HIDE DEF j
  <2>2. SharedInv'
    BY <1>2, <2>1 DEF IInv, SharedInv, Presentable
  <2>3. LocalInv'
    BY <1>1, <1>2, <1>3, <2>1 DEF IInv, LocalInv, Points
  <2>4. LineageCommitted'
    BY <1>2, <2>1, LineageStays DEF IInv
  <2>5. ASSUME NEW q \in Procs PROVE ProcInv(q)'
    <3>1. CASE q # p
      <4>1. pc'[q] = pc[q] /\ job'[q] = job[q] /\ held'[q] = held[q] /\ ProcInv(q)
        BY <1>4, <2>1, <3>1 DEF IInv, LocalInv
      <4> QED
        BY <1>2, <2>1, <4>1, KnowledgeStays
    <3>2. CASE q = p
      <4>1. pc'[p] = "checking" /\ job'[p] = j
        BY <2>1 DEF IInv, LocalInv
      <4>2. \A f \in Inside : <<f, workspace'[f]>> \in held'[p]
        BY <1>2 DEF IInv, LocalInv
      <4>3. Checked(p, j)'
        <5>1. Copied(<<>>, candidate.body.changes, 0) /\ Copied(<<>>, candidate.body.facts, 0)
          BY DEF Copied
        <5>2. candidate.task = task
          BY <1>6 DEF WellBound
        <5>3. ChangesHeld(p, candidate.body, 1)' /\ FactsHeld(p, candidate.body, 1)'
          BY BodyTyped DEF ChangesHeld, FactsHeld
        <5> DEFINE n == Len(candidate.body.changes)
                   m == Len(candidate.body.facts)
        <5>6. n \in Nat /\ m \in Nat
          BY BodyTyped
        <5> HIDE DEF n, m
        <5>4. 1 \in 1..(n + m + 1)
          BY <5>6
        <5>5. /\ (IF 1 <= n THEN 1 - 1 ELSE n) = 0
              /\ (IF 1 <= n THEN 0 ELSE 1 - 1 - n) = 0
          BY <5>6
        <5> QED
          BY <1>1, <1>2, <5>1, <5>2, <5>3, <5>4, <5>5 DEF Checked, n, m
      <4> QED
        BY <3>2, <4>1, <4>2, <4>3 DEF ProcInv
    <3> QED
      BY <3>1, <3>2
  <2> QED
    BY <2>2, <2>3, <2>4, <2>5 DEF IInv
<1> QED
  BY <1>5, <1>6

\* The item at a command's hand, and what the workspace holds of it.
LEMMA CheckChangeSafe ==
    ASSUME IInv, NEW p \in Procs, CheckChange(p)
    PROVE  IInv'
<1>0. PICK j : j = job[p]
  OBVIOUS
<1> DEFINE body == j.candidate.body
           n == Len(body.changes)
           m == Len(body.facts)
           c == body.changes[j.item]
<1>1. /\ pc[p] = "checking" /\ j.item <= n
      /\ UNCHANGED <<tasks, workspace, edits, stateFile, held>>
  BY <1>0 DEF CheckChange
<1>2. j \in Job /\ Checked(p, j) /\ \A f \in Inside : <<f, workspace[f]>> \in held[p]
  BY <1>0, <1>1 DEF IInv, LocalInv, ProcInv
<1>3. /\ j.candidate \in Candidate /\ j.task \in tasks /\ j.item \in Nat /\ j.item >= 1
      /\ n \in Nat /\ m \in Nat
      /\ body.changes \in Seq(ChangeDecl) /\ body.facts \in Seq(FactDecl)
  <2>1. j.candidate \in Candidate /\ j.task \in tasks /\ j.item \in 1..(n + m + 1)
    BY <1>2 DEF Checked
  <2>2. /\ n \in Nat /\ m \in Nat
        /\ body.changes \in Seq(ChangeDecl) /\ body.facts \in Seq(FactDecl)
    BY <2>1, BodyTyped
  <2> HIDE DEF n, m
  <2> QED
    BY <2>1, <2>2 DEF body
<1>4. c \in ChangeDecl
  <2> HIDE DEF body
  <2> QED
    BY <1>1, <1>3 DEF n
<1>5. CASE c.path \notin Inside
  <2>1. Decide(p, "DENY", j)
    BY <1>0, <1>5 DEF CheckChange
  <2>2. held \in [Procs -> SUBSET (Inside \X (Contents \cup {Absent}))]
    BY DEF IInv, LocalInv
  <2> QED
    BY <1>1, <1>2, <1>3, <2>1, <2>2, DecidedSafe
<1>6. CASE c.path \in Inside
  <2>0. PICK j1 : j1 = IF ChangeHolds(c)
                       THEN [j EXCEPT !.item = j.item + 1, !.changes = Append(j.changes, c)]
                       ELSE [j EXCEPT !.item = j.item + 1, !.doubt = TRUE]
    OBVIOUS
  <2>1. /\ job' = [job EXCEPT ![p] = j1] /\ log' = log /\ pc' = pc
        /\ UNCHANGED <<spoilt, mixed, published>>
    BY <1>0, <1>6, <2>0 DEF CheckChange, decisionFiles
  <2>2. /\ j1 \in Job /\ j1.item = j.item + 1 /\ j1.task = j.task
        /\ j1.candidate = j.candidate /\ j1.facts = j.facts
        /\ ~j1.doubt => ~j.doubt /\ ChangeHolds(c) /\ j1.changes = Append(j.changes, c)
    <3>1. j \in Job /\ j.item + 1 \in Nat /\ Append(j.changes, c) \in Seq(ChangeDecl)
      BY <1>2, <1>3, <1>4 DEF Job
    <3> QED
      BY <2>0, <3>1 DEF Job
  <2>3. SharedInv' /\ LineageCommitted'
    BY <1>1, <2>1, LineageStays DEF IInv, SharedInv, Presentable
  <2>4. LocalInv' /\ job'[p] = j1 /\ \A q \in Procs : q # p => job'[q] = job[q]
    BY <1>1, <2>1, <2>2 DEF IInv, LocalInv
  <2>5. Checked(p, j1)'
    <3>1. /\ j1.task \in tasks' /\ j1.candidate \in Candidate /\ j1.candidate.task = j1.task
          /\ j1.item \in 1..(n + m + 1)
      <4>1. j.candidate.task = j.task
        BY <1>2 DEF Checked
      <4>2. j.item + 1 \in 1..(n + m + 1)
        <5> HIDE DEF n, m
        <5> QED
          BY <1>1, <1>3
      <4> QED
        BY <1>1, <1>3, <2>2, <4>1, <4>2
    <3>2. ASSUME ~j1.doubt
          PROVE  /\ ChangesHeld(p, body, j1.item)' /\ FactsHeld(p, body, j1.item)'
                 /\ Copied(j1.changes, body.changes, IF j1.item <= n THEN j1.item - 1 ELSE n)
                 /\ Copied(j1.facts, body.facts, IF j1.item <= n THEN 0 ELSE j1.item - 1 - n)
      <4>1. /\ ChangesHeld(p, body, j.item) /\ FactsHeld(p, body, j.item)
            /\ Copied(j.changes, body.changes, IF j.item <= n THEN j.item - 1 ELSE n)
            /\ Copied(j.facts, body.facts, IF j.item <= n THEN 0 ELSE j.item - 1 - n)
        BY <1>2, <2>2, <3>2 DEF Checked
      <4>2. <<c.path, c.content>> \in held'[p]
        BY <1>1, <1>2, <1>6, <2>2, <3>2 DEF ChangeHolds
      <4>3. ChangesHeld(p, body, j1.item)'
        <5> SUFFICES ASSUME NEW i \in DOMAIN body.changes, i < j.item + 1
                     PROVE  <<body.changes[i].path, body.changes[i].content>> \in held'[p]
          BY <2>2 DEF ChangesHeld
        <5>1. i \in Nat
          BY <1>3
        <5>2. CASE i = j.item
          BY <4>2, <5>2
        <5>3. CASE i # j.item
          <6>1. i < j.item
            BY <1>3, <5>1, <5>3
          <6> QED
            BY <1>1, <4>1, <6>1 DEF ChangesHeld
        <5> QED
          BY <5>2, <5>3
      <4>4. FactsHeld(p, body, j1.item)'
        <5> SUFFICES ASSUME NEW i \in DOMAIN body.facts, n + i < j.item + 1
                     PROVE  FALSE
          BY <2>2 DEF FactsHeld
        <5>1. i \in Nat /\ i >= 1
          BY <1>3
        <5> HIDE DEF n
        <5> QED
          BY <1>1, <1>3, <5>1
      <4>5. Copied(j1.changes, body.changes, j.item)
        <5>1. Copied(j.changes, body.changes, j.item - 1)
          BY <1>1, <4>1
        <5>2. j.changes \in Seq(ChangeDecl) /\ j.item - 1 \in Nat /\ j.item - 1 < n
              /\ (j.item - 1) + 1 = j.item
          <6>1. j.changes \in Seq(ChangeDecl)
            BY <1>2 DEF Job
          <6> HIDE DEF n
          <6> QED
            BY <1>1, <1>3, <6>1
        <5>3. Copied(Append(j.changes, body.changes[(j.item - 1) + 1]), body.changes,
                     (j.item - 1) + 1)
          <6> HIDE DEF body
          <6> QED
            BY <1>3, <5>1, <5>2, CopyOneMore DEF n
        <5> QED
          BY <2>2, <3>2, <5>2, <5>3
      <4>6. (IF j1.item <= n THEN j1.item - 1 ELSE n) = j.item
            /\ (IF j1.item <= n THEN 0 ELSE j1.item - 1 - n) = 0
            /\ (IF j.item <= n THEN 0 ELSE j.item - 1 - n) = 0
        <5> HIDE DEF n
        <5> QED
          BY <1>1, <1>3, <2>2
      <4> QED
        BY <2>2, <4>1, <4>3, <4>4, <4>5, <4>6
    <3> QED
      BY <2>2, <3>1, <3>2 DEF Checked
  <2>6. ASSUME NEW q \in Procs PROVE ProcInv(q)'
    <3>1. CASE q = p
      BY <1>1, <1>2, <2>1, <2>4, <2>5, <3>1 DEF ProcInv
    <3>2. CASE q # p
      BY <1>1, <2>1, <2>4, <3>2, KnowledgeStays DEF IInv
    <3> QED
      BY <3>1, <3>2
  <2> QED
    BY <2>3, <2>4, <2>6 DEF IInv
<1> QED
  BY <1>5, <1>6

LEMMA CheckFactSafe ==
    ASSUME IInv, NEW p \in Procs, CheckFact(p)
    PROVE  IInv'
<1>0. PICK j : j = job[p]
  OBVIOUS
<1> DEFINE body == j.candidate.body
           n == Len(body.changes)
           m == Len(body.facts)
           k == j.item - n
           f == body.facts[k]
<1>1. /\ pc[p] = "checking" /\ n < j.item /\ j.item <= n + m
      /\ UNCHANGED <<tasks, workspace, edits, stateFile, held>>
  BY <1>0 DEF CheckFact
<1>2. j \in Job /\ Checked(p, j) /\ \A g \in Inside : <<g, workspace[g]>> \in held[p]
  BY <1>0, <1>1 DEF IInv, LocalInv, ProcInv
<1>3. /\ j.candidate \in Candidate /\ j.task \in tasks /\ j.item \in Nat
      /\ n \in Nat /\ m \in Nat /\ k \in 1..m
      /\ body.changes \in Seq(ChangeDecl) /\ body.facts \in Seq(FactDecl)
  <2>1. j.candidate \in Candidate /\ j.task \in tasks /\ j.item \in 1..(n + m + 1)
    BY <1>2 DEF Checked
  <2>2. /\ n \in Nat /\ m \in Nat
        /\ body.changes \in Seq(ChangeDecl) /\ body.facts \in Seq(FactDecl)
    BY <2>1, BodyTyped
  <2> HIDE DEF n, m
  <2> QED
    BY <1>1, <2>1, <2>2 DEF body
<1>4. f \in FactDecl
  <2> HIDE DEF body, k
  <2> QED
    BY <1>3 DEF m
<1>5. CASE f.path \notin Inside
  <2>1. Decide(p, "DENY", j)
    BY <1>0, <1>5 DEF CheckFact
  <2>2. held \in [Procs -> SUBSET (Inside \X (Contents \cup {Absent}))]
    BY DEF IInv, LocalInv
  <2> QED
    BY <1>1, <1>2, <1>3, <2>1, <2>2, DecidedSafe
<1>6. CASE f.path \in Inside
  <2>0. PICK j1 : j1 = IF FactHolds(f)
                       THEN [j EXCEPT !.item = j.item + 1, !.facts = Append(j.facts, f)]
                       ELSE [j EXCEPT !.item = j.item + 1, !.doubt = TRUE]
    OBVIOUS
  <2>1. /\ job' = [job EXCEPT ![p] = j1] /\ log' = log /\ pc' = pc
        /\ UNCHANGED <<spoilt, mixed, published>>
    BY <1>0, <1>6, <2>0 DEF CheckFact, decisionFiles
  <2>2. /\ j1 \in Job /\ j1.item = j.item + 1 /\ j1.task = j.task
        /\ j1.candidate = j.candidate /\ j1.changes = j.changes
        /\ ~j1.doubt => ~j.doubt /\ FactHolds(f) /\ j1.facts = Append(j.facts, f)
    <3>1. j \in Job /\ j.item + 1 \in Nat /\ Append(j.facts, f) \in Seq(FactDecl)
      BY <1>2, <1>3, <1>4 DEF Job
    <3> QED
      BY <2>0, <3>1 DEF Job
  <2>3. SharedInv' /\ LineageCommitted'
    BY <1>1, <2>1, LineageStays DEF IInv, SharedInv, Presentable
  <2>4. LocalInv' /\ job'[p] = j1 /\ \A q \in Procs : q # p => job'[q] = job[q]
    BY <1>1, <2>1, <2>2 DEF IInv, LocalInv
  <2>5. Checked(p, j1)'
    <3>1. /\ j1.task \in tasks' /\ j1.candidate \in Candidate /\ j1.candidate.task = j1.task
          /\ j1.item \in 1..(n + m + 1)
      <4>1. j.candidate.task = j.task
        BY <1>2 DEF Checked
      <4>2. j.item + 1 \in 1..(n + m + 1)
        <5> HIDE DEF n, m
        <5> QED
          BY <1>1, <1>3
      <4> QED
        BY <1>1, <1>3, <2>2, <4>1, <4>2
    <3>2. ASSUME ~j1.doubt
          PROVE  /\ ChangesHeld(p, body, j1.item)' /\ FactsHeld(p, body, j1.item)'
                 /\ Copied(j1.changes, body.changes, IF j1.item <= n THEN j1.item - 1 ELSE n)
                 /\ Copied(j1.facts, body.facts, IF j1.item <= n THEN 0 ELSE j1.item - 1 - n)
      <4>0. /\ (IF j1.item <= n THEN j1.item - 1 ELSE n) = n
            /\ (IF j1.item <= n THEN 0 ELSE j1.item - 1 - n) = k
            /\ (IF j.item <= n THEN j.item - 1 ELSE n) = n
            /\ (IF j.item <= n THEN 0 ELSE j.item - 1 - n) = k - 1
        <5> HIDE DEF n
        <5> QED
          BY <1>1, <1>3, <2>2
      <4>1. /\ ChangesHeld(p, body, j.item) /\ FactsHeld(p, body, j.item)
            /\ Copied(j.changes, body.changes, n)
            /\ Copied(j.facts, body.facts, k - 1)
        BY <1>2, <2>2, <3>2, <4>0 DEF Checked
      <4>2. <<f.path, f.content>> \in held'[p] /\ Reads[f.content] = f.value
        BY <1>1, <1>2, <1>6, <2>2, <3>2 DEF FactHolds
      <4>3. ChangesHeld(p, body, j1.item)'
        <5> SUFFICES ASSUME NEW i \in DOMAIN body.changes
                     PROVE  <<body.changes[i].path, body.changes[i].content>> \in held'[p]
          BY DEF ChangesHeld
        <5>1. i < j.item
          <6>1. i \in 1..n
            BY <1>3
          <6> HIDE DEF n
          <6> QED
            BY <1>1, <1>3, <6>1
        <5> QED
          BY <1>1, <4>1, <5>1 DEF ChangesHeld
      <4>4. FactsHeld(p, body, j1.item)'
        <5> SUFFICES ASSUME NEW i \in DOMAIN body.facts, n + i < j.item + 1
                     PROVE  /\ <<body.facts[i].path, body.facts[i].content>> \in held'[p]
                            /\ Reads[body.facts[i].content] = body.facts[i].value
          BY <2>2 DEF FactsHeld
        <5>1. i \in Nat
          BY <1>3
        <5>2. CASE i = k
          BY <4>2, <5>2
        <5>3. CASE i # k
          <6>1. n + i < j.item
            <7> HIDE DEF n
            <7> QED
              BY <1>3, <5>1, <5>3
          <6> QED
            BY <1>1, <4>1, <6>1 DEF FactsHeld
        <5> QED
          BY <5>2, <5>3
      <4>5. Copied(j1.facts, body.facts, k)
        <5>1. k - 1 \in Nat /\ k - 1 < m /\ (k - 1) + 1 = k
          <6> HIDE DEF n, m, k
          <6> QED
            BY <1>3
        <5>2. j.facts \in Seq(FactDecl)
          BY <1>2 DEF Job
        <5>3. Copied(Append(j.facts, body.facts[(k - 1) + 1]), body.facts, (k - 1) + 1)
          <6> HIDE DEF body, k
          <6> QED
            BY <1>3, <4>1, <5>1, <5>2, CopyOneMore DEF m
        <5> QED
          BY <2>2, <3>2, <5>1, <5>3
      <4> QED
        BY <2>2, <4>0, <4>1, <4>3, <4>4, <4>5
    <3> QED
      BY <2>2, <3>1, <3>2 DEF Checked
  <2>6. ASSUME NEW q \in Procs PROVE ProcInv(q)'
    <3>1. CASE q = p
      BY <1>1, <1>2, <2>1, <2>4, <2>5, <3>1 DEF ProcInv
    <3>2. CASE q # p
      BY <1>1, <2>1, <2>4, <3>2, KnowledgeStays DEF IInv
    <3> QED
      BY <3>1, <3>2
  <2> QED
    BY <2>3, <2>4, <2>6 DEF IInv
<1> QED
  BY <1>5, <1>6

\* A COMMIT follows only when nothing was in doubt: then all was copied and held.
LEMMA Concluding ==
    ASSUME IInv, NEW p \in Procs, Conclude(p)
    PROVE  LET j == job[p]
               body == j.candidate.body
           IN /\ j \in Job /\ j.candidate \in Candidate /\ j.task \in tasks
              /\ j.item > Len(body.changes) + Len(body.facts)
              /\ Verdict(j) = "COMMIT" =>
                    /\ CommitsAll(MakeDecision(Verdict(j), j))
                    /\ ChangesHeld(p, body, j.item) /\ FactsHeld(p, body, j.item)
<1>0. PICK j : j = job[p]
  OBVIOUS
<1> DEFINE body == j.candidate.body
           n == Len(body.changes)
           m == Len(body.facts)
           verdict == Verdict(j)
<1>1. /\ pc[p] = "checking" /\ j.item > n + m
      /\ Decide(p, verdict, j)
      /\ UNCHANGED <<tasks, workspace, edits, stateFile, held>>
  BY <1>0 DEF Conclude
<1>2. j \in Job /\ Checked(p, j)
  BY <1>0, <1>1 DEF IInv, LocalInv, ProcInv
<1>3. /\ j.candidate \in Candidate /\ j.task \in tasks /\ j.candidate.task = j.task
      /\ j.item \in 1..(n + m + 1)
      /\ n \in Nat /\ m \in Nat
      /\ body.changes \in Seq(ChangeDecl) /\ body.facts \in Seq(FactDecl)
  <2>1. j.candidate \in Candidate /\ j.task \in tasks /\ j.candidate.task = j.task
        /\ j.item \in 1..(n + m + 1)
    BY <1>2 DEF Checked
  <2>2. /\ n \in Nat /\ m \in Nat
        /\ body.changes \in Seq(ChangeDecl) /\ body.facts \in Seq(FactDecl)
    BY <2>1, BodyTyped
  <2> HIDE DEF n, m
  <2> QED
    BY <2>1, <2>2 DEF body
<1>4. ASSUME verdict = "COMMIT"
      PROVE  /\ CommitsAll(MakeDecision(verdict, j))
             /\ ChangesHeld(p, body, j.item) /\ FactsHeld(p, body, j.item)
  <2>1. /\ ~j.doubt /\ ~body.unresolved
        /\ \A c \in body.claims : c \subseteq {j.facts[i].id : i \in DOMAIN j.facts}
    BY <1>4 DEF Verdict
  <2>2. (IF j.item <= n THEN j.item - 1 ELSE n) = n
        /\ (IF j.item <= n THEN 0 ELSE j.item - 1 - n) = m
    <3> HIDE DEF n, m
    <3>1. j.item = n + m + 1 /\ ~(j.item <= n) /\ j.item - 1 = n + m
      BY <1>1, <1>3
    <3> QED
      BY <1>3, <3>1
  <2>3. /\ ChangesHeld(p, body, j.item) /\ FactsHeld(p, body, j.item)
        /\ Copied(j.changes, body.changes, n) /\ Copied(j.facts, body.facts, m)
    BY <1>2, <2>1, <2>2 DEF Checked
  <2>4. j.changes \in Seq(ChangeDecl) /\ j.facts \in Seq(FactDecl)
    BY <1>2 DEF Job
  <2>5. j.changes = body.changes /\ j.facts = body.facts
    <3> HIDE DEF body
    <3> QED
      BY <1>3, <2>3, <2>4, CopiedIsEqual DEF n, m
  <2> QED
    BY <1>3, <1>4, <2>1, <2>3, <2>5 DEF CommitsAll, MakeDecision
<1> QED
  BY <1>0, <1>1, <1>2, <1>3, <1>4

LEMMA ConcludeSafe ==
    ASSUME IInv, NEW p \in Procs, Conclude(p)
    PROVE  IInv'
<1>1. PICK j, verdict : j = job[p] /\ verdict = Verdict(j)
  OBVIOUS
<1>2. /\ Decide(p, verdict, j)
      /\ UNCHANGED <<tasks, workspace, edits, stateFile, held>>
  BY <1>1 DEF Conclude
<1>3. /\ j \in Job /\ j.candidate \in Candidate /\ j.task \in tasks
      /\ j.item > Len(j.candidate.body.changes) + Len(j.candidate.body.facts)
      /\ verdict = "COMMIT" =>
            /\ CommitsAll(MakeDecision(verdict, j))
            /\ ChangesHeld(p, j.candidate.body, j.item)
            /\ FactsHeld(p, j.candidate.body, j.item)
  BY <1>1, Concluding
<1>4. verdict \in {"COMMIT", "QUARANTINE", "DENY"}
  BY <1>1 DEF Verdict
<1>5. held \in [Procs -> SUBSET (Inside \X (Contents \cup {Absent}))]
  BY DEF IInv, LocalInv
<1> QED
  BY <1>2, <1>3, <1>4, <1>5, DecidedSafe

\* Back to idle a command knows nothing.
LEMMA IdleSafe ==
    ASSUME IInv, NEW p \in Procs, Idle(p), UNCHANGED <<log, tasks, workspace, mixed, published>>,
           spoilt' \subseteq Procs,
           stateFile' \in [Dirs -> DOMAIN log \cup {Absent, Torn}],
           \A d \in Dirs : stateFile'[d] \notin {Absent, Torn} => Presentable(d, stateFile'[d])
    PROVE  IInv'
<1> USE DEF IInv, Idle
<1>1. SharedInv'
  BY DEF SharedInv, Presentable
<1>2. LocalInv'
  BY DEF LocalInv, Points
<1>3. LineageCommitted'
  BY LineageStays
<1>4. ASSUME NEW q \in Procs PROVE ProcInv(q)'
  <2>1. CASE q = p
    <3>1. pc'[p] = "idle"
      BY DEF LocalInv
    <3> QED
      BY ONLY <2>1, <3>1 DEF ProcInv
  <2>2. CASE q # p
    BY <1>4, <2>2, KnowledgeStays DEF LocalInv
  <2> QED
    BY <2>1, <2>2
<1> QED
  BY <1>1, <1>2, <1>3, <1>4

LEMMA WriteDecisionSafe ==
    ASSUME IInv, NEW p \in Procs, WriteDecision(p)
    PROVE  IInv'
<1>1. CASE job[p].decision.verdict = "COMMIT"
  <2>1. /\ pc[p] = "decision open" /\ pc' = [pc EXCEPT ![p] = "decided"]
        /\ \/ mixed' = mixed \cup {job[p].out} /\ published' = published
           \/ published' = published \cup {job[p].next} /\ mixed' = mixed
        /\ spoilt' = (spoilt \ {p}) \cup Openers(p, job[p].out)
        /\ UNCHANGED <<job, held, log, tasks, workspace, stateFile>>
    BY <1>1 DEF WriteDecision
  <2>2. job[p].next \in DOMAIN log /\ job[p].out \in Dirs
    BY <1>1, <2>1 DEF IInv, LocalInv, ProcInv, Observed, Job
  <2>3. SharedInv'
    <3>1. spoilt' \subseteq Procs
      BY <2>1 DEF IInv, SharedInv, Openers
    <3> QED
      BY <2>1, <2>2, <3>1 DEF IInv, SharedInv, Presentable
  <2>4. LocalInv'
    BY <2>1 DEF IInv, LocalInv, Points
  <2>5. LineageCommitted'
    BY <2>1, LineageStays DEF IInv
  <2>6. ASSUME NEW q \in Procs PROVE ProcInv(q)'
    <3>1. CASE q = p
      <4>1. pc'[p] = "decided" /\ Presentable(job[p].out, job[p].next)' /\ job'[p] = job[p]
        BY <2>1, <2>2 DEF IInv, LocalInv, Presentable
      <4> QED
        BY ONLY <3>1, <4>1 DEF ProcInv
    <3>2. CASE q # p
      BY <2>1, <3>2, KnowledgeStays DEF IInv, LocalInv
    <3> QED
      BY <3>1, <3>2
  <2> QED
    BY <2>3, <2>4, <2>5, <2>6 DEF IInv
<1>2. CASE job[p].decision.verdict # "COMMIT"
  <2>1. /\ Idle(p) /\ UNCHANGED <<log, tasks, workspace, stateFile, mixed, published>>
        /\ spoilt' = (spoilt \ {p}) \cup Openers(p, job[p].out)
    BY <1>2 DEF WriteDecision
  <2>2. spoilt' \subseteq Procs
    BY <2>1 DEF IInv, SharedInv, Openers
  <2> QED
    BY <2>1, <2>2, IdleSafe DEF IInv, SharedInv
<1> QED
  BY <1>1, <1>2

LEMMA OpenStateSafe ==
    ASSUME IInv, NEW p \in Procs, OpenState(p)
    PROVE  IInv'
<1>1. /\ pc[p] = "decided" /\ pc' = [pc EXCEPT ![p] = "state open"]
      /\ stateFile' = [stateFile EXCEPT ![job[p].out] = Torn]
      /\ UNCHANGED <<log, tasks, workspace, spoilt, mixed, published, job, held>>
  BY DEF OpenState, decisionFiles
<1>2. SharedInv'
  BY <1>1 DEF IInv, SharedInv, Presentable
<1>3. LocalInv'
  BY <1>1 DEF IInv, LocalInv, Points
<1>4. LineageCommitted'
  BY <1>1, LineageStays DEF IInv
<1>5. ASSUME NEW q \in Procs PROVE ProcInv(q)'
  <2>1. CASE q = p
    <3>1. pc'[p] = "state open" /\ Presentable(job[p].out, job[p].next)' /\ job'[p] = job[p]
      BY <1>1 DEF IInv, LocalInv, ProcInv, Presentable
    <3> QED
      BY ONLY <2>1, <3>1 DEF ProcInv
  <2>2. CASE q # p
    BY <1>1, <2>2, KnowledgeStays DEF IInv, LocalInv
  <2> QED
    BY <2>1, <2>2
<1> QED
  BY <1>2, <1>3, <1>4, <1>5 DEF IInv

LEMMA WriteStateSafe ==
    ASSUME IInv, NEW p \in Procs, WriteState(p)
    PROVE  IInv'
<1>1. Presentable(job[p].out, job[p].next) /\ job[p].next \in DOMAIN log
  BY DEF WriteState, IInv, ProcInv, Presentable
<1>2. PICK s \in {job[p].next, Torn} : stateFile' = [stateFile EXCEPT ![job[p].out] = s]
  BY DEF WriteState
<1>3. /\ stateFile' \in [Dirs -> DOMAIN log \cup {Absent, Torn}]
      /\ \A d \in Dirs : stateFile'[d] \notin {Absent, Torn} => Presentable(d, stateFile'[d])
  BY <1>1, <1>2 DEF IInv, SharedInv
<1>4. /\ Idle(p) /\ spoilt \subseteq Procs
      /\ UNCHANGED <<log, tasks, workspace, spoilt, mixed, published>>
  BY DEF WriteState, decisionFiles, IInv, SharedInv
<1> QED
  BY <1>3, <1>4, IdleSafe

LEMMA CrashSafe ==
    ASSUME IInv, NEW p \in Procs, Crash(p)
    PROVE  IInv'
<1>1. /\ Idle(p) /\ UNCHANGED <<log, tasks, workspace, stateFile, mixed, published>>
      /\ spoilt' \subseteq Procs
  BY DEF Crash, IInv, SharedInv
<1> QED
  BY <1>1, IdleSafe DEF IInv, SharedInv

LEMMA StepSafe == IInv /\ [Next]_vars => IInv'
<1> SUFFICES ASSUME IInv, [Next]_vars PROVE IInv'
  OBVIOUS
<1>1. ASSUME NEW p \in Procs, NEW from \in Dirs, NEW out \in Dirs, NEW task \in tasks,
             NEW other \in tasks, NEW body \in Bodies,
             Begin(p, from, out, task, [task |-> other, body |-> body])
      PROVE  IInv'
  <2>1. other \in Task
    <3>1. other \in [state: DOMAIN log, name: Names] /\ DOMAIN log \subseteq Nat
      BY Recording DEF IInv, SharedInv
    <3> QED
      BY <3>1 DEF Task
  <2>2. [task |-> other, body |-> body] \in Candidate
    BY <2>1 DEF Candidate
  <2> QED
    BY <1>1, <2>2, BeginSafe
<1>2. CASE UNCHANGED vars
  <2>1. SharedInv' /\ LocalInv'
    BY <1>2 DEF IInv, SharedInv, LocalInv, Presentable, vars, disk, decisionFiles
  <2>2. LineageCommitted'
    BY <1>2, LineageStays DEF IInv, vars
  <2>3. \A q \in Procs : ProcInv(q)'
    BY <1>2, KnowledgeStays DEF IInv, vars, disk, decisionFiles
  <2> QED
    BY <2>1, <2>2, <2>3 DEF IInv
<1> QED
  BY <1>1, <1>2, EditSafe, TaskSafe, InitializeSafe, CheckChangeSafe, CheckFactSafe,
     ConcludeSafe, WriteDecisionSafe, OpenStateSafe, WriteStateSafe, CrashSafe DEF Next

----------------------------------------------------------------------------
(* Items at positions, in order.                                           *)

\* f counts the positions K upwards from 1 to n.
Orders(f, n, K) ==
    /\ n \in Nat /\ f \in [1..n -> K]
    /\ \A a, b \in 1..n : a < b => f[a] < f[b]
    /\ \A k \in K : \E a \in 1..n : f[a] = k

\* s is the items of h at the positions K, in order.
Lists(s, h, K) ==
    \E n \in Nat : \E f : Orders(f, n, K) /\ s = [a \in 1..n |-> h[f[a]]]

\* The positions in h behind which the key there does not come again.
Newest(h, key) == {k \in DOMAIN h : \A m \in k+1..Len(h) : h[m][key] # h[k][key]}

\* With each of its members a set has the greater members of K.
ClosedUp(R, K) == R \subseteq K /\ \A i \in R, j \in K : i <= j => j \in R

\* The last n of the positions K, or all if they are fewer.
Final(R, K, n) ==
    /\ ClosedUp(R, K)
    /\ IsFiniteSet(R) /\ Cardinality(R) <= n
    /\ R = K \/ Cardinality(R) = n

\* A set of naturals that is not empty has a least member.
LEMMA Least ==
    ASSUME NEW T \in SUBSET Nat, T # {}
    PROVE  \E x \in T : \A y \in T : x <= y
<1>1. PICK x \in T : \A y \in T : ~(<<y, x>> \in OpToRel(<, Nat))
  BY NatLessThanWellFounded, WFMin
<1>2. \A y \in T : ~(y < x)
  BY <1>1, Zenon DEF OpToRel
<1> QED
  BY <1>2

\* An order of K gives the list of the items there.
LEMMA Listed ==
    ASSUME NEW h, NEW K, NEW n, NEW f, Orders(f, n, K)
    PROVE  Lists([a \in 1..n |-> h[f[a]]], h, K)
BY DEF Orders, Lists

\* At lists the items of s at the positions K.
LEMMA AtLists ==
    ASSUME NEW K \in SUBSET Nat, IsFiniteSet(K), NEW s
    PROVE  Lists(At(s, K), s, K)
<1> DEFINE n == Cardinality(K)
           Upto(i) == {j \in K : j <= i}
           rank == [i \in K |-> Cardinality(Upto(i))]
<1>0. \A i \in K : i \in Nat
  OBVIOUS
<1>1. n \in Nat
  BY FS_CardinalityType
<1>2. \A i \in K : IsFiniteSet(Upto(i)) /\ rank[i] \in 1..n
  <2> TAKE i \in K
  <2>1. IsFiniteSet(Upto(i)) /\ Cardinality(Upto(i)) <= n
    BY FS_Subset, Upto(i) \in SUBSET K
  <2>2. Cardinality(Upto(i)) \in Nat /\ (Cardinality(Upto(i)) = 0 <=> Upto(i) = {})
    BY <2>1, FS_CardinalityType, FS_EmptySet
  <2>3. i \in Upto(i)
    OBVIOUS
  <2> HIDE DEF Upto, n
  <2> QED
    BY <1>1, <2>1, <2>2, <2>3
<1>3. \A i, j \in K : i < j => rank[i] < rank[j]
  <2> SUFFICES ASSUME NEW i \in K, NEW j \in K, i < j PROVE rank[i] < rank[j]
    OBVIOUS
  <2>1. Upto(i) \in SUBSET Upto(j) /\ j \in Upto(j) /\ j \notin Upto(i)
    <3>1. i \in Nat /\ j \in Nat
      BY <1>0
    <3>2. \A x \in K : x <= i => x <= j
      BY <1>0, <3>1
    <3>3. j <= j /\ ~(j <= i)
      BY <3>1
    <3> QED
      BY ONLY <3>2, <3>3, i \in K, j \in K
  <2>2. Cardinality(Upto(i)) <= Cardinality(Upto(j))
        /\ Cardinality(Upto(i)) # Cardinality(Upto(j))
    <3> HIDE DEF Upto
    <3> QED
      BY <1>2, <2>1, FS_Subset
  <2>3. Cardinality(Upto(i)) \in Nat /\ Cardinality(Upto(j)) \in Nat
    BY <1>2, FS_CardinalityType
  <2> HIDE DEF Upto
  <2> QED
    BY <2>2, <2>3
<1> HIDE DEF rank
<1>4. \A i, j \in K : rank[i] = rank[j] => i = j
  <2> HIDE DEF n, Upto
  <2> SUFFICES ASSUME NEW i \in K, NEW j \in K, rank[i] = rank[j], i # j PROVE FALSE
    OBVIOUS
  <2>1. i \in Nat /\ j \in Nat /\ rank[i] \in Nat
    BY <1>0, <1>1, <1>2
  <2>2. CASE i < j
    BY <1>3, <2>1, <2>2
  <2>3. CASE j < i
    BY <1>3, <2>1, <2>3
  <2> QED
    BY <2>1, <2>2, <2>3
<1>5. \A k \in 1..n : \E i \in K : rank[i] = k
  <2>1. rank \in [K -> 1..n]
    BY <1>2 DEF rank
  <2>2. rank \in Injection(K, 1..n)
    BY <1>4, <2>1 DEF Injection, IsInjective
  <2>3. IsFiniteSet(1..n) /\ Cardinality(1..n) = n
    BY <1>1, FS_Interval
  <2>4. rank \in Surjection(K, 1..n)
    BY <2>2, <2>3, FS_Injection
  <2> QED
    BY <2>4 DEF Surjection
<1> DEFINE f == [k \in 1..n |-> CHOOSE i \in K : Cardinality(Upto(i)) = k]
<1>6. \A k \in 1..n : f[k] \in K /\ rank[f[k]] = k
  <2> TAKE k \in 1..n
  <2>1. \E i \in K : Cardinality(Upto(i)) = k
    BY <1>5 DEF rank
  <2>2. f[k] \in K /\ Cardinality(Upto(f[k])) = k
    <3> HIDE DEF Upto
    <3> QED
      BY <2>1
  <2> QED
    BY <2>2 DEF rank
<1>7. At(s, K) = [k \in 1..n |-> s[f[k]]]
  BY DEF At
<1>8. f \in [1..n -> K]
  BY <1>6
<1> HIDE DEF f, n
<1>9. \A a, b \in 1..n : a < b => f[a] < f[b]
  <2> SUFFICES ASSUME NEW a \in 1..n, NEW b \in 1..n, a < b, ~(f[a] < f[b]) PROVE FALSE
    OBVIOUS
  <2>1. /\ f[a] \in K /\ f[b] \in K /\ f[a] \in Nat /\ f[b] \in Nat
        /\ rank[f[a]] = a /\ rank[f[b]] = b
    BY <1>0, <1>6
  <2>2. CASE f[b] < f[a]
    BY <1>1, <1>3, <2>1, <2>2
  <2>3. CASE f[b] = f[a]
    BY <1>1, <2>1, <2>3
  <2> QED
    BY <2>1, <2>2, <2>3
<1>10. \A k \in K : \E a \in 1..n : f[a] = k
  <2> TAKE k \in K
  <2>1. rank[k] \in 1..n
    BY <1>2
  <2>2. f[rank[k]] = k
    BY <1>4, <1>6, <2>1
  <2> QED
    BY <2>1, <2>2
<1>11. Orders(f, n, K)
  BY <1>1, <1>8, <1>9, <1>10 DEF Orders
<1> QED
  BY <1>7, <1>11, Listed

\* One order begins like any other.
LEMMA OrderPrefix ==
    ASSUME NEW K \in SUBSET Nat, NEW f, NEW m, Orders(f, m, K), NEW g, NEW n, Orders(g, n, K)
    PROVE  m <= n /\ \A a \in 1..m : f[a] = g[a]
<1> DEFINE Bad == {a \in 1..m : ~(a <= n /\ f[a] = g[a])}
<1>0. m \in Nat /\ n \in Nat /\ (\A a \in 1..m : f[a] \in Nat /\ f[a] \in K)
      /\ (\A a \in 1..n : g[a] \in Nat /\ g[a] \in K)
  BY DEF Orders
<1> SUFFICES ASSUME Bad # {} PROVE FALSE
  <2>1. \A a \in 1..m : a <= n /\ f[a] = g[a]
    OBVIOUS
  <2>2. m <= n
    <3>1. CASE m = 0
      BY <1>0, <3>1
    <3>2. CASE m # 0
      BY <1>0, <2>1, <3>2, m \in 1..m
    <3> QED
      BY <3>1, <3>2
  <2> QED
    BY <2>1, <2>2
<1>1. PICK a \in Bad : \A b \in Bad : a <= b
  <2>1. Bad \in SUBSET Nat
    BY <1>0
  <2> HIDE DEF Bad
  <2> QED
    BY <2>1, Least
<1>2. a \in 1..m /\ ~(a <= n /\ f[a] = g[a])
  OBVIOUS
<1>3. \A b \in 1..m : b < a => b <= n /\ f[b] = g[b]
  BY <1>0, <1>1
<1> HIDE DEF Bad
<1>4. PICK e \in 1..n : g[e] = f[a]
  BY <1>0, <1>2 DEF Orders
<1>5. ~(e < a)
  <2> SUFFICES ASSUME e < a PROVE FALSE
    OBVIOUS
  <2>1. e \in 1..m /\ f[e] = g[e]
    BY <1>0, <1>2, <1>3
  <2>2. f[e] < f[a]
    BY <1>2, <2>1 DEF Orders
  <2> QED
    BY <1>0, <1>2, <1>4, <2>1, <2>2
<1>6. a \in 1..n /\ f[a] # g[a] /\ e # a
  BY <1>0, <1>2, <1>4, <1>5
<1>7. g[a] < f[a]
  <2>1. a < e
    BY <1>0, <1>5, <1>6
  <2> QED
    BY <1>4, <1>6, <2>1 DEF Orders
<1>8. PICK d \in 1..m : f[d] = g[a]
  BY <1>0, <1>6 DEF Orders
<1>9. d < a
  <2> SUFFICES ASSUME ~(d < a) PROVE FALSE
    OBVIOUS
  <2>1. a < d \/ a = d
    BY <1>0, <1>2
  <2>2. f[a] <= f[d]
    <3>1. CASE a < d
      <4>1. f[a] < f[d]
        BY <1>2, <3>1 DEF Orders
      <4> QED
        BY <1>0, <1>2, <4>1
    <3>2. CASE a = d
      BY <1>0, <1>2, <3>2
    <3> QED
      BY <2>1, <3>1, <3>2
  <2> QED
    BY <1>0, <1>2, <1>6, <1>7, <1>8, <2>2
<1>10. g[d] = g[a] /\ g[d] < g[a] 
  BY <1>0, <1>3, <1>6, <1>8, <1>9 DEF Orders
<1> QED
  BY <1>0, <1>6, <1>10

\* Two sequences that list the same positions of a history are one.
LEMMA ListsOnce ==
    ASSUME NEW K \in SUBSET Nat, NEW h, NEW s, NEW t, Lists(s, h, K), Lists(t, h, K)
    PROVE  s = t
<1>n1. PICK m \in Nat : \E f : Orders(f, m, K) /\ s = [a \in 1..m |-> h[f[a]]]
  BY DEF Lists
<1>1. PICK f : Orders(f, m, K) /\ s = [a \in 1..m |-> h[f[a]]]
  BY <1>n1
<1>n2. PICK n \in Nat : \E g : Orders(g, n, K) /\ t = [a \in 1..n |-> h[g[a]]]
  BY DEF Lists
<1>2. PICK g : Orders(g, n, K) /\ t = [a \in 1..n |-> h[g[a]]]
  BY <1>n2
<1>a. Orders(f, m, K) /\ Orders(g, n, K)
  BY <1>1, <1>2
<1>3. m <= n /\ \A a \in 1..m : f[a] = g[a]
  BY ONLY K \in SUBSET Nat, <1>a, OrderPrefix
<1>4. n <= m
  BY ONLY K \in SUBSET Nat, <1>a, OrderPrefix
<1>5. m = n
  BY <1>3, <1>4
<1> QED
  BY <1>1, <1>2, <1>3, <1>5

\* An order of K counts its members.
LEMMA OrderCounts ==
    ASSUME NEW K \in SUBSET Nat, NEW f, NEW n, Orders(f, n, K)
    PROVE  IsFiniteSet(K) /\ Cardinality(K) = n
<1>0. n \in Nat /\ f \in [1..n -> K] /\ \A a \in 1..n : f[a] \in Nat
  BY DEF Orders
<1>1. IsFiniteSet(1..n) /\ Cardinality(1..n) = n
  BY <1>0, FS_Interval
<1>2. \A a, b \in 1..n : f[a] = f[b] => a = b
  <2> SUFFICES ASSUME NEW a \in 1..n, NEW b \in 1..n, f[a] = f[b], a # b PROVE FALSE
    OBVIOUS
  <2>1. a \in Nat /\ b \in Nat
    BY <1>0
  <2> QED
    BY <1>0, <2>1 DEF Orders
<1>3. f \in Bijection(1..n, K)
  BY <1>0, <1>2 DEF Orders, Bijection, Injection, Surjection, IsInjective
<1>4. ExistsBijection(1..n, K)
  BY <1>3 DEF ExistsBijection
<1> QED
  BY <1>1, <1>4, FS_Bijection

\* The sequence without its first items, so that at most n are left.
Ending(s, n) == SubSeq(s, (IF Len(s) > n THEN Len(s) - n ELSE 0) + 1, Len(s))

\* The lengths and items of a listing.
LEMMA ListingTyped ==
    ASSUME NEW S, NEW h \in Seq(S), NEW K \in SUBSET DOMAIN h,
           NEW n, NEW f, Orders(f, n, K), NEW s, s = [a \in 1..n |-> h[f[a]]]
    PROVE  s \in Seq(S) /\ Len(s) = n
<1>1. n \in Nat /\ \A a \in 1..n : f[a] \in DOMAIN h /\ h[f[a]] \in S
  BY DEF Orders
<1> QED
  BY <1>1

\* What ends a listing of positions lists the last of them.
LEMMA EndingLists ==
    ASSUME NEW S, NEW h \in Seq(S), NEW K \in SUBSET DOMAIN h, NEW s, Lists(s, h, K),
           NEW n \in Nat
    PROVE  \E R : Final(R, K, n) /\ Lists(Ending(s, n), h, R)
<1>n1. PICK N \in Nat : \E f : Orders(f, N, K) /\ s = [a \in 1..N |-> h[f[a]]]
  BY DEF Lists
<1>1. PICK f : Orders(f, N, K) /\ s = [a \in 1..N |-> h[f[a]]]
  BY <1>n1
<1>2. s \in Seq(S) /\ Len(s) = N
  BY <1>1, ListingTyped
<1>3. PICK d \in Nat : d = IF N > n THEN N - n ELSE 0
  <2>1. (IF N > n THEN N - n ELSE 0) \in Nat
    OBVIOUS
  <2> QED
    BY <2>1
<1>4. PICK l \in Nat : l = N - d
  BY <1>3
<1>5. l <= n /\ (l = N \/ l = n) /\ (l = N <=> d = 0) /\ N = d + l
  BY <1>3, <1>4
<1> DEFINE g == [a \in 1..l |-> f[d + a]]
           R == {f[d + a] : a \in 1..l}
<1>6. \A a \in 1..l : d + a \in 1..N /\ f[d + a] \in K /\ f[d + a] \in Nat
  <2> TAKE a \in 1..l
  <2>1. d + a \in 1..N
    BY <1>5
  <2>2. f[d + a] \in K /\ K \subseteq DOMAIN h /\ DOMAIN h \subseteq Nat
    BY <1>1, <2>1 DEF Orders
  <2> QED
    BY <2>1, <2>2
<1>7. Orders(g, l, R)
  <2>1. \A a, b \in 1..l : a < b => g[a] < g[b]
    <3> SUFFICES ASSUME NEW a \in 1..l, NEW b \in 1..l, a < b PROVE f[d + a] < f[d + b]
      OBVIOUS
    <3>1. d + a \in 1..N /\ d + b \in 1..N /\ d + a < d + b
      BY <1>6
    <3> QED
      BY <1>1, <3>1 DEF Orders
  <2> QED
    BY <2>1 DEF Orders
<1>8. ClosedUp(R, K)
  <2>1. R \subseteq K
    BY <1>6
  <2>2. ASSUME NEW a \in 1..l, NEW j \in K, f[d + a] <= j PROVE j \in R
    <3>1. PICK b \in 1..N : f[b] = j
      BY <1>1 DEF Orders
    <3>2. d + a <= b
      <4> SUFFICES ASSUME b < d + a PROVE FALSE
        BY <1>6
      <4>1. f[b] < f[d + a] /\ f[b] \in Nat /\ f[d + a] \in Nat
        <5>1. f[b] < f[d + a]
          BY <1>1, <1>6 DEF Orders
        <5>2. j \in Nat
          OBVIOUS
        <5> QED
          BY <1>6, <3>1, <5>1, <5>2
      <4> QED
        BY <2>2, <3>1, <4>1
    <3>3. b - d \in 1..l /\ d + (b - d) = b
      BY <1>5, <3>2
    <3> QED
      BY <3>1, <3>3
  <2> QED
    BY <2>1, <2>2 DEF ClosedUp
<1>9. Ending(s, n) = [a \in 1..l |-> h[g[a]]]
  <2>1. Ending(s, n) = SubSeq(s, d + 1, N)
    BY <1>2, <1>3 DEF Ending
  <2>2. Ending(s, n) \in Seq(S) /\ Len(Ending(s, n)) = l
    BY <1>2, <1>5, <2>1
  <2>3. \A a \in 1..l : Ending(s, n)[a] = s[d + a]
    BY <1>2, <1>5, <2>1
  <2>4. \A a \in 1..l : Ending(s, n)[a] = h[g[a]]
    BY <1>1, <1>6, <2>3
  <2> HIDE DEF g
  <2> QED
    BY <2>2, <2>4
<1> HIDE DEF g, R
<1>10. R \subseteq K /\ K \subseteq Nat
  BY <1>8 DEF ClosedUp
<1>11. IsFiniteSet(R) /\ Cardinality(R) = l
  BY <1>7, <1>10, OrderCounts
<1>12. R = K \/ Cardinality(R) = n
  <2>1. CASE d = 0
    <3>1. \A k \in K : k \in R
      <4> TAKE k \in K
      <4>1. PICK b \in 1..N : f[b] = k
        BY <1>1 DEF Orders
      <4>2. b \in 1..l /\ d + b = b
        BY <1>5, <2>1
      <4> QED
        BY <4>1, <4>2 DEF R
    <3> QED
      BY <1>10, <3>1
  <2>2. CASE d # 0
    BY <1>5, <1>11, <2>2
  <2> QED
    BY <2>1, <2>2
<1>13. Final(R, K, n)
  BY <1>5, <1>8, <1>11, <1>12 DEF Final
<1>14. Lists(Ending(s, n), h, R)
  BY <1>4, <1>7, <1>9, Listed
<1> QED
  BY <1>13, <1>14

\* There is only one set of the last n positions.
LEMMA FinalOnce ==
    ASSUME NEW K \in SUBSET Nat, NEW n \in Nat, NEW R, NEW T, Final(R, K, n), Final(T, K, n)
    PROVE  R = T
<1>1. ASSUME NEW A, NEW B, Final(A, K, n), Final(B, K, n), A \subseteq B PROVE A = B
  <2>1. Cardinality(A) \in Nat /\ Cardinality(B) \in Nat /\ Cardinality(A) <= Cardinality(B)
        /\ (Cardinality(A) = Cardinality(B) => A = B)
    <3>1. IsFiniteSet(A) /\ IsFiniteSet(B) /\ A \in SUBSET B
      BY <1>1 DEF Final
    <3> QED
      BY <3>1, FS_CardinalityType, FS_Subset
  <2>2. CASE A = K
    BY <1>1, <2>2 DEF Final, ClosedUp
  <2>3. CASE Cardinality(A) = n
    BY <1>1, <2>1, <2>3 DEF Final
  <2> QED
    BY <1>1, <2>2, <2>3 DEF Final
<1>2. R \subseteq T \/ T \subseteq R
  <2> SUFFICES ASSUME NEW x \in R, x \notin T, NEW y \in T, y \notin R PROVE FALSE
    OBVIOUS
  <2>1. x \in K /\ y \in K /\ x \in Nat /\ y \in Nat
    BY DEF Final, ClosedUp
  <2>2. x <= y \/ y <= x
    BY <2>1
  <2> QED
    BY <2>1, <2>2 DEF Final, ClosedUp
<1> QED
  BY <1>1, <1>2

\* Latest lists the last positions of a history where a key comes last.
LEMMA LatestLists ==
    ASSUME NEW S, NEW h \in Seq(S), NEW key, NEW n \in Nat
    PROVE  \E R : Final(R, Newest(h, key), n) /\ Lists(Latest(h, key, n), h, R)
<1>1. Newest(h, key) \in SUBSET DOMAIN h /\ Newest(h, key) \in SUBSET Nat
  BY DEF Newest
<1>2. IsFiniteSet(Newest(h, key))
  <2>1. IsFiniteSet(1..Len(h)) /\ Newest(h, key) \in SUBSET (1..Len(h))
    BY FS_Interval DEF Newest
  <2> QED
    BY <2>1, FS_Subset
<1>3. Lists(At(h, Newest(h, key)), h, Newest(h, key))
  BY <1>1, <1>2, AtLists
<1>4. Latest(h, key, n) = Ending(At(h, Newest(h, key)), n)
  BY DEF Latest, Ending, Newest
<1> QED
  BY <1>1, <1>3, <1>4, EndingLists

\* The positions of s whose keys are not among the given ones.
Without(s, key, keys) == {i \in DOMAIN s : s[i][key] \notin keys}

\* Additions behind what is kept of a listing of the last positions: positions of the
\* longer history, the last ones or as many as they may be.
LEMMA AppendedLists ==
    ASSUME NEW S, NEW h \in Seq(S), NEW a \in Seq(S), NEW K \in SUBSET DOMAIN h,
           NEW s, Lists(s, h, K), NEW key, NEW added
    PROVE  Lists(At(s, Without(s, key, added)) \o a, h \o a,
                 (K \cap Without(h, key, added)) \cup (Len(h) + 1)..(Len(h) + Len(a)))
<1> DEFINE kept == Without(s, key, added)
           E == (K \cap Without(h, key, added)) \cup (Len(h) + 1)..(Len(h) + Len(a))
           H == h \o a
<1>0. /\ kept \subseteq DOMAIN s
      /\ \A i \in DOMAIN s : i \in kept <=> s[i][key] \notin added
      /\ \A k : k \in E <=> \/ k \in K /\ h[k][key] \notin added
                          \/ k \in (Len(h) + 1)..(Len(h) + Len(a))
  BY DEF Without
<1> HIDE DEF kept, E
<1>n1. PICK p \in Nat : \E f : Orders(f, p, K) /\ s = [i \in 1..p |-> h[f[i]]]
  BY DEF Lists
<1>1. PICK f : Orders(f, p, K) /\ s = [i \in 1..p |-> h[f[i]]]
  BY <1>n1
<1>2. s \in Seq(S) /\ Len(s) = p /\ DOMAIN s = 1..p
  <2>1. s \in Seq(S) /\ Len(s) = p
    BY ONLY <1>1, ListingTyped, h \in Seq(S), K \in SUBSET DOMAIN h
  <2> QED
    BY <2>1
<1>n3. PICK q \in Nat : \E g : Orders(g, q, kept) /\ At(s, kept) = [i \in 1..q |-> s[g[i]]]
  <2>1. kept \in SUBSET (1..p)
    BY <1>0, <1>2
  <2>2. kept \in SUBSET Nat
    BY <2>1
  <2>3. IsFiniteSet(kept)
    <3>1. IsFiniteSet(1..p)
      BY FS_Interval
    <3> QED
      BY <2>1, <3>1, FS_Subset, Zenon
  <2>4. Lists(At(s, kept), s, kept)
    BY <2>2, <2>3, AtLists
  <2> QED
    BY <2>4 DEF Lists
<1>3. PICK g : Orders(g, q, kept) /\ At(s, kept) = [i \in 1..q |-> s[g[i]]]
  BY <1>n3
<1>4. At(s, kept) \in Seq(S) /\ Len(At(s, kept)) = q
  <2>1. kept \in SUBSET DOMAIN s
    BY <1>0
  <2>2. Orders(g, q, kept) /\ s \in Seq(S)
    BY <1>2, <1>3
  <2> QED
    BY ONLY <1>3, <2>1, <2>2, ListingTyped
<1>5. PICK n \in Nat, l \in Nat : n = Len(h) /\ l = Len(a)
  OBVIOUS
<1>6. /\ H \in Seq(S) /\ Len(H) = n + l /\ DOMAIN h = 1..n
      /\ \A i \in 1..n : H[i] = h[i]
      /\ \A i \in 1..l : H[n + i] = a[i]
  BY <1>5
<1> DEFINE e == [i \in 1..(q + l) |-> IF i <= q THEN f[g[i]] ELSE n + (i - q)]
<1>7. \A i \in 1..q : /\ g[i] \in 1..p /\ f[g[i]] \in K /\ f[g[i]] \in 1..n
                        /\ h[f[g[i]]][key] \notin added /\ s[g[i]] = h[f[g[i]]]
  <2> TAKE i \in 1..q
  <2>1. g[i] \in kept
    BY <1>3 DEF Orders
  <2>2. g[i] \in 1..p /\ s[g[i]][key] \notin added
    BY <1>0, <1>2, <2>1
  <2>3. f[g[i]] \in K /\ s[g[i]] = h[f[g[i]]]
    BY <1>1, <2>2 DEF Orders
  <2> QED
    BY <1>6, <2>2, <2>3
<1>8. \A i \in 1..(q + l) : e[i] \in E /\ e[i] \in Nat
  <2> TAKE i \in 1..(q + l)
  <2>1. CASE i <= q
    <3>1. i \in 1..q /\ e[i] = f[g[i]]
      BY <2>1
    <3> HIDE DEF e
    <3> QED
      BY <1>0, <1>7, <3>1
  <2>2. CASE ~(i <= q)
    <3>1. e[i] = n + (i - q) /\ i - q \in 1..l
      BY <2>2
    <3>2. e[i] \in (n + 1)..(n + l)
      BY <3>1
    <3> HIDE DEF e
    <3> QED
      BY <1>0, <1>5, <3>2
  <2> QED
    BY <2>1, <2>2
<1>9. \A i, j \in 1..(q + l) : i < j => e[i] < e[j]
  <2> SUFFICES ASSUME NEW i \in 1..(q + l), NEW j \in 1..(q + l), i < j PROVE e[i] < e[j]
    OBVIOUS
  <2>1. CASE j <= q
    <3>1. i \in 1..q /\ j \in 1..q /\ e[i] = f[g[i]] /\ e[j] = f[g[j]]
      BY <2>1
    <3>2. g[i] < g[j]
      BY <1>3, <3>1 DEF Orders
    <3> QED
      BY <1>1, <1>7, <3>1, <3>2 DEF Orders
  <2>2. CASE i <= q /\ ~(j <= q)
    <3>1. i \in 1..q /\ e[i] = f[g[i]] /\ e[j] = n + (j - q) /\ j - q \in 1..l
      BY <2>2
    <3>2. f[g[i]] \in 1..n
      BY <1>7, <3>1
    <3> QED
      BY <3>1, <3>2
  <2>3. CASE ~(i <= q) /\ ~(j <= q)
    <3>1. e[i] = n + (i - q) /\ e[j] = n + (j - q)
      BY <2>3
    <3> QED
      BY <3>1
  <2> QED
    BY <2>1, <2>2, <2>3
<1>10. \A k \in E : \E i \in 1..(q + l) : e[i] = k
  <2> TAKE k \in E
  <2>1. CASE k \in K /\ h[k][key] \notin added
    <3>1. PICK b \in 1..p : f[b] = k
      BY <1>1, <2>1 DEF Orders
    <3>2. b \in kept
      BY <1>0, <1>1, <1>2, <2>1, <3>1
    <3>3. PICK i \in 1..q : g[i] = b
      BY <1>3, <3>2 DEF Orders
    <3>4. i \in 1..(q + l) /\ i <= q
      BY <3>3
    <3> QED
      BY <3>1, <3>3, <3>4
  <2>2. CASE k \in (n + 1)..(n + l)
    <3>1. q + (k - n) \in 1..(q + l) /\ ~(q + (k - n) <= q) /\ n + ((q + (k - n)) - q) = k
      BY <2>2
    <3> QED
      BY <3>1
  <2> QED
    BY <1>0, <1>5, <2>1, <2>2
<1>11. Orders(e, q + l, E)
  <2>1. q + l \in Nat
    OBVIOUS
  <2>2. e \in [1..(q + l) -> E]
    BY ONLY <1>8
  <2> HIDE DEF e
  <2> QED
    BY <1>9, <1>10, <2>1, <2>2 DEF Orders
<1>12. At(s, kept) \o a = [i \in 1..(q + l) |-> H[e[i]]]
  <2>1. At(s, kept) \o a \in Seq(S) /\ Len(At(s, kept) \o a) = q + l
    BY <1>4, <1>5, ConcatProperties
  <2>2. \A i \in 1..(q + l) : (At(s, kept) \o a)[i] = H[e[i]]
    <3> TAKE i \in 1..(q + l)
    <3>1. CASE i <= q
      <4>1. i \in 1..q /\ e[i] = f[g[i]] /\ (At(s, kept) \o a)[i] = At(s, kept)[i]
        BY <1>4, <1>5, <3>1
      <4>2. At(s, kept)[i] = s[g[i]] /\ s[g[i]] = h[f[g[i]]] /\ f[g[i]] \in 1..n
        BY <1>3, <1>7, <4>1
      <4> QED
        BY <1>6, <4>1, <4>2
    <3>2. CASE ~(i <= q)
      <4>1. e[i] = n + (i - q) /\ i - q \in 1..l /\ (At(s, kept) \o a)[i] = a[i - q]
        BY <1>4, <1>5, <3>2
      <4> QED
        BY <1>6, <4>1
    <3> QED
      BY <3>1, <3>2
  <2> DEFINE t == At(s, kept) \o a
  <2>3. t \in Seq(S) /\ Len(t) = q + l /\ \A i \in 1..(q + l) : t[i] = H[e[i]]
    BY <2>1, <2>2
  <2> HIDE DEF e, H, t
  <2>4. t = [i \in 1..(q + l) |-> H[e[i]]]
    BY ONLY <2>3
  <2> QED
    BY <2>4 DEF t
<1> HIDE DEF e, H
<1>13. Lists(At(s, kept) \o a, H, E)
  BY <1>11, <1>12, Listed
<1> QED
  BY <1>13 DEF H, kept, E

\* What Latest returns is a sequence of items, no more than asked for.
LEMMA LatestTyped ==
    ASSUME NEW S, NEW h \in Seq(S), NEW key, NEW n \in Nat
    PROVE  Latest(h, key, n) \in Seq(S) /\ Len(Latest(h, key, n)) <= n
<1>1. PICK R : Final(R, Newest(h, key), n) /\ Lists(Latest(h, key, n), h, R)
  BY LatestLists
<1>n2. PICK m \in Nat : \E f : Orders(f, m, R) /\ Latest(h, key, n) = [a \in 1..m |-> h[f[a]]]
  BY <1>1 DEF Lists
<1>2. PICK f : Orders(f, m, R) /\ Latest(h, key, n) = [a \in 1..m |-> h[f[a]]]
  BY <1>n2
<1>3. R \in SUBSET DOMAIN h /\ R \in SUBSET Nat
  BY <1>1 DEF Final, ClosedUp, Newest
<1>4. Latest(h, key, n) \in Seq(S) /\ Len(Latest(h, key, n)) = m
  BY <1>2, <1>3, ListingTyped
<1>5. Cardinality(R) = m
  BY <1>2, <1>3, OrderCounts
<1> QED
  BY <1>1, <1>4, <1>5 DEF Final

\* Where the key of an earlier last position comes again, its new last position.
LEMMA LastOfLonger ==
    ASSUME NEW S, NEW h \in Seq(S), NEW a \in Seq(S), NEW key,
           \A i, j \in DOMAIN a : a[i][key] = a[j][key] => i = j
    PROVE  LET added == {a[i][key] : i \in DOMAIN a}
           IN Newest(h \o a, key) = (Newest(h, key) \cap Without(h, key, added))
                                     \cup (Len(h) + 1)..(Len(h) + Len(a))
<1> DEFINE added == {a[i][key] : i \in DOMAIN a}
           H == h \o a
<1>1. PICK n \in Nat, l \in Nat : n = Len(h) /\ l = Len(a)
  OBVIOUS
<1>2. /\ H \in Seq(S) /\ Len(H) = n + l /\ DOMAIN h = 1..n /\ DOMAIN a = 1..l
      /\ DOMAIN H = 1..(n + l)
      /\ \A i \in 1..n : H[i] = h[i]
      /\ \A i \in 1..l : H[n + i] = a[i]
  BY <1>1
<1> HIDE DEF H
<1>3. ASSUME NEW k \in 1..n
      PROVE  k \in Newest(H, key) <=> k \in Newest(h, key) /\ h[k][key] \notin added
  <2>1. ASSUME k \in Newest(H, key) PROVE k \in Newest(h, key) /\ h[k][key] \notin added
    <3>1. \A m \in k+1..n+l : H[m][key] # h[k][key]
      BY <1>2, <2>1 DEF Newest
    <3>2. \A m \in k+1..n : h[m][key] # h[k][key]
      <4> TAKE m \in k+1..n
      <4>1. m \in k+1..n+l /\ m \in 1..n
        OBVIOUS
      <4> QED
        BY <1>2, <3>1, <4>1
    <3>3. \A i \in 1..l : a[i][key] # h[k][key]
      <4> TAKE i \in 1..l
      <4>1. n + i \in k+1..n+l
        OBVIOUS
      <4> QED
        BY <1>2, <3>1, <4>1
    <3> QED
      BY <1>1, <1>2, <3>2, <3>3 DEF Newest
  <2>2. ASSUME k \in Newest(h, key), h[k][key] \notin added PROVE k \in Newest(H, key)
    <3>1. \A m \in k+1..n : h[m][key] # h[k][key]
      BY <1>1, <2>2 DEF Newest
    <3>2. \A m \in k+1..n+l : H[m][key] # H[k][key]
      <4> TAKE m \in k+1..n+l
      <4>1. CASE m \in 1..n
        BY <1>2, <3>1, <4>1
      <4>2. CASE m - n \in 1..l
        <5>1. H[m] = a[m - n] /\ a[m - n][key] \in added
          <6> DEFINE i == m - n
          <6>1. n + i = m /\ i \in 1..l
            BY <4>2
          <6> HIDE DEF i
          <6>2. H[n + i] = a[i] /\ i \in DOMAIN a
            BY <1>2, <6>1
          <6> QED
            BY <6>1, <6>2 DEF i
        <5> QED
          BY <1>2, <2>2, <5>1
      <4> QED
        BY <4>1, <4>2
    <3> QED
      BY <1>2, <3>2 DEF Newest
  <2> QED
    BY <2>1, <2>2
<1>4. ASSUME NEW k \in (n + 1)..(n + l) PROVE k \in Newest(H, key)
  <2>1. \A m \in k+1..n+l : H[m][key] # H[k][key]
    <3> TAKE m \in k+1..n+l
    <3>1. m - n \in 1..l /\ k - n \in 1..l /\ m - n # k - n
      OBVIOUS
    <3>2. H[m] = a[m - n] /\ H[k] = a[k - n]
      BY <1>2, <3>1
    <3> QED
      BY <1>2, <3>1, <3>2
  <2> QED
    BY <1>2, <2>1 DEF Newest
<1>5. Newest(H, key) \subseteq 1..(n + l) /\ Newest(h, key) \subseteq 1..n
  BY <1>2 DEF Newest
<1>6. \A k \in 1..(n + l) : k \in 1..n \/ k \in (n + 1)..(n + l)
  OBVIOUS
<1> HIDE DEF added
<1>7. \A k : k \in Newest(h, key) \cap Without(h, key, added)
                 <=> k \in Newest(h, key) /\ h[k][key] \notin added
  BY <1>2, <1>5 DEF Without
<1>8. Newest(H, key) = (Newest(h, key) \cap Without(h, key, added)) \cup (n + 1)..(n + l)
  BY <1>3, <1>4, <1>5, <1>6, <1>7
<1> QED
  BY <1>1, <1>8 DEF H, added

\* Merging what a decision verified into the latest items of a history gives the
\* latest items of the longer history.
LEMMA MergeLatest ==
    ASSUME NEW S, NEW h \in Seq(S), NEW a \in Seq(S), NEW key, NEW n \in Nat,
           \A i, j \in DOMAIN a : a[i][key] = a[j][key] => i = j
    PROVE  Merge(Latest(h, key, n), a, key, n) = Latest(h \o a, key, n)
<1> DEFINE added == {a[i][key] : i \in DOMAIN a}
           New == (Len(h) + 1)..(Len(h) + Len(a))
           s == Latest(h, key, n)
           H == h \o a
           all == At(s, Without(s, key, added)) \o a
<1>1. PICK R : Final(R, Newest(h, key), n) /\ Lists(s, h, R)
  BY LatestLists
<1>2. PICK E : /\ E = (R \cap Without(h, key, added)) \cup New
               /\ E = {k \in R : h[k][key] \notin added} \cup New
  <2>1. R \subseteq DOMAIN h
    BY <1>1 DEF Final, ClosedUp, Newest
  <2>2. R \cap Without(h, key, added) = {k \in R : h[k][key] \notin added}
    BY <2>1 DEF Without
  <2> QED
    BY <2>2
<1>3. R \in SUBSET DOMAIN h /\ R \subseteq Newest(h, key) /\ Newest(h, key) \subseteq DOMAIN h
  BY <1>1 DEF Final, ClosedUp, Newest
<1>4. Lists(all, H, E)
  <2>1. h \in Seq(S) /\ a \in Seq(S) /\ R \in SUBSET DOMAIN h /\ Lists(s, h, R)
    BY <1>1, <1>3
  <2> HIDE DEF s, added
  <2> QED
    BY <1>2, <2>1, AppendedLists
<1>5. Newest(H, key) = {k \in Newest(h, key) : h[k][key] \notin added} \cup New
  <2>1. Newest(H, key) = (Newest(h, key) \cap Without(h, key, added)) \cup New
    BY LastOfLonger
  <2>2. Newest(h, key) \cap Without(h, key, added)
           = {k \in Newest(h, key) : h[k][key] \notin added}
    BY <1>3 DEF Without
  <2> QED
    BY <2>1, <2>2
<1>6. H \in Seq(S) /\ DOMAIN H = 1..(Len(h) + Len(a)) /\ DOMAIN h = 1..Len(h)
      /\ Len(h) \in Nat /\ Len(a) \in Nat
  OBVIOUS
<1> HIDE DEF added, s, H, all
<1>7. E \in SUBSET DOMAIN H
  BY <1>2, <1>3, <1>6
<1>8. PICK T : Final(T, E, n) /\ Lists(Ending(all, n), H, T)
  BY <1>4, <1>6, <1>7, EndingLists
<1>9. ClosedUp(E, Newest(H, key))
  BY <1>1, <1>2, <1>3, <1>5, <1>6 DEF Final, ClosedUp
<1>10. E = Newest(H, key) \/ Cardinality(T) = n
  <2>1. CASE R = Newest(h, key)
    BY <1>2, <1>5, <2>1
  <2>2. CASE Cardinality(R) = n
    <3>1. IsFiniteSet(E)
      <4>1. IsFiniteSet(1..(Len(h) + Len(a))) /\ E \in SUBSET (1..(Len(h) + Len(a)))
        BY <1>6, <1>7, FS_Interval
      <4> QED
        BY <4>1, FS_Subset, Zenon
    <3>2. Cardinality(R) <= Cardinality(E)
      <4> DEFINE Again(k) == CHOOSE j \in DOMAIN a : a[j][key] = h[k][key]
                 next == [k \in R |-> IF h[k][key] \in added THEN Len(h) + Again(k) ELSE k]
      <4>1. \A k \in R : h[k][key] \in added =>
                /\ Again(k) \in DOMAIN a /\ Again(k) \in 1..Len(a)
                /\ a[Again(k)][key] = h[k][key]
        BY DEF added
      <4>2. \A i, k \in R : h[i][key] = h[k][key] => i = k
        <5> SUFFICES ASSUME NEW i \in R, NEW k \in R, h[i][key] = h[k][key], i # k
                     PROVE  FALSE
          OBVIOUS
        <5>1. i \in 1..Len(h) /\ k \in 1..Len(h) /\ i \in Newest(h, key) /\ k \in Newest(h, key)
          BY <1>3, <1>6
        <5>2. \A m \in i+1..Len(h) : h[m][key] # h[i][key]
          BY <5>1 DEF Newest
        <5>3. \A m \in k+1..Len(h) : h[m][key] # h[k][key]
          BY <5>1 DEF Newest
        <5> QED
          BY <1>6, <5>1, <5>2, <5>3
      <4>3. \A k \in R : k \in 1..Len(h)
        BY <1>3, <1>6
      <4> HIDE DEF Again
      <4>4. next \in [R -> E]
        <5> SUFFICES ASSUME NEW k \in R PROVE next[k] \in E
          OBVIOUS
        <5>1. CASE h[k][key] \in added
          <6>1. next[k] = Len(h) + Again(k) /\ Again(k) \in 1..Len(a)
            BY <4>1, <5>1
          <6>2. next[k] \in New
            BY <1>6, <6>1
          <6> QED
            BY <1>2, <6>2
        <5>2. CASE h[k][key] \notin added
          BY <1>2, <5>2
        <5> QED
          BY <5>1, <5>2
      <4>5. \A i, k \in R : next[i] = next[k] => i = k
        <5> SUFFICES ASSUME NEW i \in R, NEW k \in R, next[i] = next[k] PROVE i = k
          OBVIOUS
        <5>1. CASE h[i][key] \in added /\ h[k][key] \in added
          <6>1. Again(i) = Again(k)
            BY <1>6, <4>1, <5>1
          <6> QED
            BY <4>1, <4>2, <5>1, <6>1
        <5>2. CASE h[i][key] \notin added /\ h[k][key] \notin added
          BY <5>2
        <5>3. CASE h[i][key] \in added /\ h[k][key] \notin added
          BY <1>6, <4>1, <4>3, <5>3
        <5>4. CASE h[i][key] \notin added /\ h[k][key] \in added
          BY <1>6, <4>1, <4>3, <5>4
        <5> QED
          BY <5>1, <5>2, <5>3, <5>4
      <4> HIDE DEF next
      <4>6. next \in Injection(R, E)
        BY <4>4, <4>5 DEF Injection, IsInjective
      <4> QED
        BY <3>1, <4>6, FS_Injection
    <3>3. Cardinality(T) <= n /\ (T = E \/ Cardinality(T) = n)
      BY <1>8 DEF Final
    <3>4. Cardinality(E) \in Nat
      BY <3>1, FS_CardinalityType
    <3> QED
      BY <2>2, <3>2, <3>3, <3>4
  <2> QED
    BY <1>1, <2>1, <2>2 DEF Final
<1>11. Final(T, Newest(H, key), n)
  BY <1>8, <1>9, <1>10 DEF Final, ClosedUp
<1>12. PICK U : Final(U, Newest(H, key), n) /\ Lists(Latest(H, key, n), H, U)
  BY <1>6, LatestLists
<1>13. Newest(H, key) \in SUBSET Nat /\ T \in SUBSET Nat
  BY <1>6, <1>11 DEF Newest, Final, ClosedUp
<1>14. T = U
  BY <1>11, <1>12, <1>13, FinalOnce
<1>15. Ending(all, n) = Latest(H, key, n)
  BY <1>8, <1>12, <1>13, <1>14, ListsOnce
<1>16. Merge(s, a, key, n) = Ending(all, n)
  BY DEF Merge, Ending, Without, all, added
<1> QED
  BY <1>15, <1>16 DEF s, H

----------------------------------------------------------------------------
(* What the states carry.                                                  *)

\* F gives for each state what the decisions on the way to it committed.
Traces(F, field) ==
    \A i \in DOMAIN log :
        F[i] = IF log[i] = InitialState THEN <<>> ELSE F[log[i].parent] \o log[i].decision[field]

\* The states carry the latest items of their histories.
Carries(S, field, part, key, maximum) ==
    \E F \in [DOMAIN log -> Seq(S)] :
        Traces(F, field) /\ \A i \in DOMAIN log : log[i][part] = Latest(F[i], key, maximum)

\* Every state but the initial one has an earlier parent.
Parents == \A i \in DOMAIN log : log[i] = InitialState \/ log[i].parent \in 1..i-1

\* As parents come first, there is only one such function.
LEMMA HistoryTraces ==
    ASSUME Parents, \E S : log \in Seq(S),
           NEW S, NEW F \in [DOMAIN log -> Seq(S)], NEW field, Traces(F, field)
    PROVE  History(field) = F
<1> DEFINE rest(H) == [i \in DOMAIN log |-> IF log[i] = InitialState THEN <<>>
                                            ELSE H[log[i].parent] \o log[i].decision[field]]
           G == CHOOSE H : H = rest(H)
<1>1. History(field) = G
  BY DEF History
<1>2. F = rest(F)
  BY DEF Traces
<1>3. G = rest(G)
  <2> HIDE DEF rest
  <2> QED
    BY <1>2
<1> HIDE DEF rest, G
<1>4. DOMAIN G = DOMAIN log
  <2>1. DOMAIN rest(G) = DOMAIN log
    BY DEF rest
  <2> QED
    BY <1>3, <2>1
<1>5. \A i \in DOMAIN log : G[i] = IF log[i] = InitialState THEN <<>>
                                   ELSE G[log[i].parent] \o log[i].decision[field]
  <2> TAKE i \in DOMAIN log
  <2>1. rest(G)[i] = IF log[i] = InitialState THEN <<>>
                     ELSE G[log[i].parent] \o log[i].decision[field]
    BY DEF rest
  <2> QED
    BY <1>3, <2>1
<1> DEFINE Wrong == {i \in DOMAIN log : G[i] # F[i]}
<1>6. Wrong = {}
  <2> SUFFICES ASSUME Wrong # {} PROVE FALSE
    OBVIOUS
  <2>1. PICK i \in Wrong : \A j \in Wrong : i <= j
    <3>1. Wrong \in SUBSET Nat
      OBVIOUS
    <3> HIDE DEF Wrong
    <3> QED
      BY <3>1, Least
  <2>2. i \in DOMAIN log /\ i \in Nat /\ G[i] # F[i]
    OBVIOUS
  <2>3. log[i] # InitialState
    BY <1>5, <2>2 DEF Traces
  <2>4. log[i].parent \in 1..i-1
    BY <2>2, <2>3 DEF Parents
  <2>5. log[i].parent \in DOMAIN log /\ ~(i <= log[i].parent)
    BY <2>2, <2>4
  <2>6. G[log[i].parent] = F[log[i].parent]
    BY <2>1, <2>5
  <2> QED
    BY <1>5, <2>2, <2>3, <2>6 DEF Traces
<1>7. \A i \in DOMAIN log : G[i] = F[i]
  BY <1>6
<1> HIDE DEF Wrong
<1>8. G = F
  BY <1>3, <1>4, <1>7 DEF rest
<1> QED
  BY <1>1, <1>8

\* A state recorded by merging what its decision committed carries on.
LEMMA CarryOn ==
    ASSUME NEW S, NEW field, NEW part, NEW key, NEW maximum \in Nat,
           \E T : log \in Seq(T), Parents, Carries(S, field, part, key, maximum),
           NEW s, log' = Recorded(log, s),
           s # InitialState, s.parent \in DOMAIN log,
           s.decision[field] \in Seq(S),
           \A i, j \in DOMAIN s.decision[field] :
              s.decision[field][i][key] = s.decision[field][j][key] => i = j,
           s[part] = Merge(log[s.parent][part], s.decision[field], key, maximum)
    PROVE  Carries(S, field, part, key, maximum)'
<1>1. /\ DOMAIN log \subseteq DOMAIN log' /\ \A i \in DOMAIN log : log'[i] = log[i]
      /\ \A i \in DOMAIN log' : i \in DOMAIN log \/ log'[i] = s
      /\ DOMAIN log \subseteq Nat
  BY Recording
<1>2. PICK F \in [DOMAIN log -> Seq(S)] :
         Traces(F, field) /\ \A i \in DOMAIN log : log[i][part] = Latest(F[i], key, maximum)
  BY DEF Carries
<1>3. PICK a \in Seq(S) : a = s.decision[field]
  OBVIOUS
<1>4. \A i \in DOMAIN log : log[i] # InitialState => log[i].parent \in DOMAIN log
  <2>1. PICK T : log \in Seq(T)
    OBVIOUS
  <2> QED
    BY <2>1 DEF Parents
<1>5. PICK h \in Seq(S) : h = F[s.parent]
  BY <1>2
<1>6. PICK G : G = [i \in DOMAIN log' |-> IF i \in DOMAIN log THEN F[i] ELSE h \o a]
  OBVIOUS
<1>7. G \in [DOMAIN log' -> Seq(S)]
  <2>1. h \o a \in Seq(S)
    BY ConcatProperties
  <2> QED
    BY <1>2, <1>6, <2>1
<1>8. s[part] = Latest(h \o a, key, maximum)
  <2>1. s[part] = Merge(Latest(h, key, maximum), a, key, maximum)
    BY <1>2, <1>3, <1>5
  <2>2. \A i, j \in DOMAIN a : a[i][key] = a[j][key] => i = j
    BY <1>3
  <2>3. Merge(Latest(h, key, maximum), a, key, maximum) = Latest(h \o a, key, maximum)
    BY <2>2, MergeLatest
  <2> QED
    BY <2>1, <2>3
<1>9. (\A i \in DOMAIN log : G[i] = F[i]) /\ G[s.parent] = h
  BY <1>1, <1>5, <1>6
<1>10. \A i \in DOMAIN log' : i \notin DOMAIN log => G[i] = h \o a /\ log'[i] = s
  BY <1>1, <1>6
<1>11. Traces(G, field)'
  <2>1. ASSUME NEW i \in DOMAIN log'
        PROVE  G[i] = IF log'[i] = InitialState THEN <<>>
                      ELSE G[log'[i].parent] \o log'[i].decision[field]
    <3>1. CASE i \in DOMAIN log
      <4>1. F[i] = IF log[i] = InitialState THEN <<>>
                   ELSE F[log[i].parent] \o log[i].decision[field]
        BY <1>2, <3>1 DEF Traces
      <4>2. G[i] = F[i] /\ log'[i] = log[i]
        BY <1>1, <1>9, <3>1
      <4>3. log[i] # InitialState => G[log[i].parent] = F[log[i].parent]
        BY <1>4, <1>9, <3>1
      <4> QED
        BY ONLY <4>1, <4>2, <4>3
    <3>2. CASE i \notin DOMAIN log
      BY <1>3, <1>9, <1>10, <2>1, <3>2
    <3> QED
      BY <3>1, <3>2
  <2> QED
    BY <2>1 DEF Traces, InitialState
<1>12. \A i \in DOMAIN log' : log'[i][part] = Latest(G[i], key, maximum)
  BY <1>1, <1>2, <1>8, <1>9, <1>10
<1> QED
  BY <1>7, <1>11, <1>12 DEF Carries

\* The log is typed and within its sizes, its states carry the latest items of their
\* histories, and a candidate is only checked when it has the shape asked for.
CarriedInv ==
    /\ log \in Seq(State)
    /\ \A i \in DOMAIN log :
          Len(log[i].facts) <= MaxFacts /\ Len(log[i].files) <= MaxFiles
    /\ Carries(FactDecl, "facts", "facts", "id", MaxFacts)
    /\ Carries(ChangeDecl, "changes", "files", "path", MaxFiles)
    /\ edits \in Nat
    /\ \A p \in Procs : pc[p] = "checking" => job[p].candidate.body.shaped

\* A decision that commits all of a shaped candidate names nothing twice.
LEMMA CommitsDistinct ==
    ASSUME NEW d \in Decision, CommitsAll(d), d.candidate.body.shaped
    PROVE  /\ \A i, j \in DOMAIN d["facts"] : d["facts"][i]["id"] = d["facts"][j]["id"] => i = j
           /\ \A i, j \in DOMAIN d["changes"] :
                 d["changes"][i]["path"] = d["changes"][j]["path"] => i = j
<1>1. d.candidate.body \in Bodies
  BY DEF Decision, Candidate
<1>2. DistinctKeys(d.candidate.body)
  BY <1>1, HandoffConstants
<1>3. d["facts"] = d.candidate.body.facts /\ d["changes"] = d.candidate.body.changes
  BY DEF CommitsAll
<1> QED
  BY <1>2, <1>3 DEF DistinctKeys

\* Recording the state after a commit.
LEMMA CommitCarried ==
    ASSUME \E T : log \in Seq(T), CarriedInv, Parents,
           NEW j \in Job, NEW d \in Decision, d = MakeDecision("COMMIT", j),
           CommitsAll(d), d.candidate.body.shaped, j.task.state \in DOMAIN log,
           log' = Recorded(log, NextState(j, d))
    PROVE  /\ (log \in Seq(State))'
           /\ (\A i \in DOMAIN log :
                 Len(log[i].facts) <= MaxFacts /\ Len(log[i].files) <= MaxFiles)'
           /\ Carries(FactDecl, "facts", "facts", "id", MaxFacts)'
           /\ Carries(ChangeDecl, "changes", "files", "path", MaxFiles)'
<1>1. PICK s : s = NextState(j, d)
  OBVIOUS
<1>2. /\ s.sequence = log[j.task.state].sequence + 1 /\ s.parent = j.task.state
      /\ s.decision = d
      /\ s["facts"] = Merge(log[j.task.state]["facts"], j["facts"], "id", MaxFacts)
      /\ s["files"] = Merge(log[j.task.state]["files"], j["changes"], "path", MaxFiles)
      /\ s = [sequence |-> s.sequence, parent |-> s.parent, decision |-> s.decision,
              facts |-> s.facts, files |-> s.files]
  BY <1>1 DEF NextState
<1>3. d["facts"] = j["facts"] /\ d["changes"] = j["changes"]
      /\ d["facts"] \in Seq(FactDecl) /\ d["changes"] \in Seq(ChangeDecl)
  BY DEF MakeDecision, Decision
<1>4. log[j.task.state] \in State /\ log[j.task.state].sequence \in Nat /\ j.task.state \in Nat
  <2>1. log \in Seq(State)
    BY DEF CarriedInv
  <2>2. log[j.task.state] \in State /\ j.task.state \in Nat
    BY <2>1
  <2> QED
    BY <2>2 DEF State
<1>5. s # InitialState
  <2>1. s.sequence # 0
    BY <1>2, <1>4
  <2> QED
    BY <2>1 DEF InitialState
<1>6. MaxFacts \in Nat /\ MaxFiles \in Nat
  BY HandoffConstants
<1>7. Carries(FactDecl, "facts", "facts", "id", MaxFacts)'
  <2>1. s.decision["facts"] \in Seq(FactDecl)
        /\ \A i, k \in DOMAIN s.decision["facts"] :
              s.decision["facts"][i]["id"] = s.decision["facts"][k]["id"] => i = k
    BY <1>2, <1>3, CommitsDistinct
  <2>2. s["facts"] = Merge(log[s.parent]["facts"], s.decision["facts"], "id", MaxFacts)
    BY <1>2, <1>3
  <2>3. Carries(FactDecl, "facts", "facts", "id", MaxFacts) /\ log' = Recorded(log, s)
        /\ s.parent \in DOMAIN log
    BY <1>1, <1>2 DEF CarriedInv
  <2> QED
    BY <1>5, <1>6, <2>1, <2>2, <2>3, CarryOn
<1>8. Carries(ChangeDecl, "changes", "files", "path", MaxFiles)'
  <2>1. s.decision["changes"] \in Seq(ChangeDecl)
        /\ \A i, k \in DOMAIN s.decision["changes"] :
              s.decision["changes"][i]["path"] = s.decision["changes"][k]["path"] => i = k
    BY <1>2, <1>3, CommitsDistinct
  <2>2. s["files"] = Merge(log[s.parent]["files"], s.decision["changes"], "path", MaxFiles)
    BY <1>2, <1>3
  <2>3. Carries(ChangeDecl, "changes", "files", "path", MaxFiles) /\ log' = Recorded(log, s)
        /\ s.parent \in DOMAIN log
    BY <1>1, <1>2 DEF CarriedInv
  <2> QED
    BY <1>5, <1>6, <2>1, <2>2, <2>3, CarryOn
<1>9. /\ DOMAIN log \subseteq DOMAIN log' /\ \A i \in DOMAIN log : log'[i] = log[i]
      /\ \A i \in DOMAIN log' : i \in DOMAIN log \/ log'[i] = s
  BY <1>1, Recording
<1>10. ASSUME NEW i \in DOMAIN log'
       PROVE  /\ log'[i]["facts"] \in Seq(FactDecl) /\ Len(log'[i]["facts"]) <= MaxFacts
              /\ log'[i]["files"] \in Seq(ChangeDecl) /\ Len(log'[i]["files"]) <= MaxFiles
  <2>1. PICK F \in [DOMAIN log' -> Seq(FactDecl)] :
           log'[i]["facts"] = Latest(F[i], "id", MaxFacts)
    BY <1>7, <1>10 DEF Carries
  <2>2. PICK G \in [DOMAIN log' -> Seq(ChangeDecl)] :
           log'[i]["files"] = Latest(G[i], "path", MaxFiles)
    BY <1>8, <1>10 DEF Carries
  <2>3. F[i] \in Seq(FactDecl) /\ G[i] \in Seq(ChangeDecl)
    BY <2>1, <2>2
  <2> QED
    BY <1>6, <2>1, <2>2, <2>3, LatestTyped
<1>11. log' \in Seq(State)
  <2>1. CASE \E i \in DOMAIN log : log[i] = s
    BY <1>1, <2>1 DEF Recorded, CarriedInv
  <2>2. CASE ~\E i \in DOMAIN log : log[i] = s
    <3>1. log' = Append(log, s) /\ log \in Seq(State)
      BY <1>1, <2>2 DEF Recorded, CarriedInv
    <3>2. Len(log) + 1 \in DOMAIN log' /\ log'[Len(log) + 1] = s
      <4>1. PICK T : T = State \cup {s}
        OBVIOUS
      <4>2. log \in Seq(T) /\ s \in T
        BY <3>1, <4>1
      <4> QED
        BY <3>1, <4>2
    <3>3. s["facts"] \in Seq(FactDecl) /\ s["files"] \in Seq(ChangeDecl)
      BY <1>10, <3>2
    <3>4. s \in State
      <4>1. s.sequence \in Nat /\ s.parent \in Nat /\ s.decision \in Decision
        BY <1>2, <1>4
      <4> QED
        BY ONLY <1>2, <3>3, <4>1 DEF State
    <3> QED
      BY <3>1, <3>4
  <2> QED
    BY <2>1, <2>2
<1> QED
  BY <1>7, <1>8, <1>10, <1>11

\* The log untouched, it carries on.
LEMMA CarriesStay ==
    ASSUME NEW S, NEW field, NEW part, NEW key, NEW maximum,
           Carries(S, field, part, key, maximum), log' = log
    PROVE  Carries(S, field, part, key, maximum)'
BY DEF Carries, Traces

\* The log changes only when a command concludes with COMMIT.
LEMMA LogStep ==
    ASSUME IInv, [Next]_vars
    PROVE  \/ log' = log
           \/ \E p \in Procs :
                 /\ pc[p] = "checking" /\ Conclude(p) /\ Verdict(job[p]) = "COMMIT"
                 /\ log' = Recorded(log, NextState(job[p], MakeDecision("COMMIT", job[p])))
<1>1. CASE UNCHANGED vars
  BY <1>1 DEF vars
<1>2. ASSUME NEW f \in Inside, NEW c \in Contents \cup {Absent}, EditWorkspace(f, c)
      PROVE  log' = log
  BY <1>2 DEF EditWorkspace
<1>3. ASSUME NEW d \in Dirs, NEW name \in Names, MakeTask(d, name) PROVE log' = log
  BY <1>3 DEF MakeTask
<1>4. ASSUME NEW p \in Procs, NEW d \in Dirs, Initialize(p, d) PROVE log' = log
  BY <1>4 DEF Initialize
<1>5. ASSUME NEW p \in Procs, NEW from, NEW out, NEW task, NEW candidate,
             Begin(p, from, out, task, candidate)
      PROVE  log' = log
  BY <1>5 DEF Begin, Decide
<1>6. ASSUME NEW p \in Procs, CheckChange(p) PROVE log' = log
  BY <1>6 DEF CheckChange, Decide
<1>7. ASSUME NEW p \in Procs, CheckFact(p) PROVE log' = log
  BY <1>7 DEF CheckFact, Decide
<1>8. ASSUME NEW p \in Procs, Conclude(p)
      PROVE  \/ log' = log
             \/ /\ pc[p] = "checking" /\ Verdict(job[p]) = "COMMIT"
                /\ log' = Recorded(log, NextState(job[p], MakeDecision("COMMIT", job[p])))
  BY <1>8 DEF Conclude, Decide
<1>9. ASSUME NEW p \in Procs,
             WriteDecision(p) \/ OpenState(p) \/ WriteState(p) \/ Crash(p)
      PROVE  log' = log
  BY <1>9 DEF WriteDecision, OpenState, WriteState, Crash
<1> QED
  BY <1>1, <1>2, <1>3, <1>4, <1>5, <1>6, <1>7, <1>8, <1>9 DEF Next

\* A candidate being checked has the shape asked for when its command began.
LEMMA ShapeStep ==
    ASSUME IInv, CarriedInv, [Next]_vars, NEW q \in Procs, pc'[q] = "checking"
    PROVE  job'[q].candidate.body.shaped
<1>0. /\ pc \in [Procs -> Points] /\ job \in [Procs -> Job \cup {None}]
      /\ pc[q] = "checking" => job[q].candidate.body.shaped
      /\ \A p \in Procs : pc[p] # "idle" => job[p] \in Job
  BY DEF IInv, LocalInv, CarriedInv
<1>1. CASE pc'[q] = pc[q] /\ job'[q] = job[q]
  BY <1>0, <1>1
<1>2. ASSUME NEW p \in Procs, pc' = [pc EXCEPT ![p] = "decision open"],
             \E j : job' = [job EXCEPT ![p] = j]
      PROVE  pc'[q] = pc[q] /\ job'[q] = job[q]
  BY <1>0, <1>2
<1> DEFINE Quiet == \/ UNCHANGED vars
                    \/ \E f \in Inside, c \in Contents \cup {Absent} : EditWorkspace(f, c)
                    \/ \E d \in Dirs, name \in Names : MakeTask(d, name)
           Starting == \E p \in Procs, d \in Dirs : Initialize(p, d)
           Beginning == \E p \in Procs, from, out \in Dirs, task, other \in tasks,
                           body \in Bodies :
                              Begin(p, from, out, task, [task |-> other, body |-> body])
           Running == \E p \in Procs :
                         \/ CheckChange(p) \/ CheckFact(p) \/ Conclude(p)
                         \/ WriteDecision(p) \/ OpenState(p) \/ WriteState(p) \/ Crash(p)
<1>3. ASSUME Quiet PROVE pc'[q] = pc[q] /\ job'[q] = job[q]
  BY <1>3 DEF vars, EditWorkspace, MakeTask
<1>4. ASSUME NEW p \in Procs, NEW d \in Dirs, Initialize(p, d)
      PROVE  pc'[q] = pc[q] /\ job'[q] = job[q]
  BY <1>0, <1>4 DEF Initialize
<1>5. ASSUME NEW p \in Procs, NEW from \in Dirs, NEW out \in Dirs, NEW task, NEW candidate,
             Begin(p, from, out, task, candidate)
      PROVE  job'[q].candidate.body.shaped
  <2>1. CASE WellBound(task, candidate)
    <3>1. /\ pc' = [pc EXCEPT ![p] = "checking"]
          /\ job' = [job EXCEPT ![p] = NewJob(out, task, candidate, 0)]
      BY <1>5, <2>1 DEF Begin
    <3>2. CASE q = p
      <4>1. job'[q].candidate = candidate
        BY <1>0, <3>1, <3>2 DEF NewJob
      <4> QED
        BY <2>1, <4>1 DEF WellBound
    <3>3. CASE q # p
      BY <1>0, <1>1, <3>1, <3>3
    <3> QED
      BY <3>2, <3>3
  <2>2. CASE ~WellBound(task, candidate)
    <3>1. Decide(p, "DENY", NewJob(out, task, candidate, 0))
      BY <1>5, <2>2 DEF Begin
    <3> QED
      BY <1>1, <1>2, <3>1 DEF Decide
  <2> QED
    BY <2>1, <2>2
<1>6. ASSUME NEW p \in Procs, pc[p] = "checking", pc' = pc,
             NEW j, job' = [job EXCEPT ![p] = j], j.candidate = job[p].candidate
      PROVE  job'[q].candidate.body.shaped
  <2>1. CASE q = p
    <3>1. job'[q].candidate = job[q].candidate
      BY <1>0, <1>6, <2>1
    <3> QED
      BY <1>0, <1>6, <2>1, <3>1
  <2>2. CASE q # p
    BY <1>0, <1>1, <1>6, <2>2
  <2> QED
    BY <2>1, <2>2
<1>7. ASSUME NEW p \in Procs, CheckChange(p) PROVE job'[q].candidate.body.shaped
  <2>1. PICK c : c = job[p].candidate.body.changes[job[p].item]
    OBVIOUS
  <2>2. CASE c.path \notin Inside
    BY <1>1, <1>2, <1>7, <2>1, <2>2 DEF CheckChange, Decide
  <2>3. CASE c.path \in Inside
    <3>1. PICK j : j = IF ChangeHolds(c)
                       THEN [job[p] EXCEPT !.item = @ + 1, !.changes = Append(@, c)]
                       ELSE [job[p] EXCEPT !.item = @ + 1, !.doubt = TRUE]
      OBVIOUS
    <3>2. pc[p] = "checking" /\ pc' = pc /\ job' = [job EXCEPT ![p] = j]
      BY <1>7, <2>1, <2>3, <3>1 DEF CheckChange
    <3>3. j.candidate = job[p].candidate
      BY <1>0, <3>1, <3>2 DEF Job
    <3> QED
      BY <1>6, <3>2, <3>3
  <2> QED
    BY <2>2, <2>3
<1>8. ASSUME NEW p \in Procs, CheckFact(p) PROVE job'[q].candidate.body.shaped
  <2>1. PICK f : f = job[p].candidate.body.facts[job[p].item - Len(job[p].candidate.body.changes)]
    OBVIOUS
  <2>2. CASE f.path \notin Inside
    BY <1>1, <1>2, <1>8, <2>1, <2>2 DEF CheckFact, Decide
  <2>3. CASE f.path \in Inside
    <3>1. PICK j : j = IF FactHolds(f)
                       THEN [job[p] EXCEPT !.item = @ + 1, !.facts = Append(@, f)]
                       ELSE [job[p] EXCEPT !.item = @ + 1, !.doubt = TRUE]
      OBVIOUS
    <3>2. pc[p] = "checking" /\ pc' = pc /\ job' = [job EXCEPT ![p] = j]
      BY <1>8, <2>1, <2>3, <3>1 DEF CheckFact
    <3>3. j.candidate = job[p].candidate
      BY <1>0, <3>1, <3>2 DEF Job
    <3> QED
      BY <1>6, <3>2, <3>3
  <2> QED
    BY <2>2, <2>3
<1>9. ASSUME NEW p \in Procs, Conclude(p) PROVE pc'[q] = pc[q] /\ job'[q] = job[q]
  BY <1>2, <1>9 DEF Conclude, Decide
<1>10. ASSUME NEW p \in Procs, WriteDecision(p) \/ OpenState(p) \/ WriteState(p) \/ Crash(p)
       PROVE  pc'[q] = pc[q] /\ job'[q] = job[q]
  BY <1>0, <1>10 DEF WriteDecision, OpenState, WriteState, Crash, Idle
<1>11. Quiet => job'[q].candidate.body.shaped
  BY <1>1, <1>3
<1>12. Starting => job'[q].candidate.body.shaped
  BY <1>1, <1>4
<1>13. Beginning => job'[q].candidate.body.shaped
  BY <1>5
<1>14. Running => job'[q].candidate.body.shaped
  BY <1>1, <1>7, <1>8, <1>9, <1>10
<1>15. Quiet \/ Starting \/ Beginning \/ Running
  BY DEF Next
<1> HIDE DEF Quiet, Starting, Beginning, Running
<1> QED
  BY <1>11, <1>12, <1>13, <1>14, <1>15

\* The initial state carries nothing, and has no history.
LEMMA CarriedInit == Init => CarriedInv
<1> SUFFICES ASSUME Init PROVE CarriedInv
  OBVIOUS
<1>1. log = <<InitialState>> /\ DOMAIN log = {1} /\ log[1] = InitialState
  BY DEF Init
<1>2. InitialState \in State
  BY DEF InitialState, State
<1>3. log \in Seq(State)
  BY <1>1, <1>2
<1>4. MaxFacts \in Nat /\ MaxFiles \in Nat
  BY HandoffConstants
<1>5. Len(log[1].facts) = 0 /\ Len(log[1].files) = 0
  BY <1>1 DEF InitialState
<1>6. ASSUME NEW key, NEW n \in Nat PROVE Latest(<<>>, key, n) = <<>>
  <2>1. <<>> \in Seq({}) /\ DOMAIN <<>> = {}
    OBVIOUS
  <2>2. Latest(<<>>, key, n) \in Seq({})
    BY ONLY <2>1, n \in Nat, LatestTyped
  <2>3. \A s \in Seq({}) : s = <<>>
    <3> TAKE s \in Seq({})
    <3>1. Len(s) = 0
      <4> SUFFICES ASSUME Len(s) # 0 PROVE FALSE
        OBVIOUS
      <4>1. s[1] \in {}
        OBVIOUS
      <4> QED
        BY <4>1
    <3> QED
      BY <3>1
  <2> QED
    BY <2>2, <2>3
<1>7. ASSUME NEW S, NEW field, NEW part, NEW key, NEW n \in Nat, log[1][part] = <<>>
      PROVE  Carries(S, field, part, key, n)
  <2>1. PICK F : F = [i \in DOMAIN log |-> <<>>]
    OBVIOUS
  <2>2. F \in [DOMAIN log -> Seq(S)]
    BY <2>1
  <2>3. Traces(F, field)
    BY <1>1, <2>1 DEF Traces
  <2>4. \A i \in DOMAIN log : log[i][part] = Latest(F[i], key, n)
    BY <1>1, <1>6, <1>7, <2>1
  <2> QED
    BY <2>2, <2>3, <2>4 DEF Carries
<1>8. Carries(FactDecl, "facts", "facts", "id", MaxFacts)
  BY <1>1, <1>4, <1>7 DEF InitialState
<1>9. Carries(ChangeDecl, "changes", "files", "path", MaxFiles)
  BY <1>1, <1>4, <1>7 DEF InitialState
<1>10. edits \in Nat /\ \A p \in Procs : pc[p] # "checking"
  BY DEF Init
<1> QED
  BY <1>1, <1>3, <1>4, <1>5, <1>8, <1>9, <1>10 DEF CarriedInv

\* Only a concluding COMMIT extends the log, by a state that carries on.
LEMMA CarriedStep == IInv /\ CarriedInv /\ [Next]_vars => CarriedInv'
<1> SUFFICES ASSUME IInv, CarriedInv, [Next]_vars PROVE CarriedInv'
  OBVIOUS
<1>1. edits' \in Nat
  <2>1. edits' = edits \/ edits' = edits + 1
    BY DEF Next, vars, EditWorkspace, MakeTask, Initialize, Begin, CheckChange, CheckFact,
           Conclude, WriteDecision, OpenState, WriteState, Crash
  <2> QED
    BY <2>1 DEF CarriedInv
<1>2. \A p \in Procs : pc'[p] = "checking" => job'[p].candidate.body.shaped
  BY ShapeStep
<1>3. CASE log' = log
  <2>1. /\ Carries(FactDecl, "facts", "facts", "id", MaxFacts)'
        /\ Carries(ChangeDecl, "changes", "files", "path", MaxFiles)'
    BY <1>3, CarriesStay DEF CarriedInv
  <2> QED
    BY <1>1, <1>2, <1>3, <2>1 DEF CarriedInv
<1>4. ASSUME NEW p \in Procs,
             pc[p] = "checking" /\ Conclude(p) /\ Verdict(job[p]) = "COMMIT",
             log' = Recorded(log, NextState(job[p], MakeDecision("COMMIT", job[p])))
      PROVE  CarriedInv'
  <2>1. PICK j : j = job[p]
    OBVIOUS
  <2>2. /\ j \in Job /\ j.candidate \in Candidate /\ j.task \in tasks
        /\ CommitsAll(MakeDecision("COMMIT", j)) /\ j.candidate.body.shaped
    BY <1>4, <2>1, Concluding DEF CarriedInv
  <2>3. j.task \in Task /\ j.task.state \in DOMAIN log
    <3>1. tasks \subseteq [state: DOMAIN log, name: Names] /\ DOMAIN log \subseteq Nat
      BY Recording DEF IInv, SharedInv
    <3> QED
      BY <2>2, <3>1 DEF Task
  <2>4. PICK d \in Decision : d = MakeDecision("COMMIT", j)
    <3>1. j.changes \in Seq(ChangeDecl) /\ j.facts \in Seq(FactDecl)
      BY <2>2 DEF Job
    <3> QED
      BY <2>2, <2>3, <3>1 DEF MakeDecision, Decision
  <2>5. d.candidate = j.candidate
    BY <2>4 DEF MakeDecision
  <2>6. Parents /\ \E T : log \in Seq(T)
    BY DEF IInv, SharedInv, LineageCommitted, Parents
  <2>7. log' = Recorded(log, NextState(j, d))
    BY <1>4, <2>1, <2>4
  <2>8. /\ (log \in Seq(State))'
        /\ (\A i \in DOMAIN log :
              Len(log[i].facts) <= MaxFacts /\ Len(log[i].files) <= MaxFiles)'
        /\ Carries(FactDecl, "facts", "facts", "id", MaxFacts)'
        /\ Carries(ChangeDecl, "changes", "files", "path", MaxFiles)'
    BY <2>2, <2>3, <2>4, <2>5, <2>6, <2>7, CommitCarried
  <2> QED
    BY <1>1, <1>2, <2>8 DEF CarriedInv
<1> QED
  BY <1>3, <1>4, LogStep

----------------------------------------------------------------------------
(* How states are made, and the lineage they are a refinement of.          *)

\* The state that committing body for task makes, on the states of l.
Made(l, task, body) ==
    LET s == l[task.state] IN
    [sequence |-> s.sequence + 1, parent |-> task.state,
     decision |-> [verdict |-> "COMMIT", task |-> task,
                   candidate |-> [task |-> task, body |-> body],
                   changes |-> body.changes, facts |-> body.facts],
     facts |-> Merge(s.facts, body.facts, "id", MaxFacts),
     files |-> Merge(s.files, body.changes, "path", MaxFiles)]

\* Every state but the first is what its commit makes of an earlier one.
MadeInv ==
    \A i \in DOMAIN log : i # 1 =>
        /\ log[i].decision.task.state \in 1..i-1
        /\ log[i] = Made(log, log[i].decision.task, log[i].decision.candidate.body)

\* A COMMIT is of a state made this way, from items all held.
LEMMA CommitMade ==
    ASSUME IInv, NEW p \in Procs, Conclude(p), Verdict(job[p]) = "COMMIT",
           NEW j, j = job[p], NEW d, d = MakeDecision("COMMIT", j)
    PROVE  /\ NextState(j, d) = Made(log, j.task, j.candidate.body)
           /\ j.task \in tasks /\ j.task.state \in DOMAIN log
           /\ j.candidate \in Candidate
           /\ CommitsAll(d)
           /\ \A i \in DOMAIN j.candidate.body.changes :
                 <<j.candidate.body.changes[i].path, j.candidate.body.changes[i].content>> \in held[p]
           /\ \A i \in DOMAIN j.candidate.body.facts :
                 /\ <<j.candidate.body.facts[i].path, j.candidate.body.facts[i].content>> \in held[p]
                 /\ Reads[j.candidate.body.facts[i].content] = j.candidate.body.facts[i].value
<1> DEFINE b == j.candidate.body
<1>1. /\ j \in Job /\ j.candidate \in Candidate /\ j.task \in tasks
      /\ j.item > Len(b.changes) + Len(b.facts)
      /\ CommitsAll(d)
      /\ ChangesHeld(p, b, j.item) /\ FactsHeld(p, b, j.item)
  BY Concluding
<1>2. /\ d.task = j.task /\ d.candidate = j.candidate /\ d.changes = j.changes /\ d.facts = j.facts
      /\ d = [verdict |-> "COMMIT", task |-> j.task, candidate |-> j.candidate,
              changes |-> j.changes, facts |-> j.facts]
  BY DEF MakeDecision
<1>3. j.candidate.task = j.task /\ j.changes = b.changes /\ j.facts = b.facts
  BY <1>1, <1>2 DEF CommitsAll
<1>4. j.candidate = [task |-> j.task, body |-> b]
  BY <1>1, <1>3 DEF Candidate
<1>5. NextState(j, d) = Made(log, j.task, b)
  BY <1>2, <1>3, <1>4 DEF NextState, Made
<1>6. j.task.state \in DOMAIN log
  BY <1>1 DEF IInv, SharedInv
<1>7. /\ \A i \in DOMAIN b.changes : i < j.item
      /\ \A i \in DOMAIN b.facts : Len(b.changes) + i < j.item
  <2>1. b.changes \in Seq(ChangeDecl) /\ b.facts \in Seq(FactDecl) /\ j.item \in Nat
    BY <1>1, BodyTyped DEF Job
  <2> DEFINE cs == b.changes
             fs == b.facts
  <2>2. j.item > Len(cs) + Len(fs)
    BY <1>1
  <2> HIDE DEF b, cs, fs
  <2>3. cs \in Seq(ChangeDecl) /\ fs \in Seq(FactDecl)
    BY <2>1 DEF cs, fs
  <2>4. \A i \in DOMAIN cs : i < j.item
    BY <2>1, <2>2, <2>3
  <2>5. \A i \in DOMAIN fs : Len(cs) + i < j.item
    BY <2>1, <2>2, <2>3
  <2> QED
    BY <2>4, <2>5 DEF cs, fs
<1> QED
  BY <1>1, <1>5, <1>6, <1>7 DEF ChangesHeld, FactsHeld

LEMMA MadeInit == Init => MadeInv
BY DEF Init, MadeInv

\* States made before stay what their commits made.
LEMMA MadeStep == IInv /\ MadeInv /\ [Next]_vars => MadeInv'
<1> SUFFICES ASSUME IInv, MadeInv, [Next]_vars PROVE MadeInv'
  OBVIOUS
<1>1. CASE log' = log
  BY <1>1 DEF MadeInv, Made
<1>2. ASSUME NEW p \in Procs, Conclude(p), Verdict(job[p]) = "COMMIT",
             log' = Recorded(log, NextState(job[p], MakeDecision("COMMIT", job[p])))
      PROVE  MadeInv'
  <2> DEFINE j == job[p]
             s == Made(log, j.task, j.candidate.body)
  <2>1. /\ log' = Recorded(log, s) /\ j.task.state \in DOMAIN log
    BY <1>2, CommitMade
  <2>2. PICK S : log \in Seq(S)
    BY DEF IInv, SharedInv
  <2>3. /\ s.decision.task = j.task /\ s.decision.candidate.body = j.candidate.body
    BY DEF Made
  <2> HIDE DEF s, j
  <2>4. /\ \A i \in DOMAIN log : log'[i] = log[i]
        /\ \A i \in DOMAIN log' : i \in DOMAIN log \/ (log'[i] = s /\ i = Len(log) + 1)
    BY <2>1, <2>2, Recording
  <2>5. ASSUME NEW t, t.state \in DOMAIN log, NEW b PROVE Made(log', t, b) = Made(log, t, b)
    BY <2>4, <2>5 DEF Made
  <2>6. ASSUME NEW i \in DOMAIN log', i # 1
        PROVE  /\ log'[i].decision.task.state \in 1..i-1
               /\ log'[i] = Made(log', log'[i].decision.task, log'[i].decision.candidate.body)
    <3>1. CASE i \in DOMAIN log
      <4>1. /\ log'[i] = log[i] /\ log[i].decision.task.state \in 1..i-1
            /\ log[i] = Made(log, log[i].decision.task, log[i].decision.candidate.body)
        BY <2>4, <2>6, <3>1 DEF MadeInv
      <4>2. log[i].decision.task.state \in DOMAIN log
        BY <2>2, <3>1, <4>1
      <4> QED
        BY <2>5, <4>1, <4>2
    <3>2. CASE i \notin DOMAIN log
      <4>1. log'[i] = s /\ i = Len(log) + 1
        BY <2>4, <3>2
      <4>2. j.task.state \in 1..i-1
        BY <2>1, <2>2, <4>1
      <4>3. s = Made(log', j.task, j.candidate.body)
        BY <2>1, <2>5 DEF s
      <4> QED
        BY <2>3, <4>1, <4>2, <4>3
    <3> QED
      BY <3>1, <3>2
  <2> QED
    BY <2>6 DEF MadeInv
<1> QED
  BY <1>1, <1>2, LogStep

----------------------------------------------------------------------------
(* Every step is a step of the lineage, or none.                           *)

\* What the verifications saw is as before when none begins or ends.
LEMMA WatchingStays ==
    ASSUME \A q \in Procs : pc'[q] = "checking" <=> pc[q] = "checking",
           \A q \in Procs : pc[q] = "checking" =>
              job'[q].task = job[q].task /\ held'[q] = held[q]
    PROVE  Watching' = Watching
<1> DEFINE on == {q \in Procs : pc[q] = "checking"}
<1>1. {q \in Procs : pc'[q] = "checking"} = on
  OBVIOUS
<1>2. Watching' = [p \in on |-> [task |-> job'[p].task, seen |-> held'[p]]]
  BY <1>1 DEF Watching
<1> QED
  BY <1>2 DEF Watching

\* One verification ends.
LEMMA WatchingLeaves ==
    ASSUME NEW p \in Procs, pc[p] = "checking", pc'[p] # "checking",
           \A q \in Procs \ {p} : pc'[q] = pc[q] /\ job'[q] = job[q] /\ held'[q] = held[q]
    PROVE  /\ p \in DOMAIN Watching
           /\ Watching' = [q \in DOMAIN Watching \ {p} |-> Watching[q]]
<1> DEFINE on == {q \in Procs : pc[q] = "checking"}
<1>1. {q \in Procs : pc'[q] = "checking"} = on \ {p}
  OBVIOUS
<1>2. Watching' = [q \in on \ {p} |-> [task |-> job'[q].task, seen |-> held'[q]]]
  BY <1>1 DEF Watching
<1>3. DOMAIN Watching = on /\ \A q \in on : Watching[q] = [task |-> job[q].task, seen |-> held[q]]
  BY DEF Watching
<1> QED
  BY <1>2, <1>3

\* A command that is not verifying goes on.
LEMMA WatchingApart ==
    ASSUME NEW p \in Procs, pc[p] # "checking", pc'[p] # "checking",
           \A q \in Procs \ {p} : pc'[q] = pc[q] /\ job'[q] = job[q] /\ held'[q] = held[q]
    PROVE  Watching' = Watching
BY WatchingStays

\* A state file is written.
LEMMA ShownWritten ==
    ASSUME IInv, NEW d \in Dirs, NEW v, stateFile' = [stateFile EXCEPT ![d] = v]
    PROVE  /\ v \notin {Absent, Torn} =>
                 Shown' = [e \in DOMAIN Shown \cup {d} |-> IF e = d THEN v ELSE Shown[e]]
           /\ v \in {Absent, Torn} => Shown' = [e \in DOMAIN Shown \ {d} |-> Shown[e]]
<1>1. stateFile'[d] = v /\ \A e \in Dirs \ {d} : stateFile'[e] = stateFile[e]
  BY DEF IInv, SharedInv
<1> DEFINE on == {e \in Dirs : stateFile[e] \notin {Absent, Torn}}
<1>2. DOMAIN Shown = on /\ \A e \in on : Shown[e] = stateFile[e]
  BY DEF Shown
<1>3. CASE v \notin {Absent, Torn}
  <2>1. {e \in Dirs : stateFile'[e] \notin {Absent, Torn}} = on \cup {d}
    BY <1>1, <1>3
  <2>2. Shown' = [e \in on \cup {d} |-> stateFile'[e]]
    BY <2>1 DEF Shown
  <2> QED
    BY <1>1, <1>2, <1>3, <2>2
<1>4. CASE v \in {Absent, Torn}
  <2>1. {e \in Dirs : stateFile'[e] \notin {Absent, Torn}} = on \ {d}
    BY <1>1, <1>4
  <2>2. Shown' = [e \in on \ {d} |-> stateFile'[e]]
    BY <2>1 DEF Shown
  <2> QED
    BY <1>1, <1>2, <1>4, <2>2
<1> QED
  BY <1>3, <1>4

\* One more state is one more commit, and the states are those of the log.
LEMMA CommitsGrow ==
    ASSUME NEW S, log \in Seq(S), Len(log) >= 1, NEW s, log' = Append(log, s)
    PROVE  Commits' = Append(Commits, [task |-> s.decision.task, body |-> s.decision.candidate.body])
<1> DEFINE commit(l, i) == [task |-> l[i + 1].decision.task, body |-> l[i + 1].decision.candidate.body]
           c == [task |-> s.decision.task, body |-> s.decision.candidate.body]
           n == Len(log) - 1
<1>1. n \in Nat /\ Len(log') = n + 2 /\ \A i \in 1..n : log'[i + 1] = log[i + 1]
  OBVIOUS
<1>2. log'[n + 2] = s
  OBVIOUS
<1>3. Commits = [i \in 1..n |-> commit(log, i)]
  BY DEF Commits
<1>4. Len(log') - 1 = n + 1
  BY <1>1
<1>5. Commits' = [i \in 1..n + 1 |-> commit(log', i)]
  BY <1>4 DEF Commits
<1>6. /\ \A i \in 1..n : commit(log', i) = commit(log, i)
      /\ n + 1 + 1 = n + 2
  BY <1>1
<1>7. commit(log', n + 1) = c
  BY <1>2, <1>6
<1> HIDE DEF commit, c, n
<1>8. Len(Commits) = n /\ \E T : Commits \in Seq(T)
  <2> DEFINE T == {commit(log, i) : i \in 1..n}
  <2>1. Commits \in [1..n -> T]
    BY <1>3
  <2> HIDE DEF T
  <2>2. Commits \in Seq(T) /\ Len(Commits) = n
    BY ONLY <1>1, <2>1
  <2> QED
    BY <2>2
<1> QED
  BY <1>1, <1>3, <1>5, <1>6, <1>7, <1>8 DEF c

LEMMA EditMaps ==
    ASSUME IInv, NEW f \in Inside, NEW c \in Contents \cup {Absent}, EditWorkspace(f, c)
    PROVE  Promise!Edit(f, c)
<1>1. /\ workspace' = [workspace EXCEPT ![f] = c]
      /\ held' = [p \in Procs |-> IF pc[p] = "checking" THEN held[p] \cup {<<f, c>>}
                                                        ELSE held[p]]
      /\ UNCHANGED <<log, tasks, stateFile, pc, job>>
  BY DEF EditWorkspace, disk
<1>2. Commits' = Commits /\ Shown' = Shown
  BY <1>1 DEF Commits, Shown
<1> DEFINE on == {q \in Procs : pc[q] = "checking"}
<1>3. DOMAIN Watching = on /\ \A q \in on : Watching[q] = [task |-> job[q].task, seen |-> held[q]]
  BY DEF Watching
<1>4. Watching' = [p \in on |-> [task |-> job[p].task, seen |-> held'[p]]]
  BY <1>1 DEF Watching
<1>5. \A p \in on : held'[p] = held[p] \cup {<<f, c>>}
  BY <1>1
<1>6. \A p \in on : [Watching[p] EXCEPT !.seen = @ \cup {<<f, c>>}]
                      = [task |-> job[p].task, seen |-> held[p] \cup {<<f, c>>}]
  <2> SUFFICES ASSUME NEW p \in on, NEW w, w = Watching[p]
               PROVE  [w EXCEPT !.seen = @ \cup {<<f, c>>}]
                        = [task |-> job[p].task, seen |-> held[p] \cup {<<f, c>>}]
    OBVIOUS
  <2>1. w = [task |-> job[p].task, seen |-> held[p]]
    BY <1>3
  <2>2. ASSUME NEW a, NEW b, NEW x, w = [task |-> a, seen |-> b]
        PROVE  [w EXCEPT !.seen = @ \cup x] = [task |-> a, seen |-> b \cup x]
    BY ONLY <2>2
  <2> QED
    BY <2>1, <2>2
<1>7. Watching' = [p \in DOMAIN Watching |->
                     [Watching[p] EXCEPT !.seen = @ \cup {<<f, c>>}]]
  BY <1>3, <1>4, <1>5, <1>6
<1> QED
  BY <1>1, <1>2, <1>7 DEF Promise!Edit

LEMMA TaskMaps ==
    ASSUME IInv, NEW d \in Dirs, NEW name \in Names, MakeTask(d, name)
    PROVE  Promise!Hand(d, name)
<1>1. /\ stateFile[d] \notin {Absent, Torn}
      /\ tasks' = tasks \cup {[state |-> stateFile[d], name |-> name]}
      /\ UNCHANGED <<log, workspace, stateFile, pc, job, held>>
  BY DEF MakeTask, disk
<1>2. Commits' = Commits /\ Shown' = Shown /\ Watching' = Watching
  BY <1>1 DEF Commits, Shown, Watching
<1>3. d \in DOMAIN Shown /\ Shown[d] = stateFile[d]
  BY <1>1 DEF Shown
<1> QED
  BY <1>1, <1>2, <1>3 DEF Promise!Hand

LEMMA InitializeMaps ==
    ASSUME IInv, NEW p \in Procs, NEW d \in Dirs, Initialize(p, d)
    PROVE  Promise!Hide(d)
<1>1. /\ pc[p] = "idle" /\ pc' = [pc EXCEPT ![p] = "state open"]
      /\ job' = [job EXCEPT ![p] = NewJob(d, None, None, 1)]
      /\ stateFile' = [stateFile EXCEPT ![d] = Torn]
      /\ UNCHANGED <<log, tasks, workspace, held>>
  BY DEF Initialize
<1>2. Shown' = [e \in DOMAIN Shown \ {d} |-> Shown[e]]
  BY <1>1, ShownWritten
<1>3. Watching' = Watching
  <2>1. /\ pc'[p] = "state open"
        /\ \A q \in Procs \ {p} : pc'[q] = pc[q] /\ job'[q] = job[q] /\ held'[q] = held[q]
    BY <1>1 DEF IInv, LocalInv
  <2> QED
    BY <1>1, <2>1, WatchingApart
<1>4. Commits' = Commits
  BY <1>1 DEF Commits
<1> QED
  BY <1>1, <1>2, <1>3, <1>4 DEF Promise!Hide

LEMMA OpenStateMaps ==
    ASSUME IInv, NEW p \in Procs, OpenState(p)
    PROVE  \E d \in Dirs : Promise!Hide(d)
<1>1. PICK d : d = job[p].out
  OBVIOUS
<1>2. /\ pc[p] = "decided" /\ pc' = [pc EXCEPT ![p] = "state open"]
      /\ stateFile' = [stateFile EXCEPT ![d] = Torn]
      /\ UNCHANGED <<log, tasks, workspace, job, held>>
  BY <1>1 DEF OpenState
<1>3. d \in Dirs
  BY <1>1, <1>2 DEF IInv, LocalInv, Job
<1>4. Shown' = [e \in DOMAIN Shown \ {d} |-> Shown[e]]
  BY <1>2, <1>3, ShownWritten
<1>5. Watching' = Watching
  <2>1. /\ pc'[p] = "state open"
        /\ \A q \in Procs \ {p} : pc'[q] = pc[q] /\ job'[q] = job[q] /\ held'[q] = held[q]
    BY <1>2 DEF IInv, LocalInv
  <2> QED
    BY <1>2, <2>1, WatchingApart
<1>6. Commits' = Commits
  BY <1>2 DEF Commits
<1> QED
  BY <1>2, <1>3, <1>4, <1>5, <1>6 DEF Promise!Hide

\* The states of the log are the initial one and one for each commit.
LEMMA StatesAreCommits == IInv => Promise!States = DOMAIN log /\ Len(log) >= 1
<1> SUFFICES ASSUME IInv PROVE Promise!States = DOMAIN log /\ Len(log) >= 1
  OBVIOUS
<1>1. PICK S : log \in Seq(S)
  BY DEF IInv, SharedInv
<1>2. Len(log) \in Nat /\ DOMAIN log = 1..Len(log) /\ Len(log) >= 1
  BY <1>1 DEF IInv, SharedInv
<1> DEFINE n == Len(log) - 1
           body(i) == [task |-> log[i + 1].decision.task,
                       body |-> log[i + 1].decision.candidate.body]
           T == {body(i) : i \in 1..n}
<1>3. Commits = [i \in 1..n |-> body(i)]
  BY DEF Commits
<1>4. n \in Nat /\ Commits \in [1..n -> T]
  BY <1>2, <1>3
<1> HIDE DEF n, T, body
<1>5. Len(Commits) = n
  BY ONLY <1>4
<1>6. 1..Len(Commits) + 1 = 1..Len(log)
  BY <1>2, <1>5 DEF n
<1> QED
  BY <1>2, <1>6 DEF Promise!States

LEMMA WriteStateMaps ==
    ASSUME IInv, NEW p \in Procs, WriteState(p)
    PROVE  \E d \in Dirs : Promise!Hide(d) \/ \E n \in Promise!States : Promise!Show(d, n)
<1>1. PICK d : d = job[p].out
  OBVIOUS
<1>2. PICK v \in {job[p].next, Torn} :
         /\ pc[p] = "state open" /\ Idle(p)
         /\ stateFile' = [stateFile EXCEPT ![d] = v]
         /\ UNCHANGED <<log, tasks, workspace>>
  BY <1>1 DEF WriteState
<1>3. d \in Dirs /\ job[p].next \in DOMAIN log
  BY <1>1, <1>2 DEF IInv, LocalInv, SharedInv, ProcInv, Presentable, Job
<1>4. job[p].next \notin {Absent, Torn}
  BY <1>3, Recording, HandoffConstants DEF IInv, SharedInv
<1>5. Watching' = Watching
  <2>1. /\ pc'[p] = "idle"
        /\ \A q \in Procs \ {p} : pc'[q] = pc[q] /\ job'[q] = job[q] /\ held'[q] = held[q]
    BY <1>2 DEF IInv, LocalInv, Idle
  <2> QED
    BY <1>2, <2>1, WatchingApart
<1>6. Commits' = Commits
  BY <1>2 DEF Commits
<1>7. CASE v = Torn
  <2>1. Shown' = [e \in DOMAIN Shown \ {d} |-> Shown[e]]
    BY <1>2, <1>3, <1>7, ShownWritten
  <2> QED
    BY <1>2, <1>3, <1>5, <1>6, <2>1 DEF Promise!Hide
<1>8. CASE v = job[p].next
  <2>1. Shown' = [e \in DOMAIN Shown \cup {d} |-> IF e = d THEN v ELSE Shown[e]]
    <3>1. v \notin {Absent, Torn}
      BY <1>4, <1>8
    <3>2. stateFile' = [stateFile EXCEPT ![d] = v]
      BY <1>2
    <3> QED
      BY <1>3, <3>1, <3>2, ShownWritten
  <2>2. v \in Promise!States
    BY <1>3, <1>8, StatesAreCommits
  <2>3. Promise!Show(d, v)
    BY <1>2, <1>5, <1>6, <2>1 DEF Promise!Show
  <2> QED
    BY <1>3, <2>2, <2>3
<1> QED
  BY <1>2, <1>7, <1>8

LEMMA BeginMaps ==
    ASSUME IInv, NEW p \in Procs, NEW from \in Dirs, NEW out \in Dirs, NEW task \in tasks,
           NEW candidate, Begin(p, from, out, task, candidate)
    PROVE  Promise!Watch(p, from, task) \/ UNCHANGED Promise!vars
<1> DEFINE j == NewJob(out, task, candidate, 0)
           seen == {<<f, workspace[f]>> : f \in Inside}
<1>1. /\ pc[p] = "idle" /\ stateFile[from] = task.state
      /\ held' = [held EXCEPT ![p] = seen]
      /\ UNCHANGED <<tasks, workspace, stateFile>>
  BY DEF Begin, Current
<1>2. held'[p] = seen /\ \A q \in Procs \ {p} : held'[q] = held[q]
  BY <1>1 DEF IInv, LocalInv
<1>3. Shown' = Shown
  BY <1>1 DEF Shown
<1>4. CASE WellBound(task, candidate)
  <2>1. /\ pc' = [pc EXCEPT ![p] = "checking"] /\ job' = [job EXCEPT ![p] = j] /\ log' = log
    BY <1>4 DEF Begin
  <2> HIDE DEF seen
  <2>2. j.task = task
    BY DEF NewJob
  <2> HIDE DEF j
  <2>3. /\ pc'[p] = "checking" /\ job'[p] = j
        /\ \A q \in Procs \ {p} : pc'[q] = pc[q] /\ job'[q] = job[q]
    BY <2>1 DEF IInv, LocalInv
  <2> DEFINE on == {q \in Procs : pc[q] = "checking"}
  <2>4. {q \in Procs : pc'[q] = "checking"} = on \cup {p}
    BY <2>3
  <2>5. Watching' = [q \in on \cup {p} |-> [task |-> job'[q].task, seen |-> held'[q]]]
    BY <2>4 DEF Watching
  <2>6. DOMAIN Watching = on /\ \A q \in on : Watching[q] = [task |-> job[q].task, seen |-> held[q]]
    BY DEF Watching
  <2>7. p \notin on
    BY <1>1
  <2>8. Watching' = [q \in DOMAIN Watching \cup {p} |->
                       IF q = p THEN [task |-> task, seen |-> seen] ELSE Watching[q]]
    <3> DEFINE w(q) == [task |-> job'[q].task, seen |-> held'[q]]
               v(q) == IF q = p THEN [task |-> task, seen |-> seen] ELSE Watching[q]
    <3>1. w(p) = v(p)
      BY <1>2, <2>2, <2>3
    <3>2. ASSUME NEW q \in on PROVE w(q) = v(q)
      <4>1. q # p /\ q \in Procs
        BY <2>7
      <4>2. job'[q] = job[q] /\ held'[q] = held[q]
        BY <1>2, <2>3, <4>1
      <4> QED
        BY <2>6, <4>1, <4>2
    <3>3. \A q \in on \cup {p} : w(q) = v(q)
      BY <3>1, <3>2
    <3>4. Watching' = [q \in on \cup {p} |-> w(q)]
      BY <2>5
    <3>5. DOMAIN Watching = on
      BY <2>6
    <3> HIDE DEF w, v, on
    <3>6. Watching' = [q \in on \cup {p} |-> v(q)]
      BY ONLY <3>3, <3>4
    <3> QED
      BY <3>5, <3>6 DEF v
  <2>9. from \in DOMAIN Shown /\ Shown[from] = task.state
    <3>1. task.state \in DOMAIN log /\ DOMAIN log \subseteq Nat
      BY Recording DEF IInv, SharedInv
    <3>2. stateFile[from] \notin {Absent, Torn}
      BY <1>1, <3>1, HandoffConstants
    <3> QED
      BY <1>1, <3>2 DEF Shown
  <2>10. Commits' = Commits
    BY <2>1 DEF Commits
  <2>11. p \notin DOMAIN Watching
    BY <2>6, <2>7
  <2> QED
    BY <1>1, <1>3, <2>8, <2>9, <2>10, <2>11 DEF Promise!Watch, seen
<1>5. CASE ~WellBound(task, candidate)
  <2>1. Decide(p, "DENY", j)
    BY <1>5 DEF Begin
  <2>2. /\ pc'[p] # "checking" /\ log' = log
        /\ \A q \in Procs \ {p} : pc'[q] = pc[q] /\ job'[q] = job[q]
    BY <2>1 DEF Decide, IInv, LocalInv
  <2>3. Watching' = Watching
    BY <1>1, <1>2, <2>2, WatchingApart
  <2>4. Commits' = Commits
    BY <2>2 DEF Commits
  <2> QED
    BY <1>1, <1>3, <2>3, <2>4 DEF Promise!vars
<1> QED
  BY <1>4, <1>5

\* A verdict other than COMMIT, or a death, ends the verification and nothing else.
LEMMA LeaveMaps ==
    ASSUME IInv, NEW p \in Procs, pc[p] = "checking", pc'[p] # "checking",
           \A q \in Procs \ {p} : pc'[q] = pc[q] /\ job'[q] = job[q] /\ held'[q] = held[q],
           UNCHANGED <<log, tasks, workspace, stateFile>>
    PROVE  Promise!Leave(p)
<1>1. Commits' = Commits /\ Shown' = Shown
  BY DEF Commits, Shown
<1> QED
  BY <1>1, WatchingLeaves DEF Promise!Leave

\* An item is checked, or the candidate denied for it.
LEMMA CheckMaps ==
    ASSUME IInv, NEW p \in Procs, CheckChange(p) \/ CheckFact(p)
    PROVE  Promise!Leave(p) \/ UNCHANGED Promise!vars
<1>1. pc[p] = "checking" /\ UNCHANGED <<tasks, workspace, stateFile, held>>
  BY DEF CheckChange, CheckFact
<1>2. PICK j : j = job[p] /\ j \in Job
  BY <1>1 DEF IInv, LocalInv
<1>3. CASE Decide(p, "DENY", j)
  <2>1. /\ pc'[p] # "checking" /\ log' = log
        /\ \A q \in Procs \ {p} : pc'[q] = pc[q] /\ job'[q] = job[q]
    BY <1>3 DEF Decide, IInv, LocalInv
  <2> QED
    BY <1>1, <2>1, LeaveMaps
<1>4. CASE ~Decide(p, "DENY", j)
  <2>1. /\ UNCHANGED <<log, pc>>
        /\ \E x : job' = [job EXCEPT ![p] = x] /\ x.task = j.task
    <3>1. CASE CheckChange(p)
      <4> DEFINE c == j.candidate.body.changes[j.item]
      <4>1. /\ UNCHANGED <<log, pc>>
            /\ job' = [job EXCEPT ![p] =
                  IF ChangeHolds(c)
                  THEN [j EXCEPT !.item = @ + 1, !.changes = Append(@, c)]
                  ELSE [j EXCEPT !.item = @ + 1, !.doubt = TRUE]]
        BY <1>2, <1>4, <3>1 DEF CheckChange
      <4> HIDE DEF c
      <4>2. /\ [j EXCEPT !.item = @ + 1, !.changes = Append(@, c)].task = j.task
            /\ [j EXCEPT !.item = @ + 1, !.doubt = TRUE].task = j.task
        BY <1>2 DEF Job
      <4> QED
        BY <4>1, <4>2
    <3>2. CASE CheckFact(p)
      <4> DEFINE f == j.candidate.body.facts[j.item - Len(j.candidate.body.changes)]
      <4>1. /\ UNCHANGED <<log, pc>>
            /\ job' = [job EXCEPT ![p] =
                  IF FactHolds(f)
                  THEN [j EXCEPT !.item = @ + 1, !.facts = Append(@, f)]
                  ELSE [j EXCEPT !.item = @ + 1, !.doubt = TRUE]]
        BY <1>2, <1>4, <3>2 DEF CheckFact
      <4> HIDE DEF f
      <4>2. /\ [j EXCEPT !.item = @ + 1, !.facts = Append(@, f)].task = j.task
            /\ [j EXCEPT !.item = @ + 1, !.doubt = TRUE].task = j.task
        BY <1>2 DEF Job
      <4> QED
        BY <4>1, <4>2
    <3> QED
      BY <3>1, <3>2
  <2>2. \A q \in Procs : job'[q].task = job[q].task
    BY <1>2, <2>1 DEF IInv, LocalInv
  <2>3. Watching' = Watching
    BY <1>1, <2>1, <2>2, WatchingStays
  <2>4. Commits' = Commits /\ Shown' = Shown
    BY <1>1, <2>1 DEF Commits, Shown
  <2> QED
    BY <1>1, <2>3, <2>4 DEF Promise!vars
<1> QED
  BY <1>3, <1>4

\* A verdict of COMMIT on a state that is new commits it; on one that there already
\* is, the command leaves.
LEMMA ConcludeMaps ==
    ASSUME IInv, MadeInv, NEW p \in Procs, Conclude(p)
    PROVE  Promise!Leave(p) \/ \E body \in Bodies : Promise!Commit(p, body)
<1>1. PICK j : j = job[p]
  OBVIOUS
<1>2. /\ pc[p] = "checking" /\ Decide(p, Verdict(j), j)
      /\ UNCHANGED <<tasks, workspace, stateFile, held>>
  BY <1>1 DEF Conclude
<1>3. /\ pc'[p] # "checking"
      /\ \A q \in Procs \ {p} : pc'[q] = pc[q] /\ job'[q] = job[q] /\ held'[q] = held[q]
  BY <1>2 DEF Decide, IInv, LocalInv
<1>4. CASE log' = log
  BY <1>2, <1>3, <1>4, LeaveMaps
<1>5. CASE log' # log
  <2> DEFINE d == MakeDecision("COMMIT", j)
             body == j.candidate.body
             s == Made(log, j.task, body)
             commit == [task |-> Watching[p].task, body |-> body]
  <2>1. Verdict(j) = "COMMIT" /\ log' = Recorded(log, NextState(j, d))
    BY <1>2, <1>5 DEF Decide
  <2>2. /\ NextState(j, d) = s
        /\ j.candidate \in Candidate
        /\ CommitsAll(d)
        /\ \A i \in DOMAIN body.changes :
              <<body.changes[i].path, body.changes[i].content>> \in held[p]
        /\ \A i \in DOMAIN body.facts :
              /\ <<body.facts[i].path, body.facts[i].content>> \in held[p]
              /\ Reads[body.facts[i].content] = body.facts[i].value
    BY <1>1, <2>1, CommitMade
  <2>3. /\ s.decision.task = j.task /\ s.decision.candidate.body = body
    BY DEF Made
  <2>4. /\ \A i \in DOMAIN log : log[i] # s
        /\ log' = Append(log, s)
    BY <1>5, <2>1, <2>2 DEF Recorded
  <2>5. p \in DOMAIN Watching /\ Watching[p].task = j.task /\ Watching[p].seen = held[p]
    BY <1>1, <1>2 DEF Watching
  <2>6. Promise!Settled(body)
    <3>1. d.candidate = j.candidate /\ d.facts = j.facts
      BY DEF MakeDecision
    <3>2. /\ ~body.unresolved
          /\ \A c \in body.claims : c \subseteq {body.facts[i].id : i \in DOMAIN body.facts}
      BY <2>2, <3>1 DEF CommitsAll
    <3> QED
      BY <2>2, <3>2 DEF Promise!Settled
  <2>7. Promise!Items(body) \subseteq Watching[p].seen
    BY <2>2, <2>5 DEF Promise!Items
  <2>8. PICK S : log \in Seq(S)
    BY DEF IInv, SharedInv
  <2>9. Len(log) >= 1
    BY StatesAreCommits
  <2>10. Commits' = Append(Commits, commit)
    <3> HIDE DEF s
    <3> QED
      BY <2>3, <2>4, <2>5, <2>8, <2>9, CommitsGrow
  <2>11. \A i \in DOMAIN Commits : Commits[i] # commit
    <3> SUFFICES ASSUME NEW i \in DOMAIN Commits, Commits[i] = commit PROVE FALSE
      OBVIOUS
    <3>1. i \in 1..Len(log) - 1
          /\ Commits[i] = [task |-> log[i + 1].decision.task,
                           body |-> log[i + 1].decision.candidate.body]
      BY DEF Commits
    <3>2. i + 1 \in DOMAIN log /\ i + 1 # 1
      BY <2>8, <3>1
    <3>3. log[i + 1].decision.task = j.task /\ log[i + 1].decision.candidate.body = body
      BY <2>5, <3>1
    <3>4. log[i + 1] = s
      BY <3>2, <3>3 DEF MadeInv
    <3> QED
      BY <2>4, <3>2, <3>4
  <2>12. Watching' = [q \in DOMAIN Watching \ {p} |-> Watching[q]]
    BY <1>2, <1>3, WatchingLeaves
  <2>13. Shown' = Shown
    BY <1>2 DEF Shown
  <2>14. body \in Bodies
    BY <2>2, BodyTyped
  <2>15. Promise!Commit(p, body)
    <3> HIDE DEF body
    <3> QED
      BY <1>2, <2>5, <2>6, <2>7, <2>10, <2>11, <2>12, <2>13 DEF Promise!Commit
  <2> QED
    BY <2>14, <2>15
<1> QED
  BY <1>4, <1>5

LEMMA WriteDecisionMaps ==
    ASSUME IInv, NEW p \in Procs, WriteDecision(p)
    PROVE  UNCHANGED Promise!vars
<1>1. /\ pc[p] = "decision open" /\ UNCHANGED <<log, tasks, workspace, stateFile>>
      /\ pc'[p] # "checking"
      /\ \A q \in Procs \ {p} : pc'[q] = pc[q] /\ job'[q] = job[q] /\ held'[q] = held[q]
  BY DEF WriteDecision, Idle, IInv, LocalInv
<1>2. Watching' = Watching
  BY <1>1, WatchingApart
<1>3. Commits' = Commits /\ Shown' = Shown
  BY <1>1 DEF Commits, Shown
<1> QED
  BY <1>1, <1>2, <1>3 DEF Promise!vars

LEMMA CrashMaps ==
    ASSUME IInv, NEW p \in Procs, Crash(p)
    PROVE  Promise!Leave(p) \/ UNCHANGED Promise!vars
<1>1. /\ UNCHANGED <<log, tasks, workspace, stateFile>>
      /\ pc'[p] # "checking"
      /\ \A q \in Procs \ {p} : pc'[q] = pc[q] /\ job'[q] = job[q] /\ held'[q] = held[q]
  BY DEF Crash, Idle, IInv, LocalInv
<1>2. CASE pc[p] = "checking"
  BY <1>1, <1>2, LeaveMaps
<1>3. CASE pc[p] # "checking"
  <2>1. Watching' = Watching
    BY <1>1, <1>3, WatchingApart
  <2>2. Commits' = Commits /\ Shown' = Shown
    BY <1>1 DEF Commits, Shown
  <2> QED
    BY <1>1, <2>1, <2>2 DEF Promise!vars
<1> QED
  BY <1>2, <1>3

LEMMA LineageStep ==
    ASSUME IInv, MadeInv, [Next]_vars
    PROVE  [Promise!Next]_(Promise!vars)
<1>1. CASE UNCHANGED vars
  BY <1>1 DEF vars, disk, Promise!vars, Commits, Shown, Watching
<1>2. ASSUME NEW f \in Inside, NEW c \in Contents \cup {Absent}, EditWorkspace(f, c)
      PROVE  Promise!Next
  BY <1>2, EditMaps DEF Promise!Next
<1>3. ASSUME NEW d \in Dirs, NEW name \in Names, MakeTask(d, name) PROVE Promise!Next
  BY <1>3, TaskMaps DEF Promise!Next
<1>4. ASSUME NEW p \in Procs, NEW d \in Dirs, Initialize(p, d) PROVE Promise!Next
  BY <1>4, InitializeMaps DEF Promise!Next
<1>5. ASSUME NEW p \in Procs, NEW from \in Dirs, NEW out \in Dirs, NEW task \in tasks,
             NEW candidate, Begin(p, from, out, task, candidate)
      PROVE  [Promise!Next]_(Promise!vars)
  BY <1>5, BeginMaps DEF Promise!Next
<1>6. ASSUME NEW p \in Procs, CheckChange(p) \/ CheckFact(p)
      PROVE  [Promise!Next]_(Promise!vars)
  BY <1>6, CheckMaps DEF Promise!Next
<1>7. ASSUME NEW p \in Procs, Conclude(p) PROVE Promise!Next
  BY <1>7, ConcludeMaps DEF Promise!Next
<1>8. ASSUME NEW p \in Procs, WriteDecision(p) PROVE UNCHANGED Promise!vars
  BY <1>8, WriteDecisionMaps
<1>9. ASSUME NEW p \in Procs, OpenState(p) PROVE Promise!Next
  BY <1>9, OpenStateMaps DEF Promise!Next
<1>10. ASSUME NEW p \in Procs, WriteState(p) PROVE Promise!Next
  BY <1>10, WriteStateMaps DEF Promise!Next
<1>11. ASSUME NEW p \in Procs, Crash(p) PROVE [Promise!Next]_(Promise!vars)
  BY <1>11, CrashMaps DEF Promise!Next
<1> QED
  BY <1>1, <1>2, <1>3, <1>4, <1>5, <1>6, <1>7, <1>8, <1>9, <1>10, <1>11 DEF Next

----------------------------------------------------------------------------
(* Theorems.                                                               *)

\* The strengthening holds throughout.
THEOREM Invariance == Spec => []IInv
BY InitSafe, StepSafe, PTL DEF Spec

\* Every verified state descends from the initial one by complete commits.
THEOREM LineageIsCommitted == Spec => []LineageCommitted
<1>1. IInv => LineageCommitted
  BY DEF IInv
<1> QED
  BY <1>1, Invariance, PTL

\* A state that can be read was decided, in full, on disk before it was written, unless
\* a COMMIT was written over another's text in its directory.
THEOREM DecisionsPrecedeStates == Spec => []DecisionPrecedesState
<1>1. IInv => DecisionPrecedesState
  BY DEF IInv, SharedInv, Presentable, DecisionPrecedesState
<1> QED
  BY <1>1, Invariance, PTL

\* What is committed was observed in the workspace during its verification.
THEOREM CommitsAreObserved == Spec => []CommitsObserved
<1>1. IInv => CommitsObserved
  BY DEF IInv, ProcInv, Observed, CommitsObserved
<1> QED
  BY <1>1, Invariance, PTL

\* The bookkeeping of what states carry holds throughout.
THEOREM Carrying == Spec => []CarriedInv
BY CarriedInit, CarriedStep, Invariance, PTL DEF Spec

\* Types, and the sizes of what a state carries.
THEOREM Typing == Spec => []TypeOK
<1>1. IInv /\ CarriedInv => TypeOK
  <2> SUFFICES ASSUME IInv, CarriedInv PROVE TypeOK
    OBVIOUS
  <2>1. tasks \subseteq [state: DOMAIN log, name: Names] /\ DOMAIN log \subseteq Nat
        /\ published \subseteq DOMAIN log /\ spoilt \subseteq Procs /\ mixed \subseteq Dirs
        /\ stateFile \in [Dirs -> DOMAIN log \cup {Absent, Torn}]
    BY Recording DEF IInv, SharedInv
  <2>2. /\ tasks \subseteq Task /\ published \subseteq Nat
        /\ spoilt \subseteq Procs /\ mixed \subseteq Dirs
        /\ stateFile \in [Dirs -> Nat \cup {Absent, Torn}]
    BY <2>1 DEF Task
  <2> QED
    BY <2>2 DEF IInv, LocalInv, CarriedInv, TypeOK
<1> QED
  BY <1>1, Carrying, Invariance, PTL

\* What a state carries is the latest of what its lineage committed.
THEOREM LatestIsCarried == Spec => []LatestCarried
<1>1. IInv /\ CarriedInv => LatestCarried
  <2> SUFFICES ASSUME IInv, CarriedInv, NEW i \in DOMAIN log
               PROVE  /\ log[i]["facts"] = Latest(History("facts")[i], "id", MaxFacts)
                      /\ log[i]["files"] = Latest(History("changes")[i], "path", MaxFiles)
    BY DEF LatestCarried
  <2>1. Parents /\ \E T : log \in Seq(T)
    BY DEF IInv, SharedInv, LineageCommitted, Parents
  <2>2. PICK F \in [DOMAIN log -> Seq(FactDecl)] :
           Traces(F, "facts") /\ log[i]["facts"] = Latest(F[i], "id", MaxFacts)
    BY DEF CarriedInv, Carries
  <2>3. PICK G \in [DOMAIN log -> Seq(ChangeDecl)] :
           Traces(G, "changes") /\ log[i]["files"] = Latest(G[i], "path", MaxFiles)
    BY DEF CarriedInv, Carries
  <2>4. History("facts") = F /\ History("changes") = G
    BY <2>1, <2>2, <2>3, HistoryTraces
  <2> QED
    BY <2>2, <2>3, <2>4
<1> QED
  BY <1>1, Carrying, Invariance, PTL

\* The bookkeeping of how states were made holds throughout.
THEOREM Making == Spec => []MadeInv
BY MadeInit, MadeStep, Invariance, PTL DEF Spec

\* The commands, over files that are half written and a workspace that is edited, implement
\* the lineage: each state is committed in one step, once, from what its verification
\* saw, and what a directory shows is a committed state.
THEOREM LineageIsImplemented == Spec => ImplementsLineage
<1>1. Init => Promise!Init
  <2> SUFFICES ASSUME Init PROVE Promise!Init
    OBVIOUS
  <2>1. 1..Len(log) - 1 = {}
    BY DEF Init
  <2>2. Commits = <<>>
    <3>1. DOMAIN Commits = {} /\ Commits = [i \in DOMAIN Commits |-> Commits[i]]
      BY <2>1 DEF Commits
    <3> HIDE DEF Commits
    <3> QED
      BY ONLY <3>1
  <2>3. Shown = <<>>
    BY DEF Init, Shown
  <2>4. Watching = <<>>
    BY DEF Init, Watching
  <2> QED
    BY <2>2, <2>3, <2>4, HandoffConstants DEF Init, Promise!Init
<1>2. IInv /\ MadeInv /\ [Next]_vars => [Promise!Next]_(Promise!vars)
  BY LineageStep
<1> QED
  BY <1>1, <1>2, Invariance, Making, PTL DEF Spec, ImplementsLineage, Promise!Spec
=============================================================================
