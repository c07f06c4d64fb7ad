------------------------------- MODULE Lineage -------------------------------
(***************************************************************************)
(* The promise of the model handoff, without files, hashes and half-done   *)
(* steps: a task is handed out on a state that can be read; while it is    *)
(* watched, what the workspace holds is remembered; in one step it is      *)
(* committed, all of it, if every item declared was seen meanwhile.  What  *)
(* is committed is never changed, and never committed twice.               *)
(*                                                                         *)
(* State 1 is the initial one; commit n makes state n + 1.                 *)
(***************************************************************************)
EXTENDS Integers, Sequences

CONSTANTS Procs, Dirs, Inside, Contents, Absent, Reads, Names, Bodies

VARIABLES workspace,
          commits,    \* what was committed: for which task and with what declared
          tasks,      \* tasks handed out
          shown,      \* the state each directory shows, for those that show one
          watching    \* the verifications under way: their task and what they saw

vars == <<workspace, commits, tasks, shown, watching>>

States == 1..Len(commits) + 1

Init ==
    /\ workspace \in [Inside -> Contents \cup {Absent}]
    /\ commits = <<>>
    /\ tasks = {}
    /\ shown = <<>>
    /\ watching = <<>>

Edit(f, c) ==
    /\ workspace' = [workspace EXCEPT ![f] = c]
    /\ watching' = [p \in DOMAIN watching |->
                      [watching[p] EXCEPT !.seen = @ \cup {<<f, c>>}]]
    /\ UNCHANGED <<commits, tasks, shown>>

Hand(d, name) ==
    /\ d \in DOMAIN shown
    /\ tasks' = tasks \cup {[state |-> shown[d], name |-> name]}
    /\ UNCHANGED <<workspace, commits, shown, watching>>

Watch(p, d, task) ==
    /\ p \notin DOMAIN watching
    /\ d \in DOMAIN shown /\ shown[d] = task.state
    /\ watching' = [q \in DOMAIN watching \cup {p} |->
                      IF q = p THEN [task |-> task, seen |-> {<<f, workspace[f]>> : f \in Inside}]
                               ELSE watching[q]]
    /\ UNCHANGED <<workspace, commits, tasks, shown>>

Leave(p) ==
    /\ p \in DOMAIN watching
    /\ watching' = [q \in DOMAIN watching \ {p} |-> watching[q]]
    /\ UNCHANGED <<workspace, commits, tasks, shown>>

\* Everything a candidate declares, and whether it stands without the workspace.
Items(body) == {<<body.changes[i].path, body.changes[i].content>> : i \in DOMAIN body.changes}
                  \cup {<<body.facts[i].path, body.facts[i].content>> : i \in DOMAIN body.facts}

Settled(body) ==
    /\ ~body.unresolved
    /\ \A c \in body.claims : c \subseteq {body.facts[i].id : i \in DOMAIN body.facts}
    /\ \A i \in DOMAIN body.facts : Reads[body.facts[i].content] = body.facts[i].value

Commit(p, body) ==
    LET commit == [task |-> watching[p].task, body |-> body] IN
    /\ p \in DOMAIN watching
    /\ Settled(body) /\ Items(body) \subseteq watching[p].seen
    /\ \A i \in DOMAIN commits : commits[i] # commit
    /\ commits' = Append(commits, commit)
    /\ watching' = [q \in DOMAIN watching \ {p} |-> watching[q]]
    /\ UNCHANGED <<workspace, tasks, shown>>

Show(d, n) ==
    /\ shown' = [e \in DOMAIN shown \cup {d} |-> IF e = d THEN n ELSE shown[e]]
    /\ UNCHANGED <<workspace, commits, tasks, watching>>

Hide(d) ==
    /\ shown' = [e \in DOMAIN shown \ {d} |-> shown[e]]
    /\ UNCHANGED <<workspace, commits, tasks, watching>>

Next ==
    \/ \E f \in Inside, c \in Contents \cup {Absent} : Edit(f, c)
    \/ \E d \in Dirs : (\E name \in Names : Hand(d, name)) \/ (\E n \in States : Show(d, n)) \/ Hide(d)
    \/ \E p \in Procs :
          \/ \E d \in Dirs, task \in tasks : Watch(p, d, task)
          \/ \E body \in Bodies : Commit(p, body)
          \/ Leave(p)

Spec == Init /\ [][Next]_vars
=============================================================================
