----------------------------- MODULE SealedTrial -----------------------------
(***************************************************************************)
(* The promise of preregistration, without files, hashes and clocks: a     *)
(* sample of TestN sessions is answered by one threshold, chosen no later  *)
(* than its first session; only then is it opened; each session is         *)
(* labelled once; and there is one verdict about all of them.              *)
(***************************************************************************)
EXTENDS TrialRecords

CONSTANT Pending

VARIABLES sample,   \* the sessions: revision and threshold they are answered by
          answers,  \* predictions for the first of them
          opened,   \* whether their outcomes may be seen
          labels,   \* the outcomes, in the order they were seen
          verdict   \* what is reported

vars == <<sample, answers, opened, labels, verdict>>

Init ==
    /\ sample = <<>> /\ answers = <<>>
    /\ opened = FALSE
    /\ labels = <<>>
    /\ verdict = Pending

Enrol(x) ==
    /\ ~opened
    /\ Len(sample) < TestN
    /\ \A i \in DOMAIN sample : sample[i].sid # x.sid /\ sample[i].cut = x.cut
    /\ sample' = Append(sample, x)
    /\ UNCHANGED <<answers, opened, labels, verdict>>

Answer ==
    /\ ~opened
    /\ Len(answers) < Len(sample)
    /\ LET x == sample[Len(answers) + 1] IN
          answers' = Append(answers, IF Metric[x.sid][x.rev] >= x.cut THEN 1 ELSE 0)
    /\ UNCHANGED <<sample, opened, labels, verdict>>

Open ==
    /\ ~opened
    /\ Len(sample) = TestN /\ Len(answers) = TestN
    /\ opened' = TRUE
    /\ UNCHANGED <<sample, answers, labels, verdict>>

See(x) ==
    /\ opened
    /\ verdict = Pending
    /\ x.sid \in Sids(sample) \ Sids(labels)
    /\ labels' = Append(labels, x)
    /\ UNCHANGED <<sample, answers, opened, verdict>>

Report ==
    /\ opened
    /\ verdict = Pending
    /\ Sids(labels) = Sids(sample)
    /\ verdict' = [sample |-> sample, answers |-> answers, labels |-> labels]
    /\ UNCHANGED <<sample, answers, opened, labels>>

Next ==
    \/ \E x \in [sid: Sessions, rev: Revs, cut: Cuts] : Enrol(x)
    \/ Answer
    \/ Open
    \/ \E x \in [sid: Sessions, outcome: {0, 1}] : See(x)
    \/ Report

Spec == Init /\ [][Next]_vars
=============================================================================
