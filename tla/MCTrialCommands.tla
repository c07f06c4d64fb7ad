-------------------------- MODULE MCTrialCommands ---------------------------
(* TrialCommands with concrete delta_hol values. *)
EXTENDS TrialCommands, TLC

MCMetric == [s \in Sessions |-> [r \in Revs |-> s + r]]
MCMeasured == Sessions \X Revs

\* Every continuation shows a correction.
MCContents == {<<TRUE, FALSE>>}

\* Processes are interchangeable.
MCSymmetry == Permutations(Procs)
=============================================================================
