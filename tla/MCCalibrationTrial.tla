------------------------- MODULE MCCalibrationTrial -------------------------
(* Concrete delta_hol values for the runs of CalibrationTrial and TrialVerifier. *)
EXTENDS TrialVerifier

\* An edit of a session file raises its value by one.
MCMetric == [s \in Sessions |-> [r \in Revs |-> s + r]]

\* Session 3 has no delta_hol.
MCMeasured == (Sessions \ {3}) \X Revs

\* A continuation is corrected or runs its course.
MCContents == {<<TRUE, FALSE>>, <<FALSE, TRUE>>}
MCAllContents == BOOLEAN \X BOOLEAN
=============================================================================
