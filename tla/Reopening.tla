------------------------------ MODULE Reopening ------------------------------
(***************************************************************************)
(* The promise of selective reverification: in one step, from a valid      *)
(* declaration, the claims that descend from a changed root are reopened   *)
(* and every other claim is retained; an invalid one is refused.           *)
(***************************************************************************)
EXTENDS ReopeningInput

CONSTANTS Pending, Refused

VARIABLES input, answer

Init == input \in Inputs /\ answer = Pending

Answer ==
    /\ answer = Pending
    /\ Valid(input)
    /\ answer' = Result(input, input.claims \cap Exposed(input))
    /\ UNCHANGED input

Refuse ==
    /\ answer = Pending
    /\ ~Valid(input)
    /\ answer' = Refused
    /\ UNCHANGED input

Spec == Init /\ [][Answer \/ Refuse]_<<input, answer>>
=============================================================================
