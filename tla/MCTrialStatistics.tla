-------------------------- MODULE MCTrialStatistics --------------------------
(* TrialStatistics on small calibrations and samples.  Lists are taken in one *)
(* order each: nothing depends on it.                                         *)
EXTENDS TrialStatistics

CONSTANTS MaxSessions, MaxValue

\* Ascending lists of n numbers below m.
Ascending(n, m) ==
    {s \in [1..n -> 0..m-1] : \A i \in 1..n-1 : s[i] <= s[i+1]}

\* A calibration session is a number: twice its value plus its label.
MCFits ==
    {f \in {[values |-> [i \in DOMAIN s |-> s[i] \div 2], y |-> [i \in DOMAIN s |-> s[i] % 2],
             direction |-> d] :
               s \in UNION {Ascending(n, 2 * (MaxValue + 1)) : n \in 4..MaxSessions},
               d \in {"high", "low"}} :
        \A o \in {0, 1} : Of(f.y, o) # {}}

MCComparators == <<"always_safe", "keyword_heuristic">>

\* A session of a sample is a number: label, primary prediction and comparator's.
MCSamples ==
    {[y |-> [i \in DOMAIN s |-> s[i] \div 4],
      primary |-> [i \in DOMAIN s |-> (s[i] \div 2) % 2],
      comparator |-> [c \in {"always_safe", "keyword_heuristic"} |->
                        [i \in DOMAIN s |-> IF c = "always_safe" THEN 0 ELSE s[i] % 2]]] :
        s \in UNION {Ascending(n, 8) : n \in 4..MaxSessions}}

MCInferences == {[alpha |-> 140000, confidence |-> 999999],
                 [alpha |-> 250000, confidence |-> 500000]}
=============================================================================
