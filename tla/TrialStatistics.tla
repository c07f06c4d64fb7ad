--------------------------- MODULE TrialStatistics ---------------------------
(***************************************************************************)
(* The statistics of the calibration trial (calibration_trial/trial.py):   *)
(* fitting a threshold on labelled sessions, and judging the predictions   *)
(* of a sample by an exact paired randomization test and an exact          *)
(* stratified bootstrap interval, in integer arithmetic.  The loops that   *)
(* build distributions take one step per session or draw.  The independent *)
(* verifier repeats the same arithmetic.                                   *)
(*                                                                         *)
(* Labels and predictions are 0 and 1; a list of them is a function on     *)
(* 1..n.  A distribution maps values to the numbers of their occurrences.  *)
(***************************************************************************)
EXTENDS Integers, Sequences, FiniteSetsExt, Functions

CONSTANTS SCALE,        \* fractions are counted in units of 1/SCALE
          Fits,         \* calibrations: [values, y, direction]
          Comparators,  \* names of the comparators, in their order
          Samples,      \* samples: [y, primary, comparator]
          Inferences,   \* protocols: [alpha, confidence]
          MinClass,     \* minimum_test_per_class
          None

Values(s) == {s[i] : i \in DOMAIN s}

ASSUME StatisticsConstants ==
    /\ SCALE \in Nat \ {0} /\ MinClass \in Nat \ {0}
    /\ None \notin [stats: [sensitivity: Nat, specificity: Nat, balanced: Nat], threshold: Int]
    /\ Fits \subseteq [values: Seq(Int), y: Seq({0, 1}), direction: {"high", "low"}]
    /\ \A f \in Fits : Len(f.values) = Len(f.y) /\ \A o \in {0, 1} : \E i \in DOMAIN f.y : f.y[i] = o
    /\ Comparators \in Seq(STRING) \ {<<>>}
    /\ \A s \in Samples :
          /\ s.y \in Seq({0, 1}) /\ s.primary \in [DOMAIN s.y -> {0, 1}]
          /\ s.comparator \in [Values(Comparators) -> [DOMAIN s.y -> {0, 1}]]
    /\ Inferences \subseteq [alpha: 1..SCALE-1, confidence: 1..SCALE-1]

VARIABLES pc,
          input,      \* the calibration or the sample
          protocol,   \* the inference it is judged by
          todo,       \* thresholds not tried yet
          best,       \* best threshold so far, with its statistics
          turn,       \* number of comparators the primary has been compared with
          item,       \* sessions or draws already in dist
          dist,       \* the distribution being built
          positive,   \* the finished one of the positive class
          inference,  \* results, one for each comparator compared
          disposition

vars == <<pc, input, protocol, todo, best, turn, item, dist, positive, inference, disposition>>

----------------------------------------------------------------------------
(* Operators.                                                              *)

Of(y, o) == {i \in DOMAIN y : y[i] = o}

\* Calibrations and samples are small next to the units (the protocol's calibration_n and test_n
\* are 20): sensitivity and specificity that differ in sum still do after each is rounded down.
ASSUME CalibrationSizes ==
    \A f \in Fits \cup Samples : 3 * Cardinality(Of(f.y, 0)) * Cardinality(Of(f.y, 1)) <= SCALE

Hits(y, pred, o) == Cardinality({i \in Of(y, o) : pred[i] = o})

Correct(y, pred, i) == IF pred[i] = y[i] THEN 1 ELSE 0

\* Rounding up; \div rounds down, also below zero.
CeilRatio(numerator, denominator) == -((-numerator) \div denominator)

Classification(y, pred) ==
    LET rate(o) == IF Of(y, o) = {} THEN 0
                   ELSE (Hits(y, pred, o) * SCALE) \div Cardinality(Of(y, o))
    IN [sensitivity |-> rate(1), specificity |-> rate(0),
        balanced |-> (rate(1) + rate(0)) \div 2]

Predictions(values, threshold, direction) ==
    [i \in DOMAIN values |->
        IF direction = "high" THEN (IF values[i] >= threshold THEN 1 ELSE 0)
        ELSE (IF values[i] <= threshold THEN 1 ELSE 0)]

\* A deviation: only observed values are tried.
CandidatesObserved(values) == Values(values)

CandidateThresholds(values) ==
    {Min(Values(values)) - 1} \cup Values(values) \cup {Max(Values(values)) + 1}

\* The order of thresholds: a conservative one predicts fewer corrections less often.
FitKey(stats, threshold, direction) ==
    <<stats.balanced, stats.specificity, stats.sensitivity,
      IF direction = "high" THEN -threshold ELSE threshold>>

Above(a, b) == \E k \in DOMAIN a : a[k] > b[k] /\ \A j \in 1..k-1 : a[j] = b[j]

\* Difference of two predictors' balanced accuracies, over 2 * pos * neg.
DeltaNumerator(y, primary, comparator) ==
    LET weight(i) == Cardinality(Of(y, 1 - y[i]))
    IN SumFunction([i \in DOMAIN y |->
                       weight(i) * (Correct(y, primary, i) - Correct(y, comparator, i))])

\* All pairs of a value of d and one of e, by what they are worth together.
Crossed(d, e, m, n) ==
    LET pairs == (DOMAIN d) \X (DOMAIN e)
        worth(x) == m * x[1] + n * x[2]
        alike(v) == {x \in pairs : worth(x) = v}
    IN [v \in {worth(x) : x \in pairs} |-> SumFunction([x \in alike(v) |-> d[x[1]] * e[x[2]]])]

\* One more step, for each way of taking it.
Convolve(d, steps) == Crossed(d, steps, 1, 1)

\* A deviation: what is just as large as the observed difference is not counted.
MoreExtreme(d, observed) ==
    SumFunctionOnSet(d, {v \in DOMAIN d : v > observed})

\* Of a distribution of differences, how many are at least the observed one.
Extreme(d, observed) ==
    SumFunctionOnSet(d, {v \in DOMAIN d : v >= observed})

Discordant(y, a, b) == {i \in DOMAIN y : Correct(y, a, i) # Correct(y, b, i)}

\* Multiplicities of the differences within one class.
Differences(y, primary, comparator, o) ==
    LET diff(i) == Correct(y, primary, i) - Correct(y, comparator, i)
    IN [d \in {diff(i) : i \in Of(y, o)} |-> Cardinality({i \in Of(y, o) : diff(i) = d})]

\* Both classes together, each weighed by the size of the other.
Combined(pos, neg, p, n) == Crossed(pos, neg, n, p)

\* b to the n.
Power(b, n) ==
    LET power[k \in Nat] == IF k = 0 THEN 1 ELSE b * power[k - 1]
    IN power[n]

DistributionQuantile(d, total, q) ==
    LET rank == Max({1, CeilRatio(q * total, SCALE)})
        reached == {v \in DOMAIN d : SumFunctionOnSet(d, {w \in DOMAIN d : w <= v}) >= rank}
    IN IF reached = {} THEN Max(DOMAIN d) ELSE Min(reached)

----------------------------------------------------------------------------
(* Fitting a threshold.                                                    *)

Unit == [v \in {0} |-> 1]

Init ==
    /\ protocol \in Inferences
    /\ \/ /\ input \in Fits
          /\ pc = "fit"
          /\ todo = CandidateThresholds(input.values)
       \/ /\ input \in Samples
          /\ pc = "evaluate"
          /\ todo = {}
    /\ best = None
    /\ turn = 0 /\ item = 0
    /\ dist = Unit /\ positive = None
    /\ inference = <<>>
    /\ disposition = None

\* One candidate of _fit_threshold, in ascending order.
TryThreshold ==
    LET t == Min(todo)
        new == [stats |-> Classification(input.y, Predictions(input.values, t, input.direction)),
                threshold |-> t]
        key(b) == FitKey(b.stats, b.threshold, input.direction)
    IN
    /\ pc = "fit" /\ todo # {}
    /\ todo' = todo \ {t}
    /\ best' = IF best = None THEN new ELSE IF Above(key(new), key(best)) THEN new ELSE best
    /\ pc' = IF todo' = {} THEN "fitted" ELSE pc
    /\ UNCHANGED <<input, protocol, turn, item, dist, positive, inference, disposition>>

----------------------------------------------------------------------------
(* Judging a sample.                                                       *)

Size(o) == Cardinality(Of(input.y, o))

Comparator == input.comparator[Comparators[turn + 1]]

\* evaluate: without the minimum of both classes nothing is inferred.
Classify ==
    /\ pc = "evaluate"
    /\ IF \A o \in {0, 1} : Size(o) >= MinClass
       THEN pc' = "randomize" /\ UNCHANGED disposition
       ELSE pc' = "concluded" /\ disposition' = "INSUFFICIENT_SAMPLE"
    /\ UNCHANGED <<input, protocol, todo, best, turn, item, dist, positive, inference>>

\* One session of _exact_paired_randomization: a discordant one counts either way.
Randomize ==
    LET i == item + 1
        weight == Size(1 - input.y[i])
    IN
    /\ pc = "randomize" /\ item < Len(input.y)
    /\ item' = i
    /\ dist' = IF i \in Discordant(input.y, input.primary, Comparator)
               THEN Convolve(dist, [w \in {weight, -weight} |-> 1]) ELSE dist
    /\ UNCHANGED <<pc, input, protocol, todo, best, turn, positive, inference, disposition>>

\* The p-value and what it says at level alpha.
EndRandomization ==
    LET observed == DeltaNumerator(input.y, input.primary, Comparator)
        total == 2^Cardinality(Discordant(input.y, input.primary, Comparator))
        extreme == Extreme(dist, observed)
    IN
    /\ pc = "randomize" /\ item = Len(input.y)
    /\ inference' = Append(inference,
          [extreme |-> extreme, total |-> total,
           micros |-> CeilRatio(extreme * SCALE, total),
           significant |-> observed > 0 /\ extreme * SCALE <= protocol.alpha * total,
           lower |-> 0, upper |-> 0])
    /\ item' = 0
    /\ dist' = Unit
    /\ pc' = "draw positive"
    /\ UNCHANGED <<input, protocol, todo, best, turn, positive, disposition>>

\* _bootstrap_sum_distribution, one draw from class o.
Draw(o) ==
    /\ pc = IF o = 1 THEN "draw positive" ELSE "draw negative"
    /\ item < Size(o)
    /\ item' = item + 1
    /\ dist' = Convolve(dist, Differences(input.y, input.primary, Comparator, o))
    /\ UNCHANGED <<pc, input, protocol, todo, best, turn, positive, inference, disposition>>

EndPositive ==
    /\ pc = "draw positive" /\ item = Size(1)
    /\ positive' = dist
    /\ dist' = Unit
    /\ item' = 0
    /\ pc' = "draw negative"
    /\ UNCHANGED <<input, protocol, todo, best, turn, inference, disposition>>

\* _exact_stratified_bootstrap_ci: both classes together, and the two quantiles.
Interval ==
    LET d == Combined(positive, dist, Size(1), Size(0))
        total == Power(Size(1), Size(1)) * Power(Size(0), Size(0))
        tail == (SCALE - protocol.confidence) \div 2
    IN
    /\ pc = "draw negative" /\ item = Size(0)
    /\ inference' = [inference EXCEPT
          ![turn + 1].lower = DistributionQuantile(d, total, tail),
          ![turn + 1].upper = DistributionQuantile(d, total, SCALE - tail)]
    /\ turn' = turn + 1
    /\ item' = 0
    /\ dist' = Unit
    /\ positive' = None
    /\ pc' = IF turn' < Len(Comparators) THEN "randomize" ELSE "conclude"
    /\ UNCHANGED <<input, protocol, todo, best, disposition>>

\* The primary gate.
Conclude ==
    LET accuracy(pred) == Classification(input.y, pred).balanced IN
    /\ pc = "conclude"
    /\ disposition' =
          IF \A k \in DOMAIN Comparators :
                /\ accuracy(input.primary) > accuracy(input.comparator[Comparators[k]])
                /\ inference[k].significant
          THEN "PRIMARY_SIGNAL_CLEARS_PREREGISTERED_GATE"
          ELSE "DOES_NOT_CLEAR_PREREGISTERED_GATE"
    /\ pc' = "concluded"
    /\ UNCHANGED <<input, protocol, todo, best, turn, item, dist, positive, inference>>

Next ==
    \/ TryThreshold
    \/ Classify
    \/ Randomize \/ EndRandomization
    \/ \E o \in {0, 1} : Draw(o)
    \/ EndPositive \/ Interval
    \/ Conclude

Spec == Init /\ [][Next]_vars

----------------------------------------------------------------------------
(* Properties.                                                             *)

\* Difference of balanced accuracies, from the counts: the reference.
Delta(y, a, b) ==
    Cardinality(Of(y, 0)) * (Hits(y, a, 1) - Hits(y, b, 1))
        + Cardinality(Of(y, 1)) * (Hits(y, a, 0) - Hits(y, b, 0))

\* Every tie in balanced accuracy is one of fractions of this many parts.
TieParts(y) == Max({d \in 1..Len(y) : \A o \in {0, 1} : Cardinality(Of(y, o)) % d = 0})

\* protocol.yaml:161-166 (objective balanced_accuracy; specificity, sensitivity,
\* conservative_threshold break ties): no integer is a better threshold than the one
\* fitted, although accuracies are rounded down twice.  That needs calibration
\* sizes whose ties are exact in units of 1/SCALE, as 20 sessions are.
FitBest ==
    pc = "fitted" /\ SCALE % TieParts(input.y) = 0 =>
        LET y == input.y
            fitted == Predictions(input.values, best.threshold, input.direction)
            away(t) == IF input.direction = "high" THEN -t ELSE t
        IN \A t \in Min(Values(input.values)) - 2 .. Max(Values(input.values)) + 2 :
              LET other == Predictions(input.values, t, input.direction)
                  gain == Delta(y, other, fitted)
              IN \/ gain < 0
                 \/ gain = 0 /\ Hits(y, other, 0) < Hits(y, fitted, 0)
                 \/ other = fitted
                       /\ (t \in CandidateThresholds(input.values) => away(t) <= away(best.threshold))

\* The randomization test by its definition: of all ways to exchange the two
\* predictors on some sessions, how many are at least as good as what was seen.
Exchanges(y, a, b) ==
    Cardinality({S \in SUBSET DOMAIN y :
        Delta(y, [i \in DOMAIN y |-> IF i \in S THEN b[i] ELSE a[i]],
                 [i \in DOMAIN y |-> IF i \in S THEN a[i] ELSE b[i]]) >= Delta(y, a, b)})

\* The bootstrap by its definition: resamples of each class, and those with a difference
\* up to v.
Resamples(y) == [Of(y, 1) -> Of(y, 1)] \X [Of(y, 0) -> Of(y, 0)]

AtMost(y, a, b, v) ==
    Cardinality({h \in Resamples(y) :
        LET drawn(i) == IF y[i] = 1 THEN h[1][i] ELSE h[2][i]
        IN Delta(y, [i \in DOMAIN y |-> a[drawn(i)]], [i \in DOMAIN y |-> b[drawn(i)]]) <= v})

\* protocol.yaml:128 "delta_hol balanced accuracy must be strictly greater than every
\* comparator and the one-sided exact paired randomization p-value must be <= alpha
\* against every comparator; ties or any nonsignificant comparison fail the primary gate".
GateExact ==
    LET y == input.y IN
    disposition = "PRIMARY_SIGNAL_CLEARS_PREREGISTERED_GATE" <=>
        \A k \in DOMAIN Comparators :
            LET b == input.comparator[Comparators[k]] IN
            /\ Delta(y, input.primary, b) > 0
            /\ Exchanges(y, input.primary, b) * SCALE <= protocol.alpha * 2^Len(y)

\* The reported p-value counts exchanges on discordant sessions only, and rounded up
\* it says the same about alpha.
PValueExact(k) ==
    LET y == input.y
        b == input.comparator[Comparators[k]]
        r == inference[k]
    IN
    /\ r.extreme * 2^Len(y) = Exchanges(y, input.primary, b) * r.total
    /\ r.micros <= protocol.alpha <=> r.extreme * SCALE <= protocol.alpha * r.total

\* trial.py:889 "smallest support value with cumulative mass >= requested quantile", of the
\* differences of all resamples.
IntervalExact(k) ==
    LET y == input.y
        b == input.comparator[Comparators[k]]
        total == Cardinality(Resamples(y))
        tail == (SCALE - protocol.confidence) \div 2
        mass(v) == AtMost(y, input.primary, b, v)
        quantile(v, q) ==
            LET upto == mass(v)
                below == mass(v - 1)
            IN /\ below < upto
               /\ upto * SCALE >= q * total
               /\ below = 0 \/ below * SCALE < q * total
    IN quantile(inference[k].lower, tail) /\ quantile(inference[k].upper, SCALE - tail)

\* DATA_FORMAT.md, README.md "exactly enumerated": verdict, p-values and intervals
\* built session by session from distributions and weights are those of the
\* definitions, over whole resamples.
InferenceExact ==
    pc = "concluded" /\ disposition # "INSUFFICIENT_SAMPLE" =>
        /\ GateExact
        /\ \A k \in DOMAIN Comparators : PValueExact(k) /\ IntervalExact(k)
=============================================================================
