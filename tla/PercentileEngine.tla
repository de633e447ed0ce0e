--------------------------- MODULE PercentileEngine ---------------------------
(***************************************************************************)
(* The percentile primitive of scripts/check_test_regression.py           *)
(* (calculate_percentile), shared by the baseline store and the           *)
(* regression classifier.                                                  *)
(*                                                                         *)
(* Durations are integer milliseconds and the percentile is an integer    *)
(* in 0..100, so k = (n-1) * p / 100 has at most two decimals and the     *)
(* interpolated value is an exact multiple of 1/100.  Every percentile    *)
(* here is therefore expressed in hundredths of a millisecond: the        *)
(* operator returns 100 times the value the Python function returns.      *)
(* The code computes k in binary floating point; the model uses the exact *)
(* rational value (see the numeric_edge hazard in PROJECT.json).           *)
(***************************************************************************)
EXTENDS Integers, Sequences, FiniteSets, TLC

LOCAL INSTANCE Functions

\* OUTLIER_PERCENTILE: the percentile used for every comparison.
OUTLIER_PERCENTILE == 95

(***************************************************************************)
(* Mutants of calculate_percentile (each a plausible slip in lines        *)
(* 157-163); PROJECT.json substitutes one at a time.                       *)
(***************************************************************************)
\* Forgets to sort: interpolates between the samples in arrival order.
percentile_unsorted(values, percentile) ==
  IF values = <<>> THEN 0
  ELSE LET n    == Len(values)
           kNum == (n - 1) * percentile
           f    == kNum \div 100
           c    == IF f + 1 < n THEN f + 1 ELSE f
       IN  100 * values[f + 1] + (kNum % 100) * (values[c + 1] - values[f + 1])

\* Interpolates with the difference taken the wrong way round.
percentile_reversed_step(values, percentile) ==
  IF values = <<>> THEN 0
  ELSE LET s    == SortSeq(values, <)
           n    == Len(s)
           kNum == (n - 1) * percentile
           f    == kNum \div 100
           c    == IF f + 1 < n THEN f + 1 ELSE f
       IN  100 * s[f + 1] + (kNum % 100) * (s[f + 1] - s[c + 1])

(***************************************************************************)
(* calculate_percentile(values, percentile), times 100.                   *)
(*   empty input            -> 0.0                                         *)
(*   k = (n-1)*p/100, f = int(k), c = f+1 clamped to n-1                   *)
(*   s[f] + (k - f) * (s[c] - s[f])       (0-based in Python)              *)
(* kNum = 100 * k, so kNum \div 100 = int(k) and kNum % 100 = 100*(k-f).   *)
(***************************************************************************)
calculate_percentile(values, percentile) ==
  IF values = <<>> THEN 0
  ELSE LET s    == SortSeq(values, <)
           n    == Len(s)
           kNum == (n - 1) * percentile
           f    == kNum \div 100
           c    == IF f + 1 < n THEN f + 1 ELSE f
       IN  100 * s[f + 1] + (kNum % 100) * (s[c + 1] - s[f + 1])

(***************************************************************************)
(* Reference definition, written independently of the code: the i-th     *)
(* order statistic by counting ranks (no sorting), and the R-7 percentile *)
(* as the piecewise-linear curve through the points                       *)
(* (100*(i-1)/(n-1), x_(i)), i = 1..n, again times 100.                    *)
(***************************************************************************)
OrderStatistic(s, i) ==
  CHOOSE v \in Range(s) :
    /\ Cardinality({j \in DOMAIN s : s[j] < v}) < i
    /\ i <= Cardinality({j \in DOMAIN s : s[j] <= v})

ReferencePercentile(s, p) ==
  LET n == Len(s) IN
  CASE n = 0 -> 0
    [] n = 1 -> 100 * s[1]
    [] OTHER ->
         LET \* the segment [x_(i), x_(i+1)] whose abscissae contain p
             i  == CHOOSE i \in 1..(n - 1) :
                     /\ 100 * (i - 1) <= (n - 1) * p
                     /\ (n - 1) * p < 100 * i \/ i = n - 1
             lo == OrderStatistic(s, i)
             hi == OrderStatistic(s, i + 1)
         IN  100 * lo + ((n - 1) * p - 100 * (i - 1)) * (hi - lo)

=============================================================================
