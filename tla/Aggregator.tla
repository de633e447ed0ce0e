------------------------------ MODULE Aggregator ------------------------------
(***************************************************************************)
(* aggregate_timings of scripts/check_test_regression.py, one step per    *)
(* iteration of its loop, and the percentile engine applied to the        *)
(* per-test sample lists it builds.                                        *)
(*                                                                         *)
(* timings  : the list of TestTiming records the loop walks (its input,   *)
(*            never changed);                                              *)
(* i        : the loop position (1-based index of the next timing);       *)
(* aggregated : the defaultdict(list), a function from the test names     *)
(*            seen so far to their durations in arrival order.            *)
(***************************************************************************)
EXTENDS PercentileEngine

CONSTANTS
  Tests,        \* test names (model values)
  Durations,    \* possible duration_ms values of one TestTiming
  MaxTimings,   \* bound on the length of the timings list
  Percentiles   \* percentiles at which the engine is checked

ASSUME Durations \subseteq Nat \ {0}    \* parse_jsonl_logs keeps max_duration_ms > 0
ASSUME MaxTimings \in Nat
ASSUME Percentiles \subseteq 0..100

VARIABLES timings, i, aggregated

vars == <<timings, i, aggregated>>

TestTiming == [test_name : Tests, duration_ms : Durations]

LOCAL SE == INSTANCE SequencesExt

TypeOK ==
  /\ timings \in SE!BoundedSeq(TestTiming, MaxTimings)
  /\ i \in 1..(Len(timings) + 1)
  /\ DOMAIN aggregated \subseteq Tests
  /\ \A t \in DOMAIN aggregated :
       aggregated[t] \in SE!BoundedSeq(Durations, MaxTimings) \ {<<>>}

Init ==
  /\ timings \in SE!BoundedSeq(TestTiming, MaxTimings)
  /\ i = 1
  /\ aggregated = <<>>                 \* defaultdict(list), empty

\* Mutant: a sample equal to one already recorded for the test is dropped.
aggregate_timings_dedup ==
  /\ i <= Len(timings)
  /\ LET timing == timings[i] IN
       aggregated' =
         IF timing.test_name \in DOMAIN aggregated
         THEN [aggregated EXCEPT ![timing.test_name] =
                 IF SE!Contains(@, timing.duration_ms) THEN @
                 ELSE Append(@, timing.duration_ms)]
         ELSE aggregated @@ (timing.test_name :> <<timing.duration_ms>>)
  /\ i' = i + 1
  /\ UNCHANGED timings

\* Mutant: a name seen for the first time gets an empty list and its first
\* duration is lost (setdefault(name, []) without the append).
aggregate_timings_first_lost ==
  /\ i <= Len(timings)
  /\ LET timing == timings[i] IN
       aggregated' =
         IF timing.test_name \in DOMAIN aggregated
         THEN [aggregated EXCEPT ![timing.test_name] = Append(@, timing.duration_ms)]
         ELSE aggregated @@ (timing.test_name :> <<>>)
  /\ i' = i + 1
  /\ UNCHANGED timings

(***************************************************************************)
(* One iteration: aggregated[timing.test_name].append(timing.duration_ms) *)
(* A name not yet in the defaultdict gets a fresh one-element list.       *)
(***************************************************************************)
aggregate_timings ==
  /\ i <= Len(timings)
  /\ LET timing == timings[i] IN
       aggregated' =
         IF timing.test_name \in DOMAIN aggregated
         THEN [aggregated EXCEPT ![timing.test_name] = Append(@, timing.duration_ms)]
         ELSE aggregated @@ (timing.test_name :> <<timing.duration_ms>>)
  /\ i' = i + 1
  /\ UNCHANGED timings

\* The loop has consumed every timing: dict(aggregated) is returned.
Done ==
  /\ i = Len(timings) + 1
  /\ UNCHANGED vars

Next == aggregate_timings \/ Done

Spec == Init /\ [][Next]_vars

-----------------------------------------------------------------------------
(* Properties *)

Processed == SubSeq(timings, 1, i - 1)

\* The durations of the timings of seq named t, in order.
DurationsOf(seq, t) ==
  LET sel == SelectSeq(seq, LAMBDA r : r.test_name = t)
  IN  [j \in DOMAIN sel |-> sel[j].duration_ms]

(***************************************************************************)
(* aggregate_timings groups without deduplication or reordering: after    *)
(* any number of loop iterations the keys are exactly the names seen, and *)
(* each list holds every duration recorded for that name, in the order    *)
(* the timings arrived (spec 4.2: "preserves every duration as a distinct *)
(* sample").                                                               *)
(***************************************************************************)
AggregationPreservesSamples ==
  /\ DOMAIN aggregated = {Processed[j].test_name : j \in DOMAIN Processed}
  /\ \A t \in DOMAIN aggregated : aggregated[t] = DurationsOf(Processed, t)

(***************************************************************************)
(* calculate_percentile agrees, on every sample list the aggregator can   *)
(* produce and at every checked percentile, with the rank-counting R-7    *)
(* reference: sorting, the int() truncation and the clamp of c together   *)
(* compute the linear-interpolation order statistic.                      *)
(***************************************************************************)
PercentileMatchesReference ==
  \A t \in DOMAIN aggregated, p \in Percentiles :
    calculate_percentile(aggregated[t], p) = ReferencePercentile(aggregated[t], p)

(***************************************************************************)
(* calculate_percentile is monotone in the percentile and stays between   *)
(* the smallest and largest sample (percentile 0 is the minimum and 100   *)
(* the maximum), so a p95 never leaves the range of observed durations.   *)
(***************************************************************************)
PercentileMonotoneAndBounded ==
  \A t \in DOMAIN aggregated :
    LET s == aggregated[t]
        lo == 100 * OrderStatistic(s, 1)
        hi == 100 * OrderStatistic(s, Len(s))
    IN  /\ \A p, q \in Percentiles :
             p <= q => calculate_percentile(s, p) <= calculate_percentile(s, q)
        /\ \A p \in Percentiles : lo <= calculate_percentile(s, p)
                                  /\ calculate_percentile(s, p) <= hi
        /\ 0 \in Percentiles => calculate_percentile(s, 0) = lo
        /\ 100 \in Percentiles => calculate_percentile(s, 100) = hi
=============================================================================
