----------------------------- MODULE MCAggregator -----------------------------
(* Aggregator instantiated for TLC: two test names, durations 1..3 ms, up to *)
(* four timings, so that a test can hold up to four samples (k = 2.85 at p95 *)
(* exercises a fractional rank) and two tests interleave in the list.       *)
EXTENDS Aggregator

MCDurations == 1..3
MCPercentiles == {0, 25, 50, 95, 100}
=============================================================================
