CONSTANTS
  Tests = {t1, t2}
  Durations <- MCDurations
  MaxTimings = 4
  Percentiles <- MCPercentiles

SPECIFICATION Spec

INVARIANT TypeOK
INVARIANT AggregationPreservesSamples
INVARIANT PercentileMatchesReference
INVARIANT PercentileMonotoneAndBounded
