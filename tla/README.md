# TLA+ models of the remote_compilation_helper performance scripts

The repository's Python side is two CI scripts under `src/scripts/`:

- `check_test_regression.py` reads per-test timings from JSONL logs,
  compares each test's p95 with a persisted baseline, and gates the
  pipeline through its exit code. It can also rewrite the baseline
  (`--update-baseline`).
- `check_benchmark_budgets.py` compares Criterion benchmark means with fixed
  budgets.

This directory holds TLA+ modules for both scripts, the TLC configurations
that check them, and `PROJECT.json`. `PROJECT.json` lists the components,
the runs, the mutants, the map from each definition to its source lines,
the findings and the hazards.

## 1. Inventory

### Components, state and operations

| Component | Source | State | Operations |
|---|---|---|---|
| Log ingestion | `parse_jsonl_logs` (95-144) | none; returns a list of `TestTiming` | per `*.jsonl` file: decode lines, derive the name from the file name, take the max `duration_ms`/`elapsed_ms`, let an entry's `test_name` override the name, keep the file if max > 0; skip the file on `JSONDecodeError`/`IOError` |
| Platform detection | `detect_platform` (78-92) | none | `"{os}-{arch}"` with the arch normalised |
| Aggregator | `aggregate_timings` (147-152) | `defaultdict(list)` | append each timing's duration under its name |
| Percentile engine | `calculate_percentile` (155-163) | none | sort, `k=(n-1)p/100`, interpolate between `f=int(k)` and `c=min(f+1,n-1)` |
| Baseline store | `load_baseline` (166-191), `save_baseline` (194-232) | **the baseline file**, which persists across invocations | load: missing → `{}`; bad JSON → warning, `{}`; otherwise read entries with defaults. save: mkdir, aggregate, `open("w")` (truncates), `json.dump` of a full replacement |
| Regression classifier | `check_regressions` (235-309) | `RegressionReport` | per test: new / platform mismatch / no baseline p95 / regressed / improved / stable, updating `passed`, `failed` and the lists |
| Report output | `print_report`, `write_json_report` (312-380) | none / the `--json-output` file | print the report; write the summary counters and lists as JSON (an `IOError` escapes `main`) |
| CLI | `main` (383-477) | none | no timings → 2 (`--ci`) or 0; `--update-baseline` → save, 0; no baseline → 2 or 0; otherwise check, then exit 1 if `failed > 0`, else 0 |
| Budget checker | `check_benchmark_budgets.py` | `target/criterion` (read) and `summary.txt` (written) | per group dir: match `BUDGETS` keys by prefix, find estimates (falling back to the first sub-benchmark), compare the mean, write the summary, exit 1 on a failure |

### How they interact

Each CI job runs `main()` once. It is a single-threaded batch: parse →
aggregate → either save, or load → classify → exit code. The only state
that outlives a process is the **baseline file**, so all interaction
between invocations goes through it. One job's `--update-baseline`
determines what every later check compares against. Spec §5 assumes that
CI serialises the jobs; there is no lock.

### What is hard

- **Crash or failure between truncation and write.** `save_baseline` truncates the only copy
  before it writes. A killed job or an I/O error leaves an empty or
  cut-off file. After that, checks see "no baseline" and return 0
  without `--ci`.
- **Exit codes.** CI reads exit 1 as "regressions found". An uncaught
  exception also exits 1. JSON of the wrong shape in the baseline, or a
  log line that is JSON but not an object, crashes the script with 1.
- **Counter exactness.** Six branches update `passed`, `failed` and the
  lists. The summary and the exit code depend on these counters.
- **Platform and overwrite.** Every save replaces every entry and tags it
  with the saving runner's platform. After that, checks on other runners
  compare nothing.
- **Numeric edges.** The percentile is computed in floating point, the
  p95 is rounded when stored, and the threshold is not validated
  (a value ≤ 1 makes the stable band empty).
- **Budget checker matching.** The `BUDGETS` keys contain `/`, but
  directory names never do.

### Correctness properties per component

- Aggregator: every sample is kept, in order, under its name.
- Percentile engine: equals the R-7 linear-interpolation order statistic.
  It is monotone in p and lies between min and max.
- Classifier: every test is accounted for exactly once, and `failed`
  equals the number of listed regressions.
- Store + CLI: with `--ci`, a check never passes a test that regressed
  against the last completed save, when that save ran on its platform.
  A save followed by a check of the same timings lists nothing. Exit 1 means a regression.
- Budget checker: every benchmark with a budget is judged, and exit 1
  happens iff one exceeds its budget.

## 2. Modules and runs

| Module | Models | Composes |
|---|---|---|
| `PercentileEngine` | `calculate_percentile`, `OUTLIER_PERCENTILE`, and an independent reference percentile | — |
| `Aggregator` | `aggregate_timings` loop, one action per iteration | extends `PercentileEngine` |
| `LogIngestion` | `parse_jsonl_logs`: the file loop and the entry loop | — |
| `RegressionGate` | `main`, the outcomes of `parse_jsonl_logs`, `save_baseline`, `load_baseline`, the `check_regressions` loop, `write_json_report` | extends `PercentileEngine`; instantiates `CheckSpec` |
| `BudgetSpec` | the abstract specification of a budget-check run: the verdicts decided in one step, as sets | — |
| `CheckSpec` | the abstract specification of an invocation: a check decided in one step, test by test as spec §4.4 states it | extends `PercentileEngine` |
| `ConcurrentSaves` | several jobs sharing the baseline file: `open("w")`, the buffered writes of `json.dump`, `json.load` | — |
| `BudgetCheck` | `check_benchmark_budgets.py`: `main`, the `check_budgets` loop, `write_summary` totals, the exit code | — |
| `MCAggregator`, `MCLogIngestion`, `MCRegressionGate`, `MCConcurrentSaves`, `MCBudgetCheck` | TLC instantiations | extend the above |

### Correspondence with the code (LogIngestion)

- A file name is the sequence of its `_`-separated segments. `SegLen`
  and `IsDigits` give each segment's length and whether it is all digits.
  `StemTestName` is the `rsplit("_", 2)` heuristic (lines 108-116): it
  drops the last two segments when their lengths are 8 and 6.
- `todo` is what `glob` has not yet yielded, in any order. `OpenLog`
  either skips an unreadable file (the `except` at 141) or starts a file
  with the stem's name and `max_duration_ms = 0`. `ScanEntry` is one
  iteration of the entry loop. `CloseLog` appends a timing when the
  maximum is positive. `ReturnTimings` and `NoLogDir` are the two returns.
- `sources` is a history variable: the file each timing came from.

### Correspondence with the code (RegressionGate)

- `baseline_file` is the file. Its `kind` is one of `absent`, `corrupt`
  (empty or cut off, so `json.load` fails), `badshape` (valid JSON that
  `.get`/`.items()` cannot read) or `valid`. A valid file has `tests`:
  test → `[p95_ms, platform]`.
- `pc` follows `main`: `parse` → (`save_open` → `save_write`) or
  (`load` → `classify`) → `done`. `exit_code` is what `main` returns.
  `Killed` means a signal ended the job. `last_save` is a history
  variable that holds the platform and samples of the last completed
  save. `json_report` is the `--json-output` file.
- Actions:
  - `Start` is one job invocation. It chooses `--update-baseline`,
    `--ci`, `--json-output` and the runner, a host `[system, machine]`
    as the `platform` module reports them. The tag is
    `detect_platform(h)`: lowercased by the `Lower` table, the
    architecture normalised (`x86_64`/`amd64` → `x64`,
    `aarch64`/`arm64` → `arm64`, else unchanged), joined with `-`.
    `MCRegressionGate` runs a Linux x86_64 runner (`linux-x64`) and an
    Apple-silicon macOS runner (`darwin-arm64`). `EmptyPlatform` is
    `""`, the default `load_baseline` gives.
  - `NoLogs`, `MalformedLogEntry` and `ParseLogs` are the three outcomes
    of `parse_jsonl_logs` as `main` sees them. `LogIngestion` models the
    function itself.
  - `SaveOpenFails` is an uncaught error of `mkdir` or `open("w")`
    before any truncation: the old file is intact and the job exits 1.
    Otherwise `SaveOpen` (`open("w")` truncates) is followed by
    `SaveWrite`, `SaveWriteFails` (uncaught `IOError`, exit 1) or
    `KilledDuringSave`. `SaveWrite` ends with exit 0, or with `Killed`
    when the job is killed after the close while it prints.
  - `LoadNoBaseline`, `LoadBadShape` (uncaught `AttributeError`) and
    `LoadBaseline` are the outcomes of `load_baseline`.
  - `check_regressions_step` is one loop iteration. It is the disjunction
    of `ClassifyNew`, `ClassifyPlatformMismatch`, `ClassifyNoBaselineP95`,
    `ClassifyRegressed`, `ClassifyImproved` and `ClassifyStable`, in the
    code's branch order.
  - Without `--json-output`, `Report` is the final exit code. With it,
    `WriteJsonReport` writes the summary and exits, and
    `WriteJsonReportFails` is the uncaught `IOError` of its `open`.
- Units: durations are integer milliseconds, because `parse_jsonl_logs`
  keeps only maxima > 0. Every percentile is in hundredths of a ms, where
  the R-7 interpolation is exact and `round(x, 2)` is the identity. The
  ratio tests `ratio > threshold` and `ratio < 1/threshold` are
  cross-multiplied with threshold = `ThresholdNum/ThresholdDen`.
- Left out because no property reads them: mean, median, stddev,
  sample_count, timestamps and all printed text.

### Refinement: RegressionGate implements CheckSpec

`CheckSpec` has the phases `idle`, `parse`, `save`, `saving` and `check`.
A check is one step (`Check`). The outcome is defined by `Decide`, with
sets and counts over the tests. It uses no loop and no counters, and
follows spec §4.4's verdict order. `RegressionGate` instantiates it:

- `AbstractPhase` maps `pc`: `parse` to `parse`; `save_open` to `save`;
  `save_write` to `saving`; `load` and `classify` to `check`; `done` to
  `idle`.
- `AbstractOutcome` is the report as sets once `pc = "done"`.

Each classify iteration and `LoadBaseline` is a stutter of the abstract
spec. The step that leaves `classify` is `Check`. `RefinesCheckSpec`
checks that the counters and lists built one test at a time, in
log-file order, equal `Decide` of the whole map. It also checks that
every exit code is one the abstract spec allows.

### Refinement: BudgetCheck implements BudgetSpec

`BudgetSpec` decides a run in one step. `Groups` is the set of directories
that some `BUDGETS` key is a prefix of. Each group is judged against its
first such key, on its own estimates or on any one sub-benchmark's
(`Readings`). The passed and failed lines are sets, and the totals and the
exit code follow from them. A non-object `estimates.json` ends the run
with exit 1, after any subset of the other groups was judged. The spec
keeps the code's reading of a missing mean as 0, so the refinement is
about the loop's structure, not about that reading.

`BudgetCheck` instantiates it, mapping `phase` to `done` once `pc` is
`done` and to `start` before, and the two lists to their sets once `pc`
is `done`. `RefinesBudgetSpec` then checks these things of the loop:

- its `continue`s;
- its `break` after the first matching budget;
- the `startswith` prefix match;
- the write of the totals.

A loop that judged a group more than once, or matched names by
equality only, fails the check.

### Correspondence with the code (ConcurrentSaves)

- `file` is a sequence of chunks `[by, part]`: part `p` of the document
  written by job `by`. A document is `DocLen[w]` buffer flushes long.
  Every flush but the last writes a full buffer. The last one, done by
  `close`, may be shorter. So when it lands on another job's chunk,
  `Landed` lets the position become `Torn`: the short chunk followed by
  the tail of the longer one.
- `SaveOpen` is `open(baseline_file, "w")`. It truncates the file and
  gives the job its own offset 0. `SaveFlush` writes the next part at
  that offset. A write past the end, after another job truncated the
  file, leaves `Hole`s. `SaveClose` is the end of the `with` block.
- `SaveKilled` (enabled by `Kills`) is a CI cancellation between open
  and close: the job ends without returning, and the file keeps what
  was written.
- `CheckRead` is `load_baseline`'s `json.load`. It succeeds only on one
  complete document (`Parse`).
- `last_writer` is a history variable: the job whose write reached the
  file last (`Prev` until a save writes).
- What `main` does with what a check loads (a corrupt file counts as no
  baseline) is modelled in `RegressionGate`, so it is not repeated here.

### Correspondence with the code (BudgetCheck)

- `criterion` is `target/criterion`. It is either missing or a function
  from entry names to `[is_dir, top, subs]`. `top` is
  `<entry>/new/estimates.json` and `subs` gives each sub-directory's own
  estimates. An estimates value is `NoEstimates` (absent), `BadEstimates`
  (`JSONDecodeError`, so `parse_estimates` returns `{}`), `NoMean` (an
  object without `"mean"`: the `.get` defaults give 0), `NotObject`
  (`.get` raises `AttributeError`, which `Crash` models as exit 1) or
  the mean. A passed or failed line is `[group, mean]`, what it prints.
- Names are token sequences whose concatenation is the string. This makes
  `str.startswith` equal to `IsPrefix`. Means and budgets are in units of
  100 µs.
- `pending` is what is left of `iterdir()`. Its order is arbitrary, so
  `VisitGroup` picks any pending entry. Its disjuncts are the `continue`s
  of the loop and `Judge`. When a group has no top-level estimates, the
  sub-benchmark used is any sub-directory that has one.
- `Finish` is the end of `main`. `summary` holds the totals written to
  `summary.txt`, and the exit code is 1 iff `failed` is non-empty. With
  `SummaryWriteErrors`, `write_summary` may raise after `open("w")`:
  `summary.txt` is left torn and the exit code is 1.
  `NoCriterionDir` is the early `sys.exit(0)`.
- `find_criterion_results` is never called, so it is not modelled.

### Runs

| Run | Expect | What it shows |
|---|---|---|
| `aggregator` | pass | `AggregationPreservesSamples`, `PercentileMatchesReference`, `PercentileMonotoneAndBounded` on every timings list of up to 4 records over 2 tests and durations 1..3 (7,465 states) at p ∈ {0,25,50,95,100} |
| `gate` | pass | On the two runners above: `ReportAccounting`, `CIGateCatchesRegression`, `RoundTripStable`, `RefinesCheckSpec` and `InvocationTerminates`, under `FairSpec`, over 3 invocations with kills, write errors, report write errors, malformed logs and a wrong-shape initial baseline (632,016 states, about 95 s) |
| `gate_exit_one_without_regression` | violation | `ExitOneMeansRegression`: exit 1 with `failed = 0`. This cfg enables all three causes. Each can be shown alone by leaving only its constant on: a non-object JSONL line (`MalformedLogs`), a wrong-shape baseline (`MCInitialFilesBadShape`), or an unwritable `--json-output` file (`ReportWriteErrors`) |
| `gate_threshold_below_one` | violation | `RoundTripStable`: `--threshold 0.9` classifies unchanged timings as regressed |
| `ingestion` | pass | `IngestionExact`: over two files, each unreadable or a stem and 0-2 entries, in either glob order, one timing per readable file with a positive maximum, with the right name and duration (36,075 states) |
| `ingestion_attribution` | violation | `TimingAttributedToItsTest`: a timing's name comes from an entry or from the stem with only a date-time suffix removed, and its duration from an entry of that test. Two contents show two ways it fails, each alone with `Contents <- MCContentsNoTimestamp` or `MCContentsTwoResults`: `e2e_pipeline_worker.jsonl` is counted as test `e2e`; a log with results for `cache` (5 ms) and `e2e` (3 ms) gives `e2e` 5 ms |
| `concurrent_check` | pass | `TypeOK` only: two saves, which may be killed, racing a check, over every interleaving of truncations, flushes, closes, kills and reads (292 states). It is the state space the violation run below breaks |
| `concurrent_saves` | violation | `LastWriterWins`, with no kills: both saves truncate, `s1` writes its two-part document and closes, then `s2` writes its one-part document at offset 0 and returns. The file is `s2`'s document followed by the tail of `s1`'s, which is unreadable |
| `budget_groups` | pass | `GroupVerdictsExact` and `RefinesBudgetSpec`. `BUDGETS` is a variant keyed by group names (`classifier`, `classifier_batch`), the only kind of key the code can match. Each readable group is judged once against its first matching budget, and whenever `summary.txt` holds totals, they and the exit code agree with the lists. Estimates may be missing, not JSON, without a mean or not an object, and the summary write may fail (1,076 states) |
| `budget_real_keys` | violation | `BudgetViolationDetected`. With the real `BUDGETS`, the `classifier/complex` benchmark is over its budget and the script still exits 0 |
| `budget_exit_without_violation` | violation | `BudgetExitMeansViolation`, with the real `BUDGETS`: nothing is judged, and an unwritable `summary.txt` makes `main` exit 1 with an empty failed list |

Every property of a passing run has a mutant in `PROJECT.json`: a
plausible bug in the mapped code that TLC catches under the run's cfg.

### Bounds and why they are enough

- `SampleLists = {<<1>>, <<2>>, <<1,2>>}` gives p95 values 1.00, 2.00 and
  1.95 ms. Against each other these reach all three bands at threshold
  1.2: 2.00/1.00 regressed, 1.00/1.95 improved, 1.95/2.00 stable.
- The initial baseline is either missing or unreadable, or a hand-written
  map. Entries in that map have p95 0 or 1.95 and platform `""` or `linux-x64`.
  Together with saves made on `darwin-arm64`, this reaches every branch of the
  loop.
- Two tests let one test be new while another is compared, and make the
  loop order matter.
- Three invocations are the shortest sequence for each hazard: a save, a
  save killed after truncation, then a check.
- The aggregator uses four timings so that a test can have up to four
  samples. At n=4, k = 2.85 at p95 exercises a fractional rank with the
  clamp.
- Order within a sample list matters only through the sort. It is checked
  in `aggregator`, so the gate uses sorted lists only.
- `MCLogIngestion` uses two files. That is enough for one file's maximum
  to leak into the next and for either glob order. Entries name
  `cache`, name `e2e`, or name nothing, and use `duration_ms` or only
  `elapsed_ms`. This covers the override, the fallback and a zero
  maximum. The stems cover a timestamped name and a plain one.
- `MCConcurrentSaves` uses documents of 3 (the initial file), 2 and 1
  flushes, two saves and one check. A shorter document can then land
  over a longer one, and a short last chunk over a full one.
- `MCBudgetCheck` uses the layout `cargo bench` leaves behind. That is a
  `classifier` group with sub-benchmarks, the `report` HTML dir and a
  `summary.txt` file. Means fall on both sides of each budget.
  `classifier_batch` matches both variant keys, so first-match is
  exercised.

### Fairness

`main` is a single-threaded process with no waits: every step it can
take, it takes. `FairSpec == Spec /\ WF_vars(Next)` states exactly that.
Under it, `InvocationTerminates` (`pc # "done" ~> pc = "done"`) checks
that every invocation ends with an exit code, kills and I/O errors
included. A retry loop around a failing write would break it. No
fairness is assumed between concurrent jobs: `ConcurrentSaves` states
only safety.

### Findings

1. `load_baseline` (line 177) catches only `JSONDecodeError`/`IOError`. A
   baseline that is well-formed JSON of the wrong shape therefore crashes
   the script with exit 1, which CI reads as "regression found". Spec §7
   says it should be treated as a missing baseline.
2. `parse_jsonl_logs` (line 124) also crashes with exit 1 on a JSONL line
   that is not an object. Spec §7 says to skip the unit and warn.
3. `--threshold` is not validated (spec §4.4 requires > 1). With 0.9, a
   check of exactly the saved timings fails every test.
4. `check_benchmark_budgets.py` line 79 matches the `/`-containing
   `BUDGETS` keys against bare directory names. Every group stops at the
   `continue` of line 82, nothing is ever judged, and the script exits 0
   even when a benchmark (`complex` in the trace) is over its budget.
5. `main` (line 469) does not catch an `IOError` from
   `write_json_report`, so a clean check exits 1.
6. The file-name heuristic (line 112) checks segment lengths, not
   digits (spec §9).
7. One log holding two tests' results gives one timing. It pairs the last
   named test with the largest duration of any test (line 131).
8. `save_baseline` (line 226) truncates and writes in place. Two
   concurrent saves that both return 0 can leave one document over the
   tail of the other, an unreadable file, not the "last-writer-wins"
   that spec §5 states.
9. An `IOError` in `write_summary` (budget line 124) ends the budget
   check with exit 1, which CI reads as a budget violation, although no
   benchmark was judged.

Because of finding 4, the real `BUDGETS` never get past line 82. So the
sub-benchmark fallback (line 88) and `parse_estimates` (line 53) are dead
code today. Their defects (the fallback depends on `iterdir()` order, a
missing mean reads as 0, a non-object file crashes with exit 1) are
modelled, and are reached only under the variant `GroupBudgets`. They are
not reported as findings.

## 3. Status

Every component is modelled. Both scripts are refined against an abstract
specification (`CheckSpec`, `BudgetSpec`). The gate has liveness under
weak fairness. Kills are modelled in both the single-job model and the
concurrent one.

The bounds are kept at the sizes above:

- A fourth gate invocation would multiply the 632,016 states of three
  invocations past what TLC checks in a few minutes. Three invocations
  already give the shortest sequence of each hazard: save, a failing
  save, then a check.
- A third sample per test adds p95 values, but no verdict band that the
  three lists do not already reach.

## 4. Not modelled

- Formatting: `print_report` (stdout only, it changes no state), the
  text of `write_summary` beyond its totals, and argparse help.
- Which physical runner produced a tag. The Rosetta hazard in
  `PROJECT.json` (an x86_64 interpreter on an arm64 runner) depends on
  it, and the code never sees it.
- `find_criterion_results` in the budget checker, which nothing calls.
- Floating-point rounding of the percentile. The model is exact; the
  hazard is listed in `PROJECT.json`.
