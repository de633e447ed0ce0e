---------------------------- MODULE RegressionGate ----------------------------
(***************************************************************************)
(* scripts/check_test_regression.py as a CI gate: a sequence of           *)
(* invocations of main(), each either --update-baseline (save_baseline)   *)
(* or a check (load_baseline then check_regressions), sharing one         *)
(* persistent baseline file.  One invocation runs at a time, as spec      *)
(* section 5 assumes of CI.  A process may be killed while save_baseline  *)
(* holds the file truncated, and a write may fail with an I/O error.      *)
(*                                                                         *)
(* Data abstraction: a test is a model value; the samples of one test in  *)
(* one run are a sequence from SampleLists; a platform tag is the string *)
(* detect_platform() builds from the runner's host; percentiles are in hundredths of a millisecond (PercentileEngine)*)
(* so round(x, 2) in save_baseline is the identity.  mean, median, stddev,*)
(* sample_count and timestamps are written but never read by the          *)
(* classifier and are left out.                                            *)
(***************************************************************************)
EXTENDS PercentileEngine

CONSTANTS
  Tests,          \* test names
  Hosts,          \* the CI runners: [system, machine] as the platform module reports them
  Lower,          \* str.lower() on the strings of Hosts
  EmptyPlatform,  \* the "" platform of a baseline entry written without one
  SampleLists,    \* per-test duration lists one run can aggregate
  ThresholdNum,   \* --threshold as the fraction ThresholdNum / ThresholdDen
  ThresholdDen,
  InitialFiles,   \* baseline file states the repository can hold at start
  MalformedLogs,  \* TRUE: a log line may be JSON that is not an object
  WriteErrors,    \* TRUE: the write of the baseline file may fail (IOError)
  ReportWriteErrors, \* TRUE: the write of the --json-output file may fail
  MaxRuns,        \* bound on the number of invocations
  NoExit, Killed  \* model values: no exit code yet / killed by a signal

ASSUME SampleLists \subseteq Seq(Nat \ {0}) \ {<<>>}
ASSUME ThresholdNum \in Nat \ {0} /\ ThresholdDen \in Nat \ {0}
ASSUME MalformedLogs \in BOOLEAN /\ WriteErrors \in BOOLEAN
ASSUME ReportWriteErrors \in BOOLEAN
ASSUME MaxRuns \in Nat

VARIABLES
  baseline_file,  \* the persisted .baselines/test_performance_baseline.json
  pc,             \* where the running invocation is; "done" between runs
  args,           \* [update_baseline, ci, json_output] of the running invocation
  platform,       \* detect_platform() of the running invocation
  aggregated,     \* aggregate_timings(parse_jsonl_logs(...)) of this run
  baselines,      \* what load_baseline returned
  pending,        \* tests check_regressions has not yet classified
  report,         \* the RegressionReport being built
  exit_code,      \* exit status of the last invocation (NoExit while running)
  runs,           \* invocations started so far
  last_save,      \* history: platform and samples of the last completed save
  json_report     \* the --json-output file: absent, corrupt, or its summary

vars == <<baseline_file, pc, args, platform, aggregated, baselines, pending,
          report, exit_code, runs, last_save, json_report>>

(***************************************************************************)
(* detect_platform(): "{system}-{arch}" from platform.system() and        *)
(* platform.machine(), lowercased, with the architecture normalised.      *)
(***************************************************************************)
detect_platform(h) ==
  LET machine == Lower[h.machine]
      arch == CASE machine \in {"x86_64", "amd64"} -> "x64"
                [] machine \in {"aarch64", "arm64"} -> "arm64"
                [] OTHER -> machine
  IN  Lower[h.system] \o "-" \o arch

Platforms == {detect_platform(h) : h \in Hosts}

ASSUME EmptyPlatform \notin Platforms

BaselineEntry == [p95_ms : Nat, platform : Platforms \cup {EmptyPlatform}]
IsBaselineMap(m) ==
  DOMAIN m \subseteq Tests /\ \A t \in DOMAIN m : m[t] \in BaselineEntry

\* The file as load_baseline sees it: missing, not JSON (empty or cut off),
\* JSON of the wrong shape ("tests" not an object of objects), or valid.
MissingFile  == [kind |-> "absent",   tests |-> <<>>]
CorruptFile  == [kind |-> "corrupt",  tests |-> <<>>]
BadShapeFile == [kind |-> "badshape", tests |-> <<>>]
ValidFile(m) == [kind |-> "valid",    tests |-> m]

\* Every dict aggregate_timings can return for a non-empty timings list.
RunResults == UNION {[S -> SampleLists] : S \in SUBSET Tests \ {{}}}

NewReason == {"new", "platform mismatch", "no baseline p95"}
EmptyReport == [regressions |-> <<>>, improvements |-> <<>>, new_tests |-> <<>>,
                total_tests |-> 0, passed |-> 0, failed |-> 0]
NoSave == [platform |-> EmptyPlatform, aggregated |-> <<>>]
NoJsonReport == [kind |-> "absent", summary |-> <<>>]
CorruptJsonReport == [kind |-> "corrupt", summary |-> <<>>]
\* The "summary" object write_json_report writes.
JsonSummary(r) == [total_tests |-> r.total_tests, passed |-> r.passed,
                   failed |-> r.failed, new_tests |-> Len(r.new_tests)]

TypeOK ==
  /\ baseline_file.kind \in {"absent", "corrupt", "badshape", "valid"}
  /\ IsBaselineMap(baseline_file.tests)
  /\ baseline_file.kind # "valid" => baseline_file.tests = <<>>
  /\ pc \in {"parse", "save_open", "save_write", "load", "classify", "done"}
  /\ args \in [update_baseline : BOOLEAN, ci : BOOLEAN, json_output : BOOLEAN]
  /\ platform \in Platforms
  /\ aggregated \in RunResults \cup {<<>>}
  /\ IsBaselineMap(baselines)
  /\ pending \subseteq DOMAIN aggregated
  /\ report \in [regressions : Seq(Tests), improvements : Seq(Tests),
                 new_tests : Seq([test_name : Tests, reason : NewReason]),
                 total_tests : Nat, passed : Nat, failed : Nat]
  /\ exit_code \in {0, 1, 2, NoExit, Killed}
  /\ runs \in 0..MaxRuns
  /\ last_save \in [platform : Platforms, aggregated : RunResults] \cup {NoSave}
  /\ json_report \in {NoJsonReport, CorruptJsonReport} \cup
                     [kind : {"written"}, summary : [total_tests : Nat, passed : Nat,
                                                   failed : Nat, new_tests : Nat]]

Init ==
  /\ baseline_file \in InitialFiles
  /\ pc = "done"
  /\ args = [update_baseline |-> FALSE, ci |-> FALSE, json_output |-> FALSE]
  /\ platform = CHOOSE p \in Platforms : TRUE
  /\ aggregated = <<>>
  /\ baselines = <<>>
  /\ pending = {}
  /\ report = EmptyReport
  /\ exit_code = NoExit
  /\ runs = 0
  /\ last_save = NoSave
  /\ json_report = NoJsonReport

\* main() returns code: the invocation ends.
ExitWith(code) == pc' = "done" /\ exit_code' = code

-----------------------------------------------------------------------------
(* main(): start of an invocation *)

(***************************************************************************)
(* A CI job runs the script with or without --update-baseline and --ci on *)
(* one of the runners.  Everything but the baseline file is per process.  *)
(***************************************************************************)
Start ==
  /\ pc = "done"
  /\ runs < MaxRuns
  /\ \E u, c, j \in BOOLEAN, h \in Hosts :
       /\ args' = [update_baseline |-> u, ci |-> c, json_output |-> j]
       /\ platform' = detect_platform(h)
  /\ pc' = "parse"
  /\ runs' = runs + 1
  /\ aggregated' = <<>>
  /\ baselines' = <<>>
  /\ pending' = {}
  /\ report' = EmptyReport
  /\ exit_code' = NoExit
  /\ UNCHANGED <<baseline_file, last_save, json_report>>

(***************************************************************************)
(* parse_jsonl_logs found no timing: main returns 2 under --ci, else 0.   *)
(***************************************************************************)
NoLogs ==
  /\ pc = "parse"
  /\ ExitWith(IF args.ci THEN 2 ELSE 0)
  /\ UNCHANGED <<baseline_file, args, platform, aggregated, baselines, pending,
                 report, runs, last_save, json_report>>

(***************************************************************************)
(* A log line parses as JSON but is not an object (or its duration is not *)
(* a number): entry.get / the > comparison raise AttributeError or        *)
(* TypeError, which the except clause (JSONDecodeError, IOError) does not *)
(* catch, so the interpreter exits with status 1.                         *)
(***************************************************************************)
MalformedLogEntry ==
  /\ MalformedLogs
  /\ pc = "parse"
  /\ ExitWith(1)
  /\ UNCHANGED <<baseline_file, args, platform, aggregated, baselines, pending,
                 report, runs, last_save, json_report>>

(***************************************************************************)
(* parse_jsonl_logs returned timings; main then saves them                *)
(* (--update-baseline) or loads the baseline to check them.  Both         *)
(* save_baseline and check_regressions start with aggregate_timings, whose *)
(* result is chosen here (Aggregator checks that loop itself).            *)
(***************************************************************************)
ParseLogs ==
  /\ pc = "parse"
  /\ \E agg \in RunResults : aggregated' = agg
  /\ pc' = IF args.update_baseline THEN "save_open" ELSE "load"
  /\ UNCHANGED <<baseline_file, args, platform, baselines, pending, report,
                 exit_code, runs, last_save, json_report>>

-----------------------------------------------------------------------------
(* save_baseline *)

\* Mutant: stores the median (percentile 50) in the p95_ms field.
SavedTests_median(plat, agg) ==
  [t \in DOMAIN agg |->
     [p95_ms |-> calculate_percentile(agg[t], 50), platform |-> plat]]

\* The "tests" object save_baseline writes: one entry per aggregated test,
\* p95 of this run's samples, tagged with this process's platform.
SavedTests(plat, agg) ==
  [t \in DOMAIN agg |->
     [p95_ms |-> calculate_percentile(agg[t], OUTLIER_PERCENTILE),
      platform |-> plat]]

(***************************************************************************)
(* open(baseline_file, "w"): the old file is truncated to zero bytes      *)
(* before anything is written.                                             *)
(***************************************************************************)
SaveOpen ==
  /\ pc = "save_open"
  /\ baseline_file' = CorruptFile
  /\ pc' = "save_write"
  /\ UNCHANGED <<args, platform, aggregated, baselines, pending, report,
                 exit_code, runs, last_save, json_report>>

(***************************************************************************)
(* mkdir(parents=True, exist_ok=True) or open(baseline_file, "w") raises  *)
(* (permissions, a read-only or full disk) before the truncation:         *)
(* save_baseline does not catch it, the old file is intact, and the       *)
(* process exits 1.                                                        *)
(***************************************************************************)
SaveOpenFails ==
  /\ WriteErrors
  /\ pc = "save_open"
  /\ ExitWith(1)
  /\ UNCHANGED <<baseline_file, args, platform, aggregated, baselines, pending,
                 report, runs, last_save, json_report>>

(***************************************************************************)
(* json.dump of the full replacement document and close; main returns 0,  *)
(* or the job is killed while it prints the summary after the close,      *)
(* leaving the new file but no exit code.  Tests of the old baseline      *)
(* absent from this run are dropped.                                       *)
(***************************************************************************)
SaveWrite ==
  /\ pc = "save_write"
  /\ baseline_file' = ValidFile(SavedTests(platform, aggregated))
  /\ last_save' = [platform |-> platform, aggregated |-> aggregated]
  /\ \E code \in {0, Killed} : ExitWith(code)
  /\ UNCHANGED <<args, platform, aggregated, baselines, pending, report, runs,
                 json_report>>

\* Mutant: an IOError makes the save start over instead of escaping.
SaveWriteFails_retry ==
  /\ WriteErrors
  /\ pc = "save_write"
  /\ pc' = "save_open"
  /\ UNCHANGED <<baseline_file, args, platform, aggregated, baselines, pending,
                 report, exit_code, runs, last_save, json_report>>

(***************************************************************************)
(* The write raises (disk full, I/O error): save_baseline does not catch  *)
(* it, the file is left truncated or cut off, and the process exits 1.    *)
(***************************************************************************)
SaveWriteFails ==
  /\ WriteErrors
  /\ pc = "save_write"
  /\ ExitWith(1)
  /\ UNCHANGED <<baseline_file, args, platform, aggregated, baselines, pending,
                 report, runs, last_save, json_report>>

(***************************************************************************)
(* The job is killed (timeout, OOM) between the truncation and the end of *)
(* the write.  Killing it at any other point leaves no persistent trace.  *)
(***************************************************************************)
KilledDuringSave ==
  /\ pc = "save_write"
  /\ ExitWith(Killed)
  /\ UNCHANGED <<baseline_file, args, platform, aggregated, baselines, pending,
                 report, runs, last_save, json_report>>

-----------------------------------------------------------------------------
(* load_baseline, and main's reaction to an empty result *)

\* Mutant: "No baseline found" returns 0 whether or not --ci is given.
LoadNoBaseline_exit0 ==
  /\ pc = "load"
  /\ \/ baseline_file.kind \in {"absent", "corrupt"}
     \/ baseline_file.kind = "valid" /\ baseline_file.tests = <<>>
  /\ ExitWith(0)
  /\ UNCHANGED <<baseline_file, args, platform, aggregated, baselines, pending,
                 report, runs, last_save, json_report>>

(***************************************************************************)
(* The file is missing (return {}), or json.load raises JSONDecodeError   *)
(* (warning, return {}), or its "tests" object is empty: main prints "No  *)
(* baseline found" and returns 2 under --ci, else 0.                      *)
(***************************************************************************)
LoadNoBaseline ==
  /\ pc = "load"
  /\ \/ baseline_file.kind \in {"absent", "corrupt"}
     \/ baseline_file.kind = "valid" /\ baseline_file.tests = <<>>
  /\ ExitWith(IF args.ci THEN 2 ELSE 0)
  /\ UNCHANGED <<baseline_file, args, platform, aggregated, baselines, pending,
                 report, runs, last_save, json_report>>

(***************************************************************************)
(* The file is JSON but data.get / .items() / values.get fails on it (a   *)
(* top-level array, "tests" a list, an entry that is not an object): the  *)
(* AttributeError escapes load_baseline and main, and the exit status is 1.*)
(***************************************************************************)
LoadBadShape ==
  /\ pc = "load"
  /\ baseline_file.kind = "badshape"
  /\ ExitWith(1)
  /\ UNCHANGED <<baseline_file, args, platform, aggregated, baselines, pending,
                 report, runs, last_save, json_report>>

\* Mutant: the loop walks the baseline's tests instead of this run's.
LoadBaseline_over_baselines ==
  /\ pc = "load"
  /\ baseline_file.kind = "valid"
  /\ baseline_file.tests # <<>>
  /\ baselines' = baseline_file.tests
  /\ pending' = DOMAIN baseline_file.tests
  /\ report' = [EmptyReport EXCEPT !.total_tests = Cardinality(DOMAIN aggregated)]
  /\ pc' = "classify"
  /\ UNCHANGED <<baseline_file, args, platform, aggregated, exit_code, runs,
                 last_save, json_report>>

(***************************************************************************)
(* load_baseline returns a non-empty map and check_regressions starts:    *)
(* report = RegressionReport(), report.total_tests = len(aggregated).      *)
(***************************************************************************)
LoadBaseline ==
  /\ pc = "load"
  /\ baseline_file.kind = "valid"
  /\ baseline_file.tests # <<>>
  /\ baselines' = baseline_file.tests
  /\ pending' = DOMAIN aggregated
  /\ report' = [EmptyReport EXCEPT !.total_tests = Cardinality(DOMAIN aggregated)]
  /\ pc' = "classify"
  /\ UNCHANGED <<baseline_file, args, platform, aggregated, exit_code, runs,
                 last_save, json_report>>

-----------------------------------------------------------------------------
(* check_regressions: one action per branch of the loop body for test t *)

CurrentP95(t) == calculate_percentile(aggregated[t], OUTLIER_PERCENTILE)

\* baseline.platform and baseline.platform != platform
PlatformMismatch(t) ==
  /\ baselines[t].platform # EmptyPlatform
  /\ baselines[t].platform # platform

\* ratio > threshold, ratio = current_p95 / baseline.p95_ms, baseline.p95_ms > 0
RatioAboveThreshold(cur, base) == cur * ThresholdDen > ThresholdNum * base
\* Mutant: the improvement band made symmetric, ratio < threshold.
RatioBelowInverse_symmetric(cur, base) == cur * ThresholdDen < ThresholdNum * base

\* ratio < (1 / threshold)
RatioBelowInverse(cur, base) == cur * ThresholdNum < ThresholdDen * base

Classified(t) == pending' = pending \ {t}

AddNew(t, reason) ==
  report' = [report EXCEPT !.new_tests =
               Append(@, [test_name |-> t, reason |-> reason])]

\* test_name not in baselines: a new test, counted nowhere.
ClassifyNew(t) ==
  /\ t \notin DOMAIN baselines
  /\ AddNew(t, "new")

\* The baseline was recorded on another platform: listed as new, not compared.
ClassifyPlatformMismatch(t) ==
  /\ t \in DOMAIN baselines
  /\ PlatformMismatch(t)
  /\ AddNew(t, "platform mismatch")

Comparable(t) == t \in DOMAIN baselines /\ ~PlatformMismatch(t)

\* baseline.p95_ms > 0 fails: listed as new with "no baseline p95".
ClassifyNoBaselineP95(t) ==
  /\ Comparable(t)
  /\ ~(baselines[t].p95_ms > 0)
  /\ AddNew(t, "no baseline p95")

ClassifyRegressed(t) ==
  /\ Comparable(t)
  /\ baselines[t].p95_ms > 0
  /\ RatioAboveThreshold(CurrentP95(t), baselines[t].p95_ms)
  /\ report' = [report EXCEPT !.failed = @ + 1,
                              !.regressions = Append(@, t)]

ClassifyImproved(t) ==
  /\ Comparable(t)
  /\ baselines[t].p95_ms > 0
  /\ ~RatioAboveThreshold(CurrentP95(t), baselines[t].p95_ms)
  /\ RatioBelowInverse(CurrentP95(t), baselines[t].p95_ms)
  /\ report' = [report EXCEPT !.passed = @ + 1,
                              !.improvements = Append(@, t)]

\* Mutant: the within-threshold branch forgets report.passed += 1.
ClassifyStable_uncounted(t) ==
  /\ Comparable(t)
  /\ baselines[t].p95_ms > 0
  /\ ~RatioAboveThreshold(CurrentP95(t), baselines[t].p95_ms)
  /\ ~RatioBelowInverse(CurrentP95(t), baselines[t].p95_ms)
  /\ UNCHANGED report

\* Within threshold: counted as passed, not listed.
ClassifyStable(t) ==
  /\ Comparable(t)
  /\ baselines[t].p95_ms > 0
  /\ ~RatioAboveThreshold(CurrentP95(t), baselines[t].p95_ms)
  /\ ~RatioBelowInverse(CurrentP95(t), baselines[t].p95_ms)
  /\ report' = [report EXCEPT !.passed = @ + 1]

(***************************************************************************)
(* One iteration of "for test_name, durations in aggregated.items()".     *)
(* The dict's order is the order of the log files; any order is allowed.  *)
(***************************************************************************)
check_regressions_step ==
  /\ pc = "classify"
  /\ \E t \in pending :
       /\ Classified(t)
       /\ \/ ClassifyNew(t)
          \/ ClassifyPlatformMismatch(t)
          \/ ClassifyNoBaselineP95(t)
          \/ ClassifyRegressed(t)
          \/ ClassifyImproved(t)
          \/ ClassifyStable(t)
  /\ UNCHANGED <<baseline_file, pc, args, platform, aggregated, baselines,
                 exit_code, runs, last_save, json_report>>

(***************************************************************************)
(* The loop is over: print_report; with --json-output, write_json_report  *)
(* truncates the file and json.dumps the summary and the lists, and an    *)
(* IOError there escapes main (exit 1) leaving the file empty or cut off. *)
(***************************************************************************)
WriteJsonReport ==
  /\ pc = "classify"
  /\ pending = {}
  /\ args.json_output
  /\ json_report' = [kind |-> "written", summary |-> JsonSummary(report)]
  /\ ExitWith(IF report.failed > 0 THEN 1 ELSE 0)
  /\ UNCHANGED <<baseline_file, args, platform, aggregated, baselines, pending,
                 report, runs, last_save>>

WriteJsonReportFails ==
  /\ ReportWriteErrors
  /\ pc = "classify"
  /\ pending = {}
  /\ args.json_output
  /\ json_report' = CorruptJsonReport
  /\ ExitWith(1)
  /\ UNCHANGED <<baseline_file, args, platform, aggregated, baselines, pending,
                 report, runs, last_save>>

\* Without --json-output: return 1 if report.failed > 0, else 0.
Report ==
  /\ pc = "classify"
  /\ pending = {}
  /\ ~args.json_output
  /\ ExitWith(IF report.failed > 0 THEN 1 ELSE 0)
  /\ UNCHANGED <<baseline_file, args, platform, aggregated, baselines, pending,
                 report, runs, last_save, json_report>>

\* All MaxRuns invocations have finished.
Finished ==
  /\ pc = "done"
  /\ runs = MaxRuns
  /\ UNCHANGED vars

Next ==
  \/ Start
  \/ NoLogs
  \/ MalformedLogEntry
  \/ ParseLogs
  \/ SaveOpen
  \/ SaveOpenFails
  \/ SaveWrite
  \/ SaveWriteFails
  \/ KilledDuringSave
  \/ LoadNoBaseline
  \/ LoadBadShape
  \/ LoadBaseline
  \/ check_regressions_step
  \/ WriteJsonReport
  \/ WriteJsonReportFails
  \/ Report
  \/ Finished

Spec == Init /\ [][Next]_vars

(***************************************************************************)
(* main is one single-threaded process with no blocking call other than   *)
(* local file I/O: while it runs, it keeps taking steps (weak fairness).  *)
(***************************************************************************)
FairSpec == Spec /\ WF_vars(Next)

-----------------------------------------------------------------------------
(* Properties *)

Listed == report.regressions \o report.improvements \o
          [j \in DOMAIN report.new_tests |-> report.new_tests[j].test_name]

(***************************************************************************)
(* check_regressions accounts for every test exactly once: at every point *)
(* of its loop, passed + failed + len(new_tests) plus the tests still to  *)
(* visit equals total_tests, failed counts exactly the listed regressions,*)
(* improvements are among the passed, and no test is listed twice or both *)
(* listed and still pending.  main's exit code and the JSON summary rely  *)
(* on these counters (spec 6: "must be exact").                            *)
(***************************************************************************)
ReportAccounting ==
  /\ report.passed + report.failed + Len(report.new_tests) + Cardinality(pending)
       = report.total_tests
  /\ report.failed = Len(report.regressions)
  /\ Len(report.improvements) <= report.passed
  /\ \A j, k \in DOMAIN Listed : Listed[j] = Listed[k] => j = k
  /\ \A j \in DOMAIN Listed : Listed[j] \notin pending

(***************************************************************************)
(* Under --ci the gate never passes a test that regressed against the     *)
(* last baseline completely saved, when that save ran on the platform of  *)
(* the check: whatever happened to the file since (a later save killed    *)
(* after truncating it, a failed write, another job's save in progress),  *)
(* a check that exits 0 found every such test within threshold.           *)
(***************************************************************************)
CIGateCatchesRegression ==
  (/\ pc = "done" /\ exit_code = 0
   /\ args.ci /\ ~args.update_baseline
   /\ last_save # NoSave /\ last_save.platform = platform)
    => \A t \in DOMAIN aggregated \cap DOMAIN last_save.aggregated :
         ~RatioAboveThreshold(
            CurrentP95(t),
            calculate_percentile(last_save.aggregated[t], OUTLIER_PERCENTILE))

(***************************************************************************)
(* save/load round trip: a check on the platform of the last completed    *)
(* save, with exactly the samples that save recorded, lists nothing (no   *)
(* regression, improvement or new test) and passes every test it          *)
(* compared.  It exercises the p95 save_baseline stores, its platform tag *)
(* and the ratio bands of check_regressions together.                     *)
(***************************************************************************)
RoundTripStable ==
  (/\ pc = "done" /\ ~args.update_baseline
   /\ last_save # NoSave /\ last_save.platform = platform
   /\ aggregated = last_save.aggregated)
    => /\ report.failed = 0
       /\ report.improvements = <<>>
       /\ report.new_tests = <<>>
       /\ report.passed = report.total_tests

(***************************************************************************)
(* Spec 6 maps exit code 1 to "regressions found" and spec 7 says a       *)
(* malformed record or a corrupt baseline is skipped with a warning and   *)
(* that nothing inside the engine aborts the process: an invocation that  *)
(* exits 1 has counted a failed test.                                      *)
(***************************************************************************)
ExitOneMeansRegression ==
  (pc = "done" /\ exit_code = 1) => report.failed > 0

(***************************************************************************)
(* Every invocation returns an exit code: the check loop visits each test *)
(* once, and no error path (a failed write, an unreadable baseline, a bad *)
(* log line) leaves main retrying or waiting.                             *)
(***************************************************************************)
InvocationTerminates == pc # "done" ~> pc = "done"

-----------------------------------------------------------------------------
(* Refinement of CheckSpec *)

SetOf(seq) == {seq[j] : j \in DOMAIN seq}

\* Where main is, in CheckSpec's coarser phases.
AbstractPhase ==
  CASE pc = "done" -> "idle"
    [] pc = "parse" -> "parse"
    [] pc = "save_open" -> "save"
    [] pc = "save_write" -> "saving"
    [] pc \in {"load", "classify"} -> "check"

\* The report once main has returned; the loop's partial report is hidden.
AbstractOutcome ==
  IF pc = "done"
  THEN [regressions  |-> SetOf(report.regressions),
        improvements |-> SetOf(report.improvements),
        new_tests    |-> {<<report.new_tests[j].test_name, report.new_tests[j].reason>> :
                            j \in DOMAIN report.new_tests},
        total_tests  |-> report.total_tests,
        passed       |-> report.passed,
        failed       |-> report.failed]
  ELSE [regressions |-> {}, improvements |-> {}, new_tests |-> {},
        total_tests |-> 0, passed |-> 0, failed |-> 0]

Abstract == INSTANCE CheckSpec WITH phase <- AbstractPhase, outcome <- AbstractOutcome

(***************************************************************************)
(* main implements CheckSpec: loading the baseline, the check_regressions *)
(* loop over the tests in whatever order the dict yields them, and the    *)
(* exit code together produce, in the step that returns, the outcome spec *)
(* 4.4 defines test by test (the same sets of regressed, improved and new *)
(* tests, and the same counts); every other step of main is a step of     *)
(* CheckSpec or leaves its state unchanged.                                *)
(***************************************************************************)
RefinesCheckSpec == Abstract!Spec
=============================================================================
