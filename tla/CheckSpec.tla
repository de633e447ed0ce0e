------------------------------- MODULE CheckSpec -------------------------------
(***************************************************************************)
(* What an invocation of scripts/check_test_regression.py promises, with  *)
(* the check done in one step: the baseline file, the exit code and the   *)
(* outcome of each invocation, where the outcome of a check is defined    *)
(* test by test by spec section 4.4, as sets and counts rather than by a  *)
(* loop.  A save is still two steps, because the file is unreadable      *)
(* between its truncation and its end.  RegressionGate implements this    *)
(* specification (RefinesCheckSpec).                                       *)
(***************************************************************************)
EXTENDS PercentileEngine

CONSTANTS Tests, Platforms, EmptyPlatform, SampleLists, ThresholdNum,
          ThresholdDen, InitialFiles, MalformedLogs, WriteErrors,
          ReportWriteErrors, MaxRuns,
          NoExit, Killed

VARIABLES
  baseline_file,
  phase,        \* "idle", "parse", "save", "saving" or "check"
  args, platform, aggregated,
  exit_code,
  runs,
  outcome       \* what the last check decided

avars == <<baseline_file, phase, args, platform, aggregated, exit_code, runs,
           outcome>>

CorruptFile == [kind |-> "corrupt", tests |-> <<>>]
RunResults == UNION {[S -> SampleLists] : S \in SUBSET Tests \ {{}}}

NoOutcome == [regressions |-> {}, improvements |-> {}, new_tests |-> {},
              total_tests |-> 0, passed |-> 0, failed |-> 0]

P95(samples) == calculate_percentile(samples, OUTLIER_PERCENTILE)

(***************************************************************************)
(* Spec 4.4, for one test with samples s against the map base: new, then  *)
(* platform mismatch (a recorded platform that is not ours), then no      *)
(* usable p95, then the ratio bands current/base > T, < 1/T, else stable. *)
(***************************************************************************)
Verdict(t, s, base, plat) ==
  CASE t \notin DOMAIN base -> "new"
    [] base[t].platform \notin {EmptyPlatform, plat} -> "platform mismatch"
    [] base[t].p95_ms <= 0 -> "no baseline p95"
    [] P95(s) * ThresholdDen > ThresholdNum * base[t].p95_ms -> "regressed"
    [] P95(s) * ThresholdNum < ThresholdDen * base[t].p95_ms -> "improved"
    [] OTHER -> "stable"

Decide(agg, base, plat) ==
  LET V(t) == Verdict(t, agg[t], base, plat)
      With(vs) == {t \in DOMAIN agg : V(t) \in vs}
  IN  [regressions  |-> With({"regressed"}),
       improvements |-> With({"improved"}),
       new_tests    |-> {<<t, V(t)>> :
                           t \in With({"new", "platform mismatch", "no baseline p95"})},
       total_tests  |-> Cardinality(DOMAIN agg),
       passed       |-> Cardinality(With({"improved", "stable"})),
       failed       |-> Cardinality(With({"regressed"}))]

Init ==
  /\ baseline_file \in InitialFiles
  /\ phase = "idle"
  /\ args = [update_baseline |-> FALSE, ci |-> FALSE, json_output |-> FALSE]
  /\ platform = CHOOSE p \in Platforms : TRUE
  /\ aggregated = <<>>
  /\ exit_code = NoExit
  /\ runs = 0
  /\ outcome = NoOutcome

Finish(code) == phase' = "idle" /\ exit_code' = code

Invoke ==
  /\ phase = "idle" /\ runs < MaxRuns
  /\ \E u, c, j \in BOOLEAN, p \in Platforms :
       /\ args' = [update_baseline |-> u, ci |-> c, json_output |-> j]
       /\ platform' = p
  /\ phase' = "parse"
  /\ runs' = runs + 1
  /\ aggregated' = <<>> /\ exit_code' = NoExit /\ outcome' = NoOutcome
  /\ UNCHANGED baseline_file

\* No timings (2 under --ci, else 0), or a log entry that crashes (1).
NoTimings ==
  /\ phase = "parse"
  /\ \/ Finish(IF args.ci THEN 2 ELSE 0)
     \/ MalformedLogs /\ Finish(1)
  /\ UNCHANGED <<baseline_file, args, platform, aggregated, runs, outcome>>

ReadLogs ==
  /\ phase = "parse"
  /\ aggregated' \in RunResults
  /\ phase' = IF args.update_baseline THEN "save" ELSE "check"
  /\ UNCHANGED <<baseline_file, args, platform, exit_code, runs, outcome>>

\* The save truncates the file, or fails to open it (exit 1, file intact).
Truncate ==
  /\ phase = "save"
  /\ \/ /\ phase' = "saving"
        /\ baseline_file' = CorruptFile
        /\ UNCHANGED exit_code
     \/ WriteErrors /\ Finish(1) /\ UNCHANGED baseline_file
  /\ UNCHANGED <<args, platform, aggregated, runs, outcome>>

\* The save completes with the p95 of each test tagged with our platform
\* (the job returns 0 or is killed after the close), or ends (an I/O
\* error, a kill) leaving the file truncated.
EndSave ==
  /\ phase = "saving"
  /\ \/ /\ baseline_file' =
             [kind |-> "valid",
              tests |-> [t \in DOMAIN aggregated |->
                           [p95_ms |-> P95(aggregated[t]), platform |-> platform]]]
        /\ \E code \in {0, Killed} : Finish(code)
     \/ WriteErrors /\ Finish(1) /\ UNCHANGED baseline_file
     \/ Finish(Killed) /\ UNCHANGED baseline_file
  /\ UNCHANGED <<args, platform, aggregated, runs, outcome>>

(***************************************************************************)
(* A check: a file of the wrong shape crashes (1); no usable baseline     *)
(* gives 2 under --ci, else 0; otherwise the outcome is decided and the   *)
(* exit code is 1 exactly when some test regressed, or 1 when the         *)
(* --json-output report cannot be written.                                *)
(***************************************************************************)
Check ==
  /\ phase = "check"
  /\ LET usable == baseline_file.kind = "valid" /\ baseline_file.tests # <<>>
         o == Decide(aggregated, baseline_file.tests, platform)
     IN  CASE baseline_file.kind = "badshape" ->
                Finish(1) /\ UNCHANGED outcome
           [] ~usable ->
                Finish(IF args.ci THEN 2 ELSE 0) /\ UNCHANGED outcome
           [] OTHER ->
                /\ outcome' = o
                /\ \/ Finish(IF o.regressions # {} THEN 1 ELSE 0)
                   \/ ReportWriteErrors /\ args.json_output /\ Finish(1)
  /\ UNCHANGED <<baseline_file, args, platform, aggregated, runs>>

Next == Invoke \/ NoTimings \/ ReadLogs \/ Truncate \/ EndSave \/ Check

Spec == Init /\ [][Next]_avars
=============================================================================
