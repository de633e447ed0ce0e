------------------------------ MODULE BudgetCheck ------------------------------
(***************************************************************************)
(* scripts/check_benchmark_budgets.py: main() and the loop of             *)
(* check_budgets over the entries of target/criterion.                    *)
(*                                                                         *)
(* Names are strings abstracted to token sequences whose concatenation is *)
(* the string ("classifier/tier0_reject" = <<"classifier", "/",           *)
(* "tier0_reject">>); with tokens chosen so that none is a proper prefix  *)
(* of another, str.startswith is IsPrefix on the token sequences.         *)
(* Nanosecond values are abstracted to small integers in one common unit, *)
(* which preserves the <= comparison.                                      *)
(*                                                                         *)
(* An estimates.json is NoEstimates (does not exist), BadEstimates        *)
(* (JSONDecodeError: parse_estimates returns {}), NoMean (an object with  *)
(* no "mean": data.get("mean", {}) gives a mean of 0), NotObject (JSON    *)
(* that is not an object: .get raises AttributeError, which nothing       *)
(* catches) or the mean it holds (data["mean"]["point_estimate"]).        *)
(* A passed or failed line is abstracted to the group and the mean it     *)
(* prints.                                                                 *)
(***************************************************************************)
EXTENDS Integers, Sequences, FiniteSets, TLC

LOCAL SE == INSTANCE SequencesExt

CONSTANTS
  BUDGETS,        \* the BUDGETS dict, in its order: <<[name, budget], ...>>
  Trees,          \* possible target/criterion directories (see Tree below)
  Means,          \* possible mean values of a readable estimates.json
  NoEstimates,    \* model value: the estimates.json does not exist
  BadEstimates,   \* model value: it exists but is not valid JSON
  NoMean,         \* model value: a JSON object without "mean"
  NotObject,      \* model value: valid JSON that is not an object
  SummaryWriteErrors, \* whether writing summary.txt may raise IOError
  NoExit

ASSUME Means \subseteq Nat \ {0} /\ SummaryWriteErrors \in BOOLEAN

Estimates == {NoEstimates, BadEstimates, NoMean, NotObject} \cup Means

(***************************************************************************)
(* A criterion directory: a function from entry names to                  *)
(* [is_dir, top, subs] where top is <entry>/new/estimates.json and subs   *)
(* maps each sub-directory name to its own new/estimates.json.            *)
(* exists = FALSE models "target/criterion not found".                     *)
(***************************************************************************)
VARIABLES
  criterion,   \* [exists : BOOLEAN, entries : Tree]
  pc,          \* "start", "loop", "done"
  pending,     \* entries of criterion_dir.iterdir() not yet visited
  passed,      \* the passed list, as [group, mean] in order of judgment
  failed,      \* the failed list
  summary,     \* summary.txt: <<>> (not written), <<len(passed), len(failed)>>,
               \* or TornSummary (the write raised after open("w") truncated it)
  exit_code

vars == <<criterion, pc, pending, passed, failed, summary, exit_code>>

Entries == DOMAIN criterion.entries
Entry(g) == criterion.entries[g]
TornSummary == <<"torn">>
Line == [group : Entries, mean : Means \cup {0}]
Listed(list, g) == \E j \in DOMAIN list : list[j].group = g

TypeOK ==
  /\ criterion \in Trees
  /\ pc \in {"start", "loop", "done"}
  /\ pending \subseteq Entries
  /\ passed \in Seq(Line)
  /\ failed \in Seq(Line)
  /\ summary \in (Nat \X Nat) \cup {<<>>, TornSummary}
  /\ exit_code \in {0, 1, NoExit}

Init ==
  /\ criterion \in Trees
  /\ pc = "start"
  /\ pending = {}
  /\ passed = <<>>
  /\ failed = <<>>
  /\ summary = <<>>
  /\ exit_code = NoExit

-----------------------------------------------------------------------------
(* main *)

\* if not criterion_dir.exists(): print a warning, sys.exit(0)
NoCriterionDir ==
  /\ pc = "start"
  /\ ~criterion.exists
  /\ pc' = "done"
  /\ exit_code' = 0
  /\ UNCHANGED <<criterion, pending, passed, failed, summary>>

\* check_budgets(criterion_dir): passed = [], failed = [], iterdir()
StartCheck ==
  /\ pc = "start"
  /\ criterion.exists
  /\ pc' = "loop"
  /\ pending' = Entries
  /\ UNCHANGED <<criterion, passed, failed, summary, exit_code>>

-----------------------------------------------------------------------------
(* one iteration of "for group_path in criterion_dir.iterdir()" *)

\* Mutant: the startswith test is dropped; only a key equal to the name matches.
matching_budgets_exact(g) == SelectSeq(BUDGETS, LAMBDA b : b.name = g)

\* [(name, budget) for name, budget in BUDGETS.items()
\*    if group_name.startswith(name) or name == group_name]
matching_budgets(g) ==
  SelectSeq(BUDGETS, LAMBDA b : SE!IsPrefix(b.name, g) \/ b.name = g)

\* group_path / "new" / "estimates.json", else the new/estimates.json of the
\* first sub-directory (in iterdir() order, which the filesystem decides)
\* that has one; NoEstimates when neither exists.
EstimatesCandidates(g) ==
  IF Entry(g).top # NoEstimates THEN {Entry(g).top}
  ELSE LET found == {s \in DOMAIN Entry(g).subs :
                       Entry(g).subs[s].is_dir /\ Entry(g).subs[s].est # NoEstimates}
       IN  IF found = {} THEN {NoEstimates}
           ELSE {Entry(g).subs[s].est : s \in found}

Visited(g) == pending' = pending \ {g}

\* Mutant: no `break` -- the group is judged once per matching budget.
JudgeEvery(g, mean) ==
  LET ms == matching_budgets(g)
      ok == SelectSeq(ms, LAMBDA b : mean <= b.budget)
      ko == SelectSeq(ms, LAMBDA b : mean > b.budget)
  IN  /\ passed' = passed \o [j \in DOMAIN ok |-> [group |-> g, mean |-> mean]]
      /\ failed' = failed \o [j \in DOMAIN ko |-> [group |-> g, mean |-> mean]]

\* The group is judged against the first matching budget, then `break`.
Judge(g, mean) ==
  LET budget == matching_budgets(g)[1].budget IN
  IF mean <= budget
  THEN passed' = Append(passed, [group |-> g, mean |-> mean]) /\ UNCHANGED failed
  ELSE failed' = Append(failed, [group |-> g, mean |-> mean]) /\ UNCHANGED passed

Continue == UNCHANGED <<passed, failed>>

\* An exception escapes main: the interpreter exits 1.
Crash == pc' = "done" /\ exit_code' = 1 /\ UNCHANGED <<passed, failed>>

VisitGroup ==
  /\ pc = "loop"
  /\ \E g \in pending :
       /\ Visited(g)
       /\ \/ \* if not group_path.is_dir(): continue
             /\ ~Entry(g).is_dir
             /\ Continue /\ UNCHANGED <<pc, exit_code>>
          \/ \* if not matching_budgets: continue
             /\ Entry(g).is_dir
             /\ matching_budgets(g) = <<>>
             /\ Continue /\ UNCHANGED <<pc, exit_code>>
          \/ /\ Entry(g).is_dir
             /\ matching_budgets(g) # <<>>
             /\ \E est \in EstimatesCandidates(g) :
                  \/ \* "No estimates found", or parse_estimates returned {}
                     /\ est \in {NoEstimates, BadEstimates}
                     /\ Continue /\ UNCHANGED <<pc, exit_code>>
                  \/ /\ est \in Means
                     /\ Judge(g, est) /\ UNCHANGED <<pc, exit_code>>
                  \/ \* estimates.get("mean", 0) is 0
                     /\ est = NoMean
                     /\ Judge(g, 0) /\ UNCHANGED <<pc, exit_code>>
                  \/ \* data.get raises AttributeError in parse_estimates
                     /\ est = NotObject
                     /\ Crash
  /\ UNCHANGED <<criterion, summary>>

\* Mutant: exits with the number of failures, sys.exit(len(failed)).
Finish_exit_count ==
  /\ pc = "loop"
  /\ pending = {}
  /\ summary' = <<Len(passed), Len(failed)>>
  /\ exit_code' = Len(failed)
  /\ pc' = "done"
  /\ UNCHANGED <<criterion, pending, passed, failed>>

(***************************************************************************)
(* The loop is over: print, write_summary (summary.txt with the totals),  *)
(* exit 1 if anything failed, else 0.  An IOError of write_summary, once  *)
(* open("w") has truncated the file, escapes main (exit 1).               *)
(***************************************************************************)
Finish ==
  /\ pc = "loop"
  /\ pending = {}
  /\ \/ /\ summary' = <<Len(passed), Len(failed)>>
        /\ exit_code' = IF failed # <<>> THEN 1 ELSE 0
     \/ /\ SummaryWriteErrors
        /\ summary' = TornSummary
        /\ exit_code' = 1
  /\ pc' = "done"
  /\ UNCHANGED <<criterion, pending, passed, failed>>

Terminated ==
  /\ pc = "done"
  /\ UNCHANGED vars

Next == NoCriterionDir \/ StartCheck \/ VisitGroup \/ Finish \/ Terminated

Spec == Init /\ [][Next]_vars

-----------------------------------------------------------------------------
(* Properties *)

\* The Criterion id of sub-benchmark s of group g: "<group>/<benchmark>".
BenchId(g, s) == g \o <<"/">> \o s

\* The budget BUDGETS assigns to a benchmark id: its first key that the id
\* starts with.
BudgetOf(id) ==
  LET ms == SelectSeq(BUDGETS, LAMBDA b : SE!IsPrefix(b.name, id)) IN ms[1].budget

HasBudget(id) == \E j \in DOMAIN BUDGETS : SE!IsPrefix(BUDGETS[j].name, id)

(***************************************************************************)
(* The module docstring: the script "verifies benchmark results meet the  *)
(* AGENTS.md performance budgets".  When it has finished, a benchmark     *)
(* whose measured mean exceeds the budget BUDGETS gives its id makes it   *)
(* exit 1.                                                                 *)
(***************************************************************************)
BudgetViolationDetected ==
  (pc = "done" /\ criterion.exists) =>
    ((\E g \in Entries : \E s \in DOMAIN Entry(g).subs :
        /\ Entry(g).is_dir /\ Entry(g).subs[s].is_dir
        /\ Entry(g).subs[s].est \in Means
        /\ HasBudget(BenchId(g, s))
        /\ Entry(g).subs[s].est > BudgetOf(BenchId(g, s)))
      => exit_code = 1)

(***************************************************************************)
(* Each visited group directory with a matching budget and a readable     *)
(* group-level estimates.json is judged exactly once, against the first   *)
(* matching budget, and the exit code and summary.txt agree with the two  *)
(* lists: a group over its budget is never reported as passing, and none  *)
(* is counted twice in the totals CI reads, whenever summary.txt holds    *)
(* them.                                                                   *)
(***************************************************************************)
GroupVerdictsExact ==
  LET judged == passed \o failed IN
  /\ \A j, k \in DOMAIN judged : judged[j].group = judged[k].group => j = k
  /\ \A g \in Entries \ pending :
       (/\ pc # "start" /\ Entry(g).is_dir
        /\ matching_budgets(g) # <<>> /\ Entry(g).top \in Means)
         => IF Entry(g).top <= matching_budgets(g)[1].budget
            THEN Listed(passed, g) ELSE Listed(failed, g)
  /\ pc = "done" /\ criterion.exists /\ summary \in Nat \X Nat =>
       /\ summary = <<Len(passed), Len(failed)>>
       /\ exit_code = IF failed = <<>> THEN 0 ELSE 1

(***************************************************************************)
(* main's messages (lines 175-178): exit 1 means "PERFORMANCE BUDGET      *)
(* VIOLATIONS DETECTED".  Once main has ended with 1, some group is in    *)
(* the failed list.                                                        *)
(***************************************************************************)
BudgetExitMeansViolation ==
  pc = "done" /\ exit_code = 1 => failed # <<>>

-----------------------------------------------------------------------------
(* Refinement: the lists as sets once main has ended *)

LineSet(list) == {list[j] : j \in DOMAIN list}

BudgetAbstract == INSTANCE BudgetSpec WITH
  phase <- IF pc = "done" THEN "done" ELSE "start",
  passed <- IF pc = "done" THEN LineSet(passed) ELSE {},
  failed <- IF pc = "done" THEN LineSet(failed) ELSE {}

(***************************************************************************)
(* The loop over iterdir(), with its continues, its sub-benchmark         *)
(* fallback and its break, decides what BudgetSpec decides in one step:   *)
(* every group a key is a prefix of is judged once, against the first     *)
(* such key, on its own estimates or one sub-benchmark's, and the totals  *)
(* in summary.txt and the exit code follow from the lines.                *)
(***************************************************************************)
RefinesBudgetSpec == BudgetAbstract!Spec
=============================================================================
