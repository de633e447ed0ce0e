---------------------------- MODULE MCBudgetCheck ----------------------------
(***************************************************************************)
(* BudgetCheck instantiated for TLC.  Budgets and means are in units of   *)
(* 100 us (100_000 ns), so the six BUDGETS values are 1, 5, 5, 5, 10 and  *)
(* 100.                                                                    *)
(***************************************************************************)
EXTENDS BudgetCheck

CONSTANTS NoEstimatesV, BadEstimatesV   \* model values

Name(str) == <<str>>
Key(group, bench) == <<group, "/", bench>>

\* BUDGETS exactly as in check_benchmark_budgets.py, in its order.
RealBudgets ==
  << [name |-> Key("classifier", "tier0_reject"),      budget |-> 1],
     [name |-> Key("classifier", "structure_reject"),  budget |-> 5],
     [name |-> Key("classifier", "compilation_match"), budget |-> 5],
     [name |-> Key("classifier", "never_intercept"),   budget |-> 5],
     [name |-> Key("classifier", "complex"),           budget |-> 10],
     [name |-> Key("classifier", "batch_100"),         budget |-> 100] >>

Sub(est) == [is_dir |-> TRUE, est |-> est]
Dir(top, subs) == [is_dir |-> TRUE, top |-> top, subs |-> subs]
File == [is_dir |-> FALSE, top |-> NoEstimatesV, subs |-> <<>>]
Missing == [exists |-> FALSE, entries |-> <<>>]

(***************************************************************************)
(* The layout cargo bench leaves: target/criterion/classifier/<bench>/    *)
(* new/estimates.json for each benchmark of the "classifier" group, the   *)
(* HTML "report" directory, and summary.txt from an earlier run.  The     *)
(* tier0_reject mean is within or over its budget, the complex one is     *)
(* missing, unreadable, within or over.                                   *)
(***************************************************************************)
RealTrees ==
  {Missing} \cup
  { [exists |-> TRUE,
     entries |-> ( Name("classifier") :>
                     Dir(NoEstimatesV,
                         (Name("tier0_reject") :> Sub(t0)) @@
                         (Name("complex") :> Sub(cx)))) @@
                 ( Name("report") :> Dir(NoEstimatesV, <<>>)) @@
                 ( Name("summary.txt") :> File)]
    : t0 \in {1, 2}, cx \in {NoEstimatesV, BadEstimatesV, 6, 20} }

RealMeans == {1, 2, 6, 20}

(***************************************************************************)
(* BUDGETS keyed by group directory names, the only kind of key that      *)
(* check_budgets can match: "classifier" and "classifier_batch", the      *)
(* second also matching the first key by prefix.                          *)
(***************************************************************************)
GroupBudgets ==
  << [name |-> Name("classifier"), budget |-> 5],
     [name |-> <<"classifier", "_batch">>, budget |-> 100] >>

GroupTrees ==
  {Missing} \cup
  { [exists |-> TRUE,
     entries |-> ( Name("classifier") :>
                     Dir(top, Name("tier0_reject") :> Sub(sub))) @@
                 ( <<"classifier", "_batch">> :> Dir(batch, <<>>)) @@
                 ( Name("report") :> Dir(NoEstimatesV, <<>>)) @@
                 ( Name("summary.txt") :> File)]
    : top \in {NoEstimatesV, BadEstimatesV, NoMean, NotObject, 1, 6},
      sub \in {NoEstimatesV, 1, 6},
      batch \in {NoEstimatesV, 1, 6} }

GroupMeans == {1, 6}

=============================================================================
