------------------------------ MODULE BudgetSpec ------------------------------
(***************************************************************************)
(* What one run of scripts/check_benchmark_budgets.py decides, in one     *)
(* step and without its loop: the benchmark groups of target/criterion    *)
(* that a BUDGETS key is a prefix of are judged against the first such    *)
(* key, each on its own estimates or, without them, on those of one of    *)
(* its sub-benchmarks; the passed and failed lines are sets, and the      *)
(* totals and exit code follow from them.  Like the code, a missing mean  *)
(* reads as 0 and a non-object estimates.json ends the run with exit 1   *)
(* after any subset of the other groups was judged.  BudgetCheck          *)
(* implements this specification (RefinesBudgetSpec).                     *)
(***************************************************************************)
EXTENDS Integers, Sequences, FiniteSets

LOCAL SE == INSTANCE SequencesExt

CONSTANTS BUDGETS, Trees, Means, NoEstimates, BadEstimates, NoMean, NotObject,
          SummaryWriteErrors, NoExit

VARIABLES criterion, phase, passed, failed, summary, exit_code

bvars == <<criterion, phase, passed, failed, summary, exit_code>>

Entry(g) == criterion.entries[g]

KeyOf(g, j) == SE!IsPrefix(BUDGETS[j].name, g)

\* The budget of group g: the first key of BUDGETS that g starts with.
GroupBudget(g) ==
  BUDGETS[CHOOSE j \in DOMAIN BUDGETS :
            KeyOf(g, j) /\ \A i \in 1..(j - 1) : ~KeyOf(g, i)].budget

Groups == {g \in DOMAIN criterion.entries :
             Entry(g).is_dir /\ \E j \in DOMAIN BUDGETS : KeyOf(g, j)}

\* The estimates the run may read for g: its own, else any sub-benchmark's.
Readings(g) ==
  IF Entry(g).top # NoEstimates THEN {Entry(g).top}
  ELSE LET subs == {Entry(g).subs[s].est :
                      s \in {x \in DOMAIN Entry(g).subs : Entry(g).subs[x].is_dir}}
                   \ {NoEstimates}
       IN  IF subs = {} THEN {NoEstimates} ELSE subs

MeanOf(est) == IF est = NoMean THEN 0 ELSE est

Init ==
  /\ criterion \in Trees
  /\ phase = "start"
  /\ passed = {} /\ failed = {}
  /\ summary = <<>>
  /\ exit_code = NoExit

NoResults ==
  /\ phase = "start" /\ ~criterion.exists
  /\ phase' = "done" /\ exit_code' = 0
  /\ UNCHANGED <<criterion, passed, failed, summary>>

Decide ==
  /\ phase = "start" /\ criterion.exists
  /\ \E r \in [Groups -> UNION {Readings(g) : g \in Groups}] :
       /\ \A g \in Groups : r[g] \in Readings(g)
       /\ LET Judged(S) == {g \in S : r[g] \in Means \cup {NoMean}}
              Lines(S) == {[group |-> g, mean |-> MeanOf(r[g])] : g \in S}
              Within(S) == {g \in Judged(S) : MeanOf(r[g]) <= GroupBudget(g)}
              Decided(S) == /\ passed' = Lines(Within(S))
                            /\ failed' = Lines(Judged(S) \ Within(S))
              crashing == {g \in Groups : r[g] = NotObject}
          IN  \/ /\ crashing = {}
                 /\ Decided(Groups)
                 /\ \/ /\ summary' = <<Cardinality(passed'), Cardinality(failed')>>
                       /\ exit_code' = IF failed' = {} THEN 0 ELSE 1
                    \/ SummaryWriteErrors /\ summary' = <<"torn">> /\ exit_code' = 1
              \/ /\ crashing # {}
                 /\ \E S \in SUBSET (Groups \ crashing) : Decided(S)
                 /\ exit_code' = 1 /\ UNCHANGED summary
  /\ phase' = "done"
  /\ UNCHANGED criterion

Next == NoResults \/ Decide

Spec == Init /\ [][Next]_bvars
=============================================================================
