---------------------------- MODULE MCLogIngestion ----------------------------
(***************************************************************************)
(* LogIngestion instantiated for TLC.  File names are built from a few    *)
(* segments: a test-name word, a date, a time, and the 8- and 6-letter    *)
(* words "pipeline" and "worker".                                          *)
(***************************************************************************)
EXTENDS LogIngestion, TLC

MCSegLen ==
  ("e2e" :> 3) @@ ("cache" :> 5) @@ ("pipeline" :> 8) @@ ("worker" :> 6)
  @@ ("20240101" :> 8) @@ ("120000" :> 6)

MCIsDigits ==
  ("e2e" :> FALSE) @@ ("cache" :> FALSE) @@ ("pipeline" :> FALSE)
  @@ ("worker" :> FALSE) @@ ("20240101" :> TRUE) @@ ("120000" :> TRUE)

Entry(name, d, el) == [test_name |-> name, duration_ms |-> d, elapsed_ms |-> el]

(***************************************************************************)
(* The entries of the two logger formats: an event with elapsed_ms only,  *)
(* an event with duration_ms, a TestResult naming a test, and an entry    *)
(* with test_name but duration_ms 0 (falsy: it renames nothing).           *)
(***************************************************************************)
MCEntries ==
  { Entry(NoName, 0, 2), Entry(NoName, 3, 0),
    Entry(<<"e2e">>, 1, 0), Entry(<<"e2e">>, 0, 4) }

\* cache_20240101_120000.jsonl and e2e_cache.jsonl, with 0..2 entries each.
MCContents ==
  {Unreadable} \cup
  { [stem |-> st, entries |-> es] :
      st \in {<<"cache", "20240101", "120000">>, <<"e2e", "cache">>},
      es \in {<<>>} \cup {<<a>> : a \in MCEntries} \cup
             {<<a, b>> : a, b \in MCEntries} }

\* e2e_pipeline_worker.jsonl: no timestamp, but segments of length 8 and 6.
MCContentsNoTimestamp ==
  { [stem |-> <<"e2e", "pipeline", "worker">>,
     entries |-> <<Entry(NoName, 3, 0)>>] }

\* One file holding the TestResult entries of two tests.
MCContentsTwoResults ==
  { [stem |-> <<"e2e", "20240101", "120000">>,
     entries |-> <<Entry(<<"cache">>, 5, 0), Entry(<<"e2e">>, 3, 0)>>] }

MCContentsMisattributed == MCContentsNoTimestamp \cup MCContentsTwoResults
=============================================================================
