--------------------------- MODULE MCRegressionGate ---------------------------
(***************************************************************************)
(* RegressionGate instantiated for TLC.                                    *)
(*   Two tests, two runners (a Linux x86_64 one and an Apple-silicon     *)
(*   macOS one, tagged linux-x64 and darwin-arm64), threshold 1.20 (DEFAULT_THRESHOLD).  *)
(*   Sample lists <<1>>, <<2>>, <<1, 2>> give p95 values 1.00, 2.00 and    *)
(*   1.95 ms, so that against each other a test can regress (2.00/1.00),  *)
(*   improve (1.00/1.95) or stay within the band (1.95/2.00).              *)
(*   The initial file is missing, unreadable, or a hand-written valid      *)
(*   document whose entries have p95 0 or 1.95 ms and no platform or     *)
(*   linux-x64.                                                            *)
(*   Three invocations: enough for save, a killed or failed save, and a   *)
(*   check.                                                                *)
(***************************************************************************)
EXTENDS RegressionGate

MCHosts == {[system |-> "Linux", machine |-> "x86_64"],
            [system |-> "Darwin", machine |-> "arm64"]}

MCLower == ("Linux" :> "linux") @@ ("Darwin" :> "darwin")
           @@ ("x86_64" :> "x86_64") @@ ("arm64" :> "arm64")

\* baseline.platform defaults to "" in load_baseline.
MCEmptyPlatform == ""

MCSampleLists == {<<1>>, <<2>>, <<1, 2>>}

MCInitialEntries == [p95_ms : {0, 195}, platform : {EmptyPlatform, "linux-x64"}]

MCValidFiles ==
  {ValidFile(m) : m \in UNION {[S -> MCInitialEntries] : S \in SUBSET Tests}}

MCInitialFiles == {MissingFile, CorruptFile} \cup MCValidFiles

\* The same plus a file of the wrong JSON shape.
MCInitialFilesBadShape == MCInitialFiles \cup {BadShapeFile}
=============================================================================
