---------------------------- MODULE ConcurrentSaves ----------------------------
(***************************************************************************)
(* Several CI jobs on one machine running scripts/check_test_regression.py *)
(* against the same baseline file at once, which spec section 5 leaves to *)
(* "last-writer-wins".  Only what touches the file is modelled:           *)
(*   save_baseline: open(baseline_file, "w") truncates the file (O_TRUNC) *)
(*     and gives the process its own offset 0; json.dump then reaches the *)
(*     file as the buffer flushes, each flush a write at the process's    *)
(*     own offset, which it advances; close ends the save (main returns 0);*)
(*     a CI cancellation may kill the job at any point of the write;      *)
(*   load_baseline: json.load reads the whole file.                       *)
(* The rest of a check (RegressionGate) depends only on what it loaded.   *)
(*                                                                         *)
(* A document is identified by the job that wrote it and is DocLen[w]     *)
(* buffer flushes long; the file is a sequence of chunks [by, part].     *)
(* Every flush but the last writes a full buffer; the last may be        *)
(* shorter, so written over another job's chunk it may leave that chunk's *)
(* tail behind it (Torn).  A write past the end of the file (after       *)
(* another job truncated it) leaves a hole of zero bytes.  json.load      *)
(* succeeds exactly when the file is one complete document.               *)
(***************************************************************************)
EXTENDS Integers, Sequences, FiniteSets

CONSTANTS
  Jobs,       \* the concurrent invocations (model values)
  Saves,      \* those run with --update-baseline; the others check
  DocLen,     \* writer -> number of buffer flushes its document takes
  Prev,       \* model value: the job that wrote the file before these started
  Hole,       \* model value: a zero-filled gap
  Torn,       \* model value: a short last chunk over the tail of a longer one
  Corrupt,    \* model value: json.load raised JSONDecodeError
  NotRead,    \* model value: the check has not loaded the file yet
  Kills       \* TRUE: a CI cancellation may kill a save between open and close

ASSUME Saves \subseteq Jobs /\ Prev \notin Jobs
ASSUME \A w \in Saves \cup {Prev} : DocLen[w] \in Nat \ {0}
ASSUME Kills \in BOOLEAN

VARIABLES
  file,       \* content of the baseline file
  jpc,        \* job -> "open", "write", "read" or "done"
  offset,     \* job -> its file offset, in chunks
  loaded,     \* check -> the document load_baseline returned, Corrupt, or NotRead
  last_writer \* history: the job whose write reached the file last

vars == <<file, jpc, offset, loaded, last_writer>>

Checks == Jobs \ Saves
Writers == Saves \cup {Prev}
Chunk == [by : Writers, part : Nat]
Doc(w) == [p \in 1..DocLen[w] |-> [by |-> w, part |-> p]]

\* json.load: the writer of the complete document the file holds, else Corrupt.
Parse(f) == IF \E w \in Writers : f = Doc(w)
            THEN CHOOSE w \in Writers : f = Doc(w)
            ELSE Corrupt

TypeOK ==
  /\ file \in Seq(Chunk \cup {Hole, Torn})
  /\ jpc \in [Jobs -> {"open", "write", "read", "done"}]
  /\ offset \in [Saves -> Nat] /\ \A s \in Saves : offset[s] <= DocLen[s]
  /\ loaded \in [Checks -> Writers \cup {Corrupt, NotRead}]
  /\ last_writer \in Writers

Init ==
  /\ file = Doc(Prev)
  /\ jpc = [j \in Jobs |-> IF j \in Saves THEN "open" ELSE "read"]
  /\ offset = [s \in Saves |-> 0]
  /\ loaded = [c \in Checks |-> NotRead]
  /\ last_writer = Prev

\* open(baseline_file, "w"): the file is truncated to zero length.
SaveOpen(s) ==
  /\ jpc[s] = "open"
  /\ file' = <<>>
  /\ jpc' = [jpc EXCEPT ![s] = "write"]
  /\ offset' = [offset EXCEPT ![s] = 0]
  /\ UNCHANGED <<loaded, last_writer>>

\* WriteAt(f, pos, x): f with x at position pos, holes up to it.
WriteAt(f, pos, x) ==
  [p \in 1..(IF pos > Len(f) THEN pos ELSE Len(f)) |->
     IF p = pos THEN x ELSE IF p <= Len(f) THEN f[p] ELSE Hole]

\* What position pos may hold once chunk c is written there: c, or, for a
\* document's short last chunk over another job's chunk, c and that
\* chunk's tail.
Landed(f, pos, c) ==
  IF /\ c.part = DocLen[c.by] /\ pos <= Len(f)
     /\ f[pos] \in Chunk /\ f[pos].by # c.by
  THEN {c, Torn} ELSE {c}

\* Mutant: the flush loop runs once too often (offset <= DocLen).
SaveFlush_extra(s) ==
  /\ jpc[s] = "write"
  /\ offset[s] <= DocLen[s]
  /\ LET c == [by |-> s, part |-> offset[s] + 1] IN
       \E x \in Landed(file, offset[s] + 1, c) : file' = WriteAt(file, offset[s] + 1, x)
  /\ offset' = [offset EXCEPT ![s] = @ + 1]
  /\ last_writer' = s
  /\ UNCHANGED <<jpc, loaded>>

\* One buffer flush of json.dump (the last one is close's): the next part
\* of the document at the process's own offset.
SaveFlush(s) ==
  /\ jpc[s] = "write"
  /\ offset[s] < DocLen[s]
  /\ LET c == [by |-> s, part |-> offset[s] + 1] IN
       \E x \in Landed(file, offset[s] + 1, c) : file' = WriteAt(file, offset[s] + 1, x)
  /\ offset' = [offset EXCEPT ![s] = @ + 1]
  /\ last_writer' = s
  /\ UNCHANGED <<jpc, loaded>>

\* The with-block has closed the file; save_baseline and main return 0.
SaveClose(s) ==
  /\ jpc[s] = "write"
  /\ offset[s] = DocLen[s]
  /\ jpc' = [jpc EXCEPT ![s] = "done"]
  /\ UNCHANGED <<file, offset, loaded, last_writer>>

\* The job is killed between open and close: main never returns, and the
\* file keeps the parts written so far.
SaveKilled(s) ==
  /\ Kills
  /\ jpc[s] = "write"
  /\ jpc' = [jpc EXCEPT ![s] = "done"]
  /\ UNCHANGED <<file, offset, loaded, last_writer>>

\* load_baseline: open and json.load the whole file.
CheckRead(c) ==
  /\ jpc[c] = "read"
  /\ loaded' = [loaded EXCEPT ![c] = Parse(file)]
  /\ jpc' = [jpc EXCEPT ![c] = "done"]
  /\ UNCHANGED <<file, offset, last_writer>>

AllDone == \A j \in Jobs : jpc[j] = "done"

Next ==
  \/ \E s \in Saves : SaveOpen(s) \/ SaveFlush(s) \/ SaveClose(s) \/ SaveKilled(s)
  \/ \E c \in Checks : CheckRead(c)
  \/ AllDone /\ UNCHANGED vars

Spec == Init /\ [][Next]_vars

-----------------------------------------------------------------------------
(* Properties *)

(***************************************************************************)
(* Spec section 5: concurrent jobs racing to update the baseline file     *)
(* give "last-writer-wins".  Once every save has returned, the file is    *)
(* the complete document of the save whose write reached it last.         *)
(***************************************************************************)
LastWriterWins ==
  (\A s \in Saves : jpc[s] = "done") => Parse(file) = last_writer
=============================================================================
