----------------------------- MODULE LogIngestion -----------------------------
(***************************************************************************)
(* parse_jsonl_logs of scripts/check_test_regression.py: the loop over    *)
(* the *.jsonl files of the log directory and, inside it, the loop over   *)
(* the entries of one file.                                                *)
(*                                                                         *)
(* A file name is abstracted to the sequence of its "_"-separated         *)
(* segments (the stem is their join, which is injective because no       *)
(* segment contains "_"); SegLen gives the length of a segment and        *)
(* IsDigits tells whether it consists of digits.  A JSON entry is a       *)
(* record whose test_name is a segment sequence or NoName; an absent,     *)
(* null or zero duration_ms / elapsed_ms is 0, as all three are falsy for *)
(* "or" and for the truth test at line 130.  A file that cannot be read   *)
(* or has a line that is not JSON is Unreadable: the list comprehension   *)
(* raises before any entry is looked at.  An entry that is JSON but not   *)
(* an object is RegressionGate's MalformedLogEntry and is left out here.  *)
(***************************************************************************)
EXTENDS Integers, Sequences, FiniteSets

CONSTANTS
  LogFiles,      \* the *.jsonl files (model values)
  Contents,      \* possible contents of one file: Unreadable or [stem, entries]
  Unreadable,    \* model value: IOError or JSONDecodeError while reading
  NoName,        \* model value: the entry has no "test_name" key
  NoFile,        \* model value: no file is open
  SegLen,        \* segment -> len(segment)
  IsDigits       \* segment -> segment.isdigit()

VARIABLES
  log_dir_exists, \* log_dir.exists()
  logs,           \* the files and what they hold (input, never changed)
  todo,           \* files glob() has not yet yielded
  cur,            \* the file whose entries are being scanned, or NoFile
  k,              \* index of the next entry of cur
  test_name,      \* test_name of the current file
  max_duration_ms,
  timings,        \* the list being returned, as [test_name, duration_ms]
  sources,        \* history: the file each element of timings came from
  done            \* parse_jsonl_logs has returned

vars == <<log_dir_exists, logs, todo, cur, k, test_name, max_duration_ms,
          timings, sources, done>>

Entries(f) == logs[f].entries
Readable(f) == logs[f] # Unreadable

TypeOK ==
  /\ log_dir_exists \in BOOLEAN
  /\ logs \in [LogFiles -> Contents]
  /\ todo \subseteq LogFiles
  /\ cur \in LogFiles \cup {NoFile}
  /\ k \in Nat \ {0}
  /\ max_duration_ms \in Nat
  /\ \A j \in DOMAIN timings : timings[j].duration_ms > 0
  /\ sources \in Seq(LogFiles) /\ Len(sources) = Len(timings)
  /\ done \in BOOLEAN

Init ==
  /\ log_dir_exists \in BOOLEAN
  /\ logs \in [LogFiles -> Contents]
  /\ todo = LogFiles
  /\ cur = NoFile
  /\ k = 1
  /\ test_name = <<>>
  /\ max_duration_ms = 0
  /\ timings = <<>>
  /\ sources = <<>>
  /\ done = FALSE

-----------------------------------------------------------------------------
(***************************************************************************)
(* filename.rsplit("_", 2): with three parts or more, a last part of      *)
(* length 6 and a second-to-last of length 8 are taken for a timestamp    *)
(* suffix and dropped ("_".join(parts[:-2])); otherwise the whole stem.   *)
(***************************************************************************)
StemTestName(stem) ==
  LET n == Len(stem) IN
  IF n >= 3 /\ SegLen[stem[n]] = 6 /\ SegLen[stem[n - 1]] = 8
  THEN SubSeq(stem, 1, n - 2)
  ELSE stem

\* entry.get("duration_ms") or entry.get("elapsed_ms") or 0
Duration(e) == IF e.duration_ms # 0 THEN e.duration_ms ELSE e.elapsed_ms

\* if "test_name" in entry and entry.get("duration_ms")
NamesTest(e) == e.test_name # NoName /\ e.duration_ms # 0

\* if not log_dir.exists(): return timings
NoLogDir ==
  /\ ~log_dir_exists /\ ~done
  /\ done' = TRUE
  /\ UNCHANGED <<log_dir_exists, logs, todo, cur, k, test_name,
                 max_duration_ms, timings, sources>>

\* Mutant: max_duration_ms keeps the value left by the previous file.
OpenLog_no_reset ==
  /\ log_dir_exists /\ cur = NoFile
  /\ \E f \in todo :
       \/ /\ ~Readable(f)
          /\ todo' = todo \ {f}
          /\ UNCHANGED <<cur, k, test_name, max_duration_ms>>
       \/ /\ Readable(f)
          /\ cur' = f
          /\ k' = 1
          /\ test_name' = StemTestName(logs[f].stem)
          /\ UNCHANGED <<todo, max_duration_ms>>
  /\ UNCHANGED <<log_dir_exists, logs, timings, sources, done>>

(***************************************************************************)
(* The next file of log_dir.glob("*.jsonl"), in the directory's order.    *)
(* Reading it raises JSONDecodeError or IOError: a warning, and the file  *)
(* is skipped.  Otherwise the name comes from the stem and the maximum    *)
(* starts at 0.                                                            *)
(***************************************************************************)
OpenLog ==
  /\ log_dir_exists /\ cur = NoFile
  /\ \E f \in todo :
       \/ /\ ~Readable(f)
          /\ todo' = todo \ {f}
          /\ UNCHANGED <<cur, k, test_name, max_duration_ms>>
       \/ /\ Readable(f)
          /\ cur' = f
          /\ k' = 1
          /\ test_name' = StemTestName(logs[f].stem)
          /\ max_duration_ms' = 0
          /\ UNCHANGED todo
  /\ UNCHANGED <<log_dir_exists, logs, timings, sources, done>>

(***************************************************************************)
(* One iteration of "for entry in entries": a larger duration becomes the *)
(* maximum, and an entry carrying test_name and a truthy duration_ms      *)
(* renames the file's test.                                               *)
(***************************************************************************)
ScanEntry ==
  /\ cur # NoFile
  /\ k <= Len(Entries(cur))
  /\ LET e == Entries(cur)[k] IN
       /\ max_duration_ms' = IF Duration(e) > max_duration_ms
                             THEN Duration(e) ELSE max_duration_ms
       /\ test_name' = IF NamesTest(e) THEN e.test_name ELSE test_name
  /\ k' = k + 1
  /\ UNCHANGED <<log_dir_exists, logs, todo, cur, timings, sources, done>>

\* Mutant: the "if max_duration_ms > 0" guard is dropped.
CloseLog_unguarded ==
  /\ cur # NoFile
  /\ k > Len(Entries(cur))
  /\ timings' = Append(timings, [test_name |-> test_name,
                                  duration_ms |-> max_duration_ms])
  /\ sources' = Append(sources, cur)
  /\ todo' = todo \ {cur}
  /\ cur' = NoFile
  /\ UNCHANGED <<log_dir_exists, logs, k, test_name, max_duration_ms, done>>

\* The entries are exhausted: a TestTiming is appended if max_duration_ms > 0.
CloseLog ==
  /\ cur # NoFile
  /\ k > Len(Entries(cur))
  /\ IF max_duration_ms > 0
     THEN /\ timings' = Append(timings, [test_name |-> test_name,
                                         duration_ms |-> max_duration_ms])
          /\ sources' = Append(sources, cur)
     ELSE UNCHANGED <<timings, sources>>
  /\ todo' = todo \ {cur}
  /\ cur' = NoFile
  /\ UNCHANGED <<log_dir_exists, logs, k, test_name, max_duration_ms, done>>

\* The glob is exhausted: return timings.
ReturnTimings ==
  /\ log_dir_exists /\ ~done
  /\ cur = NoFile /\ todo = {}
  /\ done' = TRUE
  /\ UNCHANGED <<log_dir_exists, logs, todo, cur, k, test_name,
                 max_duration_ms, timings, sources>>

Returned == done /\ UNCHANGED vars

Next == NoLogDir \/ OpenLog \/ ScanEntry \/ CloseLog \/ ReturnTimings \/ Returned

Spec == Init /\ [][Next]_vars

-----------------------------------------------------------------------------
(* Properties *)

EntrySet(f) == {Entries(f)[j] : j \in DOMAIN Entries(f)}

\* Reference: the largest duration of a file's entries, as a set maximum.
LargestDuration(f) ==
  CHOOSE m \in {Duration(e) : e \in EntrySet(f)} \cup {0} :
    \A e \in EntrySet(f) : Duration(e) <= m

\* Reference: the name of the last naming entry, else the stem's name.
AttributedName(f) ==
  LET naming == {j \in DOMAIN Entries(f) : NamesTest(Entries(f)[j])} IN
  IF naming = {} THEN StemTestName(logs[f].stem)
  ELSE Entries(f)[CHOOSE j \in naming : \A i \in naming : i <= j].test_name

(***************************************************************************)
(* The two nested loops compute, whatever the glob order, one TestTiming  *)
(* per readable file whose largest duration is positive, and nothing for  *)
(* any other file: its duration is that largest duration (duration_ms,    *)
(* else elapsed_ms, of any entry) and its name the last naming entry's.   *)
(* A maximum carried over from one file to the next, or a file counted    *)
(* twice, breaks it.                                                       *)
(***************************************************************************)
IngestionExact ==
  /\ \A j \in DOMAIN timings :
       timings[j] = [test_name |-> AttributedName(sources[j]),
                     duration_ms |-> LargestDuration(sources[j])]
  /\ \A i, j \in DOMAIN sources : sources[i] = sources[j] => i = j
  /\ done =>
       {sources[j] : j \in DOMAIN sources} =
         IF log_dir_exists
         THEN {f \in LogFiles : Readable(f) /\ LargestDuration(f) > 0}
         ELSE {}

\* The name spec section 9 describes: a trailing 8-digit date and 6-digit
\* time are dropped, nothing else.
TimestampStrippedName(stem) ==
  LET n == Len(stem) IN
  IF /\ n >= 3
     /\ SegLen[stem[n]] = 6 /\ IsDigits[stem[n]]
     /\ SegLen[stem[n - 1]] = 8 /\ IsDigits[stem[n - 1]]
  THEN SubSeq(stem, 1, n - 2)
  ELSE stem

(***************************************************************************)
(* Spec section 3: a timing record is "one observed duration for one      *)
(* named test", and spec section 9 describes the file-name heuristic as   *)
(* removing "a trailing 8-digit date + 6-digit time".  Every timing is    *)
(* named by a test_name its file carries or by the stem with only such a  *)
(* suffix removed, and its duration is the duration of an entry that      *)
(* belongs to that test: one naming it, or naming none.                   *)
(***************************************************************************)
TimingAttributedToItsTest ==
  \A j \in DOMAIN timings :
    LET f == sources[j] IN
    /\ timings[j].test_name \in
         {e.test_name : e \in {x \in EntrySet(f) : x.test_name # NoName}}
         \cup {TimestampStrippedName(logs[f].stem)}
    /\ \E e \in EntrySet(f) :
         /\ Duration(e) = timings[j].duration_ms
         /\ e.test_name \in {NoName, timings[j].test_name}
=============================================================================
