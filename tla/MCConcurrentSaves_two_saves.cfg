CONSTANTS
  s1 = s1
  s2 = s2
  c1 = c1
  Prev = Prev
  Hole = Hole
  Torn = Torn
  Corrupt = Corrupt
  NotRead = NotRead
  Kills = FALSE
  Jobs <- TwoSavesJobs
  Saves <- TwoSaves
  DocLen <- MCDocLen

SPECIFICATION Spec

INVARIANT LastWriterWins
