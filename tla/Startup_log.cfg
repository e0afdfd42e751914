SPECIFICATION Spec
CONSTANTS
  Workers = {w1, w2}
  Sessions = {s1, s2}
  RingSize = 2
  Files = {0, 1, 2}
  MaxLines = 3
  MaxRuns = 5
  PipeSize = 2
  MaxOutput = 3
INVARIANTS
  LinesOnce
  RecentFilesKept
  RuleOutcome
  NoPipeDeadlock
CHECK_DEADLOCK FALSE
