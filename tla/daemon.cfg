CONSTANTS
  w1 = w1
  u1 = u1
  Callers = {w1, u1}
  Web = {w1}
  MaxVersion = 3
  c1 = c1
  c2 = c2
  Commands = {c1, c2}
  MaxDaemons = 3
  MaxDeaths = 1
  Conns = {k1, k2}
  Ref <- OneChannel
  MaxBytes = 2
  MaxGens = 2
  MaxFailures = 1
  Categories = {a}
  Procs = {p, q}
  Digests = {d1, d2}
  Unrecorded = none
SPECIFICATION DaemonSpec
PROPERTY AnswerNotCut
PROPERTY NoStaleUpgrade
PROPERTY NewCodeRuns
INVARIANT NamedWhenQuiet
PROPERTY EnsureRuns
INVARIANT NeverOvercounts
PROPERTY DeletedStaysDeleted
PROPERTY BytesAreBanked
PROPERTY RefreshHeals
CHECK_DEADLOCK FALSE
