SPECIFICATION MergeSafety
CONSTANTS
  Runs = {r1, r2}
  Corpora = {c1}
  MaxVersion = 3
  MaxCommits = 3
  MaxReruns = 0
  MaxStrays = 0
  MaxFixtures = 1
  NoRelease = NoRelease
  PRs = {p1}
  StrictChecks = FALSE
  Disciplined = FALSE
SYMMETRY Symmetry
INVARIANT EarlyGateAgrees
CHECK_DEADLOCK FALSE
