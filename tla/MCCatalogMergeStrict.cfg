SPECIFICATION MergeSpec
CONSTANTS
  Runs = {r1, r2}
  Corpora = {c1, c2}
  MaxVersion = 3
  MaxCommits = 3
  MaxReruns = 0
  MaxStrays = 0
  MaxFixtures = 0
  NoRelease = NoRelease
  PRs = {p1, p2}
  StrictChecks = TRUE
  Disciplined = TRUE
INVARIANTS CorpusChangeBumps
PROPERTIES MergedIsReleased
CHECK_DEADLOCK FALSE
