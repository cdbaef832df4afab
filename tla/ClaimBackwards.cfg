SPECIFICATION Spec
CONSTANTS
  Runs = {r1, r2, r3}
  Corpora = {c1, c2}
  MaxVersion = 3
  MaxCommits = 3
  MaxReruns = 0
  MaxStrays = 0
  MaxFixtures = 0
  NoRelease = NoRelease
PROPERTY NeverGoesBackwards
CHECK_DEADLOCK FALSE
