SPECIFICATION Spec
CONSTANTS
  Runs = {r1, r2, r3}
  Corpora = {c1, c2}
  MaxVersion = 2
  MaxCommits = 3
  MaxReruns = 1
  MaxStrays = 1
  MaxFixtures = 1
  NoRelease = NoRelease
SYMMETRY Symmetry
INVARIANTS TypeOK PublishedIsProven OnePublisher NoSilentLoss
PROPERTIES DeletesOnlyItsOwn
CHECK_DEADLOCK FALSE
