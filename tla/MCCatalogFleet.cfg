SPECIFICATION FleetSpec
CONSTANTS
  Runs = {r1, r2}
  Corpora = {c1}
  MaxVersion = 3
  MaxCommits = 2
  MaxReruns = 0
  MaxStrays = 0
  MaxFixtures = 1
  NoRelease = NoRelease
  Clusters = {"stable", "dev", "olddev"}
  ChannelOf <- MCChannelOf
INVARIANTS FleetOneBundle
PROPERTIES ImplementsFeed FleetReached
CHECK_DEADLOCK FALSE
