SPECIFICATION Spec
CONSTANTS
  Pins = {1, 2, 3}
  Repository <- MCRepository
  Licenses <- MCLicenses
  MaxCount = 1
  Databases <- TwoDatabases
  PRs = {p1, p2}
  MaxDbUpdates = 1
SYMMETRY Symmetry
PROPERTIES RatchetHolds SourceAvailableOnlyReplaces OneImageVerifies ExceptionsAreReviewed
CHECK_DEADLOCK FALSE
