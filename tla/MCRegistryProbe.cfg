SPECIFICATION Spec
CONSTANTS
  Attempts = 4
  Second = 3
  MaxDelay = 20
  Limit = 32
  Headers <- MCHeaders
  Entries = {"linux/amd64", "linux/arm64", "linux/arm", "unknown/unknown"}
INVARIANTS TypeOK BodiesClosed NeverParked GatesAgree
PROPERTIES OnlyRealAnswers ProbeReturns HeaderObeyed
CHECK_DEADLOCK FALSE
