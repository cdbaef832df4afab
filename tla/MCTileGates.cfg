SPECIFICATION Spec
CONSTANTS
  p1 = p1
  p2 = p2
  PRs = {p1, p2}
  SecretWord <- Words
  Exempt <- Exempted
  Svcs <- MCSvcs
  Names <- MCNames
  Numbers <- MCNumbers
  Keys <- MCKeys
  Options <- MCOptions
  Grantless <- NoGrant
  Rooted <- Root
  TrustChain <- Trusted
  First <- Shipped
  Edits <- MCEdits
  Pushed <- MCPushed
  MaxEdits = 2
  MaxPushes = 1
INVARIANTS TypeOK SignedIsAnswered LintMeansBuilds CleanUnlessRaced SignedIsBuilt
PROPERTY PasteFixes
CHECK_DEADLOCK FALSE
