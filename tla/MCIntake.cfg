SPECIFICATION Spec
CONSTANTS
  Bodies <- MCBodies
  Answers <- MCAnswers
  Dispatches = {d1, d2}
  MaxEvents = 2
  MaxFaults = 1
INVARIANTS TypeOK LabelIsNewest OneAgentBehindTriage
PROPERTIES EveryEditAnswered DispatchEnds
CHECK_DEADLOCK FALSE
