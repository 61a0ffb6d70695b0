\* A script and a form side by side, every operation and program failing at times.
SPECIFICATION FairSpec
CONSTANTS
  None = None
  r1 = r1
  r2 = r2
  Requests = {r1, r2}
  NumWorkers = 2
  Kind <- MixedKinds
  Sends <- MixedHeaders
  Header <- FormLengths
  Body <- FormLengths
  Garbled <- OddTexts
  Failures <- AllFailures
  Outputs <- AllOutputs
  PipeSize = 2
CHECK_DEADLOCK FALSE
INVARIANTS
  AnswerSound
  EnvironmentFresh
  HandlesReleased
PROPERTIES
  Answered
