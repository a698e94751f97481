SPECIFICATION FairSpec
CONSTANTS
  FastAttempts = 2
  MaxFaults = 3
  MaxFlaps = 1
  MaxCommands = 2
INVARIANTS OneProbeState CountSurvives ResetsBounded RetryIsSilent
PROPERTIES ComesUp
