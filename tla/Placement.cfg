SPECIFICATION FairSpec
CONSTANTS
  Member = {1, 2, 3}
  NoMember = 0
  Order <- OrderOf3
  Designated <- MCDesignated
  Starts <- MCStarts
  ReplicaCount = 2
  Proactive = TRUE
INVARIANTS CompleteMeansDrained
PROPERTIES NoStepLosesData AcksUnaided 
CHECK_DEADLOCK FALSE
