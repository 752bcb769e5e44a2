SPECIFICATION FairSpec
CONSTANTS
  Member = {1, 2, 3, 4}
  NoMember = 0
  Order <- OrderOf4
  Designated <- MCDesignated
  Starts <- OwnerDies
  ReplicaCount = 2
  Proactive = TRUE
PROPERTIES CopiesRestored
CHECK_DEADLOCK FALSE
