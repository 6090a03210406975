SPECIFICATION FairSpec
CONSTANTS
  EnvVms = {v1}
  BuildVms = {b1, b2}
  MaxBuilds = 1
  MaxEnds = 1
  Faults = {"slow", "crash", "kill", "reload"}
INVARIANTS
  TypeOK
  EndedHoldsNothing
  GuestIsEquipped
  OneBuildGuest
  SweepLeavesNothing
PROPERTIES
  WorkEnds
CHECK_DEADLOCK FALSE
