SPECIFICATION Spec
CONSTANTS
  root = root  deputy = deputy  ann = ann  bob = bob  lab = lab  extra = extra
  Nobody = Nobody
  Users = {root, deputy, ann, bob}
  Projects = {lab, extra}
  FirstAdmins = {root, deputy}
  OwnerOf <- LabIsAnns
  Requests <- Departure
  Faults = {}
INVARIANT StoppedBeforeRemoved
CHECK_DEADLOCK FALSE
