SPECIFICATION Spec
CONSTANTS
  root = root  deputy = deputy  ann = ann  bob = bob  lab = lab  extra = extra
  Nobody = Nobody
  Users = {root, deputy, ann, bob}
  Projects = {lab, extra}
  FirstAdmins = {root, deputy}
  OwnerOf <- LabIsAnns
  Requests <- Office
  Faults = {"stop_fail", "db_busy"}
INVARIANTS
  TypeOK
  ListedIsStopped
  NoLockout
  NothingDangles
  RemovedUserLeavesNothing
CHECK_DEADLOCK FALSE
