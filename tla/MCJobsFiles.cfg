SPECIFICATION Spec
CONSTANTS
  os1 = os1  bundle1 = bundle1  asset1 = asset1  base1 = base1
  NoRow = NoRow
  Rows = {os1, bundle1, asset1, base1}
  KindOf <- KindOfRow
  MaxRows = 2
  MaxVersion = 2
  MaxStops = 1
  Requests = {"update", "delete"}
  Faults = {"convert_fail", "reject", "db_busy", "crash", "shutdown"}
INVARIANTS
  TypeOK
  ReadyIsBuilt
  BundleKeepsSource
  NoStrayFiles
PROPERTIES
  ImplementsQueue
CHECK_DEADLOCK FALSE
