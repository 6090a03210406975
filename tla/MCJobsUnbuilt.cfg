SPECIFICATION Spec
CONSTANTS
  os1 = os1  bundle1 = bundle1  asset1 = asset1  base1 = base1
  NoRow = NoRow
  Rows = {os1}
  KindOf <- KindOfRow
  MaxRows = 1
  MaxVersion = 2
  MaxStops = 0
  Requests = {"update", "overtake"}
  Faults = {}
INVARIANTS
  StartBlockedUntilBuilt
CHECK_DEADLOCK FALSE
