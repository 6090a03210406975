SPECIFICATION FairSpec
CONSTANTS
  os1 = os1  bundle1 = bundle1  asset1 = asset1  base1 = base1
  NoRow = NoRow
  Rows = {os1, bundle1, asset1, base1}
  KindOf <- KindOfRow
  MaxRows = 2
  MaxVersion = 2
  MaxStops = 1
  Requests = {"update", "overtake", "delete"}
  Faults = {"convert_fail", "crash"}
INVARIANTS
  ConvertingHasWorker
PROPERTIES
  UploadsSettle
CHECK_DEADLOCK FALSE
