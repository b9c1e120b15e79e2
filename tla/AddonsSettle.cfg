CONSTANTS
  a1 = a1
  a2 = a2
  c1 = c1
  c2 = c2
  Configs = {c1, c2}
  Addons = {a1, a2}
  ID <- OwnID
  ChartOf <- OwnChart
  Specs <- SomeSpec
  Fresh = {"get", "list"}
  MaxEdits = 3
  MaxErrors = 1
  MaxCrashes = 0
  MaxFaults = 0
  Nil = Nil
SPECIFICATION FairSpec
INVARIANTS NothingLeftBehind CatalogCurrent
PROPERTIES Settles
CHECK_DEADLOCK FALSE
