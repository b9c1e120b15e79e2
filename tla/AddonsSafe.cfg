CONSTANTS
  a1 = a1
  a2 = a2
  c1 = c1
  c2 = c2
  Configs = {c1, c2}
  Addons = {a1, a2}
  ID <- OwnID
  ChartOf <- OwnChart
  Specs <- SomeSpec
  Fresh = {"list"}
  MaxEdits = 3
  MaxErrors = 0
  MaxCrashes = 1
  MaxFaults = 1
  Nil = Nil
SPECIFICATION Spec
SYMMETRY ConfigSymmetry
INVARIANTS AddonsTypeOK OneRegistrar ReadyIsStored
PROPERTIES ReleaseReprocesses
CHECK_DEADLOCK FALSE
