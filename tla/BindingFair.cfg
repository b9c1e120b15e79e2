SPECIFICATION FairSpec
CONSTANTS
  Threads = {t1, t2}
  Instances = {i1}
  Bindings = {b1, b2}
  OpIDs = {o1, o2}
  Routines = {g1}
  Plans = {p1}
  Offered = {p1}
  Bindable = {p1}
  Driver = "memory"
  Platform = {"overlap", "rebind"}
  MaxLives = 1
  MaxCrashes = 1
  MaxFaults = 0
  Nil = Nil
INVARIANTS
  OneBindingInProgress
PROPERTIES
  BindingsEnd
  BindRequestsEnd
