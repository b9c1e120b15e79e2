SPECIFICATION Spec
CONSTANTS
  Threads = {t1, t2}
  Instances = {i1}
  Bindings = {b1, b2}
  OpIDs = {o1, o2}
  Routines = {g1, g2}
  Plans = {p1, p2}
  Offered = {p1, p2}
  Bindable = {p1}
  Driver = "etcd"
  Platform = {"overlap", "rebind", "stray"}
  MaxLives = 2
  MaxCrashes = 1
  MaxFaults = 1
  Nil = Nil
SYMMETRY Symmetry
INVARIANTS
  BindingTypeOK
  OneBindingInProgress
  DataOfInstance
PROPERTIES
  BindingLeftByFailure
