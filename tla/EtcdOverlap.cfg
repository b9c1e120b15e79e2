SPECIFICATION Spec
CONSTANTS
  Threads = {t1, t2}
  Instances = {i1}
  OpIDs = {o1, o2, o3}
  Services = {s1}
  OnlyOnce = {}
  Namespaces = {n1}
  Plans = {p1}
  Offered = {p1}
  Params = {a}
  Hashed = hashed
  Legacy = {}
  Driver = "etcd"
  Platform = {"overlap"}
  MaxCrashes = 0
  MaxFaults = 0
  Nil = Nil
SYMMETRY Symmetry
INVARIANTS
  OneInProgress
