SPECIFICATION Spec
CONSTANTS
  Threads = {t1, t2}
  Instances = {i1}
  OpIDs = {o1, o2, o3}
  Services = {s1}
  OnlyOnce = {}
  Namespaces = {n1}
  Plans = {p1}
  Offered = {p1}
  Params = {a, b}
  Hashed = hashed
  Legacy = {}
  Driver = "etcd"
  Platform = {}
  MaxCrashes = 1
  MaxFaults = 1
  Nil = Nil
SYMMETRY Symmetry
INVARIANTS
  ProvisionedIsDeployed
PROPERTIES
  GoneIsGone
