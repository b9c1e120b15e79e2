SPECIFICATION Spec
CONSTANTS
  Threads = {t1, t2}
  Instances = {i1, i2}
  OpIDs = {o1, o2, o3, o4}
  Services = {s1}
  OnlyOnce = {s1}
  Namespaces = {n1}
  Plans = {p1, p2}
  Offered = {p1}
  Params = {a, b}
  Hashed = hashed
  Legacy = {i1}
  Driver = "etcd"
  Platform = {"retry", "reprovision"}
  MaxCrashes = 1
  MaxFaults = 1
  Nil = Nil
SYMMETRY Symmetry
INVARIANTS
  OneInProgress
  ProvisionedOnce
  ReleaseIsRecorded
