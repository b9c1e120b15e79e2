SPECIFICATION FairSpec
CONSTANTS
  Threads = {t1, t2}
  Instances = {i1}
  OpIDs = {o1, o2, o3}
  Services = {s1}
  OnlyOnce = {}
  Namespaces = {n1}
  Plans = {p1}
  Offered = {p1}
  Params = {a}
  Hashed = hashed
  Legacy = {}
  Driver = "memory"
  Platform = {"overlap", "retry", "reprovision"}
  MaxCrashes = 1
  MaxFaults = 0
  Nil = Nil
PROPERTIES
  OperationsEnd
  RequestsEnd
