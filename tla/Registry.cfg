CONSTANTS
  n1 = n1
  x = x
  y = y
  i = i
  k = k
  cx = cx
  cy = cy
  vy = vy
  c1 = c1
  c2 = c2
  c3 = c3
  Cluster = cluster
  Scopes = {n1, cluster}
  Extends <- NoNames
  Configs = {c1, c2, c3}
  ScopeOf <- ScopeOfConfig
  NVs = {x, y}
  IDs = {i, k}
  Offers <- SomeOffers
  Charts = {cx, cy, vy}
  ChartOf <- OwnChart
  Printed <- WithoutV
  Drivers = {"etcd", "memory"}
  MaxJobs = 3
  MaxFaults = 1
  Nil = Nil
SPECIFICATION Spec
SYMMETRY Symmetry
INVARIANTS StorageTypeOK ListedIsServed OnlyListedIsServed
PROPERTIES NoGap
CHECK_DEADLOCK FALSE
