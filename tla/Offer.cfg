CONSTANTS
  n1 = n1
  n2 = n2
  c1 = c1
  c2 = c2
  c3 = c3
  r1 = r1
  r2 = r2
  r3 = r3
  r4 = r4
  r5 = r5
  r6 = r6
  r7 = r7
  x = x
  y = y
  z = z
  p1 = p1
  p2 = p2
  i1 = i1
  i2 = i2
  rel1 = rel1
  rel2 = rel2
  ra = ra
  rb = rb
  k1 = k1
  k2 = k2
  v1 = v1
  v2 = v2
  Nil = Nil
  Missing = Missing
  Malformed = Malformed
  NoTemplate = NoTemplate
  NoSecretRef = NoSecretRef
  Literal = Literal
  NoValue = NoValue
  Cluster = cluster
  Namespaces = {n1, n2}
  Configs = {c1, c2, c3}
  NamespaceOf <- SomeNamespaces
  Repositories = {r1, r2, r3, r4, r5, r6, r7}
  ConfigOf <- SomeConfigs
  Protocol <- SomeProtocols
  SecretOf <- SomeSecrets
  Secrets = {n1, n2}
  NVs = {x, y, z}
  Index <- SomeIndex
  Contents <- SomeContents
  DocumentationEnabled = TRUE
  MaxLoads = 2
  MaxLoadFaults = 1
  PlanDirs = {p1, p2}
  PlanIDs = {i1, i2}
  Templates <- SomeTemplates
  maxSchemaLength = 3
  b1 = b1
  b2 = b2
  Binders = {b1, b2}
  Releases = {rel1, rel2}
  Roles = {ra, rb}
  Keys = {k1, k2}
  Values = {v1, v2}
  ChartNames <- SomeCharts
  Drivers = {"etcd", "memory"}
  InitialData <- ReleaseData
  ObjectData <- SomeData
  MaxChanges = 1
SPECIFICATION OfferSpec
CONSTRAINT CalmBindings
SYMMETRY Symmetry
INVARIANTS OfferedAsWritten SecretOfConfiguration DocsOfAddon LittleIsLeft ResolvedByPolicy
CHECK_DEADLOCK FALSE
