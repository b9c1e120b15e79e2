CONSTANTS
  n1 = n1
  n2 = n2
  c1 = c1
  c2 = c2
  c3 = c3
  s1 = s1
  s2 = s2
  j1 = j1
  j2 = j2
  Nil = Nil
  Cluster = cluster
  Namespaces = {n1, n2}
  Configs = {c1, c2, c3}
  ScopeOf <- SomeScopes
  ProbeConfig = c2
  OldConfigs = {c1}
  Instances = {j1, j2}
  OldInstances = {j1}
  ServiceInstances = {s1, s2}
  NamespaceOf <- InNamespace
  ClassScope <- SomeClasses
  MaxUserSteps = 2
  MaxFailures = 1
SPECIFICATION FairProcess
INVARIANTS ProcessTypeOK MigratedWhenLabelled
PROPERTIES BrokerOfRequest BrokerFollows
CHECK_DEADLOCK FALSE
