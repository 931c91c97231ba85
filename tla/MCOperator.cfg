SPECIFICATION OperatorFairSpec
CONSTANTS
  w1 = w1
  Webapps = {w1}
  Proxies = {w1}
  ProxyName <- MCProxyName
  RepoSpecs = {"a", "no ports"}
  Specs <- MCSpecs
  Hashes <- MCSpecs
  Hash <- MCHash
  Hosts = {"h1", "h2"}
  HostOf <- MCHostOf
  QuirkOf <- MCQuirkOf
  Rendered <- MCRendered
  None = None
  Laggy = {"webapp"}
  UserOps = {"edit", "delete"}
  MaxOps = 2
  MaxFaults = 1
  Resyncs = TRUE
  MaxBuilds = 2
CHECK_DEADLOCK FALSE
INVARIANT OperatorTypeOK
INVARIANT AllOwned
INVARIANT ReachableAtRest
PROPERTY NothingUndone
PROPERTY NeverRollsBack
PROPERTY WebappFollows
PROPERTY GoesWithRepository
PROPERTY GuardRestored
