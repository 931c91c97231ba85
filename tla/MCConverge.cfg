SPECIFICATION Spec
CONSTANTS
  w1 = w1
  w2 = w2
  Webapps = {w1, w2}
  Proxies = {w1, w2}
  ProxyName <- MCProxyName
  Specs = {"a", "b"}
  Hashes = {"a", "b"}
  Hash <- MCHash
  Hosts = {"h1", "h2"}
  HostOf <- MCHostOf
  QuirkOf <- MCQuirkOf
  None = None
  Laggy = {"webapp", "namespace"}
  UserOps = {"edit", "delete"}
  MaxOps = 4
  MaxFaults = 1
  Resyncs = FALSE
SYMMETRY MCSymmetry
CHECK_DEADLOCK FALSE
INVARIANT RunsAtRest
INVARIANT ReachableAtRest
INVARIANT ConvergenceInv
PROPERTY ImplementsLifecycle
