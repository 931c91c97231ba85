SPECIFICATION Spec
CONSTANTS
  w1 = w1
  w2 = w2
  Webapps = {w1, w2}
  Proxies = {w1, w2}
  ProxyName <- MCProxyName
  Specs = {"a", "bad port"}
  Hashes = {"a", "bad port"}
  Hash <- MCHash
  Hosts = {"h1", "h2"}
  HostOf <- MCHostOf
  QuirkOf <- MCQuirkOf
  None = None
  Laggy = {"webapp", "deployment", "proxy", "ingress"}
  UserOps = {"edit", "delete", "recreate"}
  MaxOps = 3
  MaxFaults = 0
  Resyncs = TRUE
SYMMETRY MCSymmetry
CHECK_DEADLOCK FALSE
INVARIANT TypeOK
INVARIANT IInv
INVARIANT FinalizerGate
INVARIANT IngressWellFormed
PROPERTY OnlyUsersDecide
