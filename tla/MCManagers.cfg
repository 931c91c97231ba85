SPECIFICATION ManagersSpec
CONSTANTS
  w1 = w1
  w2 = w2
  Webapps = {w1, w2}
  Proxies = {w1, w2}
  ProxyName <- MCProxyName
  Specs = {"a", "plain"}
  Hashes = {"a", "plain"}
  Hash <- MCHash
  Hosts = {"h1"}
  HostOf <- MCHostOf
  QuirkOf <- MCQuirkOf
  None = None
  Laggy = {"webapp"}
  UserOps = {"edit", "delete"}
  MaxOps = 2
  MaxFaults = 0
  Resyncs = FALSE
SYMMETRY MCSymmetry
CHECK_DEADLOCK FALSE
INVARIANT ManagersAgree
INVARIANT NothingForgotten
INVARIANT IngressWellFormed
PROPERTY UsersDecideForBoth
