SPECIFICATION DriftFairSpec
CONSTANTS
  w1 = w1
  w2 = w2
  Webapps = {w1, w2}
  Proxies = {w1, w2}
  ProxyName <- MCProxyName
  Specs = {"a", "b"}
  Hashes = {"a", "b"}
  Hash <- MCHash
  Hosts = {"h1", "h2"}
  HostOf <- MCHostOf
  QuirkOf <- MCQuirkOf
  None = None
  Laggy = {"webapp", "deployment"}
  UserOps = {"edit", "delete", "recreate"}
  MaxOps = 3
  MaxFaults = 0
  Resyncs = TRUE
CHECK_DEADLOCK FALSE
INVARIANT ProxyGuarded
PROPERTY SelfHeals
PROPERTY RoutesHeal
