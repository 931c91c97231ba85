SPECIFICATION FairSpec
CONSTANTS
  w1 = w1
  w2 = w2
  Webapps = {w1, w2}
  Proxies = {w1, w2}
  ProxyName <- MCProxyName
  Specs = {"a"}
  Hashes = {"a"}
  Hash <- MCHash
  Hosts = {"h1", "h2"}
  HostOf <- MCHostOf
  QuirkOf <- MCQuirkOf
  None = None
  Laggy = {"webapp"}
  UserOps = {"delete"}
  MaxOps = 3
  MaxFaults = 0
  Resyncs = FALSE
CHECK_DEADLOCK FALSE
PROPERTY RoutesGoWithProxies
