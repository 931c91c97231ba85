SPECIFICATION FairSpec
CONSTANTS
  w1 = w1
  w2 = w2
  Webapps = {w1, w2}
  Proxies = {w1, w2}
  ProxyName <- MCProxyName
  Specs = {"a", "no ports", "no path", "many ports", "plain"}
  Hashes = {"a", "no ports", "no path", "many ports", "plain"}
  Hash <- MCHash
  Hosts = {"h1", "h2"}
  HostOf <- MCHostOf
  QuirkOf <- MCQuirkOf
  None = None
  Laggy = {"webapp"}
  UserOps = {"edit", "delete"}
  MaxOps = 3
  MaxFaults = 0
  Resyncs = FALSE
CHECK_DEADLOCK FALSE
PROPERTY EventuallySettles
PROPERTY DeletionCompletes
PROPERTY SoundOnesRun
PROPERTY SoundOnesRouted
