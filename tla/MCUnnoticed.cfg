SPECIFICATION OperatorSpec
CONSTANTS
  w1 = w1
  Webapps = {w1}
  Proxies = {w1}
  ProxyName <- MCProxyName
  RepoSpecs = {"a"}
  Specs <- MCSpecs
  Hashes <- MCSpecs
  Hash <- MCHash
  Hosts = {"h1", "h2"}
  HostOf <- MCHostOf
  QuirkOf <- MCQuirkOf
  Rendered <- MCRendered
  None = None
  Laggy = {"webapp"}
  UserOps = {}
  MaxOps = 1
  MaxFaults = 0
  Resyncs = FALSE
  MaxBuilds = 1
CHECK_DEADLOCK FALSE
INVARIANT FollowsAtRest
