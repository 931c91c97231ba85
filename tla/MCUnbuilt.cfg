SPECIFICATION OperatorSpec
CONSTANTS
  w1 = w1
  Webapps = {w1}
  Proxies = {w1}
  ProxyName <- MCProxyName
  RepoSpecs = {"a", "b"}
  Specs <- MCSpecs
  Hashes <- MCSpecs
  Hash <- MCHash
  Hosts = {"h1", "h2"}
  HostOf <- MCHostOf
  QuirkOf <- MCQuirkOf
  Rendered <- MCRendered
  None = None
  Laggy = {"webapp"}
  UserOps = {"edit"}
  MaxOps = 2
  MaxFaults = 0
  Resyncs = TRUE
  MaxBuilds = 1
CHECK_DEADLOCK FALSE
INVARIANT BuiltAsSpecified
