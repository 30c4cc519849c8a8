CONSTANTS
  h1 = h1
  h2 = h2
  ra = ra
  NoHead = NoHead
  NoAgent = NoAgent
  NoRoute = NoRoute
  Addr = {0, 5, 9, 65, 70, 130}
  SrcAddrs = {5}
  Ports = {1}
  NodeIds = {1, 2}
  MyNodeId = 1
  MyIP = 5
  DropPort = 7
  DefaultAgent = NoAgent
  Heads = {h1, h2}
  NodeOf <- MC_NodeOf
  Bound <- MC_Bound
  SrcPortOf <- MC_SrcPortOf
  RouterOf <- MC_RouterOf
  RouteCands <- MC_RouteCands
  PTRouteCands <- MC_PTRouteCands_prefix
  IPRouteCands <- MC_IPRouteCands
INIT Init
NEXT Next
INVARIANT LongestPrefixMatch
