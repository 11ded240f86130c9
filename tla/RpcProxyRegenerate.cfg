CONSTANTS
  c1 = c1
  c2 = c2
  s1 = s1
  cpu = cpu
  bad = bad
  proxy = proxy
  Clients = {c1}
  Servers = {s1}
  Hosts = {proxy}
  Peers <- AllPeers
  RpcKeys = {cpu, bad}
  Mangled = bad
  RpcKey <- OneKind
  Wants <- AskCpu
  Priority <- SamePriority
  max_retry <- TwoTries
  MaxRequest = 1
  Requests <- FirstAsks
  MaxConn = 2
  MaxFault = 0
  MaxData <- TwoAndOne
  MaxHandler = 2
  MaxMessages = 6
  MaxKeys = 3
  max_retry_server = 1
  Modes = {"tracker"}
SPECIFICATION Spec
INVARIANT OfferedUnderOwnKey
CHECK_DEADLOCK FALSE
