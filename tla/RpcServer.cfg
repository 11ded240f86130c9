CONSTANTS
  c1 = c1
  c2 = c2
  s1 = s1
  cpu = cpu
  Clients = {c1, c2}
  Servers = {s1}
  Hosts = {s1}
  Peers <- AllPeers
  RpcKeys = {cpu}
  RpcKey <- OneKind
  Wants <- AskCpu
  Priority <- SecondFirst
  MaxConn = 2
  max_retry <- OneOrTwo
  MaxRequest = 1
  MaxFault = 1
  ping_period = 2
  unmatch_timeout = 0
  MaxKeys = 5
SPECIFICATION FairSpec
INVARIANTS NoIdleMatch OffersAreCurrent
PROPERTIES ImplementsLease WaitingIsServed OfferReturns
CHECK_DEADLOCK FALSE
