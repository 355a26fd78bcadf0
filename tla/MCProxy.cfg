SPECIFICATION LiveSpec
CONSTANTS
  MaxRequests = 3
  Names = {n1}
  Providers = {crypttcp}
  TcpProviders = {crypttcp}
  CryptProviders = {crypttcp}
INVARIANTS
  AtMostOneResponse
  ServfailMeansUndelivered
  WatchersUsable
  ReadingIsFresh
PROPERTIES
  ImplementsClientView
  EveryRequestEnds
CHECK_DEADLOCK FALSE
