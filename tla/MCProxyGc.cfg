SPECIFICATION Spec
CONSTANTS
  MaxRequests = 3
  Names = {n1}
  Providers = {plainudp}
  TcpProviders = {}
  CryptProviders = {}
PROPERTY OnlyClosedCollected
CHECK_DEADLOCK FALSE
