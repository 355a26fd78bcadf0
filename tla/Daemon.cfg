SPECIFICATION LiveSpec
CONSTANTS
  Lowered <- MCLowered
  UIntMax = 1000
  ConfigLines <- MCLines
  Arguments <- MCArguments
  MaxOptions = 3
  KnownUsers = {"cdns"}
  BadAddresses = {"localhost"}
  Privileged = {"127.0.0.1:53"}
INVARIANTS
  ConfigMeans
  FailureIsTold
  PrivilegesLast
PROPERTY SignalEnds
CHECK_DEADLOCK FALSE
