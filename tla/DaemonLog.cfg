SPECIFICATION Spec
CONSTANTS
  Lowered <- MCLowered
  UIntMax = 1000
  ConfigLines <- MCLines
  Arguments <- MCArguments
  MaxOptions = 3
  KnownUsers = {"cdns"}
  BadAddresses = {"localhost"}
  Privileged = {"127.0.0.1:53"}
INVARIANT LogFileTells
CHECK_DEADLOCK FALSE
