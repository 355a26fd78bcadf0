SPECIFICATION Spec
CONSTANTS
  Questions = {name, host, root}
  Nameless = {root}
  HostNames = {host}
  Ttls = {0, 4}
  MinTtl = 1
  MaxTtl = 2
  HostsTtl = 2
  SaveEvery = 2
  MaxTime = 2
INVARIANTS
  NeverStale
  SavedIsLoadable
  FewUnsaved
PROPERTY StartsFromCompleteSave
CHECK_DEADLOCK FALSE
