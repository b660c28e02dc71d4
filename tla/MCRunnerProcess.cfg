CONSTANTS
  Procs = {p1, p2}
  Builds <- MCBuilds
  NoName = NoName
  NoFile = NoFile
  MaxBacklog = 2
CHECK_DEADLOCK FALSE
SPECIFICATION FairSpec
INVARIANTS TypeOK NeverFatal NoAcceptError
PROPERTIES RegistryFrozen BacklogDrains QuitEnds
