SPECIFICATION Spec
CONSTANTS
  Operators = {o1, o2}
  Versions = {1, 2}
  FilesOf <- MCFilesOf
  Tasks = {t1, t2, t3}
  Usages <- MCUsages
  MaxFaults = 1
  MaxDeaths = 1
  NoTask = NoTask
  Installers = {i1, i2}
  Programs = {w1}
  MaxDirectories = 3
  MaxRemovals = 1
  MaxAccidents = 2
  MaxSpawns = 3
  MaxOpenings = 2
  MaxCommands = 4
  Manifests <- MCManifests
  MaxConcurrency = 2
INVARIANTS
  InstallsAreSafe
  AnswersAreOwn
  ClientIsSafe
  EnginesOwned
  LoadsDags
PROPERTY
  EveryCallEnds
CHECK_DEADLOCK FALSE
