SPECIFICATION Spec
CONSTANTS
  Fds = 6
  MaxBusy = 1
  MaxReloads = 2
  MaxCpu = 2
INVARIANTS
  TypeOK
  HoldsWhatItNeeds
PROPERTIES
  CpuIsNotOverstated
  CancelIsHeeded
  RetriesUntilSampled
  RecordsOrHasEnded
