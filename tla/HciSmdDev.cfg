CONSTANTS
  Dev = {d1, d2}
  NULL = NULL
  MaxWork = 2
SPECIFICATION Spec
CHECK_DEADLOCK FALSE
INVARIANTS
  OwnedDevice
  NoDanglingHdev
  FaultsHaveCauses
  UpMeansRegistered
PROPERTIES
  ContractKept
  SemaphoreReleased
