SPECIFICATION ProvisioningSpec
CONSTANTS
  AppTables <- SomeRows
  MaxFaults = 2
INVARIANTS CallIsInOrder OwnRowsNeverBlock DoneIsComplete
PROPERTIES Converges
