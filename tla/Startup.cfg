SPECIFICATION FairStartup
CONSTANTS
  a1 = a1  a2 = a2  a3 = a3  b1 = b1  alpha = alpha  beta = beta  None = none
  Call = {a1, a2, b1}  Instance = {alpha, beta}
  Home <- HomeOf  Function <- FunctionOf
  Silent = {alpha}  Kinds = {"sqlite", "postgresql"}
  MaxTogether = 1
INVARIANTS BuiltOnce OnePool VersionImpliesTables RaiseIsReady
PROPERTIES ShutdownReleases TablesInTheEnd EveryApiCallEnds
CHECK_DEADLOCK FALSE
