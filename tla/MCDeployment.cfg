\* Two keys, three launches, two mishaps (faults, foreign registrations, edits).
SPECIFICATION DepSpec
CONSTANTS
  k1 = k1
  k2 = k2
  base = base
  quote = quote
  Unset = Unset
  Malformed = Malformed
  Keys = {k1, k2}
  DevKey = k1
  DevOwner = devOwner
  Other = other
  DotEnvs <- MCDotEnvs
  HandFiles <- MCHandFiles
  Situations <- MCSituations
  CodeHashes = {h1}
  OwnerLists = {{}, {"machine"}}
  MaxContracts = 2
  MaxSetups = 2
  MaxLaunches = 3
  MaxMishaps = 2
INVARIANTS BuiltConfigComplete BuiltConfigVerifies VerdictSound UniqueMeansPinned SuccessIsOnChain GovernanceMatchesNode
CHECK_DEADLOCK FALSE
