CONSTANTS
  c1 = c1
  c2 = c2
  timelock = timelock
  old = old
  new = new
  none = none
  Contracts <- MCContracts
  Parameterised <- MCParameterised
  Codes <- MCCodes
  NoFile = none
  Versions <- MCVersions
  Builds <- MCBuilds
  FirstTree <- MCFirstTree
  FirstReleased <- MCFirstReleased
  FirstLive <- MCFirstLive
  MaxEdits = 4
  MaxKills = 1
SPECIFICATION Spec
INVARIANTS
  WholeUnlessKilled
  BuiltTreesDeclareTheirRecord
  PublishedStaysDeclared
PROPERTY
  RecordGrowsFromSource
CHECK_DEADLOCK FALSE
