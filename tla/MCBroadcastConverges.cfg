CONSTANTS
  here = here
  there = there
  registry = registry
  vault = vault
  Chains = {here, there}
  Supported = {here, there}
  DeployNetworks <- MCDeployNetworks
  Suites = {registry, vault}
  DependsOn <- MCDependsOn
  RequiredOn <- MCRequiredOn
  Described = {registry}
  Answering = {registry}
  SeatsDeployKey <- MCSeats
  MetaBoardDeclared = TRUE
  PresentAtStart <- MCPresent
  NoSuite = NoSuite
  MaxCount = 0
  MaxMishaps = 1
SPECIFICATION FairSpec
PROPERTIES
  Converges
CHECK_DEADLOCK FALSE
