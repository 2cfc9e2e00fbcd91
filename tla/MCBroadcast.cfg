CONSTANTS
  here = here
  there = there
  registry = registry
  vault = vault
  Chains = {here, there}
  Supported = {here, there}
  DeployNetworks <- MCDeployNetworks
  Suites = {registry, vault}
  DependsOn <- MCDependsOn
  RequiredOn <- MCRequiredOn
  Described = {registry}
  Answering = {registry}
  SeatsDeployKey <- MCSeats
  MetaBoardDeclared = TRUE
  PresentAtStart <- MCPresent
  NoSuite = NoSuite
  MaxCount = 2
  MaxMishaps = 1
SPECIFICATION Spec
INVARIANTS
  BuiltOnDependencies
  ReachedNetworksHoldTheSuite
  EmissionDescribesDeployed
  EmissionsAreCounted
CHECK_DEADLOCK FALSE
