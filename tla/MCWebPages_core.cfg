SPECIFICATION Spec
CONSTANTS
  Paths <- SomePaths
  MaxBuilds = 2
  MaxProcesses = 2
  Nothing = Nothing
INVARIANTS OneAddress ShownIsDeployed LinksFound
