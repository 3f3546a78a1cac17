CONSTANTS
  Targets <- MCTargets
  StrategyOf <- MCStrategyOf
  UiServer = "ui-server"
  Cron = cron
  Operators = {}
  Requests = {}
  TouchSets = {{"repo"}}
  Lists <- MCLists
  Edited = {}
  MaxCommits = 2
  MaxAsks = 2
  MaxDeployFaults = 0
  DeployFaults = {}
SPECIFICATION DeploySpec
CHECK_DEADLOCK FALSE
INVARIANTS
  MarkIsDeployed
