SPECIFICATION HostSpec
CONSTANTS
  c1 = c1  c2 = c2  h1 = h1  h2 = h2
  Command <- MCCommands
  HostProcess <- MCHosts
  Asked <- MCAskedAll
  Nobody = Nobody
  Backlog = 1
  MaxPolls = 1
INVARIANT LiveWorkerIsReached
CHECK_DEADLOCK FALSE
