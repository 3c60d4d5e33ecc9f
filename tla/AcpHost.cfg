SPECIFICATION FairHostSpec
CONSTANTS
  c1 = c1  c2 = c2  h1 = h1  h2 = h2
  Command <- MCCommands
  HostProcess <- MCHosts
  Asked <- MCAsked
  Nobody = Nobody
  Backlog = 1
  MaxPolls = 1
PROPERTY CallsReturn
PROPERTY StoppedHostLeaves
CHECK_DEADLOCK FALSE
