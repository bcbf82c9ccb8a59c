\* One daemon, requests of every kind, two runs of ddhcpctl.
SPECIFICATION FairSpec
CONSTANTS
  Datagrams <- WithPadding
  Operators = {c1, c2}
  Commands <- SomeCommands
  CommandLine <- Started
  Backlog = 3
  CacheBound = 1
  Byte = 8
INVARIANT OneOptionPerCode
INVARIANT RepliesComplete
PROPERTY CommandsAnswered
CHECK_DEADLOCK FALSE
