\* The same; a request has padding between its options.
SPECIFICATION Spec
CONSTANTS
  Datagrams <- WithPadding
  Operators = {c1, c2}
  Commands <- SomeCommands
  CommandLine <- Started
  Backlog = 3
  CacheBound = 1
  Byte = 8
INVARIANT RequestsParsed
CHECK_DEADLOCK FALSE
