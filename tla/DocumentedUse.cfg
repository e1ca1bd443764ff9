CONSTANTS
  Types = {binding, placement}
  Resources = {binding, placement}
  Channels = {done}
  Waiters = {main}
  Closers = {main}
  Main = main
  Done = done
  None = None
SPECIFICATION UseSpec
PROPERTIES TypicalUseEnds
CHECK_DEADLOCK FALSE
