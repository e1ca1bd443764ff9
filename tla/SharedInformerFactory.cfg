CONSTANTS
  Types = {binding, placement}
  Resources = {binding, placement, unknown}
  Channels = {ch1, ch2}
  Waiters = {w1}
  Closers = {c1, c2}
  None = None
SPECIFICATION FairSpec
INVARIANTS TypeOK ShutdownIsFinal
PROPERTIES RefinesLifecycle WaitSpeaksTrue WaitEnds ShutdownEnds StartedSyncs
