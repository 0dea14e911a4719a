SPECIFICATION FairSpec
CONSTANTS
  m = m
  w1 = w1
  w2 = w2
  Main = m
  Procs = {m, w1, w2}
  MaxOpens = 2
  Fds = {0, 1, 2, 3}
  PipeCap = 1
  MaxChannels = 1
  MaxSeq = 2
  MaxProto = 2
  Programs <- MCPrograms
  PollWorks = TRUE
INVARIANTS
  NoSelfRead
  PolledFrameWaits
  RecvClosedIsOwnClose
  NoBrokenPipe
  Paired
PROPERTIES
  TimedCallsReturn
  RecvSettles
CHECK_DEADLOCK FALSE
