CONSTANTS
  s1 = s1  s2 = s2  p1 = p1  x1 = x1  f1 = f1  f2 = f2
  g1 = g1  g2 = g2  m1 = m1  y1 = y1  c1 = c1  c2 = c2
  OwnSignals = {s1, s2}
  ParentSignals = {p1}
  StrangeSignals = {x1}
  InitialSignals = {s1, p1, x1}
  Flushers = {f1, f2}
  BurstCount = 2
  DeleteParentShardRecords = TRUE
  MaxInterruptions = 2
  GoodMessages = {g1, g2}
  MalformedMessages = {m1}
  ForeignMessages = {y1}
  Consumers = {c1, c2}
  PrefetchCount = 2
  DrainingMode = TRUE
  DeletedWhileIdle = TRUE
  MaxCrashes = 1
SPECIFICATION BothSpec
INVARIANTS OnlyOwnSent RepeatedOnlyByInterruptions NothingIsLost
PROPERTIES KeepsPromise EveryRowIsFlushed EveryMessageIsSettled
CHECK_DEADLOCK FALSE
