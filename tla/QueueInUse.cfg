CONSTANTS
  g1 = g1  g2 = g2  m1 = m1  c1 = c1  c2 = c2
  GoodMessages = {g1, g2}
  MalformedMessages = {m1}
  ForeignMessages = {}
  Consumers = {c1, c2}
  PrefetchCount = 2
  DrainingMode = TRUE
  DeletedWhileIdle = FALSE
  MaxCrashes = 1
SPECIFICATION QueueSpec
PROPERTIES QueueInUseIsKept
CHECK_DEADLOCK FALSE
