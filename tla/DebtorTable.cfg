CONSTANTS
  id1 = id1  a = a  b = b  c = c  s1 = s1  s2 = s2
  d0 = d0  d1 = d1  c0 = c0  c1 = c1  m0 = m0  r0 = r0  r1 = r1
  Debtors = {id1}
  Clients = {a, b, c}
  Scanners = {s1, s2}
  RetentionDays = 1
  MaxDay = 5
  NoRow = NoRow
  SplitDebtors = {d0, d1}
  Children = {c0, c1}
  Parent = parent
  Child <- ChildOf
  DebtorOf <- DebtorOfTask
  Messages = {m0}
  Requests = {r0, r1}
SPECIFICATION BothSpec
INVARIANTS ToldIsTrue ValidIsHonoured OneOwner
INVARIANTS NoTaskIsLost OnlyTheOwnerSends VerifiedStaysClean
PROPERTIES UnusedIsFreed BegunSplitCompletes EveryChangeIsAnnounced
CHECK_DEADLOCK FALSE
