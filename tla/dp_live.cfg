\* Two plans that compete for the lock; a kill and an exception; Send Money and the import.
SPECIFICATION FairSpec
CONSTANTS
  Plans = {p1, p2}
  Records = {r1}
  NoPlan = NoPlan
  NoRecord = NoRecord
  Clients = {c1}
  Verbs = {"open", "close", "ready", "import", "send"}
  Beats = {b1}
  Workers = {w1}
  b1 = b1
  w1 = w1
  MaxQueued = 1
  MaxCrashes = 1
  MaxErrors = 1
  MaxRetries = 0
  MayRedeliver = FALSE
PROPERTIES ReadyIsTried
