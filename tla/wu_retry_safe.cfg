\* Two senders: a transfer is stored for a record already TRANSFERRED_TO_FSP.
SPECIFICATION Spec
CONSTANTS
  Records = {r1}
  Mtcns = {m1, m2}
  NoRecord = NoRecord
  NoMtcn = NoMtcn
  Senders = {s1, s2}
  Hooks = {h1}
  Operators = {}
  Roles = {}
  MaxNotices = 1
  MayCrash = FALSE
  TouchPending = FALSE
PROPERTIES NoStoreOnceTransferred
CHECK_DEADLOCK FALSE
