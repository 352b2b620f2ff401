\* Two senders that may be killed, on two records or racing for one.
SPECIFICATION Spec
CONSTANTS
  Records = {r1, r2}
  Mtcns = {m1, m2}
  NoRecord = NoRecord
  NoMtcn = NoMtcn
  Senders = {s1, s2}
  Hooks = {h1}
  Operators = {}
  Roles = {}
  MaxNotices = 1
  MayCrash = TRUE
  TouchPending = TRUE
INVARIANTS TypeOK HonestTransfer OwnMtcn
SYMMETRY RecordSymmetry
CHECK_DEADLOCK FALSE
