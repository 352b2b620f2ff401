\* Two senders, the webhook and an operator on one record.
SPECIFICATION Spec
CONSTANTS
  Records = {r1}
  Drafts = {d1, d2}
  NoRecord = NoRecord
  NoDraft = NoDraft
  NoProc = NoProc
  Senders = {s1, s2}
  Hooks = {h1}
  Operators = {o1}
  MaxEvents = 1
  TouchPending = FALSE
INVARIANTS TypeOK CommittedOnRow OwnReference
PROPERTIES BookSpec
SYMMETRY Symmetry
