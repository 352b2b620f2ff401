\* A PalPay record with one sender, two Western Union records, one of MoneyGram.
SPECIFICATION Spec
CONSTANTS
  PalRecords = {p1}
  WuRecords = {w1, w2}
  MgRecords = {g1}
  NoRecord = NoRecord
  PalSenders = {s1}
  MaxTransfers = 2
  Codes = {c1, c2}
  NoCode = NoCode
  RestNamed = {p1, g1}
  MaxJobs = 1
INVARIANTS TypeOK PaidOncePerLoss AcceptedIsClosed
PROPERTIES PollAsksAll CancelOnlySelected
SYMMETRY Symmetry
CHECK_DEADLOCK FALSE
