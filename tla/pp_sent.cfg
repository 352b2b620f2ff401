\* One sender, one PalPay record: PalPay accepts, the record is failed.
SPECIFICATION Spec
CONSTANTS
  PalRecords = {p1}
  WuRecords = {w1}
  MgRecords = {g1}
  NoRecord = NoRecord
  PalSenders = {s1}
  MaxTransfers = 2
  Codes = {c1, c2}
  NoCode = NoCode
  RestNamed = {g1}
  MaxJobs = 1
PROPERTIES AcceptedIsSent
CHECK_DEADLOCK FALSE
