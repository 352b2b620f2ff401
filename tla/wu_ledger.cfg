\* One sender that is not killed, the endpoint and an operator in every role that
\* keeps off PENDING records: the deployment implements the payout ledger.
SPECIFICATION FairSpec
CONSTANTS
  Records = {r1}
  Mtcns = {m1, m2}
  NoRecord = NoRecord
  NoMtcn = NoMtcn
  Senders = {s1}
  Hooks = {h1}
  Operators = {o1}
  Roles = {"poll", "refund", "cancel", "edit"}
  MaxNotices = 2
  MayCrash = FALSE
  TouchPending = FALSE
INVARIANTS AtMostOneStore StoredMtcnOnRow HonestPayout
PROPERTIES LedgerSpec StoredIsRecorded
