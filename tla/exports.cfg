\* Two containers race to upgrade; the job of an export may run twice, even at once.
SPECIFICATION FairSpec
CONSTANTS
  Containers = {k1, k2}
  Migrations = 1
  AdminEmail = TRUE
  MaxHalts = 1
  Templates = {t1}
  NoTemplate = NoTemplate
  Jobs = {e1}
  NoJob = NoJob
  Workers = {w1, w2}
  MaxRepeats = 1
  Pieces = {x1, x2}
  Objects = {o1, o2}
INVARIANTS TypeOK ServingIsUpgraded MailedOncePerRun  SuccessMeansMailed
PROPERTIES AllServe 
CHECK_DEADLOCK FALSE
