\* The REST API without "process", which marks a plan by hand; two kills, an exception, a failed validation.
SPECIFICATION Spec
CONSTANTS
  Plans = {p1}
  Records = {r1, r2}
  NoPlan = NoPlan
  NoRecord = NoRecord
  Clients = {c1}
  Verbs = {"open", "close", "ready", "finalize", "abort", "add", "edit"}
  Beats = {b1}
  Workers = {w1, w2}
  b1 = b1
  w1 = w1
  w2 = w2
  MaxQueued = 2
  MaxCrashes = 2
  MaxErrors = 1
  MaxRetries = 1
  MayRedeliver = TRUE
INVARIANTS TypeOK SentOncePerCrash SentOnlyReleased 
SYMMETRY Symmetry
