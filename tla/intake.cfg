\* One plan, two clients with different grants, one worker; an office that may be supervised.
SPECIFICATION Spec
CONSTANTS
  Plans = {p1}
  Offices = {o1}
  NoPlan = NoPlan
  NoOffice = NoOffice
  Uploaders = {u1}
  Managers = {m1}
  Workers = {w1}
  Verbs = {"open", "close", "ready", "abort"}
  MaxCuts = 1
INVARIANTS TypeOK AnnouncedFirst 
 
