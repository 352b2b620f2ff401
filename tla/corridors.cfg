\* Two corridors, two codes, answers of up to three rows.
SPECIFICATION FairSpec
CONSTANTS
  Pairs = {k1, k2}
  Fields = {f1, f2}
  Provider = f1
  f1 = f1
  Codes = {c1, c2}
  NoPair = NoPair
  NoField = NoField
  NoCode = NoCode
  Workers = {w1}
  MaxRows = 3
  Mechanisms = {"cash_over_the_counter", "mobile_money"}
  Cash = "cash_over_the_counter"
  Offices = {o1}
  NoOffice = NoOffice
  Keys = {"destination_country", "agent"}
INVARIANTS TypeOK  
PROPERTIES RefreshEnds
