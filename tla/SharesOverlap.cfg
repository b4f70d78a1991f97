SPECIFICATION InterestSpec
CHECK_DEADLOCK FALSE
CONSTANTS
  Owners = {p1, p2}
  Holdings = {h1, h2}
  Agreements = {}
  Grants = {}
  Estates = {e1}
  Members = {o}
  OrgWide = {o}
  Shares = {600000}
  NumDays = 2
  Visits = {q1, q2}
  Overlapping = TRUE
INVARIANTS
  SharesWithinWhole
