SPECIFICATION ApSpec
CONSTANTS
  Callers = {c1, c2}
  Exhibits = {x2}
  MaxRequests = 1
  MaxReports = 1
  MaxSignoffs = 1
  NoRef = NoRef
PROPERTY SignoffStays
