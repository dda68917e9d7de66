SPECIFICATION FSpec
CONSTANTS
  Findings = {x1}
  Requests = {q1}
  Expiries = {1}
  MaxEvents = 5
INVARIANT AcceptedIsTimeBoxed
CHECK_DEADLOCK FALSE
