SPECIFICATION HoldSpec
CONSTANTS
  Clerks = {g1, g2}
  Objects = {o1, o2}
  Retention = 1
  MaxDay = 2
  NoCopy = NoCopy
PROPERTY HeldIsNotExpired
