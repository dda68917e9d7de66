SPECIFICATION ScimSpec
CONSTANTS
  Feeds = {f1, f2}
  Users = {u1}
  Roles = {"auditor", "analyst"}
  NoFeed = NoFeed
PROPERTY DeprovisioningHolds
CHECK_DEADLOCK FALSE
