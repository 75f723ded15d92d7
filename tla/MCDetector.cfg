CONSTANTS
  c1 = c1
  c2 = c2
  s1 = s1
  s2 = s2
  Nobody = Nobody
  Conns = {c1}
  Sessions = {s1}
  Owner <- MCOwner
  Activities <- MCActivities
  Capacity = 2
  NotifyCapacity = 1
  WebhookSet = TRUE
  BurstFails = 3
  MaxAttempts = 2
  MaxActivities = 2
  MaxReports = 1
SPECIFICATION FairSpec
INVARIANTS RuleFiresOnce AlertsExact ResidueExplained
PROPERTY HandlingEnds
CHECK_DEADLOCK FALSE
