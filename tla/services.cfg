SPECIFICATION ServicesSpec
CONSTANTS
  None = None
  w1 = w1
  w2 = w2
  x1 = x1
  x2 = x2
  j1 = j1
  j2 = j2
  rule1 = rule1
  Incidents <- OneItem
  Rules <- OneRule
  Instances <- TwoInstances
  Users <- TwoWorkers
  Records <- OneItem
  Syncs <- TwoWorkers
  MaxFailures = 1
  Notices <- TwoItems
  Senders <- TwoWorkers
  MaxRetries = 2
  RateLimit = 1
INVARIANTS OneLiveFlow NothingIsMissed DeliveredOnce
PROPERTIES EveryIncidentIsDecided ChangesArrive EveryNoticeSettles
CHECK_DEADLOCK FALSE
