SPECIFICATION PlatformSpec
CONSTANTS
  None = None
  w1 = w1
  w2 = w2
  u1 = u1
  u2 = u2
  x1 = x1
  x2 = x2
  s1 = s1
  s2 = s2
  s3 = s3
  admin = admin
  m1 = m1
  m2 = m2
  begin = begin
  ask = ask
  exec = exec
  more = more
  stop = stop
  mail = mail
  i1 = i1
  repo = repo
  playbook1 = playbook1
  task1 = task1
  schedule = schedule
  secret = secret
  template = template
  channel = channel
  solution = solution
  flow1 = flow1
  rule1 = rule1
  stream1 = stream1
  note1 = note1
  note2 = note2
  system1 = system1
  own1 = own1
  scan1 = scan1
  waiver1 = waiver1
  waiver2 = waiver2
  p1 = p1
  p2 = p2
  h1 = h1
  h2 = h2
  v1 = v1
  v2 = v2
  Users <- TwoUsers
  Sessions <- ThreeSessions
  Calls <- TwoWorkers
  MaxFailed = 1
  Roles = {"platform_admin"}
  Requests <- TwoIds
  Requesters <- OneRequester
  Members <- TwoMembers
  TenantAdmins <- OneAdmin
  Handlers <- TwoWorkers
  People <- TwoIds
  Emails <- OneEmail
  Invitations <- OneInvitation
  Desks <- TwoWorkers
  NodeIds <- FiveNodes
  Drafts <- SomeDrafts
  Objects <- AllRows
  KindOf <- Tables
  Editors <- TwoWorkers
  Worlds <- SomeWorlds
  Streams <- OneStream
  Tellers <- TwoWorkers
  Watchers <- OneStream
  Messages <- TwoMessages
  Buffer = 1
  SystemRules <- OneSystemRule
  OwnRules <- OneOwnRule
  Exemptions <- TwoExemptions
  Staff <- TwoStaff
  Clerks <- TwoWorkers
  Scans <- OneScan
  ScannedTasks <- OneTask
  Hosts <- TwoHosts
  Vaults <- TwoVaults
SYMMETRY Symmetry
INVARIANTS LogoutEndsSession  InsideWasGranted InvitationIsTrue DryRunFollowsExecutor
INVARIANTS ReferencesExist NobodyWaitsInVain DangerIsStopped VerdictIsThePlays PlayHasItsWorkspace
PROPERTIES SessionEndsForGood
CHECK_DEADLOCK FALSE
