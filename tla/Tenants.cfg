SPECIFICATION FairSpec
CONSTANTS
  Minute = 2
  Day = 12
  Week = 2
  Zone <- BehindUtc
  Null = Null
  admin = admin
  alice = alice
  bob = bob
  eve = eve
  outsider = outsider
  here = here
  there = there
  r1 = r1
  r2 = r2
  r3 = r3
  r4 = r4
  Orgs = {here, there}
  Users = {admin, alice, eve, outsider}
  Admins = {admin, eve}
  OrgOf <- TwoOrgs
  Requests = {r1, r2, r3, r4}
  Starts = {2, 6}
  Calls <- TenantCalls
  SettingsChoices <- TwoMinutes
  GridChoices <- OneGrid
  ExceptionChoices <- NoExceptions
  MaxClock = 0
INVARIANT TenantIsolation
INVARIANT SwapsNeedAThird
PROPERTY OnlyAbortsEndDeadlock
PROPERTY EveryCallAnswered
