SPECIFICATION QuerySpec
CONSTANTS
  Minute = 2
  Day = 12
  Week = 2
  Zone <- AheadOfUtc
  Null = Null
  admin = admin
  alice = alice
  bob = bob
  eve = eve
  outsider = outsider
  here = here
  there = there
  r1 = r1
  r2 = r2
  r3 = r3
  r4 = r4
  Orgs = {here}
  Users = {admin, alice, bob}
  Admins = {admin}
  OrgOf <- OneOrg
  Requests = {r1}
  Starts = {2, 3, 4, 6}
  Calls <- DayCalls
  SettingsChoices <- TwoMinutes
  GridChoices <- TwoGrids
  ExceptionChoices <- NoExceptions
  MaxClock = 0
  Questions <- AdminsDay
INVARIANT CalendarIsGlobal
