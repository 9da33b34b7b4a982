SPECIFICATION FairSpec
CONSTANTS
  Minute = 2
  Day = 12
  Week = 2
  here = here
  there = there
  r1 = r1
  r2 = r2
  r3 = r3
  r4 = r4
  Null = Null
  Orgs = {here, there}
  Requests = {r1, r2, r3, r4}
  Calls <- WriteCalls
  Default <- NewOrg
INVARIANT RangesAreSound
INVARIANT UpdatesAreNotLost
INVARIANT TypeOK
INVARIANT GridsAreWhole
PROPERTY DeletedStayDeleted
PROPERTY ConfigSpec
PROPERTY EveryWriteAnswered
