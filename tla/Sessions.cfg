SPECIFICATION FairSpec
CONSTANTS
  Null = Null
  acme = acme
  beta = beta
  ann = ann
  Ann = Ann
  bob = bob
  secret = secret
  guess = guess
  r1 = r1
  r2 = r2
  r3 = r3
  r4 = r4
  r5 = r5
  r6 = r6
  Requests = {r1, r2, r3, r4, r5, r6}
  Slugs = {acme, beta}
  Emails = {ann, Ann}
  Passwords = {secret, guess}
  Lower <- LowerCase
  Calls <- SessionCalls
  Ttl = 1
  MaxClock = 0
INVARIANT TypeOK
INVARIANT SessionEnds
INVARIANT RenewedOnce
INVARIANT OneLivePerSession
INVARIANT DeadlocksAreOfForks
PROPERTY SessionSpec
PROPERTY NoSessionLost
PROPERTY EveryCallAnswered
