SPECIFICATION FairSpec
CONSTANTS
  Null = Null
  acme = acme
  beta = beta
  ann = ann
  Ann = Ann
  bob = bob
  secret = secret
  guess = guess
  r1 = r1
  r2 = r2
  r3 = r3
  r4 = r4
  r5 = r5
  r6 = r6
  Requests = {r1, r2, r3, r4}
  Slugs = {acme, beta}
  Emails = {ann, Ann, bob}
  Passwords = {secret, guess}
  Lower <- LowerCase
  Calls <- AccountCalls
  Ttl = 1
  MaxClock = 1
INVARIANT FoundedWithAdmin
INVARIANT NamesAreUnique
INVARIANT RefusalsStand
PROPERTY EveryCallAnswered
