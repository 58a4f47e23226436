\* Registration, logins, listings and the clock, with failures and kills.
SPECIFICATION Spec
CONSTANTS
  n1 = n1  n2 = n2
  UserNames <- TwoUserNames
  Pwds = {Empty, w1, w2}
  Empty = Empty
  None = None
  Garbage = {1, 2}
  Life = 2
  MaxTime = 3
  MaxRequests = 4
  MaxFaults = 1
SYMMETRY Symmetry
INVARIANTS
  SessionTypeOK
  RegisteredOnce
  TokensOfRegistered
  ListingVerified
  SessionKept
