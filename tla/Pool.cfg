\* Three users of two servers that admit two sessions per connection.
SPECIFICATION FairSpec
CONSTANTS
  u1 = u1
  u2 = u2
  u3 = u3
  s1 = s1
  s2 = s2
  Users = {u1, u2, u3}
  Servers = {s1, s2}
  ServerOf <- MCServerOf
  MaxDials = 2
  MaxHung = 1
  MaxSessions = 2
  None = None
INVARIANTS
  NoClientLeak
  NobodyIsCutOff
PROPERTY GetReturns
\* The system rests when nobody calls any more.
CHECK_DEADLOCK FALSE
