SPECIFICATION Spec
CONSTANTS
  Call = {c1, c2}
  Exchange = {x1, x2}
  MaxSession = 3
  MaxLost = 1
  Caller = {k1, k2}
  MaxRequests = 1
  MaxCount = 3
  Setup = {s1, s2}
  None = None
SYMMETRY Symmetry
INVARIANTS OneBootstrap CountersExpire OnlyReplaysAreReuse OneLiveEnd
