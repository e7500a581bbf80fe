CONSTANTS
  Proc = {p1, p2, p3}
  Key = {k1, k2}
  Object = {o1, o2, o3}
  NoProc = NoProc
  NoObject = NoObject
SPECIFICATION FairSpec
INVARIANTS MutualExclusion
PROPERTIES ImplementsKeyedLock LockReturns
