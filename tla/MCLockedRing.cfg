SPECIFICATION FairLockedSpec
CONSTANTS
  t1 = t1
  t2 = t2
  Threads = {t1, t2}
  NoOwner = NoOwner
  Rounds = 3
  Requested = 3
  MaxPush = 6
INVARIANT TypeOK
INVARIANT MutualExclusion
INVARIANT ReleasePublishes
PROPERTY IsMutex
PROPERTY Progress
INVARIANT RingTypeOK
INVARIANT DeliversNext
INVARIANT NoSlotShared
PROPERTY IsQueue
PROPERTY Delivered
