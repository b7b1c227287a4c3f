\* Three threads, interrupted futex calls included.
SPECIFICATION FairSpec
CONSTANTS
  t1 = t1  t2 = t2  t3 = t3
  Threads = {t1, t2, t3}
  NoThread = NoThread
  Spurious = TRUE
INVARIANTS WaitersExact NoLostWakeup
PROPERTIES FreeLockIsTaken RefinesRuntimeLock
