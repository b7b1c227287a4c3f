\* Three threads, four calls.
SPECIFICATION Spec
CONSTANTS
  t1 = t1  t2 = t2  t3 = t3  c = c  d = d
  Threads = {t1, t2, t3}
  NoThread = NoThread
  Channels = {c, d}
  Menus <- TheMenus
  MaxSyncs = 4
  None = None
SYMMETRY ThreadSymmetry
INVARIANTS NobodyLeftWaiting RendezvousComplete
CHECK_DEADLOCK FALSE
