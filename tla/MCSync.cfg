\* Three threads, two conditions.
SPECIFICATION Spec
CONSTANTS
  t1 = t1  t2 = t2  t3 = t3  c1 = c1  c2 = c2
  Threads = {t1, t2, t3}
  Conditions = {c1, c2}
  NoThread = NoThread
  NoCondition = NoCondition
INVARIANTS LocksOrdered
PROPERTIES SignalRestarts RefinesMonitor
