\* Counting semaphores that overflow at 2, and binary ones.
SPECIFICATION Spec
CONSTANTS
  t1 = t1  t2 = t2  t3 = t3  t4 = t4
  Threads = {t1, t2, t3, t4}
  NoThread = NoThread
  max_int = 2
SYMMETRY ThreadSymmetry
INVARIANTS TokensAccounted
