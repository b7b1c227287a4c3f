\* Safety: four threads, one locking scheme, fork, a tick thread that cannot start.
SPECIFICATION Spec
CONSTANTS
  m = m  a = a  b = b  c = c
  default = default  custom = custom
  Main = m
  OCamlThreads = {a, b}
  CThreads = {c}
  Schemes = {default}
  Default = default
  NoThread = NoThread
  CanFork = TRUE
  TickMayFail = TRUE
SYMMETRY ThreadSymmetry
INVARIANTS ScanMeetsAll RuntimeExcludes
