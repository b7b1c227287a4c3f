\* Safety and liveness: two threads, two locking schemes.
SPECIFICATION FairSpec
CONSTANTS
  m = m  a = a  b = b  c = c
  default = default  custom = custom
  Main = m
  OCamlThreads = {a}
  CThreads = {}
  Schemes = {default, custom}
  Default = default
  NoThread = NoThread
  CanFork = FALSE
  TickMayFail = FALSE
INVARIANTS LocksAccounted CamlStateSetUp TickForMany
PROPERTIES RefinesRuntimeLock Preempted RuntimeIsEntered
