SPECIFICATION Spec
CONSTANTS
    t1 = t1
    t2 = t2
    domain = domain
    None = None
    Thread = {t1, t2}
    Main = t1
    Dom = domain
    Orphan <- MCOrphan
    Programs <- MCPrograms
INVARIANTS AssertionsHold TablesConsistent BlocksTracked PendingNoticed
CHECK_DEADLOCK FALSE
