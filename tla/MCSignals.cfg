SPECIFICATION FairSpec
CONSTANTS
    t1 = t1
    t2 = t2
    Thread <- Threads
    Sig <- Sigs
    None = None
    Fin = Fin
    MaxFin = 1
    Profiles <- Programs
INVARIANTS EventsNoticed
PROPERTIES HandlersDue SignalsKept SignalHandled
