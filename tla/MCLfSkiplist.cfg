SPECIFICATION Spec
CONSTANTS
    Proc = {p, q}
    Cell = {a, b}
    Head = Head
    Tail = Tail
    None = None
    One = One
    MaxKey = 2
    Data = {x, y}
    Absent = Absent
    TopLevel = 1
    Profiles <- MCProfiles
SYMMETRY Symmetry
INVARIANTS CellsAccounted
PROPERTIES LookupAdvances RefinesDictionary
CHECK_DEADLOCK FALSE
