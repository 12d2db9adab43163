\* Every small input, every order of the regions, and every call that may
\* fail.  The generator comes to an end.
CONSTANTS
    RegionOrder <- MCRegionOrder
    Excluded = {"east"}
    Bad = Bad
    None = None
    Old = Old
    Torn = Torn
    Three = {1, 2, 3}
    Two = {1, 2}
    Inputs <- MCInputs
SPECIFICATION Spec
INVARIANTS
    TypeOK
    TablesRight
    Reproducible
    BadDataKeepsFile
CHECK_DEADLOCK FALSE
