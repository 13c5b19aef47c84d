SPECIFICATION Spec
CONSTANTS
    a = a
    b = b
    c = c
    Client = {a, b, c}
    R1 = R1
    R2 = R2
    Replica = {R1, R2}
    Home <- HomeOf
    x = x
    y = y
    Key = {x, y}
    MaxKeys = 1
    MaxSiblingsPerKey = 2
    MaxWrites = 4
    MaxSnapshots = 1
SYMMETRY Symmetry
INVARIANTS
    TypeOK
    ConflictIffUnseen
    NewestNotDominated
    
PROPERTIES
    CapsRespected
CHECK_DEADLOCK FALSE
