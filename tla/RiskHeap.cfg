SPECIFICATION Spec
CONSTANTS
    a = a
    b = b
    c = c
    d = d
    e = e
    f = f
    NoUser = NoUser
    Users <- AllUsers
    Safe = 2
    MaxHF = 2
INVARIANTS
    TypeOK
    LookupAgrees
    HeapOrdered
PROPERTIES
    ImplementsMap
