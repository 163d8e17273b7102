SPECIFICATION Spec
CONSTANTS
    Modulus = 16
    Size = 4
    Packets = {p1, p2, p3, p4, p5}
    NULL = NULL
    DropStrategy = "END"
    Start = 12
    Reach = 8
    MaxPos = 20
SYMMETRY Symmetry
INVARIANTS TypeOK OneOwner GapsAreFound NothingLeaked
PROPERTY DeliversInOrder
CHECK_DEADLOCK FALSE
