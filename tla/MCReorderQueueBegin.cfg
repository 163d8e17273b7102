SPECIFICATION Spec
CONSTANTS
    Modulus = 16
    Size = 4
    Packets = {p1, p2, p3, p4}
    NULL = NULL
    DropStrategy = "BEGIN"
    Start = 13
    Reach = 7
    MaxPos = 20
SYMMETRY Symmetry
INVARIANT AssertHolds
PROPERTY DeliversInOrder
CHECK_DEADLOCK FALSE
