\* Two flash sectors of two small ones.
CONSTANTS
    B = 2
    F = 2
    Modes = {"safe", "perf"}
    Data = {d1}
    Erased = Erased
    Junk = Junk
SPECIFICATION Spec
INVARIANTS
    Durable
    RangeErased
PROPERTY
    ImplementsStore
CONSTRAINT NoFault
