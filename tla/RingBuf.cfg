\* Two sizes of each type of buffer; the items are completed and returned in
\* any order.
CONSTANTS
    Types = {"NOSPLIT", "ALLOWSPLIT", "BYTEBUF"}
    Sizes <- MCSizes
    Lens <- MCLens
    Junk <- MCJunk
    NoWait = NoWait
SPECIFICATION Spec
INVARIANTS
    Disjoint
    InOrder
    Delivered
    FreeSpaceExact
    NoLostWakeup
CONSTRAINT NoFault
