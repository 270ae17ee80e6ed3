\* Two user pages on three physical ones, a move at every second erase.
CONSTANTS
    N = 2
    Rate = 2
    Data = {d1}
    Erased = Erased
    Junk = Junk
SPECIFICATION LiveSpec
INVARIANTS
    TypeOK
    ReadsBack
    Durable
    RecordsNeedCopy2
PROPERTIES
    ImplementsStore
    Rotates
CONSTRAINT Explored
