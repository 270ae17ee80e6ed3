CONSTANTS
    a = a
    b = b
    c = c
    Handlers = {a, b, c}
    KeyOf <- MCKeyOf
    Events <- MCEvents
    QSize = 2
    ANY = ANY
SPECIFICATION LiveSpec
INVARIANTS
    InOrder
    ListsExact
PROPERTY
    Dispatches
CONSTRAINT NoFault
