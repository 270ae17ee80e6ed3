CONSTANTS
    QSize = 3
    Trouble = 4
SPECIFICATION Spec
INVARIANTS
    RestAgrees
PROPERTY
    Recovers
CONSTRAINT NoFault
