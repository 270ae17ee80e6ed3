CONSTANTS
    Builds <- MCBuilds
    MaxSeq = 5
    MaxLosses = 2
SPECIFICATION LiveSpec
INVARIANTS
    Bootable
PROPERTIES
    RollsBack
    Updates
    Boots
