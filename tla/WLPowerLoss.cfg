\* Power losses only.
CONSTANTS
    N = 2
    Rate = 1
    Data = {d1}
    Erased = Erased
    Junk = Junk
SPECIFICATION SpecPowerLoss
INVARIANT SurvivesPowerLoss
