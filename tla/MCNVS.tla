------------------------------- MODULE MCNVS -------------------------------
EXTENDS NVS

CONSTANTS p1, k1, v1, v2

MCBVals == {[size |-> 1], [size |-> 4]}

NoFault == fault = "none"
=============================================================================
