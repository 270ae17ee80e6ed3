CONSTANTS
    NP = 3
    E = 4
    Prims = {p1}
    Blobs = {k1}
    PVals = {v1, v2}
    BVals <- MCBVals
    Absent = Absent
    p1 = p1
    k1 = k1
    v1 = v1
    v2 = v2
SPECIFICATION Spec
PROPERTY MountKeeps
