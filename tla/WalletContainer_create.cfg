\* The creating constructor's object goes on generating addresses.
CONSTANTS
    k1 = k1  k2 = k2  k3 = k3  k4 = k4  p1 = p1  p2 = p2
    Zero = Zero  BadSk = BadSk  Hole = Hole  NoFile = NoFile  NoPw = NoPw
    Key <- MCKey4
    Time = {1, 2}
    TMAX = 3
    MaxRecords = 3
    MaxBatch = 1
    MainNet = TRUE
    SaveMayFail = FALSE
    Password <- MCPassword1
    ImportTime = {0}
SPECIFICATION Spec
INVARIANT DurableOpens
SYMMETRY KeySymmetry
