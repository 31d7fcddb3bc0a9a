\* Reopened wallet, one password, power loss and failing saves.
CONSTANTS
    k1 = k1  k2 = k2  k3 = k3  k4 = k4  p1 = p1  p2 = p2
    Zero = Zero  BadSk = BadSk  Hole = Hole  NoFile = NoFile  NoPw = NoPw
    Key <- MCKey4
    Password <- MCPassword1
    Time = {1, 2}
    ImportTime = {0, 1}
    TMAX = 3
    MaxRecords = 3
    MaxBatch = 2
    MainNet = TRUE
    SaveMayFail = FALSE
SPECIFICATION SpecReopened
SYMMETRY KeySymmetry
INVARIANT ReturnedTimestampsDurable
