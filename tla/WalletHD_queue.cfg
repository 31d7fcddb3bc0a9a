\* The process may die inside the creating constructor. That leaves a file
\* neither constructor accepts ("stuck"), where the real wallet stops, so
\* deadlock is not checked here; WalletHD_addresses.cfg checks it without
\* that crash.
CONSTANTS
    p1 = p1  p2 = p2  tx = tx  tn = tn  a1 = a1  l1 = l1
    NoDb = NoDb  NoTs = NoTs  NoLabel = NoLabel
    Password <- MCPassword
    Tid <- MCTid
    XTid <- MCXTid
    Addr <- MCAddr0
    Label <- MCLabel
    Time = {1, 2}
    TMAX = 3
    GA = 2
    MaxUsed = 2
    MaxBatch = 2
    ExportPw <- MCPassword
    ExportVo = {FALSE, TRUE}
    CreateMayCrash = TRUE
SPECIFICATION Spec
INVARIANT QueuedPaymentsDurable
INVARIANT DbOpensWithUserPassword
INVARIANT ExportedWalletComplete
INVARIANT WalletFileLoads
CHECK_DEADLOCK FALSE
