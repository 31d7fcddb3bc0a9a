\* One labelled address and one queued payment: a backup (full export)
\* commits inside its label loop, before the payment queue is copied.
CONSTANTS
    p1 = p1  p2 = p2  tx = tx  tn = tn  a1 = a1  l1 = l1
    NoDb = NoDb  NoTs = NoTs  NoLabel = NoLabel
    Password <- MCPassword
    Tid <- MCTid1
    XTid <- MCXTid
    Addr <- MCAddr1
    Label <- MCLabel
    Time = {1}
    TMAX = 3
    GA = 2
    MaxUsed = 1
    MaxBatch = 1
    ExportPw <- MCExportPw1
    ExportVo = {FALSE}
    CreateMayCrash = FALSE
SPECIFICATION Spec
INVARIANT ExportedWalletComplete
