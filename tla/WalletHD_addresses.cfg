CONSTANTS
    p1 = p1  p2 = p2  tx = tx  tn = tn  a1 = a1  l1 = l1
    NoDb = NoDb  NoTs = NoTs  NoLabel = NoLabel
    Password <- MCPassword
    Tid <- MCTid1
    XTid <- MCXTid
    Addr <- MCAddr1
    Label <- MCLabel
    Time = {1, 2}
    TMAX = 3
    GA = 2
    MaxUsed = 3
    MaxBatch = 2
    ExportPw <- MCExportPw1
    ExportVo = {FALSE}
    CreateMayCrash = FALSE
SPECIFICATION Spec
INVARIANT TypeOK
INVARIANT GivenAddressesRecognised
PROPERTY AddressBookRefined
INVARIANT GetRecordDurable
