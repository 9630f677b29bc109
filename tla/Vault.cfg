CONSTANTS
    id1 = id1
    id2 = id2
    tty1 = tty1
    Ids = {id1, id2}
    Hwids = {}
    Skew = 1
    Terminals = {tty1}
    Days <- MCDays
    MaxKeys = 3
    MaxLicenses = 1
    MaxEntries = 2
    Horizon = 1
SPECIFICATION Spec
SYMMETRY MCSymmetry
CHECK_DEADLOCK FALSE
INVARIANTS
    TypeOK
    KeyHistoryKept
    CutOffStaysRetired
    AuditNeverForks
    AuditedIsDone
PROPERTIES
    ImplementsAuthority
