CONSTANTS
    id1 = id1
    here = here
    there = there
    Here = Here
    There = There
    Typo = Typo
    Typed <- MCTyped
    Ids = {id1}
    Hwids = {here, there}
    BadHwid = BadHwid
    NaN = NaN
    Missing = Missing
    Garbage = Garbage
    Skew = 2
    Device = here
    DemoId = DemoId
    None = None
    Days <- MCDays
    MaxKeys = 3
    MaxIssued = 2
    MaxEntries = 2
    Forms <- MCForms
    Clock <- MCClock
SPECIFICATION Spec
INVARIANTS
    TypeOK
    MemoryIsDisk
    RecordsAreTrue
    LedgerNeverLies
    MirrorsCore
PROPERTIES
    VerdictIsDue
