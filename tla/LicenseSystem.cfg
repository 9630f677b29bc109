CONSTANTS
    id1 = id1
    here = here
    there = there
    Ids = {id1}
    Hwids = {here, there}
    Skew = 1
    Days <- MCDays
    MaxKeys = 2
    MaxLicenses = 1
    Device = here
    Drift <- MCDrift
    None = None
    Horizon = 4
    MaxReleases = 1
SPECIFICATION Spec
CHECK_DEADLOCK FALSE
PROPERTIES
    VerdictIsDue
    HomeHasLicense
