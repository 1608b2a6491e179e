CONSTANTS
    r1 = r1  r2 = r2  f1 = f1  c1 = c1  c2 = c2
    Absent = Absent
    Torn = Torn
    None = None
    Recoveries = {r1, r2}
    Targets = {f1}
    Target <- MCTarget
    Contents = {c1, c2}
    Original <- MCOriginal
    ClockMayStepBack = TRUE
    MaxClock = 1
    MaxCrashes = 1
    MaxExternal = 2
    MaxBrokered = 1
SPECIFICATION FairSpec
INVARIANTS
    TypeOK
    RecordsAreReadable
PROPERTIES
    RestoreNeverOverwrites
    RecordsWhatIsThere
    RestoreCompletes
