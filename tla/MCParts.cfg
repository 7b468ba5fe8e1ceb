\* Every part on an instance of its own; the constants below name it.
SPECIFICATION PartsSpec
CHECK_DEADLOCK FALSE
CONSTANTS
    Events = {1, 2, 3, 4}
    Limits = {0, 1, 2}
    LastHalf = 3
    Terminals = {t1}
    Windows = {w1, w2}
    Owners = {planner, rival, harbour}
    Horizon = 1
    None = None
    Holders = {master, pilot}
    Codes = {hose, crew, notice}
    Terms = {1, 2}
    LastDay = 2
    MaxVersion = 5
    Devices = {scale, meter}
    Readings = 2
    Nets = {0, 1, 2}
    Times = {0, 1}
    MaxCaptures = 3
    Weights = {1, 9999, 10000, 10003, 49999, 50000}
    Rates = {0, 6, 8}
    Day = 6
    Offsets <- MCOffsets
    Changes = {0, 1, 2, 3, 4, 5, 6, 7, 8, 9, 10, 11, 12, 13, 14, 15, 16, 17, 18}
    EntryKG = {1, 2}
    Moments = {0, 1}
    Openings = {0, 1, 2}
    MaxEntries = 3
    LastAttempt = 40
INVARIANTS
    WalkIsComplete
    OneHolderPerSeizure
    PermitEarned
    SeriesAsMeasured
    CalculationsAgree
