\* Three reports, of which two exist, and two clicks.
SPECIFICATION Spec
CONSTANTS
    Report = {1, 2, 3}
    AtFirst = {1, 2}
    Cron = {c1, c2}
    Operation = {o1, o2}
    MaxClicks = 2
    MaxFaults = 1
SYMMETRY Symmetric
INVARIANT AskedOpens
CHECK_DEADLOCK FALSE
