\* Two reports and a third to create, two writes among two other clicks, one failing request.
SPECIFICATION Spec
CONSTANTS
    Report = {1, 2, 3}
    AtFirst = {1, 2}
    Cron = {c1, c2}
    Operation = {o1, o2}
    MaxClicks = 2
    MaxFaults = 1
SYMMETRY Symmetric
INVARIANTS RouteFollows GoalIsShown BusyIsTrue ActiveExists SavedIsShown
CHECK_DEADLOCK FALSE
