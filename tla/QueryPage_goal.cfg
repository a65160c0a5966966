\* Two instances that have a database of one name, two events of the user.
SPECIFICATION Spec
CONSTANTS
    Listing <- SameDatabase
    AtFirst = {1, 2, 3}
    MaxClicks = 2
INVARIANT GoalIsSelected
CHECK_DEADLOCK FALSE
