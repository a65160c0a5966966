\* Two instances whose databases have different names, with a table each at first, and
\* three events of the user.
SPECIFICATION Spec
CONSTANTS
    Listing <- TwoInstances
    AtFirst = {1, 4}
    MaxClicks = 3
INVARIANTS SelectionAgrees ResultsOfSelection LoadingIsTrue FieldsOfSelection GoalIsSelected TabsAreStored
CHECK_DEADLOCK FALSE
