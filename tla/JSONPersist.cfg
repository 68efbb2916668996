SPECIFICATION Spec
CONSTANTS
    MaxSaves = 4
    Torn = Torn
INVARIANTS
    LoadsAreRecent
    OneInterruptionIsSurvived
CHECK_DEADLOCK FALSE
