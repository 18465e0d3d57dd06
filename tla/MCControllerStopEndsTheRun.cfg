SPECIFICATION Spec
CONSTANTS
    Loads <- Patient
    MaxSteppers = 2
    MaxRuns = 2
    MaxTicks = 2
    MaxLines = 2
PROPERTIES
    StopEndsTheRun
CHECK_DEADLOCK FALSE
