SPECIFICATION Spec
CONSTANTS
    Loads <- PatientAndNot
    MaxSteppers = 2
    MaxRuns = 2
    MaxTicks = 2
    MaxLines = 2
INVARIANTS
    StepsAreConserved
    OneLateStep
PROPERTIES
    QuitChildEnds
    EndIsNoticed
CHECK_DEADLOCK FALSE
