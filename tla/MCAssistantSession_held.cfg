SPECIFICATION AssistantSpec
CONSTANTS
    Flows = {f1, f2}
    MaxGeneration = 2
    MaxPages = 3
SYMMETRY Symmetry
INVARIANT LiveSessionIsHeld
CHECK_DEADLOCK FALSE
