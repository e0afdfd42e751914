SPECIFICATION Spec
CONSTANTS
    Size = 3
    MaxTime = 8
    Counts = {1, 2}
    MaxBytes = 2
PROPERTIES
    ImplementsWindow
CHECK_DEADLOCK FALSE
