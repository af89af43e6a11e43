\* Which credential a rotation replaces.
CONSTANTS
    Calls = {1, 2}
    MaxSteps = 4
SPECIFICATION Spec
PROPERTIES RotatesNamed
CHECK_DEADLOCK FALSE
