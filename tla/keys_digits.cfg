SPECIFICATION Spec
CONSTANTS
    Keys = {2, 12, 14}
    MaxPresses = 6
    MaxDown = 2
INVARIANT DigitsOnly
CHECK_DEADLOCK FALSE
