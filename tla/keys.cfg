SPECIFICATION FairSpec
CONSTANTS
    Keys = {0, 2, 12, 14, 15, 17}
    MaxPresses = 5
    MaxDown = 2
INVARIANTS EntryInv ViewFollowsEditor
PROPERTIES TimerSettles
CHECK_DEADLOCK FALSE
