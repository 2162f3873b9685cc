CONSTANTS
    Absent = Absent
    MaxIndex = 3
    MaxCrashes = 1
SPECIFICATION StoreSpec
CHECK_DEADLOCK FALSE
INVARIANTS
    StateMatchesUnlessTorn
    SlotServesLearners
PROPERTIES
    WatcherCatchesUp
