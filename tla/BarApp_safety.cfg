SPECIFICATION Spec
CONSTANTS
    MaxQueue = 3
    MaxPreviews = 0
    QuickClicks = TRUE
INVARIANT TypeOK
INVARIANT OneClean
INVARIANT ResultsHavePage
INVARIANT Footprint
INVARIANT DismissArmed
INVARIANT NotStuckCleaning
PROPERTY NoReopen
PROPERTY SessionSpec
