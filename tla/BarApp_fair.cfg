SPECIFICATION FairSpec
CONSTANTS
    MaxQueue = 1
    MaxPreviews = 2
    QuickClicks = TRUE
PROPERTY CleanSettles
PROPERTY CleaningLeaves
PROPERTY PreviewReported
