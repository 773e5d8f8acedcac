SPECIFICATION Spec
CONSTANTS
    Cleaners <- SomeCleaners
    Areas <- SomeAreas
    MaxSize = 1
    MinFree = 1
    MaxOthers = 1
    Base = 4
    Chunk = 21
INVARIANT TypeOK
INVARIANT EveryoneReports
INVARIANT TakesWhenDue
INVARIANT CountsTaken
INVARIANT ResultsTellRun
PROPERTY TurnSpec
