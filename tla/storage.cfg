SPECIFICATION Spec
CONSTANTS
    CommitIntervals = {1, 2}
    Day = 2
    RetentionDays = 1
    SummaryInterval = 1
    Steps = {1}
    MaxFaults = 1
    MaxChanges = 1
    Horizon = 6
INVARIANTS TypeOK AtMostOnce NothingLost LossBounded RetentionBound DailyIsBacked
PROPERTIES LastSampleStays
