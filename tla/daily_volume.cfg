SPECIFICATION Spec
CONSTANTS
    CommitIntervals = {1}
    Day = 3
    RetentionDays = 1
    SummaryInterval = 1
    Steps = {1}
    MaxFaults = 0
    MaxChanges = 0
    Horizon = 6
INVARIANTS DailyTotals
