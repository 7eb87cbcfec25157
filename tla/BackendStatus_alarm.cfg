SPECIFICATION FairSpec
CONSTANTS
    Threshold = 3
    MinAge = 2
    Escalation = 1
    MaxPolls = 2
    MaxTrouble = 3
    Nothing = Nothing
INVARIANTS
    TypeOK
    NoFalseAlarm
    OutageOver
PROPERTIES
    Recovers
    Alarms
