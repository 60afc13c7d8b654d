SPECIFICATION QuotaFairSpec
CONSTANTS
    HourLen = 2
    DayLen = 2
    MonthLen = 4
    MaxNow = 4
    Retention = 4
    Absent = Absent
    QuotaScenarios <- WindowScenarios
CHECK_DEADLOCK FALSE
INVARIANTS QuotaTypeOK NoOvercharge
PROPERTIES Reopens Closes
