SPECIFICATION LineSpec
CONSTANTS
    none = none
    story = story
    alarm = alarm
    page1 = page1
    page2 = page2
    bell = bell
    kitchen = kitchen
    hall = hall
    key = key
    None <- none
    Sources <- MCSources
    Layouts <- MCLayouts
    Boards = {kitchen}
    Keys = {key}
    Policy <- MCPolicy
    KeyOfSource <- MCKeyOfSource
    JoinHoldSources = {}
    LockTtl = 2
    QuietExempt = {alarm}
    Cards <- MCCards
    LabelOf <- MCLabelOf
    RateWindow = 1
    BoardDwell = 1
    RotationGap = 0
    CoalesceWindow = 1
    RetryDelays <- MCRetryDelays
    UnhealthyRetry = 1
    FailuresBeforeUnhealthy = 2
    MaxItems = 3
    MaxBatch = 3
INVARIANTS
    TypeOK
    PagesInOrder
PROPERTIES
    AnswerTakesOnlyItsPage
    QuietHoursKept
    PacesTheBoards
CHECK_DEADLOCK FALSE
