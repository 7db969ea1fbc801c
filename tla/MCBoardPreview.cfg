SPECIFICATION RotationSpec
CONSTANTS
    none = none
    quiz = quiz
    match = match
    party = party
    door = door
    car = car
    art = art
    weather = weather
    tide = tide
    guest = guest
    question = question
    score = score
    round = round
    ring = ring
    cached = cached
    reading = reading
    canvas = canvas
    sun = sun
    moon = moon
    hello = hello
    board = board
    key = key
    bell = bell
    Offers = 3
    None <- none
    Sources <- MCSources
    Layouts <- MCLayouts
    Boards = {board}
    Keys = {key, bell}
    Policy <- MCPolicy
    KeyOfSource <- MCKeyOfSource
    JoinHoldSources = {quiz, party}
    LockTtl = 2
    QuietExempt = {}
    Cards <- MCCards
    LabelOf <- MCLabelOf
    RateWindow = 1
    BoardDwell = 1
    RotationGap = 1
    CoalesceWindow = 1
    RetryDelays <- MCRetryDelays
    UnhealthyRetry = 1
    FailuresBeforeUnhealthy = 2
    MaxItems = 3
    MaxBatch = 5
INVARIANTS
    CurrentIsOnABoard
CHECK_DEADLOCK FALSE
