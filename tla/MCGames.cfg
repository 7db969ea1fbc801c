SPECIFICATION MCSpec
CONSTANTS
    none = none
    door = door
    match = match
    story = story
    ring = ring
    score = score
    page1 = page1
    page2 = page2
    board = board
    key = key
    None <- none
    Sources <- MCSources
    Layouts <- MCLayouts
    Boards = {board}
    Keys = {key}
    Policy <- MCPolicy
    KeyOfSource <- MCKeyOfSource
    JoinHoldSources <- GameSources
    LockTtl = 2
    QuietExempt = {}
    Cards <- MCCards
    LabelOf <- MCLabelOf
    RateWindow = 1
    BoardDwell = 0
    RotationGap = 0
    CoalesceWindow = 1
    RetryDelays <- MCRetryDelays
    UnhealthyRetry = 1
    FailuresBeforeUnhealthy = 1
    MaxItems = 2
    MaxBatch = 6
    GameTypes = {"scramble", "prompts", "wheel", "hangman"}
    Settings <- MCSettings
    SourceOf <- MCSourceOf
    Looks = {1}
    MaxFreeSpins = 1
    Consonants = 1
    Vowels = 1
    Letters = 2
    Lives = 2
    WordSetter = TRUE
    SubmitCap = 1
    MaxPhones = 1
    MaxJoined = 4
    Moves = 4
    BoardMoves = 3
INVARIANTS
    GamesTypeOK
    TurnIsLive
    WritingWaitsForSomebody
    EveryRoundScoredOnce
PROPERTIES
    TakenBoardEndsGame
    ClosedGameLetsGo
    PhaseKeepsItsTime
    IdleMeansIdle
    PartyEnds
CHECK_DEADLOCK FALSE
