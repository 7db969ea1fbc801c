SPECIFICATION MCSpec
CONSTANTS
    None = None
    hall = hall
    kitchen = kitchen
    news = news
    recipe = recipe
    alarm = alarm
    identity = identity
    BoardList <- MCBoardList
    Layouts = {news, recipe, alarm, identity}
    Pages <- MCPages
    Identity = identity
    Unshowable <- MCUnshowable
    RateWindow = 1
    MaxFailures = 2
    Moves = 2
    Offers = 2
    Good = kitchen
INVARIANTS
    HubTypeOK
PROPERTIES
    AimIsKept
    ShownMeansShown
    LineMovesOn
CHECK_DEADLOCK FALSE
