SPECIFICATION MCSpec
CONSTANTS
    None = None
    hall = hall
    kitchen = kitchen
    news = news
    recipe = recipe
    alarm = alarm
    identity = identity
    BoardList <- MCBoardList
    Layouts = {news, recipe, alarm, identity}
    Pages <- MCPages
    Identity = identity
    Unshowable <- AllShowable
    RateWindow = 1
    MaxFailures = 2
    Moves = 0
    Offers = 2
    Good = kitchen
PROPERTIES
    SameEverywhere
CHECK_DEADLOCK FALSE
