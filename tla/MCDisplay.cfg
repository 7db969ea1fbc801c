SPECIFICATION MCSpec
CONSTANTS
    news = news
    quiz = quiz
    card = card
    None = None
    Rules = {news, quiz, card}
    Terms <- MCTerms
    Files <- MCFiles
    GlobalGap = 1
    PageTimes = {2}
    MaxWait = 1
    MaxAge = 4
    Moves = 2
    MaxRules = 2
INVARIANTS
    SchedulerTypeOK
PROPERTIES
    NoEncore
    GapKept
    HumanPageStays
    AirsAgain
CHECK_DEADLOCK FALSE
