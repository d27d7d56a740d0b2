SPECIFICATION Spec
CONSTANTS
    None = None
    Home = Home
    Work = Work
    Budgets = {Home, Work}
    Clients <- MCClients
    MCSteps = 2
    Schedules <- MCSchedules
    Start <- MCStart
    Nights <- MCNights
    Ends <- MCEnds
    Shapes <- MCShapes
    Scenarios <- MCScenarios
INVARIANTS TypeOK OnItsDays NoneMissed PostedOnce ForecastPosts
PROPERTIES DuePosts
CHECK_DEADLOCK FALSE
