SPECIFICATION PlanSpec
CONSTANTS
    Lookback = 1
    WeekOf <- MCWeekOf
    Fridays <- MCFridays
    Shapes <- MCShapes
    Pasts <- MCPasts
    FreeSessions = 5
    AtrPeriod = 2
    Extensions <- MCExtensions
    MinUpside = 50
    MinReward = 2
INVARIANTS
    EventsMoveForward
    InvalidationOnlyRises
    PlansAreCausal
    EventsHavePlans
CHECK_DEADLOCK FALSE
