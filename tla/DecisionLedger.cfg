\* One stateful run at a time: failing appends, killed processes, a late bar and symbols that leave the pool.
CONSTANTS
    a1 = a1
    a2 = a2
    a3 = a3
    b1 = b1
    c2 = c2
    g = g
    h = h
    r1 = r1
    r2 = r2
    r3 = r3
    r4 = r4
    Events <- TwoSymbols
    Symbols = {1, 2}
    SymbolOf <- MCSymbolOf
    GroupOf <- MCGroupOf
    SignalOf <- MCSignalOf
    Rank <- MCRank
    UnknownGroup = UnknownGroup
    MaxUnits = 2
    MaxGroupUnits = 1
    Entry <- TwoSymbols
    Runs = {r1, r2, r3, r4}
    LastSession = 3
    MayMiss <- LateBar
    Serialized = TRUE
    PositionsListed = TRUE
    PoolChanges = TRUE
    StorageMayFail = TRUE
    ProcessMayFail = TRUE
SYMMETRY AnyRun
SPECIFICATION Spec
INVARIANTS
    ExactlyOnce
    AtMostOneTornEvent
    RiskWithinLimits
    ReservedAfterPublication
PROPERTIES
    OnlySettlementHidesAnEvent
    ImplementsReservationBook
CHECK_DEADLOCK FALSE
