SPECIFICATION LinkSpec
CONSTANTS
    r1 = r1
    r2 = r2
    Requests = {r1, r2}
    Target <- SameCommand
    Retry = 1
    Pairs = {p1}
    Unselected = Unselected
    NoRequest = NoRequest
    MaxGeneration = 2
    MaxChannel = 2
    Lookup <- SomeLookup
    Models <- SomeModels
    Costs <- SomeCosts
    OrderModels <- SomeOrderModels
    CoeffModels <- SomeCoeffModels
    OrderCosts <- SomeOrderCosts
    CoeffCosts <- SomeCoeffCosts
    Frames <- SomeFrames
    Damages <- SomeDamages
    Unwritten = 165
INVARIANTS
    ResponseMatchesRequest
    NotWrittenIsTrue
    OneUncertainWritePerKey
    RoundTrip
    DecodedIsUsable
PROPERTIES
    EveryRequestReturns
CHECK_DEADLOCK FALSE
