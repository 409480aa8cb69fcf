SPECIFICATION Spec
CONSTANTS
    Counts = {1, 2, 3}
    Failures <- AllFailures
    None = None
    Requests <- AllRequests
    Codes = {199, 200, 299, 300, 401, 404}
    Bodies <- BodiesOfThree
    ServiceTime <- Now
INVARIANTS
    TypeOK
    OutcomeIsExpected
    NothingLeftBehind
    EveryTimedStopTimeOnce
    StatusTellsArrivals
    ArrivalsFitStopTimes
PROPERTY CallReturns
CHECK_DEADLOCK FALSE
