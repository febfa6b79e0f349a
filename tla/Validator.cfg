SPECIFICATION ValidatorSpec
CONSTANTS
    Backends = {b1, b2}
    Capacities = {8, 9}
INVARIANTS
    AuthorizedAfterAllStages
    CancelledNotAuthorized
    NothingLeftBehind
    CapacityAgreed
