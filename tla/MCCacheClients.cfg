SPECIFICATION Spec
CONSTANTS
    Keys = {k1, k2, k3}
    Payloads = {d1}
    NoKey = NoKey
    NoPayload = NoPayload
    Capacity = 2
    TimeMax = 2
    SerialMax = 5
    Ttls <- MCTtls
    Grace = 1
    Cooldown = 1
    MaxRefreshes = 4
SYMMETRY Symmetry
INVARIANTS
    PendingKept
    SettledIsObsolete
PROPERTIES
    LiveValueStable
    CooldownSpaced
    ImplementsSingleFlight
