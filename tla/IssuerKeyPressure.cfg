SPECIFICATION Spec
CONSTANTS
    Backends = {b1, b2}
    Policies = {p1, p2}
    Kids = {kid1}
    Urls = {u1}
    NoUrl = NoUrl
    p1 = p1
    p2 = p2
    kid1 = kid1
    kid2 = kid2
    u1 = u1
    u2 = u2
    bodyA = bodyA
    bodyB = bodyB
    bodyC = bodyC
    JwksBodies = {bodyA, bodyB}
    Verdict <- MCVerdict
    MetaLifetimes <- Long
    JwksLifetimes <- Fragile
    Oversized = {}
    Keys <- AllKeys
    Payloads <- Document
    NoKey = NoKey
    NoPayload = NoPayload
    Capacity = 2
    TimeMax = 2
    Horizon = 1
    SerialMax = 2
    WaitTimeout = 2
    Grace = 0
    Cooldown = 1
SYMMETRY Symmetry
INVARIANTS
    TypeOK
    RefreshHasOneOwner
    OwnerKeepsEntry
    AcceptedFromOwnIssuer
