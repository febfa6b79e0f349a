SPECIFICATION FairSpec
CONSTANTS
    Backends = {b1, b2}
    Policies = {p1}
    Kids = {kid1}
    Urls = {u1, u2}
    NoUrl = NoUrl
    p1 = p1
    p2 = p2
    kid1 = kid1
    kid2 = kid2
    u1 = u1
    u2 = u2
    bodyA = bodyA
    bodyB = bodyB
    bodyC = bodyC
    JwksBodies = {bodyA}
    Verdict <- MCVerdict
    MetaLifetimes <- Long
    JwksLifetimes <- Plain
    Oversized <- MCOversized
    Keys <- AllKeys
    Payloads <- Document
    NoKey = NoKey
    NoPayload = NoPayload
    Capacity = 2
    TimeMax = 9
    Horizon = 1
    SerialMax = 2
    WaitTimeout = 1
    Grace = 0
    Cooldown = 1
PROPERTIES
    ValidationEnds
