SPECIFICATION SpecH
CONSTANTS
    Backends = {b1}
    Policies = {p1}
    Kids = {kid1}
    Urls = {u1}
    NoUrl = NoUrl
    p1 = p1
    p2 = p2
    kid1 = kid1
    kid2 = kid2
    u1 = u1
    u2 = u2
    bodyA = bodyA
    bodyB = bodyB
    bodyC = bodyC
    JwksBodies = {bodyA, bodyB}
    Verdict <- MCVerdict
    MetaLifetimes <- Long
    JwksLifetimes <- Plain
    Oversized = {}
    Keys <- AllKeys
    Payloads <- Document
    NoKey = NoKey
    NoPayload = NoPayload
    Capacity = 2
    TimeMax = 9
    Horizon = 2
    SerialMax = 2
    WaitTimeout = 1
    Grace = 1
    Cooldown = 1
PROPERTIES
    CooldownLimitsMisses
