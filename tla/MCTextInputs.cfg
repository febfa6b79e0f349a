SPECIFICATION Spec
CONSTANTS
    Alphabet <- MCAlphabet
    Longest <- MCLongest
    SizeMax = 6
    KeyMax = 127
    Null = Null
    MaxAudiences = 2
    MaxHosts = 2
    MaxHostLength = 2
    MaxScopes = 3
    MaxUrl = 12
CHECK_DEADLOCK FALSE
INVARIANTS
    OneSpelling
    SizeGuard
    IdentityExact
    ListsAgree
    ScopesExact
    UrlChecksAgree
    IssuerAuthorityKept
    KeysDiffer
