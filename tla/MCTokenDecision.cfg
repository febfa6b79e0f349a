SPECIFICATION Spec
CONSTANTS
    Size <- MCSize
    Control <- MCControl
    HighControl <- MCHighControl
    Spaced <- MCSpaced
    Words <- MCWords
    Entries <- MCEntries
    HostEntries <- MCHostEntries
    ScopeToken <- MCScopeToken
    HostName <- MCHostName
    Scheme <- MCScheme
    Query <- MCQuery
    Host <- MCHost
    MetadataUrl <- MCMetadataUrl
    Worlds <- MCWorlds
    ConfigChoices <- MCConfigChoices
    HbaChoices <- MCHbaChoices
    MetadataChoices <- MCMetadataChoices
    HeaderChoices <- MCHeaderChoices
    ClaimChoices <- MCClaimChoices
    JwksChoices <- MCJwksChoices
    TokenChoices <- MCTokenChoices
    Roles <- MCRoles
    KeyPool <- MCKeyPool
    MaxKeyId = 1024
    MaxExponentBytes = 8
    MaxDocumentSize = 65536
    NameDataLen = 64
    MaxKeys = 2
    Latest = 4
    MaxChanges = 2
CHECK_DEADLOCK FALSE
INVARIANTS
    AcceptedByOneKey
    AcceptedIsEntitled
    PolicyFeedsStages
PROPERTIES
    ClockOnlyExpires
    OtherKeysIrrelevant
    PolicyMonotone
