SPECIFICATION NSpec
CONSTANTS
    t1 = t1
    t2 = t2
    Threads <- MCThreads
    Keys <- MCKeys
    Proxies <- MCProxies
    Addresses <- MCUsable
    Applications = {"Paper", "ingress", "MobileSafari"}
    Script <- MCScript
    Null = Null
    Direct = Direct
    NoEntry = NoEntry
    NoKey = NoKey
    Endpoints <- MCEndpoints
    Calls <- MCCalls
    MaxDepth = 2
    localhost = "localhost"
    own_name = "device"
    inet_ntop <- MCText
    inet_aton <- MCLiteral
    addr_to_name <- MCTable
    NoName = NoName
    NoAddress = NoAddress
    Pieces <- MCPieces
    toLowerCase <- Lower
    proxies <- Sample
    internalNetworks <- SampleNetworks
    internalDomains <- SampleInternal
    blockedApps = {"Paper"}
    ingress = "ingress"
    blockedDomains <- SampleBlocked
    inherited <- SampleInherited
    NoResult = Null
    Unresolved = Unresolved
    Spelling <- MCSpelling
    Resolution <- MCResolution
    Elsewhere <- MCElsewhere
SYMMETRY MCSymmetry
CONSTRAINTS TwoKeys TwoUpdates
INVARIANTS CacheSound AnswerSound AsksOnce SettingsFit NeverDangles ListedStayDirect PolicyHolds
PROPERTY CachePersists
