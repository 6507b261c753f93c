SPECIFICATION SSpec
CONSTANTS
    short = short
    long = long
    localhost = localhost
    t1 = t1
    t2 = t2
    a1 = a1
    Threads <- MCThreads
    Hosts <- MCHosts
    Bypassed <- MCBypassed
    Long <- MCLong
    Requests = {c1}
    Nothing = Nothing
    Addresses <- MCAddresses
    TableAddr = TableAddr
    Unusable = Unusable
    NoEntry = NoEntry
SYMMETRY MCSymmetry
INVARIANTS HostentKept CallbackFits RightAnswer CacheReal CacheIsOwn
