SPECIFICATION FairSpec
CONSTANTS
    Threads = {t1}
    Fds = {0, 1, 2}
    Targets = {d1, d2}
    Unnamed = {d2}
    MaxAddrs = 2
    AppAborts = TRUE
    NoPeer = NoPeer
    Closed = Closed
    NoFd = NoFd
PROPERTY CallsReturn
