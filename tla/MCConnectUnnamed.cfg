SPECIFICATION Spec
CONSTANTS
    Threads = {t1, t2}
    Fds = {0, 1, 2, 3}
    Targets = {d1, d2}
    Unnamed = {d2}
    MaxAddrs = 1
    AppAborts = FALSE
    NoPeer = NoPeer
    Closed = Closed
    NoFd = NoFd
PROPERTY OthersUntouched
