SPECIFICATION Spec
CONSTANTS
    Threads = {t1, t2}
    Fds = {0, 1, 2, 3}
    Targets = {d1}
    Unnamed = {}
    MaxAddrs = 2
    AppAborts = FALSE
    NoPeer = NoPeer
    Closed = Closed
    NoFd = NoFd
SYMMETRY MCSymmetry
INVARIANTS NoStrays CallOutcome
PROPERTY OthersUntouched
