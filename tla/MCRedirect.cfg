SPECIFICATION RSpec
CONSTANTS
    t1 = t1
    t2 = t2
    n1 = n1
    n2 = n2
    n3 = n3
    n4 = n4
    Threads <- MCThreads
    Names <- MCNames
    addr_count = 3
    NoName = NoName
SYMMETRY MCSymmetry
INVARIANTS AnswersHold RightHost NamesLast LeadsBack WithinPool
PROPERTY ImplementsFifo
