SPECIFICATION FairSpec
CONSTANTS
    Typed <- MCNames
    Valid <- MCNames
    Lower <- MCLower
    Configs = {c1, c2}
    Asked = {"Restart"}
    MaxFrames = 2
    None = None
    Deleted = Deleted
    NoName = NoName
CONSTRAINTS OneLost LostFirst
INVARIANTS JobsFromFiles UntornAgree Served ListTrue RestartInterrupts
PROPERTY Answered
