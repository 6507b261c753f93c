SPECIFICATION Spec
CONSTANTS
    Typed <- MCMoreNames
    Valid <- MCNames
    Lower <- MCLower
    Configs = {c1, c2}
    Asked = {"Restart"}
    MaxFrames = 1
    None = None
    Deleted = Deleted
    NoName = NoName
INVARIANT SaveKeeps
