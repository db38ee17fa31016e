SPECIFICATION ProgramSpec
CONSTANTS
    Paths = {out}
    DefaultPath = default
    ConfiguredPath = out
    MaxRuns = 2
    NoFile = NoFile
    Files <- OneOff
    MaxEdits = 1
CHECK_DEADLOCK FALSE
INVARIANT ProgramTypeOK
INVARIANT OneRunPerNumber
INVARIANT LatestFirst
PROPERTY RecordsKept
