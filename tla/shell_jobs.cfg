SPECIFICATION FairSpec
CONSTANTS
    Lines <- MCLines
    Big <- MCBig
    CMD_NUM = 4
    OpenMax = 8
    MaxLines = 2
INVARIANTS
    ShellTypeOK
    RunsWhatWasTyped
    PipesClosed
    NobodyLeftBehind
    WaitSucceeds
    TtyFollows
PROPERTIES
    LineEnds
CHECK_DEADLOCK FALSE
