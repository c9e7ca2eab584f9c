CONSTANTS
    p1 = p1
    p2 = p2
    p3 = p3
    Platforms <- MCPlatforms
    Matrix <- MCMatrix
    Host = p1
    MainBin = MainBin
    None = None
    NoPlatform = NoPlatform
    MaxRuns = 2

SPECIFICATION Spec

INVARIANT TypeOK
INVARIANT FailFast
INVARIANT MatrixOutcome
INVARIANT KnownGoodInfo
PROPERTY Termination  StepProgress

\* After its last invocation build.py is not run again.
CHECK_DEADLOCK FALSE
