\* Report contents of analyze_benchmarks.py over every combination of
\* base/new snapshots for four benchmark directories.
CONSTANTS
    AbsentVal = AbsentVal
    Absent <- AbsentVal
    MalformedVal = MalformedVal
    Malformed <- MalformedVal
    Names <- MCNames
    Report <- MCReport
    Tag = "monocoque"
    PairTag <- MCPairTag
    Dirs <- MCDirs
SPECIFICATION Spec
INVARIANT TypeOK
