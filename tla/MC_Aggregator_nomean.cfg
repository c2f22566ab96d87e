\* A Criterion estimates file without its mean object.
\* The summary must still be written.
CONSTANTS
    AbsentVal = AbsentVal
    Absent <- AbsentVal
    MalformedVal = MalformedVal
    Malformed <- MalformedVal
    Names <- MCNames
    Report <- MCReport
    Tag = "monocoque"
    PairTag <- MCPairTag
    Dirs <- MCDirsNoMean
SPECIFICATION Spec
INVARIANT NoAbort
