\* A benchmark whose throughput is exactly 1e6 bytes/s: spec 4.4 puts it in
\* MiB/s, the rounded quotient of generate_summary may not reach 1e6.
CONSTANTS
    AbsentVal = AbsentVal
    Absent <- AbsentVal
    MalformedVal = MalformedVal
    Malformed <- MalformedVal
    Names <- MCNames
    Report <- MCReport
    Tag = "monocoque"
    PairTag <- MCPairTag
    Dirs <- MCDirsRounded
SPECIFICATION Spec
INVARIANT UnitAsSpecified
