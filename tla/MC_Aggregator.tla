--------------------------- MODULE MC_Aggregator ---------------------------
(* Four benchmark directories: a monocoque REQ/REP bench and its zmq_rs    *)
(* counterpart, a pipelined monocoque bench, and Criterion's report        *)
(* directory.  The estimates put throughput values exactly on the unit     *)
(* thresholds of format_throughput, and beyond either end of its scale.    *)
EXTENDS Aggregator, TLC

CONSTANTS AbsentVal, MalformedVal

MCReqMono == <<"req", "monocoque">>
MCReqZmq  == <<"req", "zmq", "rs">>
MCPipe    == <<"pipelined", "monocoque">>
MCReport  == <<"report">>
MCNames   == {MCReqMono, MCReqZmq, MCPipe, MCReport}

MCPairTag == <<"zmq", "rs">>

(* 1000 bytes per 1 ms: exactly 1e6 bytes/s.                              *)
MCEstBytes == [point |-> 1000000, lower |-> 990000, upper |-> 1010000,
               per |-> 1000, unit |-> "bytes"]
(* No throughput in the file.                                              *)
MCEstPlain == [point |-> 2000000, lower |-> 1900000, upper |-> 2100000,
               per |-> AbsentVal, unit |-> AbsentVal]
(* 1 element per 1 us: exactly 1e6 messages/s.                            *)
MCEstElems == [point |-> 1000, lower |-> 900, upper |-> 1100,
               per |-> 1, unit |-> "elements"]
(* 1024 per 1 ms, unit left to its 'bytes' default.                        *)
MCEstDefault == [point |-> 1000000, lower |-> 990000, upper |-> 1010000,
                 per |-> 1024, unit |-> AbsentVal]
(* A file with no 'mean' object.                                           *)
MCEstNoMean == [point |-> AbsentVal, lower |-> AbsentVal, upper |-> AbsentVal,
                per |-> 1000, unit |-> "bytes"]

(* 1000 elements per 1 ns: 1e12 messages/s, beyond the largest unit.       *)
MCEstHuge == [point |-> 1, lower |-> 1, upper |-> 1,
              per |-> 1000, unit |-> "elements"]
(* 1 byte per 2 ms: 500 bytes/s, below the smallest unit.  (Values stay    *)
(* below 2^31 after TLC's cross-multiplication.)                           *)
MCEstTiny == [point |-> 2000000, lower |-> 1900000, upper |-> 2100000,
              per |-> 1, unit |-> "bytes"]

(* 5 bytes per 5 us: exactly 1e6 bytes/s, but 5 / ((5000 / 1e6) / 1000)  *)
(* is 999999.9999999999 in IEEE doubles.                                   *)
MCEstRounded == [point |-> 5000, lower |-> 4900, upper |-> 5100,
                 per |-> 5, unit |-> "bytes"]

MCSnapsRead ==
    {[base |-> AbsentVal, new |-> AbsentVal],
     [base |-> MCEstBytes, new |-> AbsentVal],
     [base |-> AbsentVal, new |-> MCEstElems],
     [base |-> MCEstPlain, new |-> MCEstDefault],
     [base |-> MCEstHuge, new |-> AbsentVal],
     [base |-> AbsentVal, new |-> MCEstTiny]}

(* A base snapshot that json.load rejects; new/ is never looked at.        *)
MCSnaps == MCSnapsRead \cup {[base |-> MalformedVal, new |-> MCEstElems]}

MCDirs == [MCNames -> MCSnaps]

MCDirsRounded ==
    [MCNames -> {[base |-> AbsentVal, new |-> AbsentVal],
                 [base |-> MCEstRounded, new |-> AbsentVal]}]

MCDirsNoMean ==
    [MCNames -> MCSnapsRead \cup {[base |-> MCEstNoMean, new |-> AbsentVal]}]

=============================================================================
