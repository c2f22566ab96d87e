----------------------------- MODULE Aggregator -----------------------------
(***************************************************************************)
(* analyze_benchmarks.py: main() reads target/criterion, one directory per *)
(* benchmark holding base/estimates.json and/or new/estimates.json, builds *)
(* the results table (parse_criterion_results) and the markdown summary    *)
(* (generate_summary, format_throughput), and writes it out.               *)
(*                                                                         *)
(* A benchmark name is the sequence of its '_'-separated tokens.  Times    *)
(* are kept in the file's nanoseconds: the code's division by 1e6 is a     *)
(* scaling that preserves zero and order, and a throughput value           *)
(* per_iteration / ((ns / 1e6) / 1000) is compared with a power of ten by  *)
(* cross-multiplying.  The code computes it in binary floating point: when *)
(* the exact value is not the power of ten, the rounded one lies on the    *)
(* same side of it (integer inputs below 2^31 are too far apart for a few  *)
(* rounding errors to cross), and when it is exactly the power of ten the  *)
(* rounded quotient may fall on either side, which the model leaves open.  *)
(* Text layout (titles, two-decimal rendering, sort order of lines) is     *)
(* left out.                                                               *)
(***************************************************************************)
EXTENDS Naturals, Sequences, FiniteSets

CONSTANTS
    Names,     \* the benchmark directory names, as token sequences
    Report,    \* the name of Criterion's own 'report' directory
    Tag,       \* the token 'monocoque'
    PairTag,   \* the tokens that replace it: <<'zmq', 'rs'>>
    Dirs,      \* the criterion directories the script may find
    Absent,    \* a key missing from estimates.json, or a missing file
    Malformed  \* an estimates.json that is not valid JSON

Units == {"bytes", "elements"}

(* The fields of an estimates.json that the script reads.                  *)
EstFile == [point : Nat \cup {Absent}, lower : Nat \cup {Absent},
            upper : Nat \cup {Absent}, per : Nat \cup {Absent},
            unit : Units \cup {Absent}]

Snapshot == [base : EstFile \cup {Absent, Malformed},
             new : EstFile \cup {Absent, Malformed}]

ASSUME AggregatorAssumption ==
    /\ Report \in Names
    /\ Dirs \subseteq [Names -> Snapshot]
    /\ Dirs # {}
    /\ Absent \notin Nat \cup Units
    /\ Malformed \notin EstFile \cup {Absent}

VARIABLES
    pc,        \* "start", "summary", "write", "done", "crashed"
    found,     \* criterion_dir.exists()
    dir,       \* the directory contents
    results,   \* parse_criterion_results(...)
    report,    \* generate_summary(...)
    written    \* what BENCHMARK_SUMMARY.md holds

vars == <<pc, found, dir, results, report, written>>

(* A parsed entry: mean and its bounds in ns, the throughput fields.       *)
Entry == [mean : Nat, lower : Nat, upper : Nat, per : Nat \cup {Absent},
          unit : Units \cup {Absent}]

(* dict.get(key, 0)                                                        *)
GetOr0(v) == IF v = Absent THEN 0 ELSE v

Contains(name, tok) == \E i \in DOMAIN name : name[i] = tok

(* name.replace('monocoque', 'zmq_rs'); the second .replace of the line   *)
(* ('_monocoque_' -> '_zmq_rs_') never finds anything left to replace.     *)
ReplaceTag(name) ==
    LET Piece(t) == IF t = Tag THEN PairTag ELSE <<t>>
        replaced[k \in 0..Len(name)] ==
            IF k = 0 THEN <<>> ELSE replaced[k - 1] \o Piece(name[k])
    IN  replaced[Len(name)]

Counterpart(n) == ReplaceTag(n)

(* base/estimates.json if it exists, else new/estimates.json.              *)
Chosen(n) == IF dir[n].base # Absent THEN dir[n].base ELSE dir[n].new

(* The results row: mean.get('point_estimate', 0) and the                  *)
(* confidence_interval bounds, each defaulting to 0.                       *)
Row(f) == [mean |-> GetOr0(f.point), lower |-> GetOr0(f.lower),
           upper |-> GetOr0(f.upper), per |-> f.per, unit |-> f.unit]

(* Mutant: the 'report' directory is not skipped.                          *)
ParsedKeepingReport == {n \in Names : Chosen(n) # Absent}

(* The directories that yield a row: not 'report', with an estimates file. *)
Parsed == {n \in Names \ {Report} : Chosen(n) # Absent}

Mean(n) == results[n].mean

(* data['throughput'] and 'per_iteration' in tp, with unit defaulting to   *)
(* 'bytes'.                                                                *)
HasRate(n) == results[n].per # Absent
RateUnit(n) == IF results[n].unit = Absent THEN "bytes" ELSE results[n].unit
RateNames == {n \in DOMAIN results : HasRate(n)}

(* value >= 10^e for value = per_iteration / ((ns / 1e6) / 1000) in      *)
(* floating point: the outcomes the rounded quotient can give.             *)
AtLeast(per, ns, e) ==
    IF per * 10^(9 - e) = ns THEN BOOLEAN ELSE {per * 10^(9 - e) > ns}

(* format_throughput: the powers of ten the value may be divided by.       *)
ScaleExps(per, ns, unit) ==
    IF unit = "bytes"
    THEN {IF a THEN 9 ELSE IF b THEN 6 ELSE 3 :
              a \in AtLeast(per, ns, 9), b \in AtLeast(per, ns, 6)}
    ELSE {IF a THEN 6 ELSE IF b THEN 3 ELSE 0 :
              a \in AtLeast(per, ns, 6), b \in AtLeast(per, ns, 3)}

(* One outcome of format_throughput for every throughput of the table; the *)
(* pipelined highlight recomputes the same expression, so it gets the same *)
(* unit as the benchmark's own line.                                       *)
Roundings == {f \in [RateNames -> {0, 3, 6, 9}] :
                 \A n \in RateNames :
                     f[n] \in ScaleExps(results[n].per, Mean(n), RateUnit(n))}

(* A monocoque benchmark whose zmq_rs counterpart has results.             *)
Paired == {n \in DOMAIN results : Contains(n, Tag)
                                  /\ Counterpart(n) \in DOMAIN results}

(* speedup = zmq_time / mono_time; speedup > 1 prints "faster".            *)
Faster(n) == Mean(Counterpart(n)) > Mean(n)

(* A ZeroDivisionError escapes generate_summary: a throughput line over a  *)
(* zero mean, a speedup over a zero monocoque mean, or 1/speedup for a     *)
(* zero counterpart mean.                                                  *)
DividesByZero ==
    \/ \E n \in RateNames : Mean(n) = 0
    \/ \E n \in Paired : Mean(n) = 0 \/ Mean(Counterpart(n)) = 0

Pipelined == {n \in RateNames : Contains(n, "pipelined")}

RateLine(n, exps) == [unit |-> RateUnit(n), exp |-> exps[n]]

Summary(exps) ==
    [rates       |-> [n \in RateNames |-> RateLine(n, exps)],
     highlights  |-> [n \in Pipelined |-> RateLine(n, exps)],
     comparisons |-> {[name |-> n, faster |-> Faster(n)] : n \in Paired}]

TypeOK ==
    /\ pc \in {"start", "summary", "write", "done", "crashed"}
    /\ found \in BOOLEAN
    /\ dir \in Dirs
    /\ DOMAIN results \subseteq Names \ {Report}
    /\ \A n \in DOMAIN results : results[n] \in Entry

Init ==
    /\ pc = "start"
    /\ found \in BOOLEAN
    /\ dir \in Dirs
    /\ results = <<>>
    /\ report = Absent
    /\ written = Absent

(* main: criterion_dir.exists() fails; print and return.                   *)
NotFound ==
    /\ pc = "start"
    /\ ~found
    /\ pc' = "done"
    /\ UNCHANGED <<found, dir, results, report, written>>

(* results = parse_criterion_results(criterion_dir); json.load raises on a *)
(* malformed file, base or new alike, and nothing catches it.              *)
Parse ==
    /\ pc = "start"
    /\ found
    /\ IF \E n \in Parsed : Chosen(n) = Malformed
         THEN pc' = "crashed" /\ UNCHANGED results
         ELSE /\ results' = [n \in Parsed |-> Row(Chosen(n))]
              /\ pc' = "summary"
    /\ UNCHANGED <<found, dir, report, written>>

(* summary = generate_summary(results), or the script dies.                *)
Summarize ==
    /\ pc = "summary"
    /\ IF DividesByZero
         THEN pc' = "crashed" /\ UNCHANGED report
         ELSE /\ pc' = "write"
              /\ \E exps \in Roundings : report' = Summary(exps)
    /\ UNCHANGED <<found, dir, results, written>>

(* output_file.write_text(summary); print(summary).                        *)
Write ==
    /\ pc = "write"
    /\ written' = report
    /\ pc' = "done"
    /\ UNCHANGED <<found, dir, results, report>>

Done ==
    /\ pc \in {"done", "crashed"}
    /\ UNCHANGED vars

Next == NotFound \/ Parse \/ Summarize \/ Write \/ Done

Spec == Init /\ [][Next]_vars

(***************************************************************************)
(* Properties.                                                             *)
(***************************************************************************)

(* Spec 4.4's unit of a throughput: the largest whose threshold the      *)
(* exact value per_iteration / mean reaches.                               *)
SpecExp(per, ns, unit) ==
    LET reaches(e) == per * 10^(9 - e) >= ns
    IN  IF unit = "bytes"
        THEN IF reaches(9) THEN 9 ELSE IF reaches(6) THEN 6 ELSE 3
        ELSE IF reaches(6) THEN 6 ELSE IF reaches(3) THEN 3 ELSE 0

(* Every throughput line of the written summary is in the unit spec 4.4    *)
(* gives its value (">= 1e6 -> MiB/s" and so on), as computed by           *)
(* generate_summary's value / (mean / 1000) and format_throughput.         *)
UnitAsSpecified ==
    written # Absent =>
        \A n \in DOMAIN written.rates :
            written.rates[n].exp =
                SpecExp(results[n].per, results[n].mean, written.rates[n].unit)

(* The script writes the summary whenever target/criterion exists: a       *)
(* benchmark with missing data is left out, not fatal to the run.          *)
NoAbort == pc # "crashed"
=============================================================================
