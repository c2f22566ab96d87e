-------------------------- MODULE AggregatorProofs --------------------------
(***************************************************************************)
(* Proofs, for every criterion directory the script can find, that        *)
(* parse_criterion_results builds a well-typed results table: one row per *)
(* benchmark directory other than 'report', with numbers where the script  *)
(* reads them.                                                             *)
(***************************************************************************)
EXTENDS Aggregator, TLAPS

(***************************************************************************)
(* Typing.                                                                 *)
(***************************************************************************)

(* A directory with an estimates file yields a row of the results table:   *)
(* the file chosen (base, else new) has the fields the script reads, and   *)
(* each .get(..., 0) gives a number.                                      *)
LEMMA RowType ==
    ASSUME TypeOK, NEW n \in Names, Chosen(n) \notin {Absent, Malformed}
    PROVE  Row(Chosen(n)) \in Entry
<1>1. dir[n] \in Snapshot
    BY AggregatorAssumption DEF TypeOK
<1>2. Chosen(n) \in EstFile
    BY <1>1 DEF Chosen, Snapshot
<1>3. \A v \in Nat \cup {Absent} : GetOr0(v) \in Nat
    BY DEF GetOr0
<1>. QED
    BY <1>2, <1>3 DEF Row, Entry, EstFile

LEMMA TypeStep == TypeOK /\ [Next]_vars => TypeOK'
<1> SUFFICES ASSUME TypeOK, [Next]_vars PROVE TypeOK'
    OBVIOUS
<1>1. CASE Parse
    <2>1. CASE \E n \in Parsed : Chosen(n) = Malformed
        BY <1>1, <2>1 DEF Parse, TypeOK
    <2>2. CASE \A n \in Parsed : Chosen(n) # Malformed
        <3>1. \A n \in Parsed : Row(Chosen(n)) \in Entry
            BY <2>2, RowType DEF Parsed
        <3>. QED
            BY <1>1, <2>2, <3>1 DEF Parse, TypeOK, Parsed
    <2>. QED
        BY <2>1, <2>2
<1>2. CASE NotFound \/ Summarize \/ Write \/ Done \/ UNCHANGED vars
    BY <1>2 DEF NotFound, Summarize, Write, Done, vars, TypeOK
<1>. QED
    BY <1>1, <1>2 DEF Next

(* The script's steps keep the state well typed.                           *)
THEOREM TypeCorrect == Spec => []TypeOK
<1>1. Init => TypeOK
    BY DEF Init, TypeOK
<1>. QED
    BY <1>1, TypeStep, PTL DEF Spec

=============================================================================
