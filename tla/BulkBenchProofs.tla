--------------------------- MODULE BulkBenchProofs ---------------------------
(* Proofs about the PUB/SUB throughput benchmark of BulkBench, for every   *)
(* num_messages and every pair of high-water marks.                        *)
EXTENDS BulkBench, TLAPS

LEMMA TypeInit == Init => TypeOK
BY BenchAssumption DEF Init, TypeOK

(* Each step keeps the counters in range: the loop guards bound sent and   *)
(* received by num_messages, and a message is queued only below the mark.  *)
LEMMA TypeStep == TypeOK /\ [Next]_vars => TypeOK'
<1> SUFFICES ASSUME TypeOK, [Next]_vars PROVE TypeOK'
  OBVIOUS
<1> USE BenchAssumption DEF TypeOK
<1>1. CASE Setup
  BY <1>1 DEF Setup
<1>2. CASE Send
  BY <1>2 DEF Send
<1>3. CASE EndSend
  BY <1>3 DEF EndSend
<1>4. CASE Recv
  BY <1>4 DEF Recv
<1>5. CASE RecvAgain
  BY <1>5 DEF RecvAgain, vars
<1>6. CASE Connect
  BY <1>6 DEF Connect
<1>7. CASE Subscribe
  BY <1>7 DEF Subscribe
<1>8. CASE Transfer
  BY <1>8 DEF Transfer
<1>9. CASE Done \/ UNCHANGED vars
  BY <1>9 DEF Done, vars
<1>. QED  BY <1>1, <1>2, <1>3, <1>4, <1>5, <1>6, <1>7, <1>8, <1>9 DEF Next

(* The benchmark's counters never go out of range: sent and received stay  *)
(* within num_messages and each queue within its high-water mark, for all  *)
(* constant values.                                                        *)
THEOREM TypeCorrect == Spec => []TypeOK
BY TypeInit, TypeStep, PTL DEF Spec
=============================================================================
