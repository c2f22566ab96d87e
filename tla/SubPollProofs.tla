---------------------------- MODULE SubPollProofs ----------------------------
(***************************************************************************)
(* Proofs about test_monocoque_pub_to_libzmq_sub (module SubPoll): every   *)
(* reachable state is well typed, for every number of messages published   *)
(* and with or without publisher crashes.                                  *)
(***************************************************************************)
EXTENDS SubPoll, SequenceTheorems, TLAPS

LEMMA TypeInit == Init => TypeOK
<1> SUFFICES ASSUME Init PROVE TypeOK
  OBVIOUS
<1>1. <<>> \in Seq(1..MaxPub) /\ Len(<<>>) = 0
  BY EmptySeq
<1>2. pc \in {"start", "connect", "recv", "stop", "wait", "done", "error"}
      /\ again \in BOOLEAN /\ subscribed \in BOOLEAN
  BY DEF Init
<1>3. sent \in 0..MaxPub
  BY SubPollAssumption DEF Init
<1>4. HarnessTypeOK
  BY DEF Init, HarnessInit, HarnessTypeOK, ProcStates
<1>5. received = <<>> /\ queue = <<>>
  BY DEF Init
<1>. QED  BY <1>1, <1>2, <1>3, <1>4, <1>5 DEF TypeOK, NRecv

(* The receive loop takes at most five messages, and a publish delivers    *)
(* only the numbers up to MaxPub.                                          *)
LEMMA TypeStep == TypeOK /\ [Next]_vars => TypeOK'
<1> SUFFICES ASSUME TypeOK, [Next]_vars PROVE TypeOK'
  OBVIOUS
<1>. USE DEF TypeOK, HarnessTypeOK, ProcStates, testVars, pubVars,
             harnessVars
<1>2. CASE RecvFirst
  <2>1. /\ queue # <<>> /\ received = <<>>
        /\ received' = Append(received, Head(queue)) /\ queue' = Tail(queue)
        /\ UNCHANGED <<pc, again, subscribed, sent, proc, sigterm>>
    BY <1>2 DEF RecvFirst
  <2>2. Head(queue) \in 1..MaxPub /\ Tail(queue) \in Seq(1..MaxPub)
    BY <2>1, HeadTailProperties
  <2>3. received' \in Seq(1..MaxPub) /\ Len(received') = 1
    BY <2>1, <2>2, AppendProperties, EmptySeq
  <2>. QED  BY <2>1, <2>2, <2>3 DEF NRecv
<1>3. CASE RecvNoBlock /\ queue # <<>>
  <2>1. /\ received' = Append(received, Head(queue)) /\ queue' = Tail(queue)
        /\ Len(received) < NRecv
        /\ UNCHANGED <<pc, again, subscribed, sent, proc, sigterm>>
    BY <1>3 DEF RecvNoBlock
  <2>2. Head(queue) \in 1..MaxPub /\ Tail(queue) \in Seq(1..MaxPub)
    BY <1>3, HeadTailProperties
  <2>3. received' \in Seq(1..MaxPub) /\ Len(received') = Len(received) + 1
    BY <2>1, <2>2, AppendProperties
  <2>. QED  BY <2>1, <2>2, <2>3 DEF NRecv
<1>4. CASE RecvNoBlock /\ queue = <<>>
  <2>1. UNCHANGED <<received, queue, subscribed, sent, proc, sigterm>>
        /\ pc' = "stop" /\ again' = TRUE
    BY <1>4 DEF RecvNoBlock
  <2>. QED  BY <2>1
<1>5. CASE Publish
  <2>1. /\ queue' \in {queue, Append(queue, sent + 1)} /\ sent' = sent + 1
        /\ sent < MaxPub
        /\ UNCHANGED <<pc, received, again, subscribed, proc, sigterm>>
    BY <1>5 DEF Publish
  <2>2. sent + 1 \in 1..MaxPub
    BY <2>1, SubPollAssumption
  <2>3. Append(queue, sent + 1) \in Seq(1..MaxPub)
    BY <2>2, AppendProperties
  <2>4. queue' \in Seq(1..MaxPub)
    BY <2>1, <2>3, Zenon
  <2>5. sent' \in 0..MaxPub
    BY <2>1, <2>2
  <2>. QED  BY <2>1, <2>4, <2>5
<1>6. CASE SubArrive
  BY <1>6 DEF SubArrive
<1>7. CASE Start \/ Subscribe \/ Close \/ Stop \/ WaitExit \/ WaitTimeout
  <2>1. UNCHANGED <<received, again, subscribed, sent, queue>>
    BY <1>7 DEF Start, Subscribe, Close, Stop, WaitExit, WaitTimeout
  <2>2. pc' \in {"start", "connect", "recv", "stop", "wait", "done", "error"}
    BY <1>7 DEF Start, Subscribe, Close, Stop, WaitExit, WaitTimeout
  <2>3. proc' \in ProcStates /\ sigterm' \in BOOLEAN
    BY <1>7 DEF Start, Popen, Subscribe, Close, Stop, SendSigterm, WaitExit,
                WaitTimeout
  <2>. QED  BY <2>1, <2>2, <2>3
<1>8. CASE PubBind \/ PubTerm \/ PubCrash
  <2>1. UNCHANGED <<pc, received, again, subscribed, sent, queue, sigterm>>
    BY <1>8 DEF PubBind, Bind, PubTerm, TermExit, PubCrash, Crash
  <2>2. proc' \in ProcStates
    BY <1>8 DEF PubBind, Bind, PubTerm, TermExit, PubCrash, Crash
  <2>. QED  BY <2>1, <2>2
<1>9. CASE Done \/ UNCHANGED vars
  BY <1>9 DEF Done, vars
<1>. QED  BY <1>2, <1>3, <1>4, <1>5, <1>6, <1>7, <1>8, <1>9 DEF Next

(* Every reachable state is well typed: the test never holds more than the *)
(* five messages of its loop, and the publisher never publishes past       *)
(* MaxPub.                                                                 *)
THEOREM TypeCorrect == Spec => []TypeOK
BY TypeInit, TypeStep, PTL DEF Spec
=============================================================================
