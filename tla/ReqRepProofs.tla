---------------------------- MODULE ReqRepProofs ----------------------------
(***************************************************************************)
(* Proofs about the REQ/REP interop tests (module ReqRep): type            *)
(* correctness, and that against a correct echo server the test never      *)
(* fails an assert, for every set of scenarios.                            *)
(***************************************************************************)
EXTENDS ReqRep, SequenceTheorems, TLAPS

(* A request of a scenario is a non-empty sequence of frames.              *)
LEMMA MsgIsMultipart ==
    ASSUME NEW m \in Msgs
    PROVE  m \in Seq(Frame) /\ Len(m) >= 1
BY ScenariosAssumption DEF Msgs, Scenario

(* The scenario's current request is one of Msgs.                          *)
LEMMA RequestInMsgs ==
    ASSUME scn \in Scenarios, cycle \in 1..Len(scn.reqs)
    PROVE  Request \in Msgs
BY ScenariosAssumption DEF Request, Msgs, Scenario

(* The server's echo is what the test expects: equal to Expected, and its  *)
(* first frame is "Echo: " followed by the request's first frame.          *)
LEMMA EchoIsExpected ==
    ASSUME NEW m \in Msgs
    PROVE  /\ EchoReply(m) = Expected(m)
           /\ Len(EchoReply(m)[1]) = Len(m[1]) + 1
           /\ EchoReply(m)[1][1] = EchoPrefix
<1>1. m \in Seq(Frame) /\ Len(m) >= 1
  BY MsgIsMultipart
<1>. DEFINE x == <<EchoPrefix>> \o m[1]
<1>2. x \in Frame /\ Len(x) = Len(m[1]) + 1 /\ x[1] = EchoPrefix
  <2>1. m[1] \in Seq(Tokens) /\ <<EchoPrefix>> \in Seq(Tokens)
    BY <1>1, ConstAssumption DEF Frame
  <2>. QED  BY <2>1, ConcatProperties DEF Frame
<1>3. EchoReply(m) = [m EXCEPT ![1] = x]
  BY DEF EchoReply
<1>4. Expected(m) = <<x>> \o Tail(m)
  BY <1>1 DEF Expected
<1>. HIDE DEF x
<1>5. /\ [m EXCEPT ![1] = x] \in Seq(Frame)
      /\ Len([m EXCEPT ![1] = x]) = Len(m)
      /\ \A j \in 1..Len(m) : [m EXCEPT ![1] = x][j] = IF j = 1 THEN x ELSE m[j]
  BY <1>1, <1>2
<1>6. /\ <<x>> \o Tail(m) \in Seq(Frame)
      /\ Len(<<x>> \o Tail(m)) = Len(m)
      /\ \A j \in 1..Len(m) : (<<x>> \o Tail(m))[j] = IF j = 1 THEN x ELSE m[j]
  BY <1>1, <1>2
<1>7. [m EXCEPT ![1] = x] = <<x>> \o Tail(m)
  BY <1>5, <1>6, SeqEqual
<1>8. [m EXCEPT ![1] = x][1] = x
  BY <1>1
<1>. QED  BY <1>2, <1>3, <1>4, <1>7, <1>8

(* Whatever the scenario, the echo of its request passes the assert.       *)
LEMMA EchoAccepted ==
    ASSUME NEW m \in Msgs
    PROVE  Accepts(EchoReply(m), m)
BY EchoIsExpected DEF Accepts

-----------------------------------------------------------------------------

(* The initial state is well typed.                                        *)
LEMMA TypeInit == Init => TypeOK
<1> SUFFICES ASSUME Init PROVE TypeOK
  OBVIOUS
<1>1. HarnessTypeOK
  BY DEF Init, HarnessInit, HarnessTypeOK, ProcStates
<1>2. scn \in Scenarios /\ cycle \in 1..Len(scn.reqs)
  BY ScenariosAssumption DEF Init, Scenario
<1>3. toRep \in Seq(Msgs) /\ held \in Msgs \cup {NoMsg} /\ toReq \in Seq(Replies)
  BY DEF Init
<1>. QED  BY <1>1, <1>2, <1>3 DEF Init, TypeOK

(* Every step, of the test or of the server, keeps the state well typed.  *)
LEMMA TypeStep == TypeOK /\ [Next]_vars => TypeOK'
<1> SUFFICES ASSUME TypeOK, [Next]_vars PROVE TypeOK'
  OBVIOUS
<1>. USE DEF TypeOK, HarnessTypeOK, ProcStates, driverVars, netVars, harnessVars
<1>1. Request \in Msgs
  BY RequestInMsgs
<1>2. CASE Start       BY <1>2 DEF Start, Popen
<1>3. CASE Connect     BY <1>3 DEF Connect
<1>4. CASE Send        BY <1>1, <1>4 DEF Send
<1>5. CASE Recv
  <2>1. toReq' \in Seq(Replies)
    BY <1>5 DEF Recv
  <2>2. cycle' \in 1..Len(scn'.reqs)
    BY <1>5, ScenariosAssumption DEF Recv, Scenario
  <2>3. pc' \in {"send", "close", "stop", "error"} /\ failed' \in BOOLEAN
    BY <1>5 DEF Recv
  <2>. QED  BY <1>5, <2>1, <2>2, <2>3 DEF Recv
<1>6. CASE Close       BY <1>6 DEF Close
<1>7. CASE Stop        BY <1>7 DEF Stop, SendSigterm
<1>8. CASE WaitExit    BY <1>8 DEF WaitExit
<1>9. CASE WaitTimeout BY <1>9 DEF WaitTimeout
<1>10. CASE ServerBind BY <1>10 DEF ServerBind, Bind
<1>11. CASE ServerRecv BY <1>11 DEF ServerRecv
<1>12. CASE ServerReply
  <2>1. EchoReply(held) \in Replies
    BY <1>12 DEF ServerReply, Replies
  <2>. QED  BY <1>12, <2>1 DEF ServerReply
<1>13. CASE ServerTerm  BY <1>13, ConstAssumption DEF ServerTerm, TermExit, Alive
<1>14. CASE ServerCrash BY <1>14, ConstAssumption DEF ServerCrash, Crash, Alive
<1>15. CASE Done        BY <1>15 DEF Done, vars, harnessVars
<1>16. CASE UNCHANGED vars BY <1>16 DEF vars, harnessVars
<1>. QED
  BY <1>2, <1>3, <1>4, <1>5, <1>6, <1>7, <1>8, <1>9, <1>10, <1>11,
     <1>12, <1>13, <1>14, <1>15, <1>16 DEF Next

(* Every reachable state is well typed.                                    *)
THEOREM TypeCorrect == Spec => []TypeOK
BY TypeInit, TypeStep, PTL DEF Spec

-----------------------------------------------------------------------------
(***************************************************************************)
(* No false mismatch.  NoFalseMismatch alone is not inductive: a reply of  *)
(* an earlier cycle left on the wire, or a second request queued behind    *)
(* the first, would make the next assert fail.  Lockstep rules both out   *)
(* (one message at a time, none while the test is not in recv) and         *)
(* CycleIntegrity says that the one message belongs to the current cycle.  *)
(***************************************************************************)

LEMMA IInvInit == Init => IInv
<1> SUFFICES ASSUME Init PROVE IInv
  OBVIOUS
<1>1. TypeOK
  BY TypeInit
<1>2. InFlight = 0
  BY DEF Init, InFlight
<1>. QED  BY <1>1, <1>2 DEF Init, IInv, Lockstep, CycleIntegrity, NoFalseMismatch

LEMMA IInvStep == IInv /\ [Next]_vars => IInv'
<1> SUFFICES ASSUME IInv, [Next]_vars PROVE IInv'
  OBVIOUS
<1>1. TypeOK'
  BY TypeStep DEF IInv
<1> SUFFICES Lockstep' /\ CycleIntegrity' /\ NoFalseMismatch'
  BY <1>1 DEF IInv
<1>. USE DEF IInv, TypeOK, driverVars, netVars, harnessVars
<1>2. Request \in Msgs
  BY RequestInMsgs
<1>3. Len(toRep) \in Nat /\ Len(toReq) \in Nat
  OBVIOUS
<1>4. CASE Send
  <2>1. toRep = <<>> /\ held = NoMsg /\ toReq = <<>>
    BY <1>4 DEF Send, Lockstep, InFlight
  <2>2. toRep' = <<Request>> /\ held' = NoMsg /\ toReq' = <<>>
    BY <1>4, <2>1 DEF Send
  <2>3. InFlight' = 1 /\ pc' = "recv"
    BY <1>4, <2>2 DEF Send, InFlight
  <2>4. CycleIntegrity'
    BY <1>4, <2>2 DEF Send, CycleIntegrity, Request
  <2>. QED  BY <1>4, <2>3, <2>4 DEF Send, Lockstep, NoFalseMismatch
<1>5. CASE Recv
  <2>1. Len(toReq) = 1 /\ toRep = <<>> /\ held = NoMsg
    <3>1. Len(toReq) >= 1
      BY <1>5 DEF Recv
    <3>2. InFlight <= 1
      BY DEF Lockstep
    <3>3. CASE held = NoMsg
      <4>1. InFlight = Len(toRep) + Len(toReq)
        BY <3>3 DEF InFlight
      <4>2. toRep \in Seq(Msgs)
        OBVIOUS
      <4>3. Len(toRep) = 0
        BY <1>3, <3>1, <3>2, <4>1
      <4>. QED  BY <3>3, <4>1, <4>2, <4>3, <3>1, <3>2, <1>3
    <3>4. CASE held # NoMsg
      <4>1. InFlight = Len(toRep) + 1 + Len(toReq)
        BY <3>4 DEF InFlight
      <4>. QED  BY <1>3, <3>1, <3>2, <4>1
    <3>. QED  BY <3>3, <3>4
  <2>2. Head(toReq) = EchoReply(Request)
    BY <1>5, <2>1 DEF Recv, CycleIntegrity
  <2>3. Accepts(Head(toReq), Request)
    BY <1>2, <2>2, EchoAccepted
  <2>4. toReq' = <<>> /\ failed' = FALSE /\ pc' \in {"send", "close"}
    BY <1>5, <2>1, <2>3 DEF Recv
  <2>5. InFlight' = 0
    BY <1>5, <2>1, <2>4 DEF Recv, InFlight
  <2>. QED  BY <1>5, <2>1, <2>4, <2>5 DEF Recv, Lockstep, CycleIntegrity, NoFalseMismatch
<1>6. CASE ServerRecv
  <2>1. held = NoMsg /\ Len(toRep) >= 1 /\ toRep[1] = Request
    BY <1>6 DEF ServerRecv, CycleIntegrity
  <2>2. Len(toRep') = Len(toRep) - 1 /\ held' = Request /\ toReq' = toReq
    BY <1>6, <2>1 DEF ServerRecv
  <2>3. InFlight' = InFlight
    BY <1>2, <1>3, <2>1, <2>2, ConstAssumption DEF InFlight
  <2>4. \A k \in DOMAIN toRep' : toRep'[k] = Request
    BY <1>6 DEF ServerRecv, CycleIntegrity
  <2>. QED  BY <1>6, <2>2, <2>3, <2>4 DEF ServerRecv, Lockstep, CycleIntegrity, NoFalseMismatch, Request
<1>7. CASE ServerReply
  <2>1. held = Request /\ held' = NoMsg /\ toRep' = toRep
    BY <1>7 DEF ServerReply, CycleIntegrity
  <2>2. toReq' = Append(toReq, EchoReply(Request))
    BY <1>7, <2>1 DEF ServerReply
  <2>3. InFlight' = InFlight
    BY <1>2, <1>3, <2>1, <2>2, ConstAssumption DEF InFlight
  <2>4. \A k \in DOMAIN toReq' : toReq'[k] = EchoReply(Request)
    BY <2>2 DEF CycleIntegrity
  <2>. QED  BY <1>7, <2>1, <2>3, <2>4 DEF ServerReply, Lockstep, CycleIntegrity, NoFalseMismatch, Request
<1>8. CASE ServerTerm \/ ServerCrash
  <2>1. held' = NoMsg /\ toRep' = toRep /\ toReq' = toReq /\ UNCHANGED driverVars
    BY <1>8 DEF ServerTerm, ServerCrash
  <2>2. InFlight' = Len(toRep) + Len(toReq)
    BY <2>1 DEF InFlight
  <2>3. InFlight \in {Len(toRep) + Len(toReq), Len(toRep) + 1 + Len(toReq)}
    BY DEF InFlight
  <2>4. Lockstep'
    BY <1>3, <2>1, <2>2, <2>3 DEF Lockstep
  <2>5. CycleIntegrity'
    BY <2>1 DEF CycleIntegrity, Request
  <2>. QED  BY <2>1, <2>4, <2>5 DEF NoFalseMismatch
<1>9. CASE Start \/ Connect \/ Close \/ Stop \/ WaitExit \/ WaitTimeout
  <2>1. UNCHANGED <<scn, cycle, failed, toRep, held, toReq>>
    BY <1>9 DEF Start, Connect, Close, Stop, WaitExit, WaitTimeout
  <2>2. pc \notin {"recv"} /\ pc' # "recv"
    BY <1>9 DEF Start, Connect, Close, Stop, WaitExit, WaitTimeout
  <2>. QED  BY <2>1, <2>2 DEF Lockstep, CycleIntegrity, NoFalseMismatch, InFlight, Request
<1>10. CASE ServerBind \/ Done \/ UNCHANGED vars
  <2>1. UNCHANGED <<scn, pc, cycle, failed, toRep, held, toReq>>
    BY <1>10 DEF ServerBind, Done, vars
  <2>. QED  BY <2>1 DEF Lockstep, CycleIntegrity, NoFalseMismatch, InFlight, Request
<1>. QED  BY <1>4, <1>5, <1>6, <1>7, <1>8, <1>9, <1>10 DEF Next

(* Whatever is in flight between the test and the echo server belongs to  *)
(* the current cycle (a queued or held request is the cycle's request, a   *)
(* reply on the wire its echo), at most one message is in flight, and no   *)
(* assert has failed: for every scenario, with late starts and crashes.    *)
THEOREM IInvHolds == Spec => []IInv
BY IInvInit, IInvStep, PTL DEF Spec

(* Against a correct echo server, no assert of the test ever fails, for    *)
(* every scenario and whether or not the server starts late or dies.       *)
THEOREM NoFalseMismatchHolds == Spec => []NoFalseMismatch
BY IInvHolds, PTL DEF IInv

(* The test and the echo server stay in lockstep: at most one request or   *)
(* reply is ever in flight, and none while the test is not in recv(),      *)
(* for every scenario and with or without server crashes.                  *)
THEOREM LockstepHolds == Spec => []Lockstep
BY IInvHolds, PTL DEF IInv
=============================================================================
