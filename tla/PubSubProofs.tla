---------------------------- MODULE PubSubProofs ----------------------------
(***************************************************************************)
(* Proofs about the PUB -> Monocoque SUB tests, for every scenario: type   *)
(* correctness, and that the finally block never leaves the subscriber     *)
(* running.                                                                *)
(***************************************************************************)
EXTENDS PubSub, SequenceTheorems, TLAPS

-----------------------------------------------------------------------------
(***************************************************************************)
(* Typing.                                                                 *)
(***************************************************************************)

LEMMA ScenarioFields ==
    ASSUME NEW s \in Scenarios
    PROVE  /\ s.plan \in Seq(Steps)
           /\ s.fin \in 1..Len(s.plan)
           /\ s.msgs \in Seq(Msg)
           /\ s.topic \in Msg
  BY ScenariosAssumption DEF Scenario

LEMMA TypeInit == Init => TypeOK
  <1> SUFFICES ASSUME Init PROVE TypeOK
    OBVIOUS
  <1>1. scn \in Scenarios /\ scn.msgs \in Seq(Msg) /\ scn.plan \in Seq(Steps)
    BY ScenarioFields DEF Init
  <1>2. HarnessTypeOK
    BY DEF Init, HarnessInit, HarnessTypeOK, ProcStates
  <1>3. idx \in 1..Len(scn.plan) + 1 /\ sent \in 0..Len(scn.msgs)
    BY <1>1 DEF Init
  <1>4. wire \in Seq(Msg) /\ out \in Seq(Msg)
    BY EmptySeq DEF Init
  <1>5. QED
    BY <1>1, <1>2, <1>3, <1>4 DEF Init, TypeOK

(* A step of the script leaves idx inside the plan or just past it.        *)
LEMMA ScriptStep ==
    ASSUME TypeOK, Step # "none", Advance \/ Raise, UNCHANGED scn
    PROVE  idx' \in 1..Len(scn.plan) + 1 /\ raised' \in BOOLEAN
  <1>1. scn.plan \in Seq(Steps) /\ scn.fin \in 1..Len(scn.plan)
    BY ScenarioFields DEF TypeOK
  <1>2. idx \in 1..Len(scn.plan)
    BY <1>1 DEF Step
  <1>3. Len(scn.plan) \in Nat
    BY <1>1
  <1>4. CASE Advance
    BY <1>2, <1>3, <1>4 DEF TypeOK, Advance
  <1>5. CASE Raise
    BY <1>1, <1>3, <1>5 DEF Raise
  <1>6. QED
    BY <1>4, <1>5

(* TypeOK' from its conjuncts, with the scenario fixed.                    *)
LEMMA TypeFrame ==
    ASSUME TypeOK, scn' = scn, HarnessTypeOK',
           idx' \in 1..Len(scn.plan) + 1, sent' \in 0..Len(scn.msgs),
           raised' \in BOOLEAN, pubBound' \in BOOLEAN,
           link' \in {"down", "up", "subscribed"},
           wire' \in Seq(Msg), out' \in Seq(Msg)
    PROVE  TypeOK'
  BY DEF TypeOK

(* The harness state after one of its operators, or left alone.            *)
LEMMA HarnessStep ==
    ASSUME HarnessTypeOK,
           \/ Popen \/ Bind \/ SendSigterm \/ TermExit \/ Crash \/ Kill
           \/ UNCHANGED harnessVars
    PROVE  HarnessTypeOK'
  BY DEF HarnessTypeOK, ProcStates, Popen, Bind, SendSigterm, TermExit,
         Crash, Kill, Alive, harnessVars

LEMMA TypeStep == TypeOK /\ [Next]_vars => TypeOK'
  <1> SUFFICES ASSUME TypeOK, [Next]_vars PROVE TypeOK'
    OBVIOUS
  <1>1. /\ scn.msgs \in Seq(Msg) /\ scn.plan \in Seq(Steps)
        /\ HarnessTypeOK /\ wire \in Seq(Msg) /\ out \in Seq(Msg)
        /\ sent \in 0..Len(scn.msgs) /\ idx \in 1..Len(scn.plan) + 1
        /\ raised \in BOOLEAN /\ pubBound \in BOOLEAN
        /\ link \in {"down", "up", "subscribed"}
    BY ScenarioFields DEF TypeOK
  <1>2. CASE Spawn
    BY <1>1, <1>2, ScriptStep, HarnessStep, TypeFrame DEF Spawn
  <1>3. CASE BindPub
    BY <1>1, <1>3, ScriptStep, HarnessStep, TypeFrame DEF BindPub
  <1>4. CASE Publish
    <2>1. scn.msgs[sent + 1] \in Msg
      BY <1>1, <1>4 DEF Publish
    <2>2. wire' \in Seq(Msg)
      BY <1>1, <1>4, <2>1, AppendProperties DEF Publish
    <2>3. idx \in 1..Len(scn.plan)
      BY <1>1, <1>4 DEF Publish, Step
    <2>4. idx' \in 1..Len(scn.plan) + 1 /\ raised' \in BOOLEAN
      BY <1>1, <1>4, <2>3 DEF Publish, Advance
    <2>5. sent' \in 0..Len(scn.msgs)
      BY <1>1, <1>4 DEF Publish
    <2>6. QED
      BY <1>1, <1>4, <2>2, <2>4, <2>5, HarnessStep, TypeFrame DEF Publish
  <1>5. CASE ClosePub
    BY <1>1, <1>5, ScriptStep, HarnessStep, TypeFrame DEF ClosePub
  <1>6. CASE Sigterm
    BY <1>1, <1>6, ScriptStep, HarnessStep, TypeFrame DEF Sigterm
  <1>7. CASE Communicate
    BY <1>1, <1>7, ScriptStep, HarnessStep, TypeFrame DEF Communicate
  <1>8. CASE CommunicateTimeout
    BY <1>1, <1>8, ScriptStep, HarnessStep, TypeFrame DEF CommunicateTimeout
  <1>9. CASE Check
    BY <1>1, <1>9, ScriptStep, HarnessStep, TypeFrame DEF Check
  <1>10. CASE KillSub
    BY <1>1, <1>10, ScriptStep, HarnessStep, TypeFrame DEF KillSub
  <1>11. CASE SubStart
    BY <1>1, <1>11, HarnessStep, TypeFrame DEF SubStart, driverVars
  <1>12. CASE LinkUp
    BY <1>1, <1>12, HarnessStep, TypeFrame DEF LinkUp, driverVars
  <1>13. CASE Subscribed
    BY <1>1, <1>13, HarnessStep, TypeFrame DEF Subscribed, driverVars
  <1>14. CASE SubRecv
    <2>1. Head(wire) \in Msg /\ Tail(wire) \in Seq(Msg)
      BY <1>1, <1>14, HeadTailProperties DEF SubRecv
    <2>2. out' \in Seq(Msg)
      BY <1>1, <1>14, <2>1, AppendProperties DEF SubRecv
    <2>3. QED
      BY <1>1, <1>14, <2>1, <2>2, HarnessStep, TypeFrame DEF SubRecv, driverVars
  <1>15. CASE SubExit
    BY <1>1, <1>15, HarnessStep, TypeFrame, EmptySeq DEF SubExit, driverVars
  <1>16. CASE Done \/ UNCHANGED vars
    BY <1>1, <1>16, HarnessStep, TypeFrame DEF Done, vars, harnessVars
  <1>17. QED
    BY <1>2, <1>3, <1>4, <1>5, <1>6, <1>7, <1>8, <1>9, <1>10, <1>11,
       <1>12, <1>13, <1>14, <1>15, <1>16 DEF Next

(* Every state of both tests is well typed, for all scenarios.             *)
THEOREM TypeCorrect == Spec => []TypeOK
  BY TypeInit, TypeStep, PTL DEF Spec

-----------------------------------------------------------------------------
(***************************************************************************)
(* Cleanup.  NoOrphanSubscriber is not inductive: a state at the last step *)
(* with no subscriber spawned yet satisfies it, and its KillSub leaves the *)
(* test finished with proc = "none".  Spawned is what rules that out: once *)
(* the script is past a spawn step the subscriber exists, and proc never   *)
(* goes back to "none".                                                    *)
(***************************************************************************)

(* Once the script is past a spawn step, the subscriber exists.            *)
Spawned ==
    \A i \in DOMAIN scn.plan : scn.plan[i] = "spawn" /\ i < idx => proc # "none"

CInv == TypeOK /\ Spawned /\ NoOrphanSubscriber

(* What PlanAssumption says of the scenario being run.                     *)
LEMMA PlanFacts ==
    ASSUME TypeOK
    PROVE  /\ scn.plan \in Seq(Steps) /\ Len(scn.plan) \in Nat \ {0}
           /\ scn.fin \in 1..Len(scn.plan) /\ idx \in 1..Len(scn.plan) + 1
           /\ proc \in ProcStates
           /\ scn.plan[Len(scn.plan)] = "kill"
           /\ \E i \in DOMAIN scn.plan : scn.plan[i] = "spawn"
           /\ \A i \in DOMAIN scn.plan :
                 scn.plan[i] = "spawn" =>
                     /\ i < scn.fin
                     /\ \A j \in DOMAIN scn.plan :
                           scn.plan[j] \in {"communicate", "check"} => i < j
  <1>1. scn \in Scenarios
    BY DEF TypeOK
  <1>2. scn.plan \in Seq(Steps) /\ scn.fin \in 1..Len(scn.plan)
    BY <1>1, ScenarioFields
  <1>3. QED
    BY <1>1, <1>2, PlanAssumption DEF TypeOK, HarnessTypeOK

(* A step that moves no script position and neither un-spawns nor revives *)
(* the subscriber.                                                         *)
LEMMA CInvProcFrame ==
    ASSUME CInv, TypeOK', scn' = scn, idx' = idx,
           proc # "none" => proc' # "none",
           proc = "exited" => proc' = "exited"
    PROVE  CInv'
  BY DEF CInv, Spawned, NoOrphanSubscriber, Finished

(* A step of the script other than spawn and kill, which leaves proc alone. *)
LEMMA CInvAdvance ==
    ASSUME CInv, TypeOK', scn' = scn, Step \notin {"spawn", "kill"},
           idx' = idx + 1, proc' = proc
    PROVE  CInv'
  <1>1. TypeOK
    BY DEF CInv
  <1>2. Spawned'
    BY <1>1, PlanFacts DEF CInv, Spawned, Step
  <1>3. NoOrphanSubscriber'
    BY <1>1, PlanFacts DEF CInv, NoOrphanSubscriber, Finished, Step
  <1>4. QED
    BY <1>2, <1>3 DEF CInv

LEMMA CInvStep == CInv /\ [Next]_vars => CInv'
  <1> SUFFICES ASSUME CInv, [Next]_vars PROVE CInv'
    OBVIOUS
  <1>1. TypeOK /\ TypeOK'
    BY TypeStep DEF CInv
  <1>2. CASE Spawn
    <2>1. Step = "spawn" /\ proc' = "starting" /\ idx' = idx + 1 /\ scn' = scn
      BY <1>2 DEF Spawn, Popen, Advance
    <2>2. Spawned'
      BY <1>1, <2>1 DEF Spawned
    <2>3. NoOrphanSubscriber'
      BY <1>1, <2>1, PlanFacts DEF NoOrphanSubscriber, Finished, Step
    <2>4. QED
      BY <1>1, <2>2, <2>3 DEF CInv
  <1>3. CASE KillSub
    <2>1. Step = "kill" /\ idx' = idx + 1 /\ scn' = scn
          /\ proc' = IF Alive THEN "exited" ELSE proc
      BY <1>3 DEF KillSub, Kill, Advance
    <2>2. idx \in DOMAIN scn.plan
      BY <1>1, <2>1, PlanFacts DEF Step
    <2>3. Spawned'
      <3> SUFFICES ASSUME NEW i \in DOMAIN scn.plan, scn.plan[i] = "spawn",
                          i < idx + 1
                   PROVE  proc' # "none"
        BY <2>1 DEF Spawned
      <3>1. i < idx
        BY <1>1, <2>1, <2>2, PlanFacts DEF Step
      <3>2. proc # "none"
        BY <3>1 DEF CInv, Spawned
      <3>3. QED
        BY <2>1, <3>2
    <2>4. ASSUME idx' > Len(scn'.plan) PROVE proc' = "exited"
      <3>1. idx = Len(scn.plan)
        BY <1>1, <2>1, <2>2, <2>4, PlanFacts
      <3>2. proc # "none"
        BY <1>1, <3>1, PlanFacts DEF CInv, Spawned
      <3>3. QED
        BY <1>1, <2>1, <3>2, PlanFacts DEF Alive, ProcStates
    <2>5. QED
      BY <1>1, <2>3, <2>4 DEF CInv, NoOrphanSubscriber, Finished
  <1>4. CASE CommunicateTimeout \/ (Check /\ ~Advance)
    <2>1. Step \in {"communicate", "check"} /\ idx' = scn.fin
          /\ scn' = scn /\ proc' = proc
      BY <1>4 DEF CommunicateTimeout, Check, Raise, Advance, harnessVars
    <2>2. idx \in DOMAIN scn.plan
      BY <1>1, <2>1, PlanFacts DEF Step
    <2>3. Spawned'
      BY <1>1, <2>1, <2>2, PlanFacts DEF CInv, Spawned, Step
    <2>4. ~Finished'
      BY <1>1, <2>1, PlanFacts DEF Finished
    <2>5. QED
      BY <1>1, <2>3, <2>4 DEF CInv, NoOrphanSubscriber
  <1>5. CASE \/ BindPub \/ ClosePub \/ Sigterm \/ Communicate
             \/ (Check /\ Advance) \/ (Publish /\ Advance)
    <2>1. Step \notin {"spawn", "kill"} /\ idx' = idx + 1 /\ scn' = scn
          /\ proc' = proc
      BY <1>5 DEF BindPub, ClosePub, Sigterm, SendSigterm, Communicate,
                  Check, Publish, Advance, harnessVars
    <2>2. QED
      BY <1>1, <2>1, CInvAdvance
  <1>6. CASE Publish /\ ~Advance
    <2>1. idx' = idx /\ scn' = scn /\ proc' = proc
      BY <1>6 DEF Publish, Advance, harnessVars
    <2>2. QED
      BY <1>1, <2>1, CInvProcFrame
  <1>7. CASE \/ SubStart \/ LinkUp \/ Subscribed \/ SubRecv \/ SubExit
             \/ Done \/ UNCHANGED vars
    <2>1. idx' = idx /\ scn' = scn
          /\ (proc # "none" => proc' # "none")
          /\ (proc = "exited" => proc' = "exited")
      BY <1>7 DEF SubStart, LinkUp, Subscribed, SubRecv, SubExit, Done, vars,
                  driverVars, harnessVars, Bind, TermExit, Crash, Alive
    <2>2. QED
      BY <1>1, <2>1, CInvProcFrame
  <1>8. QED
    BY <1>2, <1>3, <1>4, <1>5, <1>6, <1>7 DEF Next

LEMMA CInvInit == Init => CInv
  <1> SUFFICES ASSUME Init PROVE CInv
    OBVIOUS
  <1>1. TypeOK
    BY TypeInit
  <1>2. idx = 1 /\ proc = "none"
    BY DEF Init, HarnessInit
  <1>3. Spawned
    BY <1>1, <1>2, PlanFacts DEF Spawned
  <1>4. ~Finished
    BY <1>1, <1>2, PlanFacts DEF Finished
  <1>5. QED
    BY <1>1, <1>3, <1>4 DEF CInv, NoOrphanSubscriber

(* NoOrphanSubscriber: on every path through both tests, including a       *)
(* communicate() timeout and failed asserts, the finally block's poll/kill *)
(* leaves no subscriber running once the test function has ended.          *)
THEOREM NoOrphanSubscriberHolds == Spec => []NoOrphanSubscriber
  <1>1. Spec => []CInv
    BY CInvInit, CInvStep, PTL DEF Spec
  <1>2. QED
    BY <1>1, PTL DEF CInv

=============================================================================
