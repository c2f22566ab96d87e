------------------------------- MODULE PubSub -------------------------------
(***************************************************************************)
(* The PUB/SUB interop tests of test_pub_sub_interop.py in which the test  *)
(* is a libzmq PUB socket and the peer a spawned Monocoque SUB client      *)
(* (examples/sub_client) that prints every message it receives:            *)
(* test_libzmq_pub_to_monocoque_sub and test_topic_filtering.              *)
(*                                                                         *)
(* A test function is a script: a sequence of steps run in order, and the *)
(* index of its finally block, where an exception (AssertionError,         *)
(* TimeoutExpired) jumps.  A message is a sequence of tokens and the       *)
(* subscription a token prefix; the PUB side drops a message for a         *)
(* subscriber whose subscription it has not received yet, as libzmq does.  *)
(***************************************************************************)
EXTENDS Naturals, Sequences, FiniteSets, ProcessHarness

CONSTANTS
    Tokens,      \* the byte strings messages are made of
    Scenarios,   \* the test functions
    MayCrash     \* whether the subscriber may die on its own

Steps == {"spawn", "bind", "publish", "close", "sigterm", "communicate",
          "check", "kill"}

Msg == Seq(Tokens)

(* plan: the steps in source order; fin: the first step of the finally     *)
(* block; msgs: what is published; topic: the --topic of sub_client;       *)
(* present/absent: the messages asserted to be in / not in its output.     *)
Scenario == [plan : Seq(Steps), fin : Nat \ {0}, msgs : Seq(Msg),
             topic : Msg, present : SUBSET Msg, absent : SUBSET Msg]

ASSUME ScenariosAssumption ==
    /\ Scenarios \subseteq Scenario
    /\ Scenarios # {}
    /\ \A s \in Scenarios : s.fin \in 1..Len(s.plan)
    /\ MayCrash \in BOOLEAN

(* The shape both test functions share: the subscriber is spawned before   *)
(* the try block, so before every step that can raise (communicate and    *)
(* the asserts), and the finally block ends with the poll/kill.            *)
ASSUME PlanAssumption ==
    \A s \in Scenarios :
        /\ s.plan[Len(s.plan)] = "kill"
        /\ \E i \in DOMAIN s.plan : s.plan[i] = "spawn"
        /\ \A i \in DOMAIN s.plan :
              s.plan[i] = "spawn" =>
                  /\ i < s.fin
                  /\ \A j \in DOMAIN s.plan :
                        s.plan[j] \in {"communicate", "check"} => i < j

VARIABLES
    scn,        \* the test function being run
    idx,        \* the index of its next step
    sent,       \* how many messages it has published
    raised,     \* an exception is propagating to the finally block
    pubBound,   \* the test's PUB socket is bound and open
    link,       \* the SUB connection as the PUB sees it
    wire,       \* messages queued for the subscriber
    out         \* the lines sub_client has printed to stdout

driverVars == <<scn, idx, sent, raised>>
vars == <<scn, idx, sent, raised, pubBound, link, wire, out, proc, sigterm>>

(* bytes.startswith / ZMQ prefix matching, over tokens.                    *)
Matches(m, topic) ==
    /\ Len(topic) <= Len(m)
    /\ SubSeq(m, 1, Len(topic)) = topic

Step == IF idx \in DOMAIN scn.plan THEN scn.plan[idx] ELSE "none"

Finished == idx > Len(scn.plan)

(* The matching published messages, in publish order.                      *)
Wanted == SelectSeq(scn.msgs, LAMBDA m : Matches(m, scn.topic))

OutSet == {out[i] : i \in DOMAIN out}

TypeOK ==
    /\ HarnessTypeOK
    /\ scn \in Scenarios
    /\ idx \in 1..Len(scn.plan) + 1
    /\ sent \in 0..Len(scn.msgs)
    /\ raised \in BOOLEAN
    /\ pubBound \in BOOLEAN
    /\ link \in {"down", "up", "subscribed"}
    /\ wire \in Seq(Msg)
    /\ out \in Seq(Msg)

Init ==
    /\ HarnessInit
    /\ scn \in Scenarios
    /\ idx = 1
    /\ sent = 0
    /\ raised = FALSE
    /\ pubBound = FALSE
    /\ link = "down"
    /\ wire = <<>>
    /\ out = <<>>

(* The script moves to its next step, or an exception jumps to finally.    *)
Advance == idx' = idx + 1 /\ UNCHANGED raised
Raise == idx' = scn.fin /\ raised' = TRUE

(***************************************************************************)
(* The test.                                                               *)
(***************************************************************************)

(* subscriber = subprocess.Popen(["cargo", "run", "--example",            *)
(* "sub_client", ...]); the time.sleep that follows synchronises nothing.  *)
Spawn ==
    /\ Step = "spawn"
    /\ Popen
    /\ Advance
    /\ UNCHANGED <<scn, sent, pubBound, link, wire, out>>

(* ctx.socket(zmq.PUB); socket.bind("tcp://127.0.0.1:<port>").            *)
BindPub ==
    /\ Step = "bind"
    /\ pubBound' = TRUE
    /\ Advance
    /\ UNCHANGED <<scn, sent, link, wire, out, harnessVars>>

(* Mutant: the publish loop tests its bound after sending, not before.    *)
PublishPastEnd ==
    /\ Step = "publish"
    /\ sent <= Len(scn.msgs)
    /\ wire' = IF link = "subscribed" /\ Matches(scn.msgs[sent + 1], scn.topic)
                THEN Append(wire, scn.msgs[sent + 1]) ELSE wire
    /\ sent' = sent + 1
    /\ IF sent = Len(scn.msgs) THEN Advance ELSE UNCHANGED <<idx, raised>>
    /\ UNCHANGED <<scn, pubBound, link, out, harnessVars>>

(* socket.send(msg), once per message of the list: PUB hands it to a       *)
(* subscriber whose matching subscription it holds, and drops it           *)
(* otherwise.  The sleeps between sends synchronise nothing.               *)
Publish ==
    /\ Step = "publish"
    /\ sent < Len(scn.msgs)
    /\ LET m == scn.msgs[sent + 1] IN
         wire' = IF link = "subscribed" /\ Matches(m, scn.topic)
                   THEN Append(wire, m) ELSE wire
    /\ sent' = sent + 1
    /\ IF sent + 1 = Len(scn.msgs) THEN Advance ELSE UNCHANGED <<idx, raised>>
    /\ UNCHANGED <<scn, pubBound, link, out, harnessVars>>

(* socket.close(); ctx.term(): queued messages are still delivered         *)
(* (linger), then the connection is gone.                                  *)
ClosePub ==
    /\ Step = "close"
    /\ pubBound' = FALSE
    /\ link' = "down"
    /\ Advance
    /\ UNCHANGED <<scn, sent, wire, out, harnessVars>>

(* subscriber.send_signal(signal.SIGTERM).                                 *)
Sigterm ==
    /\ Step = "sigterm"
    /\ SendSigterm
    /\ Advance
    /\ UNCHANGED <<scn, sent, pubBound, link, wire, out>>

(* stdout, _ = subscriber.communicate(timeout=5): returns the output once  *)
(* the subscriber exited,                                                  *)
Communicate ==
    /\ Step = "communicate"
    /\ WaitReturns
    /\ Advance
    /\ UNCHANGED <<scn, sent, pubBound, link, wire, out, harnessVars>>

(* or raises TimeoutExpired.                                               *)
CommunicateTimeout ==
    /\ Step = "communicate"
    /\ WaitTimesOut
    /\ Raise
    /\ UNCHANGED <<scn, sent, pubBound, link, wire, out, harnessVars>>

(* The asserts on the decoded output: each message of present is in it,    *)
(* none of absent is.                                                      *)
Check ==
    /\ Step = "check"
    /\ IF scn.present \subseteq OutSet /\ scn.absent \cap OutSet = {}
         THEN Advance ELSE Raise
    /\ UNCHANGED <<scn, sent, pubBound, link, wire, out, harnessVars>>

(* Mutant: the finally block kills only a subscriber that already exited. *)
KillSubNoKill ==
    /\ Step = "kill"
    /\ Advance
    /\ UNCHANGED <<scn, sent, pubBound, link, wire, out, harnessVars>>

(* finally: if subscriber.poll() is None: subscriber.kill().               *)
KillSub ==
    /\ Step = "kill"
    /\ Kill
    /\ Advance
    /\ UNCHANGED <<scn, sent, pubBound, link, wire, out>>

(***************************************************************************)
(* The subscriber process and the connection.                              *)
(***************************************************************************)

(* cargo has built sub_client; it connects and subscribes to its topic.    *)
SubStart ==
    /\ Bind
    /\ UNCHANGED <<driverVars, pubBound, link, wire, out>>

(* The TCP connection comes up once both ends exist.                       *)
LinkUp ==
    /\ proc = "serving"
    /\ pubBound
    /\ link = "down"
    /\ link' = "up"
    /\ UNCHANGED <<driverVars, pubBound, wire, out, harnessVars>>

(* The PUB side processes the subscription frame.                          *)
Subscribed ==
    /\ link = "up"
    /\ link' = "subscribed"
    /\ UNCHANGED <<driverVars, pubBound, wire, out, harnessVars>>

(* sub_client receives a message and prints it if it matches its topic.    *)
SubRecv ==
    /\ proc = "serving"
    /\ wire # <<>>
    /\ wire' = Tail(wire)
    /\ out' = IF Matches(Head(wire), scn.topic)
                THEN Append(out, Head(wire)) ELSE out
    /\ UNCHANGED <<driverVars, pubBound, link, harnessVars>>

(* The subscriber ends, on SIGTERM or on its own: what it has not printed  *)
(* yet is lost and the connection is gone.                                 *)
SubExit ==
    /\ TermExit \/ (MayCrash /\ Crash)
    /\ wire' = <<>>
    /\ link' = "down"
    /\ UNCHANGED <<driverVars, pubBound, out>>

(* The test function has returned or raised.                               *)
Done ==
    /\ Finished
    /\ UNCHANGED vars

Next ==
    \/ Spawn \/ BindPub \/ Publish \/ ClosePub \/ Sigterm
    \/ Communicate \/ CommunicateTimeout \/ Check \/ KillSub
    \/ SubStart \/ LinkUp \/ Subscribed \/ SubRecv \/ SubExit
    \/ Done

Spec == Init /\ [][Next]_vars

(***************************************************************************)
(* Properties.                                                             *)
(***************************************************************************)

(* Whatever path the test takes (timeouts, failed asserts), the            *)
(* subscriber process is not left running once the test function ends.     *)
NoOrphanSubscriber == Finished => proc = "exited"

(* What the spec promises the tests observe: when the asserts run, the     *)
(* output is exactly the matching published messages, in order.            *)
CompleteDelivery == Step = "check" => out = Wanted

=============================================================================
