------------------------------- MODULE SubPoll -------------------------------
(***************************************************************************)
(* test_monocoque_pub_to_libzmq_sub: the test is a libzmq SUB socket and   *)
(* the peer a spawned Monocoque publisher (examples/pub_server).  The test *)
(* spawns it, sleeps, connects, subscribes to everything, sleeps again,    *)
(* then receives five messages: the first with a blocking recv(), the      *)
(* other four with zmq.NOBLOCK and no retry.  The finally block sends      *)
(* SIGTERM and waits with a timeout; nothing kills the publisher.          *)
(*                                                                         *)
(* The publisher (outside src/) is modelled from the spec: once bound it   *)
(* publishes numbered messages 1, 2, ... at its own pace, up to MaxPub.    *)
(* libzmq PUB drops a message for a subscriber whose subscription has not  *)
(* arrived yet; afterwards PUB and TCP keep order.  The payload assert     *)
(* (b"Hello" in received[0]) holds of every message and is left out.       *)
(***************************************************************************)
EXTENDS Naturals, Sequences, ProcessHarness

CONSTANTS
    MaxPub,     \* how many messages the publisher sends in a model run
    MayCrash    \* whether the publisher may die on its own

ASSUME SubPollAssumption ==
    /\ MaxPub \in Nat
    /\ MayCrash \in BOOLEAN

(* for _ in range(5)                                                       *)
NRecv == 5

VARIABLES
    pc,          \* where the test function is
    received,    \* the list received
    again,       \* a NOBLOCK recv raised zmq.Again
    subscribed,  \* the SUBSCRIBE has reached the publisher
    sent,        \* how many messages the publisher has published
    queue        \* messages delivered to the SUB socket, not yet received

testVars == <<pc, received, again>>
pubVars == <<subscribed, sent, queue>>
vars == <<pc, received, again, subscribed, sent, queue, proc, sigterm>>

Finished == pc \in {"done", "error"}

TypeOK ==
    /\ pc \in {"start", "connect", "recv", "stop", "wait",
               "done", "error"}
    /\ received \in Seq(1..MaxPub)
    /\ Len(received) <= NRecv
    /\ again \in BOOLEAN
    /\ subscribed \in BOOLEAN
    /\ sent \in 0..MaxPub
    /\ queue \in Seq(1..MaxPub)
    /\ HarnessTypeOK

Init ==
    /\ pc = "start"
    /\ received = <<>>
    /\ again = FALSE
    /\ subscribed = FALSE
    /\ sent = 0
    /\ queue = <<>>
    /\ HarnessInit

(***************************************************************************)
(* The test.                                                               *)
(***************************************************************************)

(* publisher = subprocess.Popen(cargo run --example pub_server ...), then  *)
(* time.sleep(1), which waits for nothing in particular.                   *)
Start ==
    /\ pc = "start"
    /\ Popen
    /\ pc' = "connect"
    /\ UNCHANGED <<received, again, pubVars>>

(* socket.connect(...); setsockopt(zmq.SUBSCRIBE, b""); time.sleep(0.5):  *)
(* the subscription is on its way, not known to have arrived.              *)
Subscribe ==
    /\ pc = "connect"
    /\ pc' = "recv"
    /\ UNCHANGED <<received, again, pubVars, harnessVars>>

(* msg = socket.recv(flags=0) for the first message: it blocks, with no    *)
(* timeout, until one is there.                                            *)
RecvFirst ==
    /\ pc = "recv"
    /\ received = <<>>
    /\ queue # <<>>
    /\ received' = Append(received, Head(queue))
    /\ queue' = Tail(queue)
    /\ UNCHANGED <<pc, again, subscribed, sent, harnessVars>>

(* A plausible bug: the loop bound off by one (range(6)).                  *)
RecvNoBlockPastEnd ==
    /\ pc = "recv"
    /\ received # <<>>
    /\ Len(received) <= NRecv
    /\ IF queue # <<>>
         THEN /\ received' = Append(received, Head(queue))
              /\ queue' = Tail(queue)
              /\ UNCHANGED <<pc, again>>
         ELSE /\ again' = TRUE
              /\ pc' = "stop"
              /\ UNCHANGED <<received, queue>>
    /\ UNCHANGED <<subscribed, sent, harnessVars>>

(* msg = socket.recv(flags=zmq.NOBLOCK) for the others: a message that is  *)
(* there is taken, otherwise zmq.Again leaves the try block.               *)
RecvNoBlock ==
    /\ pc = "recv"
    /\ received # <<>>
    /\ Len(received) < NRecv
    /\ IF queue # <<>>
         THEN /\ received' = Append(received, Head(queue))
              /\ queue' = Tail(queue)
              /\ UNCHANGED <<pc, again>>
         ELSE /\ again' = TRUE
              /\ pc' = "stop"
              /\ UNCHANGED <<received, queue>>
    /\ UNCHANGED <<subscribed, sent, harnessVars>>

(* Both asserts pass after five messages; socket.close(); ctx.term().      *)
Close ==
    /\ pc = "recv"
    /\ Len(received) = NRecv
    /\ pc' = "stop"
    /\ UNCHANGED <<received, again, pubVars, harnessVars>>

(* finally: publisher.send_signal(signal.SIGTERM) ...                      *)
Stop ==
    /\ pc = "stop"
    /\ SendSigterm
    /\ pc' = "wait"
    /\ UNCHANGED <<received, again, pubVars>>

(* ... publisher.wait(timeout=5): the test passes unless Again was raised; *)
WaitExit ==
    /\ pc = "wait"
    /\ WaitReturns
    /\ pc' = IF again THEN "error" ELSE "done"
    /\ UNCHANGED <<received, again, pubVars, harnessVars>>

(* or TimeoutExpired is raised and the publisher is left running.          *)
WaitTimeout ==
    /\ pc = "wait"
    /\ WaitTimesOut
    /\ pc' = "error"
    /\ UNCHANGED <<received, again, pubVars, harnessVars>>

(***************************************************************************)
(* The spawned publisher.                                                  *)
(***************************************************************************)

PubBind ==
    /\ Bind
    /\ UNCHANGED <<testVars, pubVars>>

(* The SUB's subscription reaches the bound publisher over its connection. *)
SubArrive ==
    /\ pc \notin {"start", "connect"}
    /\ proc = "serving"
    /\ ~subscribed
    /\ subscribed' = TRUE
    /\ UNCHANGED <<testVars, sent, queue, harnessVars>>

(* pub.send(msg): delivered to the SUB once its subscription is known,     *)
(* silently dropped before.                                                *)
Publish ==
    /\ proc = "serving"
    /\ sent < MaxPub
    /\ sent' = sent + 1
    /\ queue' = IF subscribed THEN Append(queue, sent + 1) ELSE queue
    /\ UNCHANGED <<testVars, subscribed, harnessVars>>

(* The publisher ends on SIGTERM; what it already delivered stays readable *)
(* in the SUB socket.                                                      *)
PubTerm ==
    /\ TermExit
    /\ UNCHANGED <<testVars, pubVars>>

PubCrash ==
    /\ MayCrash
    /\ Crash
    /\ UNCHANGED <<testVars, pubVars>>

Done ==
    /\ Finished
    /\ UNCHANGED vars

Next ==
    \/ Start \/ Subscribe \/ RecvFirst \/ RecvNoBlock \/ Close \/ Stop
    \/ WaitExit \/ WaitTimeout
    \/ PubBind \/ SubArrive \/ Publish \/ PubTerm \/ PubCrash
    \/ Done

Spec == Init /\ [][Next]_vars

(***************************************************************************)
(* Properties.                                                             *)
(***************************************************************************)

(* Spec 7: an empty non-blocking poll is recovered by a bounded retry with *)
(* a short sleep, so one empty poll never fails the receive loop with      *)
(* zmq.Again.                                                              *)
NoAgainFailure == ~again
=============================================================================
