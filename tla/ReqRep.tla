------------------------------- MODULE ReqRep -------------------------------
(***************************************************************************)
(* The REQ/REP interop tests in which the test is a libzmq REQ socket and  *)
(* the peer a spawned Monocoque REP echo server: the tests of              *)
(* test_req_rep_interop.py that use MonocoqueServer, and                   *)
(* simple_interop_test.py.  A scenario fixes the requests sent in order,   *)
(* whether the reply is compared exactly or only by prefix and length      *)
(* (test_large_message_req_rep), and whether the server is stopped in a    *)
(* finally block or only after the assert passed (simple_interop_test.py).*)
(*                                                                         *)
(* A frame is a sequence of tokens, a message a non-empty sequence of      *)
(* frames; the server prefixes frame 1 with the token EchoPrefix and       *)
(* echoes the others.                                                      *)
(***************************************************************************)
EXTENDS Naturals, Sequences, ProcessHarness

CONSTANTS
    Tokens,       \* the byte strings frames are made of
    Scenarios,    \* the test functions: [reqs, exact, guarded] records
    EchoPrefix,   \* the token b"Echo: "
    NoMsg,        \* the REP server holds no request
    MayCrash      \* whether the server process may die on its own

Frame == Seq(Tokens)

Scenario == [reqs : Seq(Seq(Frame)), exact : BOOLEAN, guarded : BOOLEAN]

ASSUME ScenariosAssumption ==
    /\ Scenarios \subseteq Scenario
    /\ Scenarios # {}
    /\ \A s \in Scenarios :
          /\ Len(s.reqs) >= 1
          /\ \A i \in DOMAIN s.reqs : Len(s.reqs[i]) >= 1

Msgs == UNION {{s.reqs[i] : i \in DOMAIN s.reqs} : s \in Scenarios}

ASSUME ConstAssumption ==
    /\ EchoPrefix \in Tokens
    /\ NoMsg \notin Msgs
    /\ MayCrash \in BOOLEAN

VARIABLES
    scn,       \* the test function being run
    pc,        \* where the test function is
    cycle,     \* the index of the current request/reply cycle
    failed,    \* an assert in the test raised AssertionError
    toRep,     \* requests queued in the REQ socket or on the wire
    held,      \* the request the REP server has received and not answered
    toReq      \* replies on the wire to the REQ socket

driverVars == <<scn, pc, cycle, failed>>
netVars == <<toRep, held, toReq>>
vars == <<scn, pc, cycle, failed, toRep, held, toReq, proc, sigterm>>

(* The server's reply: frame 1 prefixed with "Echo: ", the others echoed.  *)
EchoReply(m) == [m EXCEPT ![1] = <<EchoPrefix>> \o m[1]]

Replies == {EchoReply(m) : m \in Msgs}

(* The reply the test asserts for request m: exactly the echo, or (large *)
(* message) a first frame that starts with "Echo: " and is one token       *)
(* longer than the request.                                                *)
Expected(m) == <<<<EchoPrefix>> \o Head(m)>> \o Tail(m)

Accepts(r, m) ==
    IF scn.exact
      THEN r = Expected(m)
      ELSE /\ Len(r[1]) = Len(m[1]) + 1
           /\ r[1][1] = EchoPrefix

Request == scn.reqs[cycle]

Finished == pc \in {"done", "error"}

TypeOK ==
    /\ HarnessTypeOK
    /\ scn \in Scenarios
    /\ pc \in {"start", "connect", "send", "recv", "close", "stop", "wait",
               "done", "error"}
    /\ cycle \in 1..Len(scn.reqs)
    /\ failed \in BOOLEAN
    /\ toRep \in Seq(Msgs)
    /\ held \in Msgs \cup {NoMsg}
    /\ toReq \in Seq(Replies)

Init ==
    /\ HarnessInit
    /\ scn \in Scenarios
    /\ pc = "start"
    /\ cycle = 1
    /\ failed = FALSE
    /\ toRep = <<>>
    /\ held = NoMsg
    /\ toReq = <<>>

(***************************************************************************)
(* The test.                                                               *)
(***************************************************************************)

(* server.start(): Popen, then time.sleep(1), which synchronises nothing.  *)
Start ==
    /\ pc = "start"
    /\ Popen
    /\ pc' = "connect"
    /\ UNCHANGED <<scn, cycle, failed, netVars>>

(* zmq.Context(), ctx.socket(zmq.REQ), socket.connect(...): connecting is  *)
(* asynchronous and succeeds whether or not the server is bound yet.       *)
Connect ==
    /\ pc = "connect"
    /\ pc' = "send"
    /\ UNCHANGED <<scn, cycle, failed, netVars, harnessVars>>

(* socket.send(msg): queued by the REQ socket until a peer takes it.       *)
Send ==
    /\ pc = "send"
    /\ toRep' = Append(toRep, Request)
    /\ pc' = "recv"
    /\ UNCHANGED <<scn, cycle, failed, held, toReq, harnessVars>>

(* reply = socket.recv(), with no timeout, then the assert on the reply;   *)
(* the for loop moves to the next cycle or leaves the try block.  A failed *)
(* assert goes to the finally block, or, with no try, ends the script.     *)
Recv ==
    /\ pc = "recv"
    /\ toReq # <<>>
    /\ toReq' = Tail(toReq)
    /\ IF Accepts(Head(toReq), Request)
         THEN /\ failed' = FALSE
              /\ IF cycle < Len(scn.reqs)
                   THEN cycle' = cycle + 1 /\ pc' = "send"
                   ELSE cycle' = cycle /\ pc' = "close"
         ELSE /\ failed' = TRUE
              /\ pc' = IF scn.guarded THEN "stop" ELSE "error"
              /\ UNCHANGED cycle
    /\ UNCHANGED <<scn, toRep, held, harnessVars>>

(* socket.close(); ctx.term(): skipped when an assert has failed.          *)
Close ==
    /\ pc = "close"
    /\ pc' = "stop"
    /\ UNCHANGED <<scn, cycle, failed, netVars, harnessVars>>

(* finally: server.stop(): send_signal(SIGTERM) ...                        *)
Stop ==
    /\ pc = "stop"
    /\ SendSigterm
    /\ pc' = "wait"
    /\ UNCHANGED <<scn, cycle, failed, netVars>>

(* ... then process.wait(timeout=5): it returns once the server exited,    *)
WaitExit ==
    /\ pc = "wait"
    /\ WaitReturns
    /\ pc' = "done"
    /\ UNCHANGED <<scn, cycle, failed, netVars, harnessVars>>

(* or raises TimeoutExpired, and nothing kills the server.                 *)
WaitTimeout ==
    /\ pc = "wait"
    /\ WaitTimesOut
    /\ pc' = "error"
    /\ UNCHANGED <<scn, cycle, failed, netVars, harnessVars>>

(***************************************************************************)
(* The spawned REP echo server (examples/simple_rep_server).               *)
(***************************************************************************)

ServerBind ==
    /\ Bind
    /\ UNCHANGED <<driverVars, netVars>>

(* rep.recv(): only a bound server takes a queued request.                 *)
ServerRecv ==
    /\ proc = "serving"
    /\ held = NoMsg
    /\ toRep # <<>>
    /\ held' = Head(toRep)
    /\ toRep' = Tail(toRep)
    /\ UNCHANGED <<driverVars, toReq, harnessVars>>

(* A plausible bug: a server that does not forget the request it answered. *)
ServerReplyKeepsHeld ==
    /\ proc = "serving"
    /\ held # NoMsg
    /\ toReq' = Append(toReq, EchoReply(held))
    /\ UNCHANGED <<driverVars, toRep, held, harnessVars>>

(* rep.send(echo): the reply for the request it holds.                     *)
ServerReply ==
    /\ proc = "serving"
    /\ held # NoMsg
    /\ toReq' = Append(toReq, EchoReply(held))
    /\ held' = NoMsg
    /\ UNCHANGED <<driverVars, toRep, harnessVars>>

(* The server ends on SIGTERM; a request it held is lost.                  *)
ServerTerm ==
    /\ TermExit
    /\ held' = NoMsg
    /\ UNCHANGED <<driverVars, toRep, toReq>>

(* The server dies on its own, where the scenario allows it.               *)
ServerCrash ==
    /\ MayCrash
    /\ Crash
    /\ held' = NoMsg
    /\ UNCHANGED <<driverVars, toRep, toReq>>

(* The test function has returned or raised.                               *)
Done ==
    /\ Finished
    /\ UNCHANGED vars

Next ==
    \/ Start \/ Connect \/ Send \/ Recv \/ Close \/ Stop
    \/ WaitExit \/ WaitTimeout
    \/ ServerBind \/ ServerRecv \/ ServerReply \/ ServerTerm \/ ServerCrash
    \/ Done

Spec == Init /\ [][Next]_vars

(* The test is sequential Python code and the server a live process: each  *)
(* keeps running while it can.  process.wait(timeout=5) always returns,    *)
(* with the exit status or with TimeoutExpired, so the wait step as a      *)
(* whole is fair; a crash is not promised to happen.                       *)
Fairness ==
    /\ WF_vars(Start) /\ WF_vars(Connect) /\ WF_vars(Send) /\ WF_vars(Recv)
    /\ WF_vars(Close) /\ WF_vars(Stop) /\ WF_vars(WaitExit \/ WaitTimeout)
    /\ WF_vars(ServerBind) /\ WF_vars(ServerRecv) /\ WF_vars(ServerReply)
    /\ WF_vars(ServerTerm)

FairSpec == Spec /\ Fairness

(***************************************************************************)
(* Properties.                                                             *)
(***************************************************************************)

(* Messages of the current cycle in the system: queued, held, answered.    *)
InFlight == Len(toRep) + (IF held = NoMsg THEN 0 ELSE 1) + Len(toReq)

(* REQ/REP lockstep across the test, the sockets and the server: at most   *)
(* one request or reply exists at a time, and none while the test is not   *)
(* blocked in recv, so a reply can never be left over for a later cycle.   *)
Lockstep ==
    /\ InFlight <= 1
    /\ pc # "recv" => InFlight = 0

(* Whatever is in flight belongs to the current cycle: the queued and held *)
(* request is the cycle's request and a reply on the wire is its echo.         *)
CycleIntegrity ==
    /\ \A k \in DOMAIN toRep : toRep[k] = Request
    /\ held \in {NoMsg, Request}
    /\ \A k \in DOMAIN toReq : toReq[k] = EchoReply(Request)

(* Against a correct echo server the test never fails an assert: every    *)
(* reply the test compares is the echo of the request of the same cycle.  *)
NoFalseMismatch == ~failed

(* When the test function has finished, on every path, the server process *)
(* it spawned is no longer running (the port is free for the next test).  *)
NoOrphanServer == Finished => proc = "exited"

(* The test function eventually returns or raises.                         *)
Terminates == <>Finished

(* The inductive invariant behind NoFalseMismatch.                         *)
IInv ==
    /\ TypeOK
    /\ Lockstep
    /\ CycleIntegrity
    /\ NoFalseMismatch
=============================================================================
