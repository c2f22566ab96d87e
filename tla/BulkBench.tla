------------------------------ MODULE BulkBench ------------------------------
(***************************************************************************)
(* bench_pub_sub_throughput of benches/interop/libzmq_throughput.py: one   *)
(* Python thread binds a PUB socket, connects a SUB socket, sleeps, sends  *)
(* num_messages with NOBLOCK, then polls the SUB with NOBLOCK until it has *)
(* counted num_messages.  libzmq's I/O threads move messages between the   *)
(* two sockets concurrently.  The messages are all b"X" * size, so only    *)
(* their number matters.                                                   *)
(*                                                                         *)
(* A PUB socket never blocks and never raises on send: a message for a     *)
(* subscriber whose subscription has not arrived, or whose queue is at the *)
(* send high-water mark, is dropped.  The SUB queue holds at most the      *)
(* receive high-water mark; the I/O thread stops moving messages when it   *)
(* is full (TCP back-pressure).                                            *)
(***************************************************************************)
EXTENDS Naturals

CONSTANTS
    NumMessages,   \* num_messages
    SndHwm,        \* ZMQ_SNDHWM of the PUB socket
    RcvHwm         \* ZMQ_RCVHWM of the SUB socket

ASSUME BenchAssumption ==
    /\ NumMessages \in Nat \ {0}
    /\ SndHwm \in Nat \ {0}
    /\ RcvHwm \in Nat \ {0}

VARIABLES
    phase,      \* "setup", "send", "recv", "done"
    link,       \* "down", "up", "subscribed": the SUB connection at the PUB
    sent,       \* pub.send calls made
    pubQ,       \* messages queued at the PUB for the subscriber
    subQ,       \* messages queued at the SUB
    received    \* the loop's received counter

vars == <<phase, link, sent, pubQ, subQ, received>>

TypeOK ==
    /\ phase \in {"setup", "send", "recv", "done"}
    /\ link \in {"down", "up", "subscribed"}
    /\ sent \in 0..NumMessages
    /\ pubQ \in 0..SndHwm
    /\ subQ \in 0..RcvHwm
    /\ received \in 0..NumMessages

Init ==
    /\ phase = "setup"
    /\ link = "down"
    /\ sent = 0
    /\ pubQ = 0
    /\ subQ = 0
    /\ received = 0

(* bind to port 0, read the port back, connect, subscribe to everything,   *)
(* time.sleep(0.5), which synchronises nothing, and start the clock.       *)
Setup ==
    /\ phase = "setup"
    /\ phase' = "send"
    /\ UNCHANGED <<link, sent, pubQ, subQ, received>>

(* Mutant: the send loop runs one iteration too many.                     *)
SendOffByOne ==
    /\ phase = "send"
    /\ sent <= NumMessages
    /\ sent' = sent + 1
    /\ pubQ' = IF link = "subscribed" /\ pubQ < SndHwm THEN pubQ + 1 ELSE pubQ
    /\ UNCHANGED <<phase, link, subQ, received>>

(* pub.send(msg, zmq.NOBLOCK): queued, or silently dropped (not queued).   *)
Send ==
    /\ phase = "send"
    /\ sent < NumMessages
    /\ sent' = sent + 1
    /\ pubQ' = IF link = "subscribed" /\ pubQ < SndHwm THEN pubQ + 1 ELSE pubQ
    /\ UNCHANGED <<phase, link, subQ, received>>

(* The for loop is over: take send_elapsed, start the receive clock.       *)
EndSend ==
    /\ phase = "send"
    /\ sent = NumMessages
    /\ phase' = "recv"
    /\ UNCHANGED <<link, sent, pubQ, subQ, received>>

(* sub.recv(zmq.NOBLOCK) returns a message: received += 1.                 *)
Recv ==
    /\ phase = "recv"
    /\ received < NumMessages
    /\ subQ > 0
    /\ subQ' = subQ - 1
    /\ received' = received + 1
    /\ phase' = IF received + 1 = NumMessages THEN "done" ELSE phase
    /\ UNCHANGED <<link, sent, pubQ>>

(* sub.recv(zmq.NOBLOCK) raises zmq.Again: time.sleep(0.001), loop again;  *)
(* nothing bounds the number of retries.                                   *)
RecvAgain ==
    /\ phase = "recv"
    /\ received < NumMessages
    /\ subQ = 0
    /\ UNCHANGED vars

(* libzmq: the TCP connection comes up, then the subscription arrives.     *)
Connect ==
    /\ phase # "setup"
    /\ link = "down"
    /\ link' = "up"
    /\ UNCHANGED <<phase, sent, pubQ, subQ, received>>

Subscribe ==
    /\ link = "up"
    /\ link' = "subscribed"
    /\ UNCHANGED <<phase, sent, pubQ, subQ, received>>

(* libzmq: the I/O threads move a message from the PUB to the SUB queue.   *)
Transfer ==
    /\ pubQ > 0
    /\ subQ < RcvHwm
    /\ pubQ' = pubQ - 1
    /\ subQ' = subQ + 1
    /\ UNCHANGED <<phase, link, sent, received>>

(* The benchmark has returned its figures.                                 *)
Done ==
    /\ phase = "done"
    /\ UNCHANGED vars

Next ==
    \/ Setup \/ Send \/ EndSend \/ Recv \/ RecvAgain
    \/ Connect \/ Subscribe \/ Transfer \/ Done

Spec == Init /\ [][Next]_vars

(* The Python thread runs while it can, and libzmq's I/O threads move      *)
(* messages and bring the connection up while they can.                    *)
FairSpec ==
    /\ Spec
    /\ WF_vars(Setup) /\ WF_vars(Send) /\ WF_vars(EndSend) /\ WF_vars(Recv)
    /\ WF_vars(Connect) /\ WF_vars(Subscribe) /\ WF_vars(Transfer)

(***************************************************************************)
(* Properties.                                                             *)
(***************************************************************************)

(* The benchmark eventually returns its figures.                           *)
Terminates == <>(phase = "done")
=============================================================================
