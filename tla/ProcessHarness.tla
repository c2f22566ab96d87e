--------------------------- MODULE ProcessHarness ---------------------------
(***************************************************************************)
(* The lifecycle of one endpoint process that an interop test spawns with  *)
(* subprocess.Popen: the test side (Popen, send_signal(SIGTERM),           *)
(* wait(timeout), poll/kill) and the process side (it binds or connects,   *)
(* it exits on SIGTERM, it may die on its own).                            *)
(*                                                                         *)
(*   proc     "none"      no process spawned yet                           *)
(*            "starting"  Popen returned; the endpoint is not bound yet    *)
(*            "serving"   the endpoint has bound/connected its socket      *)
(*            "exited"    the process has terminated                       *)
(*   sigterm  SIGTERM has been delivered to the process                    *)
(*                                                                         *)
(* The fixed time.sleep after Popen is not a synchronisation: nothing in   *)
(* the code waits for "serving", so no action below is guarded by it.     *)
(***************************************************************************)
VARIABLES proc, sigterm

harnessVars == <<proc, sigterm>>

ProcStates == {"none", "starting", "serving", "exited"}

Alive == proc \in {"starting", "serving"}

HarnessTypeOK ==
    /\ proc \in ProcStates
    /\ sigterm \in BOOLEAN

HarnessInit ==
    /\ proc = "none"
    /\ sigterm = FALSE

(* subprocess.Popen(cmd, ...): the child exists but has not bound yet.     *)
Popen ==
    /\ proc = "none"
    /\ proc' = "starting"
    /\ UNCHANGED sigterm

(* The endpoint binds (REP, PUB) or connects (SUB, REQ) its socket.        *)
Bind ==
    /\ proc = "starting"
    /\ proc' = "serving"
    /\ UNCHANGED sigterm

(* process.send_signal(signal.SIGTERM); a no-op on a process that already  *)
(* exited.                                                                 *)
SendSigterm ==
    /\ proc # "none"
    /\ sigterm' = TRUE
    /\ UNCHANGED proc

(* The endpoint has no SIGTERM handler: the default action ends it.        *)
TermExit ==
    /\ sigterm
    /\ Alive
    /\ proc' = "exited"
    /\ UNCHANGED sigterm

(* The endpoint dies on its own (panic, bind conflict, failed build).      *)
Crash ==
    /\ Alive
    /\ proc' = "exited"
    /\ UNCHANGED sigterm

(* process.kill(): SIGKILL cannot be caught.                               *)
Kill ==
    /\ proc' = IF Alive THEN "exited" ELSE proc
    /\ UNCHANGED sigterm

(* process.wait(timeout) returns only once the process has exited; it      *)
(* raises TimeoutExpired, leaving the process running, when it has not.    *)
WaitReturns == proc = "exited"

WaitTimesOut == Alive
=============================================================================
