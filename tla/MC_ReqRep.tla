------------------------------ MODULE MC_ReqRep ------------------------------
(* Model-checking instance of ReqRep: the test functions that drive the    *)
(* Monocoque REP server, with their own requests.                          *)
EXTENDS ReqRep, TLC

Single(t) == << <<t>> >>

(* test_libzmq_req_to_monocoque_rep: one exact cycle, stop in finally.     *)
MCHello == [reqs |-> <<Single("Hello from libzmq")>>, exact |-> TRUE,
            guarded |-> TRUE]

(* simple_interop_test.py: the same exchange with no try/finally.          *)
MCSimple == [MCHello EXCEPT !.guarded = FALSE]

(* test_multiple_request_cycles: "Request 0" .. "Request 9".               *)
MCCycles == [reqs |-> [i \in 1..10 |-> Single("Request " \o ToString(i - 1))],
             exact |-> TRUE, guarded |-> TRUE]

(* test_multipart_message_req_rep: one request of three frames.            *)
MCMultipart == [reqs |-> << << <<"frame1">>, <<"frame2">>, <<"frame3">> >> >>,
                exact |-> TRUE, guarded |-> TRUE]

(* test_large_message_req_rep: b"X" * 1 MiB, checked by prefix and length. *)
MCLarge == [reqs |-> <<Single("X * 1048576")>>, exact |-> FALSE,
            guarded |-> TRUE]

MCTokens ==
    {"Echo: ", "Hello from libzmq", "frame1", "frame2", "frame3",
     "X * 1048576"} \cup {"Request " \o ToString(i) : i \in 0..9}

MCScenarios == {MCHello, MCSimple, MCCycles, MCMultipart, MCLarge}
=============================================================================
