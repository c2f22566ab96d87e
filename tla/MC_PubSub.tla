------------------------------ MODULE MC_PubSub ------------------------------
(* Model-checking instance of PubSub: the two tests in which the test      *)
(* publishes and a spawned Monocoque sub_client subscribes.                *)
EXTENDS PubSub, TLC

(* test_libzmq_pub_to_monocoque_sub: spawn, bind, five messages, close,    *)
(* SIGTERM, communicate, asserts; finally kill.                            *)
MCAll == [plan |-> <<"spawn", "bind", "publish", "close", "sigterm",
                     "communicate", "check", "kill">>,
          fin |-> 8,
          msgs |-> [i \in 1..5 |-> <<"Message " \o ToString(i - 1)>>],
          topic |-> <<>>,
          present |-> {<<"Message 0">>, <<"Message 4">>},
          absent |-> {}]

Info == <<"INFO", ": normal message">>
Important == <<"ALERT", ": important message">>
Debug == <<"DEBUG", ": debug message">>
Critical == <<"ALERT", ": critical message">>

(* test_topic_filtering: bind, spawn with --topic ALERT, four messages,    *)
(* SIGTERM, communicate, asserts; finally close the PUB, kill.             *)
MCFilter == [plan |-> <<"bind", "spawn", "publish", "sigterm",
                        "communicate", "check", "close", "kill">>,
             fin |-> 7,
             msgs |-> <<Info, Important, Debug, Critical>>,
             topic |-> <<"ALERT">>,
             present |-> {Important, Critical},
             absent |-> {Info, Debug}]

MCTokens ==
    {"INFO", "ALERT", "DEBUG", ": normal message", ": important message",
     ": debug message", ": critical message"}
    \cup {"Message " \o ToString(i) : i \in 0..4}

MCScenarios == {MCAll, MCFilter}
=============================================================================
