# TLA+ models of the Monocoque interop tests and benchmark tooling

This directory holds TLA+ models of the Python code under `src/`:

- the interop tests that run libzmq (pyzmq) against the Monocoque example binaries;
- the libzmq throughput benchmark;
- the Criterion result aggregator.

Each model comes with TLC configurations that check it on small instances. `ReqRepProofs`, `PubSubProofs`, `SubPollProofs`, `BulkBenchProofs` and `AggregatorProofs` hold the TLAPS proofs.

## 1. The system and its parts

| Part (spec.md name) | Source | Module |
|---|---|---|
| ProcessHarness | `MonocoqueServer` in `test_req_rep_interop.py`; the inline `Popen` / `send_signal` / `communicate` / `poll` / `kill` calls in `test_pub_sub_interop.py` and `simple_interop_test.py` | `ProcessHarness` |
| PatternVerifier, REQ/REP | `test_req_rep_interop.py`, `simple_interop_test.py` | `ReqRep` |
| PatternVerifier, PUB/SUB | `test_pub_sub_interop.py` | `PubSub` (test as publisher), `SubPoll` (test as subscriber) |
| BenchmarkRunner | `benches/interop/libzmq_throughput.py` | `BulkBench` |
| ResultAggregator | `analyze_benchmarks.py` | `Aggregator` |

The parts interact as follows:

- The harness spawns an endpoint process (a Monocoque REP server or SUB client).
- The test drives a libzmq socket against that process.
- The endpoint answers, prints what it receives, or dies.
- At the end the test signals, waits for and kills the process.

The concurrency is real. The test thread, the spawned process, and libzmq's I/O threads (connection set-up, subscription propagation, queueing) all run independently. The only synchronisation is fixed `time.sleep` calls.

The Rust binaries (`examples/simple_rep_server`, `sub_client`, ...) are not under `src/`. Their behaviour is therefore modelled from spec.md and marked `spec_modelled` in `PROJECT.json`:

- echo with the `Echo: ` prefix on frame 0;
- prefix subscription filter;
- print each message;
- no SIGTERM handler.

### What is hard in each part

- **ProcessHarness**:
  - `Popen` returns before the child has bound its socket;
  - `wait(timeout)` raises `TimeoutExpired` and leaves the child alive;
  - the `finally` blocks must run on every failure path.
- **REQ/REP**:
  - a request sent before the server binds is queued by the REQ socket;
  - a server may die holding a request, and then `recv()` (with no timeout) blocks forever;
  - ten cycles on one socket must never compare a reply with the wrong request;
  - multipart replies must keep their frame boundaries.
- **PUB/SUB**:
  - the PUB drops messages for a subscriber whose subscription it has not processed;
  - filtering happens at the PUB and again at the SUB;
  - the `finally` block must kill a subscriber left alive by a `communicate` timeout or a failed assert;
  - when the test is the subscriber, its NOBLOCK receives have no retry and race the publisher.
- **Bulk benchmark**:
  - NOBLOCK sends are dropped before the subscription arrives or at the send high-water mark;
  - the receive loop has no retry budget.
- **Aggregator**:
  - a malformed estimates file makes `json.load` raise;
  - missing keys default to 0 and are later divided by;
  - the unit thresholds of `format_throughput`, fed a floating-point quotient;
  - the counterpart name of a `monocoque` benchmark and the direction of the speedup.

## 2. Modules

### `ProcessHarness`

The life cycle of one spawned process.

- **State**:
  - `proc` is one of `none`, `starting`, `serving`, `exited`;
  - `sigterm` records whether SIGTERM has been sent.
- **Operators**:
  - `Popen` (`subprocess.Popen`);
  - `Bind` (the child has bound or connected);
  - `SendSigterm`;
  - `TermExit` (the default SIGTERM action);
  - `Crash`;
  - `Kill` (`process.kill()`, a no-op on an exited process);
  - `WaitReturns` / `WaitTimesOut`, the two outcomes of `wait(timeout=5)` and `communicate(timeout=5)`.

The module has no specification of its own. `ReqRep` and `PubSub` use its operators inside their actions.

### `ReqRep`

One test function at a time. The scenario `scn` is chosen in `Init` from the `Scenarios` constant: the requests, whether the reply is compared exactly or by prefix and length, and whether the body is inside `try/finally`.

The test's state:

- `pc`: `start`, `connect`, `send`, `recv`, `close`, `stop`, `wait`, `done`, `error`;
- `cycle`;
- `failed`, which is set when an assert fails.

The network: `toRep` (requests queued at the REQ socket), `held` (the request the server is answering) and `toReq` (replies on the wire).

Actions of the test:

- `Start` = `server.start()`;
- `Connect`;
- `Send`;
- `Recv`, which covers `recv()` plus the assert plus the `for` loop;
- `Close`;
- `Stop` = `send_signal(SIGTERM)`;
- `WaitExit` / `WaitTimeout` = `wait(timeout=5)`.

Actions of the server: `ServerBind`, `ServerRecv`, `ServerReply`, `ServerTerm` and `ServerCrash` (only when `MayCrash`).

`MC_ReqRep` instantiates the five scenarios of the source:

- `test_libzmq_req_to_monocoque_rep`;
- `simple_interop_test.py` (no `try`);
- `test_multiple_request_cycles` ("Request 0" .. "Request 9");
- `test_multipart_message_req_rep` (three frames);
- `test_large_message_req_rep` (prefix and length check).

A frame is a sequence of tokens and `EchoPrefix` a token, so `Echo: ` + frame is a concatenation of sequences. A 1 MiB payload is one token, because only its length relative to the reply matters.

### `SubPoll`

`test_monocoque_pub_to_libzmq_sub`: the test is a libzmq SUB socket, and a spawned Monocoque publisher is the peer.

- **State of the test**:
  - `pc` is one of `start`, `connect`, `recv`, `stop`, `wait`, `done`, `error`;
  - `received` is the list `received`;
  - `again` records that a NOBLOCK `recv` raised `zmq.Again`.
- **State of the publisher and libzmq**:
  - `subscribed`: the SUBSCRIBE has reached the publisher;
  - `sent`: how many numbered messages it has published;
  - `queue`: what sits in the SUB socket;
  - `proc` and `sigterm` come from `ProcessHarness`.
- **Test actions**:
  - `Start` (`Popen` and the first sleep);
  - `Subscribe` (connect, `SUBSCRIBE`, sleep);
  - `RecvFirst`, the blocking first `recv()`;
  - `RecvNoBlock`: a message is taken, or `zmq.Again` leaves the `try`;
  - `Close` after five messages;
  - `Stop` (SIGTERM);
  - `WaitExit` / `WaitTimeout`.
- **Publisher actions**, from the spec because the binary is outside `src/`:
  - `PubBind`;
  - `SubArrive`;
  - `Publish`, which is dropped before the subscription and queued in order after it;
  - `PubTerm`;
  - `PubCrash`.

The payloads are numbered so that loss, duplication and reordering are visible. The `b"Hello"` assert holds of every message and is left out.

### `PubSub`

`test_libzmq_pub_to_monocoque_sub` and `test_topic_filtering` are each a plan: the source-ordered list of steps and the index where the `finally` block starts. `Advance` moves to the next step. `Raise` jumps to the `finally` block, on `TimeoutExpired` or on a failed assert.

- **Test steps**: `Spawn`, `BindPub`, `Publish` (one message per step), `ClosePub`, `Sigterm`, `Communicate` / `CommunicateTimeout`, `Check` (the `in` / `not in` asserts) and `KillSub` (`if poll() is None: kill()`).
- **Subscriber and libzmq actions**: `SubStart`, `LinkUp`, `Subscribed`, `SubRecv` (receive and print if the message matches), `SubExit` (SIGTERM or a crash, which loses what was not printed).
- **PUB behaviour**: the PUB forwards a message only when `link = "subscribed"` and the message matches the topic; otherwise the message is gone.

### `BulkBench`

`bench_pub_sub_throughput`, with message counts in place of the identical payloads.

- **Thread steps**: `Setup`, `Send` (NOBLOCK: queued if subscribed and below `SndHwm`, otherwise dropped), `EndSend`, `Recv`, `RecvAgain` (`zmq.Again`, sleep, loop).
- **libzmq actions**: `Connect`, `Subscribe` and `Transfer` (PUB queue to SUB queue, below `RcvHwm`).
- A message dropped by the PUB (before the subscription or at the mark) simply is not queued; nothing records it, as nothing in the code does.

### `Aggregator`

The script as four steps:

1. `NotFound` or `Parse`, which is `parse_criterion_results`, or a crash when `json.load` meets a malformed file (the `base` file is loaded even if `new` is fine);
2. `Summarize`, which is `generate_summary`, or a crash with `ZeroDivisionError`;
3. `Write`.

Two abstractions keep the arithmetic exact:

- Times stay in the nanoseconds of the file, because dividing by 1e6 preserves zero and order.
- `format_throughput` compares `per_iteration / ((ns/1e6)/1000)` with 10^e, a quotient the code computes in IEEE doubles. The model compares the exact value by cross-multiplying (`AtLeast`). When the exact value differs from 10^e, the rounded one stays on the same side: for integer inputs below 2^31 the exact value is at least a relative 1e-10 away, far more than the few ulps of error. When the exact value *is* 10^e, the rounded quotient may land on either side, and `AtLeast` returns both outcomes. `ScaleExps` is the set of units `format_throughput` may then pick, and `Summarize` picks one per benchmark (`Roundings`). The pipelined highlight evaluates the same expression, so it gets the same unit.
- The speedup comparison `zmq_time / mono_time > 1` is kept exact (`Faster`): it is a ratio of two values divided by the same 1e6, and it equals 1 exactly when the means are equal.

Benchmark names are sequences of their `_`-separated tokens. `ReplaceTag` is `name.replace('monocoque', 'zmq_rs')`, written as a recursive function over the prefixes of the name, not as a RECURSIVE operator, so that the module can be proved about.

The second `.replace('_monocoque_', '_zmq_rs_')` can never match after the first, so it is modelled as what it is: nothing. The text layout (headings, two-decimal rendering, line order) is left out.

`MC_Aggregator` gives four directories (a monocoque REQ bench, its zmq_rs counterpart, a pipelined monocoque bench, and Criterion's `report` directory) every combination of seven base/new snapshot states, one of them a malformed `base` file. The estimates put throughput values exactly on the 1e6 thresholds, beyond the largest unit (1e12 msg/s) and below the smallest (500 B/s). The values are kept small enough that TLC's cross-multiplications stay below 2^31.

## 3. Runs

| Run | cfg | Expect | What it shows |
|---|---|---|---|
| reqrep_crash | `MC_ReqRep_crash.cfg` | pass | Against a server that may die at any point, the proof's inductive invariant `IInv` holds: at most one message in flight and none outside `recv` (`Lockstep`), anything in flight belongs to the current cycle (`CycleIntegrity`), and no assert fails on a correct echo (`NoFalseMismatch`). Its mutant, a server that keeps answering a request it already answered, breaks it after one reply. Deadlock is not checked because the test really can hang. |
| reqrep_hang | `MC_ReqRep_hang.cfg` | violation | `Terminates` fails: the server dies holding a request and `recv()` blocks forever. |
| reqrep_orphan | `MC_ReqRep_orphan.cfg` | violation | `NoOrphanServer` fails: `wait(timeout=5)` times out and `stop()` leaves the server running. |
| pubsub_main | `MC_PubSub.cfg` | pass | `NoOrphanSubscriber`: on every path, including a `communicate` timeout, a failed assert and a subscriber crash, the test ends with the subscriber exited. |
| pubsub_slow | `MC_PubSub_slow.cfg` | violation | `CompleteDelivery` fails: a subscriber still being built by cargo misses every message. |
| subpoll_main | `MC_SubPoll.cfg` | pass | `TypeOK`: whatever the timing of subscription, publishing, crash and SIGTERM, the receive loop holds at most its five messages, all published ones; its mutant lets the NOBLOCK loop run past five. |
| subpoll_again | `MC_SubPoll_again.cfg` | violation | `NoAgainFailure` fails: the publisher is slower than the test, a NOBLOCK `recv` finds the socket empty and raises `zmq.Again`. Spec 7 asks for a bounded retry, and there is none. |
| bulkbench_main | `MC_BulkBench.cfg` | pass | `TypeOK`: the counters stay within `num_messages` and each queue within its high-water mark, whatever the subscription timing; its mutant queues one message past the mark. |
| bulkbench_hang | `MC_BulkBench_hang.cfg` | violation | `Terminates` fails: once a message is dropped, the receive loop spins forever. |
| aggregator_main | `MC_Aggregator.cfg` | pass | `TypeOK`: one row per directory other than `report`, with numbers where the script defaults with `.get(..., 0)`. Its mutant forgets to skip `report`. The run also drives every path of the script: not found, malformed file, division by zero, and the write. |
| aggregator_nomean | `MC_Aggregator_nomean.cfg` | violation | `NoAbort` fails: a file without `mean` makes `generate_summary` divide by zero, and no summary is written. |
| aggregator_float | `MC_Aggregator_float.cfg` | violation | `UnitAsSpecified` fails: 5 bytes per 5000 ns is exactly 1e6 bytes/s, which spec 4.4 shows in MiB/s, but `5 / ((5000/1e6)/1000)` is 999999.9999999999 in Python, so the line reads "1000.00 KiB/s". The instance holds only that estimate, whose rounding was checked in Python, so the trace is a real run of the code. |

Every property of a passing run has a mutant in `PROJECT.json`: an operator defined just before the code definition it replaces, modelling a plausible bug in that code (a loop bound off by one, a message queued past the high-water mark, a server that does not forget an answered request, a `finally` that never kills, the `report` directory not skipped). TLC finds each mutant's property violated.

### Bounds

- **REQ/REP**: the five real scenarios, up to ten cycles and three frames. Every order of server start-up, request, reply, SIGTERM, exit and crash is covered, from 116 states (187 with crashes).
- **PUB/SUB**: the two real message lists (five messages; four with two matching). The subscriber may start before, between or after the publishes and may die at any point (374 states).
- **SubPoll**: `MaxPub = 7`, which is enough for the subscription to arrive after one or two messages have been dropped and for five to remain. The test and the publisher interleave in every order, with crashes (753 states). `CHECK_DEADLOCK FALSE`: when the publisher dies early, the blocking first `recv()` really does wait forever.
- **Bulk benchmark**: 6 messages with `SndHwm = 4` and `RcvHwm = 2`. This is enough to fill both queues, to drop at the high-water mark, and to drop before the subscription arrives. Because every send precedes the first receive, the loop can only finish when `num_messages <= SndHwm + RcvHwm`. The instance sits exactly at that limit, so completion is reachable. With 100000 messages and libzmq's default marks of 1000, the real benchmark depends on TCP buffering not to hang.
- **Aggregator**: 7^4 = 2401 directories times the found / not-found flag, times the rounding outcomes at the thresholds (16772 states), including values on both ends of the scale and exactly on them.

### Fairness

`ReqRep!FairSpec` and `BulkBench!FairSpec` give weak fairness to:

- every step of the single test thread, which runs whenever it is not blocked;
- the server's or libzmq's progress steps: bind, receive, reply, exit on SIGTERM, connect, subscribe, transfer.

`ReqRep` gives weak fairness to `WaitExit \/ WaitTimeout` as one step, not to each: `process.wait(timeout=5)` always returns, by exit or by `TimeoutExpired`, and which of the two depends on the server.

No fairness is given to:

- `ServerCrash`, which may happen but need not;
- `RecvAgain` and `Done` of `BulkBench`, which are stuttering steps.

`PubSub` and `SubPoll` check only safety and use `Spec`. `SubPoll` has no liveness property: whether its five receives finish depends only on how many messages the publisher sends, which is a bound of the model, not of the code.

## 4. Proofs

### `ReqRepProofs`

The proofs hold for every value of the constants, under `ScenariosAssumption` and `ConstAssumption`: scenarios are well formed, requests are non-empty, and `NoMsg` is not a message.

- `IInvHolds`: `Spec => []IInv`, the invariant that `reqrep_crash` checks. `TypeCorrect`, `NoFalseMismatchHolds` and `LockstepHolds` follow from it.

Neither `NoFalseMismatch` nor `Lockstep` is inductive by itself. A state with a stale reply on the wire satisfies both, yet its next `Recv` fails. The proof therefore uses

`IInv == TypeOK /\ Lockstep /\ CycleIntegrity /\ NoFalseMismatch`

where `CycleIntegrity` states that anything in the pipes or held by the server is the current cycle's request, or the echo of it. `Lockstep` makes the current request the only one that can be in the pipes. `CycleIntegrity` then makes every reply `Recv` sees equal to `EchoReply(Request)`.

The lemmas:

- `EchoIsExpected` shows that `EchoReply(m) = Expected(m)`, and that it has one more token in frame 0, starting with the prefix.
- `EchoAccepted` shows that `Accepts` holds for both the exact and the prefix and length comparison, so `failed` stays false.
- `IInvStep` has one case per action. `ServerCrash` and `ServerTerm` lose the held request: that only lowers the in-flight count, and `Recv` can then never fire, which is the hang that `reqrep_hang` shows.

### `SubPollProofs`

`TypeCorrect`: `Spec => []TypeOK` for every `MaxPub`, under `SubPollAssumption`. `TypeOK` is inductive on its own. `RecvNoBlock`'s guard `Len(received) < NRecv` keeps the loop within five messages, and `Publish`'s guard `sent < MaxPub` keeps every queued number within `1..MaxPub`. The sequence steps cite `HeadTailProperties` and `AppendProperties`.

### `BulkBenchProofs`

`TypeCorrect`: `Spec => []TypeOK` for every `num_messages` and pair of high-water marks, under `BenchAssumption` (all three are positive naturals). The counters stay within `num_messages` and each queue within its mark. `TypeOK` is inductive, and the proof has one case per action.

### `PubSubProofs`

Two theorems hold for every set of scenarios. They rest on two assumptions:

- `ScenariosAssumption`: well-formed plans, messages and topic;
- `PlanAssumption`: the shape both test functions share. The subscriber is spawned before the `try` block, so before `communicate` and the asserts, and the `finally` block ends with the poll/kill.

The theorems:

- `TypeCorrect`: `Spec => []TypeOK`.
- `NoOrphanSubscriberHolds`: `Spec => []NoOrphanSubscriber`.

`NoOrphanSubscriber` is not inductive. A state at the last step with no subscriber spawned satisfies it, and its `KillSub` ends the test with `proc = "none"`. The inductive invariant `CInv == TypeOK /\ Spawned /\ NoOrphanSubscriber` adds `Spawned`: once the script is past a spawn step, `proc # "none"`. A `Raise` jumps to the `finally` block only from a step after the spawn, and so keeps `Spawned`. The `KillSub` at the last step then finds the subscriber spawned and leaves it exited, and nothing revives it.

### `AggregatorProofs`

`TypeCorrect`: `Spec => []TypeOK`, for every set of benchmark directories and every estimates file, under `AggregatorAssumption` alone. The lemma `RowType` shows that a well-formed chosen file gives a row with numbers where the script defaults with `.get(..., 0)`. A malformed file stops `Parse` before any row is built.

### What stays with TLC

- Liveness (`Terminates`) and anything that needs `ENABLED` is out of the prover's reach.
- Induction over data is out of reach too.
- What `ReplaceTag` returns is never proved.
- `PubSub`'s `CompleteDelivery` is a violation run, and is not proved.
- No action property and no refinement is stated. Both were tried on `ReqRep`, but they restated the test's own control flow, so they showed nothing about the code.

## 5. Not modelled, and why

- `test_monocoque_req_to_libzmq_rep` (the test as the REP side of one exchange) is not modelled. It is a single request and reply, and its only hazard, a blocking `recv()` with no timeout, is the one `reqrep_hang` already shows.
- `bench_req_rep_throughput` is a strictly alternating in-process loop with nothing to interleave. The benchmark's `main` and the aggregator's printing are only I/O.
- `test_libzmq_client.py` is a manual script against an already running server.
- The Monocoque wire protocol is the system under test and is treated as an external collaborator (spec §1).
- Two behaviours of the aggregator are listed as hazards without a property:
  - a malformed `estimates.json` aborting the run: `Parse` models it, but spec.md's non-fatal rule speaks only of missing files;
  - the defaulting of a missing confidence interval to `[0, 0]`, which only reaches the printed text.
- `test_monocoque_pub_to_libzmq_sub` has the same unkilled-publisher path after `wait(timeout=5)` as `MonocoqueServer.stop()`. `SubPoll` keeps that path, but only `reqrep_orphan` runs it.
- `MonocoqueServer.start` opens stdout and stderr as pipes that nobody reads until the end, so a chatty server can block. Output volume is not modelled.
