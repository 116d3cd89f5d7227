# TLA+ models of the police-thief load testers and tools

This directory holds TLA+ models of the load-testing code in `src/`, of the
UDP test server and of the maintenance scripts under `src/scripts/`. The
models are checked with TLC. `PROJECT.json` is the machine-readable
companion of this file. It lists the components, the runs, the mutants, the
map from each definition to the source lines it models, the findings and the
hazards.

## 1. Inventory

### The system

`src/tcp_load_test.py` and `src/rudp_load_test.py` are two near-duplicate
asyncio programs. Each one simulates `NUM_ROOMS x PLAYERS_PER_ROOM` players
against a game server. `spec.md` describes them as one design. The parts are:

| Component | Code | State | Operations |
|---|---|---|---|
| Metrics Aggregator | `PerformanceMetrics` (tcp 35-69, rudp 38-70) | `messages_sent`, `messages_received`, `bytes_*`, `errors`, `connections`, `connection_errors` (TCP only), `latencies` (a list), `start_time` | `+= 1` from every task; derived rates read by the monitor and the report |
| Virtual Client | `VirtualPlayer` (tcp 71-238, rudp 72-190) | transport (TCP reader/writer or UDP socket), `connected` (TCP), `is_running`, position and velocity | `run`, `connect`, `send_message`, `update_position`, `read_messages` (TCP), `disconnect`, `stop` |
| Population Orchestrator | `LoadTestManager.create_players`, `run_test` | `players`, `is_running`, the task list | ramp in batches of 50 with a 0.1 s pause, sleep `TEST_DURATION`, stop (and in TCP cancel) every player, `gather`, report |
| Live Monitor | `monitor_stats`, `print_live_stats` | none of its own | every 2 s while the manager runs, print a snapshot |
| Scorer | `evaluate_performance`, the formulas in `print_results` | none (pure) | thresholds and weights give a score and a grade A/B/C |
| Simple UDP test server | `simple_udp_server.py` | the socket, `stats` (counters, client set) | a receive loop in the main thread, a stats printer in a daemon thread |
| Documentation generator | `scripts/generate_docs.py` | the project's `.rs` files, the workspace README files | insert rustdoc above undocumented public items, write missing READMEs, report |
| Source rewriters | `scripts/remove_unwraps.py`, `batch_remove_unwraps.py`, `final_unwrap_removal.py`, `final_improvement.py`, `remove_allows.py` | the project's `.rs` files, a total per run | rewrite `.unwrap()` sites or drop `#[allow]` lines with regular expressions, write back, count |
| Out of scope | printing, `psutil` | | formatting and host sampling |

### How the parts interact

Everything runs on one asyncio event loop. No two steps ever run in
parallel. A task runs without interruption from one suspension point to the
next. A suspension point is an `await` that really waits:
`open_connection`, a paused `drain()`, `reader.read`, `asyncio.sleep`, or
`wait_closed`. Shared state is the metrics object and each player's
`is_running` flag. Every task writes the metrics. The manager writes
`is_running` through `stop()`. The manager also cancels tasks (TCP only),
and cancellation raises `CancelledError` at the task's next suspension
point. The monitor only reads.

The UDP server is a separate process with two OS threads sharing a
dictionary. The scripts are sequential programs, run by hand one after
another on the same Rust tree, so the order in which they are run is what
composes them.

### What is hard here

- **Cancellation.** `CancelledError` is not an `Exception` (Python 3.8 and
  later). It passes through every `except Exception` in the code. Where it
  is raised decides whether `disconnect()` runs:
  - Raised in `open_connection`, it leaves `run()` before `run()`'s `try`.
  - Raised in `sleep` or in a paused Move `drain()`, it runs the `finally`.
- **Shutdown ordering.** `stop()` and `cancel()` are applied to every player
  in one uninterrupted segment. `gather()` has no timeout.
- **Partial failure.** A failed send is counted and swallowed. The caller
  cannot see the failure: a failed Connect still yields `connect() == True`.
  The connection can be lost at any time, and so can the handshake's
  outcome.
- **Reads.** `reader.read(n)` may return fewer than `n` bytes. The receive
  loop treats that as the end of the stream.
- **Arithmetic of the report.** The report divides by `max(1, ...)`, uses
  tier boundaries, and uses two different connection-rate formulas.

### Properties that make each component correct

- **Client:**
  - It never sends a Move after the stop.
  - Its socket is released whatever path ends it.
  - A failed connection never becomes active (spec §4.2).
  - Latency samples match successful sends (spec §8).
  - A failed Disconnect is not counted as an error (spec §4.2).
- **Orchestrator:**
  - The report is always produced (spec §7), a Ctrl-C included (spec §6).
  - The program always ends, Ctrl-C teardown included.
  - Ramp admission holds: at most one batch starts connecting before each
    pause (spec §8).
  - The report is produced only after every client has finished.
- **Monitor:** it never changes the metrics. This holds by construction in
  the model (its step leaves them unchanged), so no property states it.
- **Scorer:**
  - A recorded success never lowers the grade, and a recorded failure
    never raises it.
  - The reported rates are right at their edges (no failure means 100%).
- **Movement:** positions stay in the world (spec §3), which the clamp
  makes immediate; a reflected player moves back into the world (spec §8).
- **UDP server:** the client count never runs ahead of the message count;
  Ctrl-C ends the process although the stats
  thread never stops; every queued datagram is counted.
- **Documentation generator:** each doc block lands right above its item
  and a rerun adds nothing; no item gets a second doc comment.
- **Source rewriters:** no script adds a line other than an import;
  nothing reintroduces an `.unwrap()` after `final_unwrap_removal`; the
  printed totals match what was removed; `final_improvement` imports
  `AppError` once; `remove_unwraps` imports `SafeUnwrap` wherever the file
  calls it and leaves test code alone.

## 2. Modules and runs

### `TcpLoadTest` (tcp_load_test.py), instantiated by `MC_TcpLoadTest`

**State.** Each player has these variables:
- `pc`: the position of its `run()` task. `send`, `sent` and `loop` hold the
  loop; `open`, `drain`, `sleep` and `closing` are suspension points.
- `msg`: what `send_message` is sending.
- `sock`: `none`, `open`, `lost` (reset by the peer; asyncio's transport
  closed itself) or `closed` (`writer.close()`).
- `connected`, `is_running`, `cancelling` (a pending `Task.cancel()`).
- `read_pc` and `read_cancelling` for the `read_messages()` task.

The manager has `mgr_pc`, `created` (tasks created by the ramp),
`mgr_running` and `mon_pc`. The metrics counters are variables named as in
`PerformanceMetrics`. `latencies` is the length of the list.

`current` is the task holding the event loop. A task's resumption, the
manager's steps, the monitor's steps and the read tasks' steps can happen
only while `current = Idle`. That is how cooperative scheduling is encoded.

**Actions.**
- `Start`, `OpenOk`, `OpenFail`: `connect()`.
- `SendMessage`, `DrainResume`, `SendSucceeds`, `SendFails`:
  `send_message()`. `drain()` returns, raises, or suspends only when flow
  control paused writing, which a first frame never causes.
- `ConnectReturned`, `LoopCheck`, `MoveReturned`, `Wake`: `run()` and
  `update_position()`.
- `Disconnect`, `DisconnectSent`, `Closed`: `disconnect()`.
- `Cancelled`: delivery of `CancelledError` at each suspension point.
- `ReadStart`, `ReadFrame`, `ReadStop`, `ReadError`: `read_messages()`.
- `StartTest`, `StartBatch`, `RampWake`, `DurationEnd`, `GatherDone`:
  `run_test()`.
- `MonStep`: the monitor.
- `Interrupt`, `Teardown`: Ctrl-C while `run_test()` awaits (main 481-490,
  `asyncio.run()` 497). Python's runner turns the SIGINT into a cancel of
  the main task, so `except KeyboardInterrupt` in `main()` is never
  reached. `CancelledError` leaves `run_test()` and `main()`, and
  `print_results()` is skipped. The runner then cancels every pending task
  and waits until all of them finish (`Teardown`). The signal handler and
  the delivery of the cancel to the main task are merged into one step,
  because no other step reads the flag between them. A player already in
  its `finally: disconnect()` is cancelled a second time. That cancel lands
  in the Disconnect drain or in `wait_closed()` and escapes
  `except Exception` (232-233), so `close()` is skipped or `connected`
  stays set (the last disjunct of `Cancelled`).
- `Lose`: the environment resetting a connection.

**Abstractions.**
- Positions, velocities, JSON, byte counts and timestamps are left out. No
  property reads them.
- Time is abstract, with two exceptions that come from asyncio's ready-queue
  order. A task created before a `sleep()` makes its first step before that
  sleep's timer fires. The monitor makes its first step before
  `TEST_DURATION` ends.
- `MaxTicks` bounds the timer firings of one player before the test
  duration ends. `MaxFrames` bounds the frames one read task receives.

**Fairness.** Every code step is weakly fair, because the event loop runs
every ready task and fires every due timer. The environment is assumed to
complete handshakes, paused drains and `wait_closed`, that is, the server
keeps reading. `Lose` and `Interrupt` are not fair: neither a reset nor a
Ctrl-C need ever happen. `Teardown` is weakly fair.

`StalledServerSpec` drops the assumption that the server keeps reading.
`WaitsOnServer` names the steps it leaves unfair:
- a `drain()` on an open connection;
- a `wait_closed()` after `close()` of an open connection.

A `wait_closed()` on a connection that was lost first returns at once, so
it stays fair.

**Bounds.** The model uses 2 rooms of 1 player, batch size 1 (two ramp
batches, so the second batch is created while the first player is
connecting), `MaxTicks = 2` and `MaxFrames = 1`. These bounds reach the
following cases:
- a cancel in every suspension point;
- a loss before, during and after a paused drain;
- a handshake failure beside a success;
- a stop while the other player is still connecting;
- a Ctrl-C during `gather()` (`InterruptAt = {"gather"}`), when both
  players may be anywhere in `disconnect()`, so the runner's cancel is
  their second one.

`InterruptAt` bounds the awaits of `run_test()` at which a Ctrl-C may come.
A Ctrl-C during the ramp or the duration meets players in the same places
as the shutdown's own cancel, which the run already covers, and allowing
all three awaits takes the run past five minutes (1.76M states). With
`{"gather"}` the run takes about 3.5 minutes (1.07M states), most of it
spent checking the refinement and liveness properties. Three players take
far longer. The violation run `tcp_interrupt_report` allows all three
awaits with one player.

| Run | cfg | Expect | What it shows |
|---|---|---|---|
| `tcp_shutdown` | `TcpLoadTest.cfg` | pass | These properties hold in every interleaving: `ProgramEnds` (the program always ends, with the report or through the Ctrl-C teardown), `SocketsReleasedAtReport` (no socket is still open at the report), `ReadCancelUnreached` (no player is in the Move loop's body with `is_running` false, so `read_task.cancel()` at tcp 209 is reached only by leaving the loop normally, which shutdown never allows) and `TypeOK`. `LifecycleRefined`: the TCP client implements `ClientLifecycle` (spec §4.2), so in particular no Move follows the stop. Every started player ending `Closed` or `Failed` follows from `ProgramEnds`, since the program ends only when every task is done. |
| `tcp_connect_failure` | `TcpConnectFailure.cfg` | violation | A player whose Connect send failed is counted as connected and sends Moves. The spec says it fails. |
| `tcp_interrupt_report` | `TcpInterruptReport.cfg` (1 player, Ctrl-C at any await) | violation | `ReportProduced` fails: Ctrl-C during the ramp goes straight to the teardown and the program exits with no report. The spec (§6) says an interrupt takes the graceful-shutdown path and the final report is produced. `main()`'s `except KeyboardInterrupt` was written for that, but under `asyncio.run()` it is never reached. |

Each passing property has a mutant in `PROJECT.json`. Each mutant is a
plausible code bug that TLC catches:
- `sleep()` not awaited breaks `TypeOK`, because the tick bound is
  exceeded.
- Shutdown that forgets to stop and cancel the players breaks
  `ProgramEnds`.
- The same shutdown breaks `LifecycleRefined`, because a Move follows
  the stop.
- `writer.close()` forgotten breaks `SocketsReleasedAtReport`.
- Shutdown that stops the players but does not cancel them breaks
  `ReadCancelUnreached`: a player then wakes, sees `is_running` false and
  reaches `read_task.cancel()`.

**What the passing run says about the code.** `SocketsReleasedAtReport`
holds only because of two asyncio behaviours:
- `create_connection` closes a half-made connection when cancelled.
- A Connect frame, written into an empty buffer, never pauses `drain()`.
  Every later path to the end of `run()` goes through `finally:
  disconnect()`.

A player cancelled inside `open_connection` is counted neither in
`connections` nor in `connection_errors`.

`ReadCancelUnreached` shows that the receive task is never cancelled by
its player, contrary to spec §4.2: shutdown cancels `run()` while it is
suspended, so `run()` never sees the loop condition false. The read tasks
end on end of stream, a short read, an error, or when `asyncio.run()`
tears the loop down after the report.

### `RudpLoadTest` (rudp_load_test.py), instantiated by `MC_RudpLoadTest`

**State.** Each player has these variables:
- `pc`: `new`, `start` (task created, not yet run), `sleep` or `done`.
- `sock`: `none`, `open` or `closed`.
- `is_running`, `ticks`.
- `connect_send`: a history variable holding the outcome of the Connect
  datagram.
- `cancelling`: a cancel requested by `asyncio.run()` after a Ctrl-C and
  not yet delivered.

The manager and the metrics are as in `TcpLoadTest`, with no
`connections`, no `connection_errors` and no `messages_received`. The RUDP
`PerformanceMetrics` has the first two, and the program never updates the
third.

**Atomicity.** `send_message` calls `socket.sendto()` and never awaits. So
`connect()`, `update_position()` and `disconnect()` never suspend, and the
only suspension point of a player is `asyncio.sleep`. A player's step is
therefore the whole segment between two sleeps:
- `Start`: `connect()`, then the first loop iteration.
- `Wake`: one loop iteration, or the loop exit with `disconnect()`.

Both steps end in `Loop`, which models the `while` test, `update_position()`,
the sleep, or `disconnect()`. `Sends` counts sends that succeed or fail.
There is no need for `current`, because no two segments can interleave. The
shutdown is `stop()` alone, with no `cancel()`.

**Ctrl-C.** `main()` (rudp 410-426) is the same as TCP's, so it is modelled
the same way. `Interrupt` is a Ctrl-C while `run_test()` awaits a ramp
pause, the test duration or `gather()`. It moves the manager to `teardown`
and requests a cancel of every task that exists. `Cancelled(p)` delivers the
cancel at the task's next step:
- a task that never ran ends without a socket;
- a sleeping player gets `CancelledError`, which `except Exception` does
  not catch, so `finally: disconnect()` sends the Disconnect and closes the
  socket.

`Teardown` waits until every task is done. `Interrupt` is not fair, and
`Teardown` is weakly fair. In the refinement mapping the stop is
`~mgr_running` or the teardown begun. The report is lost exactly as on TCP:
`ReportProduced` is violated here too (`tcp_interrupt_report` shows it on
TCP).

| Run | cfg | Expect | What it shows |
|---|---|---|---|
| `rudp_shutdown` | `RudpLoadTest.cfg` | pass | With a stop-only shutdown and a Ctrl-C at any await of `run_test()`: `ProgramEnds` (the program always ends, with the report or through the teardown), `SocketsClosedAtEnd` (every socket is closed by then, on both paths through `finally: disconnect()`) and `TypeOK`. `LifecycleRefined`: the program implements `ClientLifecycle` (spec §4.2), so no Move follows the stop. The loop re-tests `is_running` after each sleep, and a tick never suspends. |

Bounds: 3 rooms of 1 player, batch size 2 (a full batch and then a
partial one), `MaxTicks = 2`, Ctrl-C at all three awaits. This gives 45k states
in about 3 s.

Mutants:
- a do-while loop (Move before the `is_running` test) breaks `TypeOK` and
  `LifecycleRefined`;
- `disconnect()` called after the loop instead of in `finally` breaks
  `SocketsClosedAtEnd`, because a player cancelled in its sleep keeps its
  socket;
- a manager that does not stop its players breaks `ProgramEnds`.

### `ClientLifecycle` (spec §4.2), the abstract client

**State.** `state` per client, one of `Idle`, `Connecting`, `Active`,
`Disconnecting`, `Closed`, `Failed`. `stopped`, the orchestrator's stop,
given to every client at once. `moves`, the Move ticks per client.

`Connected` lasts no step ("immediately following connect"). `Activate`
may take the first tick in the same step, as the UDP client does. `Leave`
is Disconnect and Release in one step, for a client whose disconnect does
not suspend. The path through `Disconnecting` is kept for one that does.

**Refinement mapping** (in `RudpLoadTest`):

| RudpLoadTest | ClientLifecycle |
|---|---|
| `pc` `new` | `Idle` |
| `pc` `start` | `Connecting` |
| `pc` `sleep` | `Active` |
| `pc` `done` with a socket | `Closed` |
| `pc` `done` without a socket | `Failed` |
| `~mgr_running` | `stopped` |
| `ticks` | `moves` |

**Refinement mapping** (in `TcpLoadTest`). Here the handshake and the
Disconnect suspend, so `Connecting` and `Disconnecting` last several
steps:

| TcpLoadTest | ClientLifecycle |
|---|---|
| `pc` `new` | `Idle` |
| `pc` `start` or `open`, or sending Connect | `Connecting` |
| `pc` `loop` or `sleep`, or sending a Move | `Active` |
| sending Disconnect, or `pc` `closing` | `Disconnecting` |
| `pc` `done` with a writer | `Closed` |
| `pc` `done` without one (handshake failed or cancelled) | `Failed` |
| `~mgr_running`, or the Ctrl-C teardown has begun | `stopped` |
| `ticks` | `moves` |

"Sending" is `pc` in `send`, `drain` or `sent` with that `msg`.
`ConnectReturned` is `Activate` whatever the Connect send did, which the
abstract lifecycle allows; spec §4.2's stricter rule is the violation run
`tcp_connect_failure`. A cancel in a sleep or a paused Move drain is
`Disconnect`. A cancel in the handshake is `ConnectFail`.

`Lifecycle!Spec` is checked as a property of `FairSpec`. The abstract
module has no run of its own, because it models the spec, not code.

### `PlayerMotion` (update_position's random walk), instantiated by `MC_PlayerMotion`

**State.** `position` and `velocity` on the two planar axes. The z
component is never written and is left out.

**Action.** `Tick` is the position part of `update_position()` (rudp
126-141, tcp 164-179):
- move;
- for each axis that left `[0, WORLD_SIZE]`, reflect the velocity and clamp
  the position;
- then either keep the velocity or resample both components (the
  probability-0.1 branch).

**Abstraction.** Floats become integers in tenths. The world is 2.0 wide,
and the velocities are -1.0, -0.1, 0, 0.1 and 1.0. With these values a step
can overshoot a wall by a whole unit, stop exactly on a wall, or stand
still. A wider world only lengthens the walk between walls.

| Run | cfg | Expect | What it shows |
|---|---|---|---|
| `player_reflection` | `PlayerMotion.cfg` | violation | `ReflectionExample` (spec §8) fails. From x = WORLD_SIZE - 0.1 with vx = +1, one tick gives x = WORLD_SIZE, but the velocity resample (rudp 139-141) that follows the reflection may leave vx = 0 or positive. Spec §4.2 lists the same order, so the spec contradicts itself; the code follows §4.2. |

The spec §3 bound (the position stays in the world) holds by the clamp at
rudp 136 alone, so no run checks it.

### `Scorer` (metrics snapshot, accessors and both `evaluate_performance`), instantiated by `MC_Scorer`

**State.** A metrics snapshot: the counters and the latency list. It is
changed one record at a time by `RecordSent`, `RecordError`,
`RecordConnection`, `RecordConnectionError` and `RecordLatency`, which are
the `+=` and `append` lines of the clients.

**Operators.**
- The accessors the scorer reads are exact comparisons. A rate is compared
  with a threshold by cross-multiplication. `avg_latency` is 0 for an empty
  list, as in the code.
- `TcpTiers` and `RudpTiers` give each axis a tier (1 is best).
  `TcpPoints` and `RudpPoints` give the points of each tier.
- `Score` sums the points. `Grade` applies the bands at 80 and 60.
- `total_score = score/max_score*100` is exact in IEEE floating point at 60
  and 80, so exact rationals give the code's grades.

**Bounds.** The snapshots start one record away from every tier boundary:
- 1999.9, 4999.9 and 9999.9 msg/s over 10 s;
- error rates just under 0.1% and 1%;
- 6 and 8 connections out of 10;
- latency samples of 10, 50, 51, 100 and 101 ms.

Two records are applied after the start.

| Run | cfg | Expect | What it shows |
|---|---|---|---|
| `scorer_monotone` | `Scorer.cfg` | pass | `GradeFollowsOutcomes`: for both scorers, a recorded success never lowers the grade and a recorded failure never raises it. A mutant with the error-rate test flipped breaks it. |
| `scorer_connection_rate` | `ScorerConnectionRate.cfg` | violation | The TCP report's connection success rate (tcp 354) is `connections/(connections+max(1, connection_errors))`. It prints 90.91% for 10 of 10 connections. |

The two scorers have different thresholds and weights for the same axes:
- throughput: best tier at 5000 msg/s (TCP) against 10000 msg/s (RUDP);
- error rate: weight 25 (TCP) against 40 (RUDP).

The spec (§4.5) speaks of one table. No property states which one is
meant.

### `SimpleUdpServer` (simple_udp_server.py), instantiated by `MC_SimpleUdpServer`

**State.**
- `sock`: the server socket.
- `queue`: the kernel receive buffer, at most `RcvCap` datagrams. A
  datagram that finds it full is dropped.
- `sent` and `accepted`: datagrams sent by clients, and those that found
  room in the buffer.
- The main thread: `main_pc`, the datagram `data` in hand, and
  `interrupted`.
- `messages_received`, `bytes_received` and `clients`: the `stats`
  dictionary.
- The stats thread: `stats_pc`, and `seen`, the values it last read.
- `process`: whether the process is running or has exited.

**Actions.** Each statement that touches shared state is its own step,
because the GIL may switch threads between any two of them:
- Main thread: `Receive` (`recvfrom(4096)`), `CountMessage`, `CountBytes`,
  `AddClient`, `Interrupt` (Ctrl-C anywhere in the loop), `Finally`
  (`socket.close()`) and `Exit`. At exit the daemon stats thread is killed.
- Stats thread: `Wake`, `ReadRate`, `ReadCount`, `ReadClients` and
  `ReadBytes`.
- Environment: `Arrive`.

`Received` truncates a datagram to the 4096-byte buffer.

**Fairness.** Both threads get weak fairness: the OS schedules them, and
the GIL is handed over every switch interval. Clients and Ctrl-C are the
environment and get none.

**Bounds.** Three client addresses, sizes 100 and 5000 bytes (one is
truncated), a two-datagram buffer (so drops happen), three datagrams. With
three addresses the three datagrams can come from three different clients
as well as from one client repeatedly. This gives 584k states in about
40 s.

| Run | cfg | Expect | What it shows |
|---|---|---|---|
| `udp_server` | `SimpleUdpServer.cfg` | pass | `ClientsWithinMessages`: distinct clients never exceed counted messages, and no datagram is counted twice or before it left the buffer. It is about the live counters; a printed report combines reads from different moments, and that is not checked. `InterruptEndsProcess`: `running` is never cleared, yet Ctrl-C ends the process, because the stats thread is a daemon. `AcceptedCounted`: every queued datagram is counted unless Ctrl-C comes first. `TypeOK` bounds `bytes_received` by 4096 per message. |

Mutants:
- byte counts taken from the sent size break `TypeOK`;
- the client added on receipt breaks `ClientsWithinMessages`;
- a non-daemon stats thread breaks `InterruptEndsProcess`;
- counting only new clients breaks `AcceptedCounted`.

The stats thread reads the counters one statement at a time, so a printed
line can mix values from before and after a datagram. This is allowed by
the design, so no property forbids it (it is listed as a hazard).

### `DocGenerator` (scripts/generate_docs.py), instantiated by `MC_DocGenerator`

**Abstraction.** A Rust file is a sequence of line kinds: `code`, `doc`,
`attr`, one kind per public item the pattern `^pub\s+(struct|fn|...)`
captures, and `pub_async_fn`, a public item the pattern misses. A template
becomes as many `doc` lines as it has lines. The templates are keyed
`function`, but the pattern captures `fn`, so a function gets the one-line
default, as the code does.

**State.**
- `original` and `content` of each file, and `readable` (the file
  decodes).
- `touched`: files a run has processed.
- `todo`, and the stats `files_processed` and `items_documented`.
- The workspace loop: `ws_i`, `readme` and `dir_exists`.
- `runs`.

**Actions.**
- `Walk`: `os.walk`, with `target/` pruned.
- `ProcessFile`: `process_file` (`find_undocumented_items`, then insertion
  with the running offset, `InsertDocs`/`InsertLines`); an undecodable file
  is skipped.
- `FilesDone`.
- `ModuleDoc`: `generate_module_docs`. A missing directory makes `open()`
  raise, which ends the run.
- `Report`, `Interrupt` (Ctrl-C), and `Rerun` (a new process on the same
  tree).

| Run | cfg | Expect | What it shows |
|---|---|---|---|
| `doc_insertion` | `DocGenerator.cfg` | pass | `DocumentedAsReference`: the offset arithmetic puts each block right above its item, and reruns after a finished, interrupted or crashed run add nothing. `Reference` states the expected file without offsets, using `FlattenSeq`. |
| `doc_attributes` | `DocAttributes.cfg` | violation | `NoSecondDoc`: an item documented above its attributes (`/// x`, `#[derive]`, `pub struct`) gets a second doc block, because only the line right above the item is looked at (generate_docs 116). |

Mutants: insertion without the offset breaks `DocumentedAsReference`;
stats kept across runs break `TypeOK`. Bounds: one source file of up to
three lines of any kind (two items in a row exercise the offset), one file
under `target/`, two workspace members, two runs. This gives 738k states in
about 15 s.

### `SourceRewriters` (the five rewriting scripts), instantiated by `MC_SourceRewriters`

**Abstraction.** A line is a kind that the patterns tell apart:
- `code`, `open` (ends with `{`), `close` (only `}`);
- the test attributes, and `allow_attr`;
- one `.unwrap()` site by its receiver: `x.unwrap()`, `f(x.unwrap())`,
  `f(a).unwrap()`, `m.lock().unwrap()`, `f(g(a)).unwrap()`, and the socket
  chain with two sites;
- four rewritten forms: `?`, `.expect(..)`, `.ok()` and
  `.unwrap_or_default()`.

Two more kinds serve `final_improvement`: `app_error` (a line naming
`AppError`) and `app_import` (its exact import line). Two serve
`remove_unwraps`' import step: `safe_call` (a line that already calls
`safe_unwrap` or `safe_expect`) and `safe_import` (the exact
`use shared::error_handling::{SafeUnwrap, ProjectResult};` line).

Each script's rewrite is an operator derived from its pattern list, in
the order the patterns apply:
- `RURewrite` and `RUScan`, with the test-block scan. `NeedsImport` looks at
  every line of the modified file (remove_unwraps 95-99), not only the
  rewritten ones, so a file already calling `safe_unwrap` gets the import
  after its leading `use` lines (`ImportIndex`), unless the exact line is
  there;
- `BRRewrite` and `BRLine`: test files, then `replace_unwrap`;
- `FURewrite`;
- `FILine` and `FIRewrite`, then `AddErrorHandlingImports`: the import
  after the last `use` line of a file that names `AppError` without it.

`RUProcess`, `BRProcess`, `FUProcess`, `FIProcess` and `RAProcess` model
each script's per-file function. Each gives what the file holds
afterwards and what is added to the printed total, with the script's own
order of count and write and its own exception handling.

**State.**
- `original` and `content` of each file.
- `readable` and `writable`: decoding can fail, and `open(.., 'w')` can
  raise.
- `script`, `pc`, `todo`, `reported` (the printed total) and `removed`
  (what was actually taken out).
- `cleaned`: files `final_unwrap_removal` has processed.
- `rewritten`: files the current run changed.
- `runs`.

**Actions.**
- `Start(s)`: the user runs a script.
- `ProcessFile(f)`: read, rewrite, write if changed, count; a failure is
  caught per file.
- `ScanAll`: `final_improvement`'s full scan after its target list.
- `Finish`.

| Run | cfg | Expect | What it shows |
|---|---|---|---|
| `rewrite_scripts` | `SourceRewriters.cfg` | pass | Any two runs of any scripts, over a file of up to three lines, with failing reads and writes. `TypeOK`: the only lines ever added are the `AppError` and `SafeUnwrap` imports, and neither is ever in a file twice. `NoUnwrapAfterFinalRemoval`: a file `final_unwrap_removal` processed keeps no `.unwrap()`, whatever runs later. `FinalCountsMatch`: the totals of `final_unwrap_removal` and `remove_allows` equal what they removed. `AppErrorImported`: after `final_improvement`, each file it changed that names `AppError` and has a `use` line imports it exactly once, although its target files are processed twice. `SafeUnwrapImported`: after `remove_unwraps`, every file it wrote that calls `safe_unwrap` or `safe_expect` imports `SafeUnwrap`. |
| `rewrite_test_code` | `RewriteTestCode.cfg` | violation | `TestCodeKeepsUnwrap`: `remove_unwraps` turns `.unwrap()` into `?` inside a `#[tokio::test]` function (it looks only for `#[test]` and `#[cfg(test)]`), and after a nested `}` inside a test, contrary to its "test code excluded" comment (remove_unwraps 51, 73-76). |

Mutants:
- `remove_unwraps` inserting its import without the `not in new_lines`
  test breaks `TypeOK` (a second import in a file that had one);
- the `break` of the `needs_import` loop placed outside its `if`, so that
  only the first line is looked at, breaks `SafeUnwrapImported`;
- `final_unwrap_removal` without its catch-all breaks
  `NoUnwrapAfterFinalRemoval`;
- `remove_allows` counting on the rewritten text breaks `FinalCountsMatch`;
- `add_error_handling_imports` not testing for an existing import breaks
  `AppErrorImported`.

The totals of `remove_unwraps` (lines, counted before the write) and of
`final_improvement` (pattern matches) are not site counts, so no property
equates them with what was removed. They are listed as hazards.

Bounds:
- Pass run: line kinds without `open` and with `#[test]` as the only test
  attribute, since those matter only to the test-block scan; files hold at
  most one import line, as a file that compiles does; two script runs.
  This gives 677k states in about 8 s.
- Violation run: test functions of up to five lines.

## 3. Plan

1. **`TcpLoadTest`**:
   - a history of why the receive loop ended, and the property that it ends
     only at end of stream, on an oversized frame or at stop; this is
     expected to be violated by short reads at tcp 144-154;
   - a ramp-admission invariant (spec §8).
2. **Larger instances** of the rewriters (four-line files), which need a
   smaller alphabet of line kinds to stay within minutes.

## 4. Not modelled

- Printing, colouring and `psutil`.
- Ctrl-C under Python before 3.11, where `asyncio.run()` lets
  `KeyboardInterrupt` propagate from the loop at an arbitrary point. The
  model follows the runner of 3.11 and later.
- Bytes and throughput in megabits per second. They are proportional to
  the message counts, which the model keeps.
- Imports of `AppError` in another form than its exact line (a grouped
  `use`). `add_error_handling_imports` would add a second import
  (final_improvement 78, a hazard); the run that would show it has no
  place among the twelve.
- A write that fails halfway. `open(.., 'w')` truncates before writing; the
  model treats a write as all or nothing (a hazard).
- Properties stated in the modules whose violation runs are kept out of
  the twelve runs. Each of these is violated by the code:
  - `DisconnectFailureNotCounted`: a failed Disconnect is counted in
    `errors`.
  - `LatencyPerSend`: after Connect and one Move, with no error, there
    are 2 sends and 1 latency sample, where spec §8 says they are equal
    (this run gave way to `tcp_interrupt_report`).
  - `ProgramEnds` under `StalledServerSpec`: a server that stops reading
    leaves `gather()` waiting forever, since there is no shutdown grace.
  - the RUDP `FailedConnectNeverActive`: a failed Connect datagram still
    makes the RUDP player active.
  - the RUDP `ReportProduced`: a Ctrl-C skips the report, as on TCP.
  - `EveryPublicItemDocumented`: a `pub async fn` gets no documentation.

  A cfg with the property as its only INVARIANT or PROPERTY reproduces
  each one. For `ProgramEnds`, the cfg takes `StalledServerSpec` as its
  SPECIFICATION.
