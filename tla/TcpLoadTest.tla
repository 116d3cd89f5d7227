----------------------------- MODULE TcpLoadTest -----------------------------
(***************************************************************************)
(* src/tcp_load_test.py: a LoadTestManager that starts one VirtualPlayer   *)
(* task per player in batches, lets them send Move messages over TCP for  *)
(* the test duration, stops and cancels them, gathers them and prints a   *)
(* report.  Everything runs on ONE asyncio event loop: a task runs        *)
(* without interruption from one suspension point (an await that really   *)
(* waits) to the next.  `current` is the task that holds the loop while   *)
(* it runs between two suspension points; the other steps (a task's       *)
(* resumption, the manager's, the monitor's and the read tasks' atomic    *)
(* segments) may happen only while the loop is idle.                      *)
(*                                                                         *)
(* Data abstraction: positions, velocities, timestamps, JSON and byte     *)
(* counts are left out; a latency sample is counted, not valued (its      *)
(* value only matters to the Scorer module).  Time is abstract: a timer   *)
(* fires whenever the loop is idle, except that a task made ready before  *)
(* a sleep() runs before that sleep's timer fires.                        *)
(***************************************************************************)
EXTENDS Naturals, FiniteSets

CONSTANTS
  NUM_ROOMS,
  PLAYERS_PER_ROOM,
  BATCH_SIZE,   \* batch_size in run_test
  MaxTicks,     \* bound: update_position() calls of one player before the test duration ends
  MaxFrames,    \* bound: inbound frames one player's read task receives
  InterruptAt,  \* bound: the awaits of run_test() (ramp, duration, gather) a Ctrl-C may hit
  Idle          \* model value: no task is executing on the event loop

ASSUME /\ NUM_ROOMS \in Nat \ {0}
       /\ PLAYERS_PER_ROOM \in Nat \ {0}
       /\ BATCH_SIZE \in Nat \ {0}
       /\ MaxTicks \in Nat \ {0}
       /\ MaxFrames \in Nat
       /\ InterruptAt \subseteq {"ramp", "duration", "gather"}

TOTAL_PLAYERS == NUM_ROOMS * PLAYERS_PER_ROOM
Players == 0 .. TOTAL_PLAYERS - 1      \* player_id = room_id * PLAYERS_PER_ROOM + player_idx
ASSUME Idle \notin Players

\* Positions of a player's run() task.  "send", "sent" and "loop" hold the
\* loop; "open", "drain", "sleep" and "closing" are suspension points.
PcStates == {"new", "start", "open", "send", "drain", "sent", "loop",
             "sleep", "closing", "done"}
Messages == {"connect", "move", "disconnect"}
\* The TCP transport of a player: none before open_connection succeeds,
\* open, lost (the peer or the network reset it and the transport closed
\* itself on the fatal error), closed by writer.close().
SockStates == {"none", "open", "lost", "closed"}

VARIABLES
  current,          \* the task running on the event loop, or Idle
  pc,               \* [Players -> PcStates]: the run() task
  msg,              \* [Players -> Messages]: what send_message() is sending
  sock,             \* [Players -> SockStates]: reader/writer pair
  connected,        \* VirtualPlayer.connected
  is_running,       \* VirtualPlayer.is_running
  cancelling,       \* Task.cancel() requested on the run() task, not yet delivered
  read_pc,          \* the read_messages() task: none, ready, wait (in reader.read), done
  read_cancelling,  \* read_task.cancel() requested
  mgr_pc,           \* LoadTestManager.run_test: init, ramp, duration, gather,
                    \* reported; after Ctrl-C teardown, exited
  created,          \* number of run() tasks created so far by the ramp loop
  mgr_running,      \* LoadTestManager.is_running
  mon_pc,           \* monitor_stats() task: none, ready, sleep, done
  messages_sent, messages_received, errors, connections, connection_errors,
  latencies,        \* len(metrics.latencies)
  ticks,            \* update_position() calls per player (bounded by MaxTicks)
  frames,           \* frames received per player (bounded by MaxFrames)
  connect_send      \* history: outcome of the player's Connect send: none, ok, failed

player_vars == <<pc, msg, sock, connected, is_running, cancelling, read_pc,
                 read_cancelling, ticks, frames, connect_send>>
metric_vars == <<messages_sent, messages_received, errors, connections,
                 connection_errors, latencies>>
mgr_vars == <<mgr_pc, created, mgr_running, mon_pc>>
vars == <<current, player_vars, metric_vars, mgr_vars>>

TypeOK ==
  /\ current = Idle \/ current \in Players
  /\ pc \in [Players -> PcStates]
  /\ msg \in [Players -> Messages]
  /\ sock \in [Players -> SockStates]
  /\ connected \in [Players -> BOOLEAN]
  /\ is_running \in [Players -> BOOLEAN]
  /\ cancelling \in [Players -> BOOLEAN]
  /\ read_pc \in [Players -> {"none", "ready", "wait", "done"}]
  /\ read_cancelling \in [Players -> BOOLEAN]
  /\ mgr_pc \in {"init", "ramp", "duration", "gather", "reported", "teardown", "exited"}
  /\ created \in 0 .. TOTAL_PLAYERS
  /\ mgr_running \in BOOLEAN
  /\ mon_pc \in {"none", "ready", "sleep", "done"}
  /\ {messages_sent, messages_received, errors, connections,
      connection_errors, latencies} \subseteq Nat
  /\ ticks \in [Players -> 0 .. MaxTicks]
  /\ frames \in [Players -> 0 .. MaxFrames]
  /\ connect_send \in [Players -> {"none", "ok", "failed"}]

(***************************************************************************)
(* Initial state: LoadTestManager() and create_players() have built the   *)
(* population (VirtualPlayer.__init__: is_running, not connected, no      *)
(* socket); no task exists yet.                                           *)
(***************************************************************************)
Init ==
  /\ current = Idle
  /\ pc = [p \in Players |-> "new"]
  /\ msg = [p \in Players |-> "connect"]
  /\ sock = [p \in Players |-> "none"]
  /\ connected = [p \in Players |-> FALSE]
  /\ is_running = [p \in Players |-> TRUE]
  /\ cancelling = [p \in Players |-> FALSE]
  /\ read_pc = [p \in Players |-> "none"]
  /\ read_cancelling = [p \in Players |-> FALSE]
  /\ mgr_pc = "init"
  /\ created = 0
  /\ mgr_running = TRUE
  /\ mon_pc = "none"
  /\ messages_sent = 0 /\ messages_received = 0 /\ errors = 0
  /\ connections = 0 /\ connection_errors = 0 /\ latencies = 0
  /\ ticks = [p \in Players |-> 0]
  /\ frames = [p \in Players |-> 0]
  /\ connect_send = [p \in Players |-> "none"]


Goto(p, s) == pc' = [pc EXCEPT ![p] = s]

(***************************************************************************)
(* VirtualPlayer.run() and the coroutines it awaits.                       *)
(***************************************************************************)

\* run() 196-198, connect() 93-98: the task's first step calls
\* asyncio.open_connection(), which suspends on the TCP handshake.
Start(p) ==
  /\ current = Idle /\ pc[p] = "start"
  /\ Goto(p, "open")
  /\ UNCHANGED <<current, msg, sock, connected, is_running, cancelling, read_pc,
                 read_cancelling, ticks, frames, connect_send, metric_vars, mgr_vars>>

\* connect() 112-115 and run() 198-199: the handshake fails; the
\* exception is caught in connect(), which returns False, and run() returns.
OpenFail(p) ==
  /\ current = Idle /\ pc[p] = "open" /\ ~cancelling[p]
  /\ connection_errors' = connection_errors + 1
  /\ Goto(p, "done")
  /\ UNCHANGED <<current, msg, sock, connected, is_running, cancelling, read_pc,
                 read_cancelling, ticks, frames, connect_send, mgr_vars,
                 messages_sent, messages_received, errors, connections, latencies>>

\* connect() 99-110: the handshake succeeds; connected is set, the
\* connection counted, and send_message(Connect) is called.  The peer may
\* already have reset the connection before the task resumes (the
\* transport's connection_lost() ran first).
OpenOk(p) ==
  /\ current = Idle /\ pc[p] = "open" /\ ~cancelling[p]
  /\ current' = p
  /\ \E s \in {"open", "lost"} : sock' = [sock EXCEPT ![p] = s]
  /\ connected' = [connected EXCEPT ![p] = TRUE]
  /\ connections' = connections + 1
  /\ msg' = [msg EXCEPT ![p] = "connect"]
  /\ Goto(p, "send")
  /\ UNCHANGED <<is_running, cancelling, read_pc, read_cancelling, ticks, frames,
                 connect_send, mgr_vars, messages_sent, messages_received,
                 errors, connection_errors, latencies>>

\* send_message() 130-131: drain() returned, the message is counted.
SendSucceeds(p) ==
  /\ messages_sent' = messages_sent + 1
  /\ connect_send' = IF msg[p] = "connect"
                       THEN [connect_send EXCEPT ![p] = "ok"] ELSE connect_send
  /\ Goto(p, "sent")
  /\ UNCHANGED errors

\* send_message() 132-133: drain() raised; the error is counted and
\* swallowed, so the caller carries on as if the message had been sent.
SendFails(p) ==
  /\ errors' = errors + 1
  /\ connect_send' = IF msg[p] = "connect"
                       THEN [connect_send EXCEPT ![p] = "failed"] ELSE connect_send
  /\ Goto(p, "sent")
  /\ UNCHANGED messages_sent

\* send_message() 117-128: return at once without a writer or when not
\* connected; otherwise write the frame and call drain().  drain()
\* raises at once when the connection is lost (the reader holds the
\* exception), returns at once while the transport is open and not
\* paused, and suspends when flow control has paused writing, which the
\* first frame, Connect, written into an empty buffer, never causes.
SendMessage(p) ==
  /\ current = p /\ pc[p] = "send"
  /\ IF sock[p] = "none" \/ ~connected[p]
       THEN /\ Goto(p, "sent")
            /\ UNCHANGED <<current, messages_sent, errors, connect_send>>
       ELSE \/ /\ sock[p] = "open"
               /\ SendSucceeds(p)
               /\ UNCHANGED current
            \/ /\ sock[p] = "lost"
               /\ SendFails(p)
               /\ UNCHANGED current
            \/ /\ sock[p] = "open" /\ msg[p] # "connect"
               /\ Goto(p, "drain")
               /\ current' = Idle
               /\ UNCHANGED <<messages_sent, errors, connect_send>>
  /\ UNCHANGED <<msg, sock, connected, is_running, cancelling, read_pc,
                 read_cancelling, ticks, frames, mgr_vars, messages_received,
                 connections, connection_errors, latencies>>

\* send_message() 128-133: the suspended drain() completes: it returns
\* if the connection is still open and raises if it was lost meanwhile.
DrainResume(p) ==
  /\ current = Idle /\ pc[p] = "drain" /\ ~cancelling[p]
  /\ current' = p
  /\ IF sock[p] = "open" THEN SendSucceeds(p) ELSE SendFails(p)
  /\ UNCHANGED <<msg, sock, connected, is_running, cancelling, read_pc,
                 read_cancelling, ticks, frames, mgr_vars, messages_received,
                 connections, connection_errors, latencies>>

\* connect() 111 and run() 201-203: connect() returns True (whatever the
\* Connect send did) and run() creates the read_messages() task.
ConnectReturned(p) ==
  /\ current = p /\ pc[p] = "sent" /\ msg[p] = "connect"
  /\ read_pc' = [read_pc EXCEPT ![p] = "ready"]
  /\ Goto(p, "loop")
  /\ UNCHANGED <<current, msg, sock, connected, is_running, cancelling,
                 read_cancelling, ticks, frames, connect_send, metric_vars, mgr_vars>>

\* disconnect() 217-219, reached from the finally of run() 214-215: send
\* Disconnect if there is a writer and the player is connected, else return.
Disconnect(p) ==
  IF sock[p] # "none" /\ connected[p]
    THEN /\ current' = p
         /\ msg' = [msg EXCEPT ![p] = "disconnect"]
         /\ Goto(p, "send")
    ELSE /\ current' = Idle
         /\ Goto(p, "done")
         /\ UNCHANGED msg

\* run() 205-209 with update_position() 164-192: while is_running, move
\* (position, velocity and the message body are abstracted) and send
\* Move; once is_running is clear, cancel the read task and leave the loop.
LoopCheck(p) ==
  /\ current = p /\ pc[p] = "loop"
  /\ IF is_running[p]
       THEN /\ ticks' = [ticks EXCEPT ![p] = @ + 1]
            /\ msg' = [msg EXCEPT ![p] = "move"]
            /\ Goto(p, "send")
            /\ UNCHANGED <<current, read_cancelling>>
       ELSE /\ read_cancelling' = [read_cancelling EXCEPT ![p] = TRUE]
            /\ Disconnect(p)
            /\ UNCHANGED ticks
  /\ UNCHANGED <<sock, connected, is_running, cancelling, read_pc, frames,
                 connect_send, metric_vars, mgr_vars>>

\* Fault variant of MoveReturned: asyncio.sleep() called without await,
\* so the task never yields the loop between ticks.
MoveReturnedNoAwait(p) ==
  /\ current = p /\ pc[p] = "sent" /\ msg[p] = "move"
  /\ latencies' = latencies + 1
  /\ Goto(p, "loop")
  /\ UNCHANGED <<current, msg, sock, connected, is_running, cancelling, read_pc,
                 read_cancelling, ticks, frames, connect_send, mgr_vars,
                 messages_sent, messages_received, errors, connections,
                 connection_errors>>

\* update_position() 191-194 and run() 207: the latency sample is appended
\* after send_message() returns, whether or not the send succeeded; then
\* the task sleeps UPDATE_INTERVAL.
MoveReturned(p) ==
  /\ current = p /\ pc[p] = "sent" /\ msg[p] = "move"
  /\ latencies' = latencies + 1
  /\ current' = Idle
  /\ Goto(p, "sleep")
  /\ UNCHANGED <<msg, sock, connected, is_running, cancelling, read_pc,
                 read_cancelling, ticks, frames, connect_send, mgr_vars,
                 messages_sent, messages_received, errors, connections,
                 connection_errors>>

\* run() 207: the sleep's timer fires and the loop condition is tested.
Wake(p) ==
  /\ current = Idle /\ pc[p] = "sleep" /\ ~cancelling[p]
  /\ ticks[p] < MaxTicks
  /\ current' = p
  /\ Goto(p, "loop")
  /\ UNCHANGED <<msg, sock, connected, is_running, cancelling, read_pc,
                 read_cancelling, ticks, frames, connect_send, metric_vars, mgr_vars>>

\* Fault variant of DisconnectSent: writer.close() forgotten.
DisconnectSentNoClose(p) ==
  /\ current = p /\ pc[p] = "sent" /\ msg[p] = "disconnect"
  /\ current' = Idle
  /\ Goto(p, "closing")
  /\ UNCHANGED <<msg, sock, connected, is_running, cancelling, read_pc, read_cancelling,
                 ticks, frames, connect_send, metric_vars, mgr_vars>>

\* disconnect() 229-230: writer.close() (a no-op on a transport that was
\* already lost), then await writer.wait_closed().
DisconnectSent(p) ==
  /\ current = p /\ pc[p] = "sent" /\ msg[p] = "disconnect"
  /\ sock' = [sock EXCEPT ![p] = IF @ = "lost" THEN "lost" ELSE "closed"]
  /\ current' = Idle
  /\ Goto(p, "closing")
  /\ UNCHANGED <<msg, connected, is_running, cancelling, read_pc, read_cancelling,
                 ticks, frames, connect_send, metric_vars, mgr_vars>>

\* disconnect() 230-234: wait_closed() returns and connected is cleared,
\* or it raises and the exception is swallowed with connected left set.
Closed(p) ==
  /\ current = Idle /\ pc[p] = "closing" /\ ~cancelling[p]
  /\ \E ok \in BOOLEAN :
       connected' = IF ok THEN [connected EXCEPT ![p] = FALSE] ELSE connected
  /\ Goto(p, "done")
  /\ UNCHANGED <<current, msg, sock, is_running, cancelling, read_pc,
                 read_cancelling, ticks, frames, connect_send, metric_vars, mgr_vars>>

\* Delivery of a pending Task.cancel(): CancelledError is raised at the
\* suspension point.  It is not an Exception, so no except clause of
\* connect(), send_message() or run() catches it.  Raised in
\* open_connection() (asyncio closes the half-made connection) it leaves
\* connect() and run() before run()'s try (93-115, 198): the task ends
\* without disconnect(), counted neither as a connection nor as a
\* connection error.  Raised in sleep() or in the paused drain() of a
\* Move it runs run()'s finally (214-215): disconnect().  A task cancelled
\* before its first step never runs.  Raised inside disconnect(), in the
\* paused drain() of the Disconnect or in wait_closed() (only the second
\* cancel of the teardown after Ctrl-C reaches them), it escapes the
\* `except Exception` of 232-233: the task ends with writer.close()
\* skipped, or with connected left set.
Cancelled(p) ==
  /\ current = Idle /\ cancelling[p]
  /\ cancelling' = [cancelling EXCEPT ![p] = FALSE]
  /\ \/ /\ \/ pc[p] \in {"start", "open", "closing"}
             \/ (pc[p] = "drain" /\ msg[p] = "disconnect")
        /\ Goto(p, "done")
        /\ UNCHANGED <<current, msg>>
     \/ /\ \/ pc[p] = "sleep"
             \/ (pc[p] = "drain" /\ msg[p] = "move")
        /\ Disconnect(p)
  /\ UNCHANGED <<sock, connected, is_running, read_pc, read_cancelling, ticks,
                 frames, connect_send, metric_vars, mgr_vars>>


(***************************************************************************)
(* VirtualPlayer.read_messages(): the background receive task.             *)
(***************************************************************************)

\* read_messages() 137-143: a cancelled task that never ran ends at once
\* (159-160); otherwise, while is_running and connected and there is a
\* reader, await reader.read(4).
ReadStart(p) ==
  /\ current = Idle /\ read_pc[p] = "ready"
  /\ read_pc' = [read_pc EXCEPT ![p] =
                   IF ~read_cancelling[p] /\ is_running[p] /\ connected[p]
                      /\ sock[p] # "none"
                   THEN "wait" ELSE "done"]
  /\ UNCHANGED <<current, pc, msg, sock, connected, is_running, cancelling,
                 read_cancelling, ticks, frames, connect_send, metric_vars, mgr_vars>>

\* read_messages() 143-157 and 138: a whole frame of at most 1 MiB is read
\* and counted, then the loop condition is tested again.
ReadFrame(p) ==
  /\ current = Idle /\ read_pc[p] = "wait" /\ ~read_cancelling[p]
  /\ sock[p] = "open" /\ frames[p] < MaxFrames
  /\ messages_received' = messages_received + 1
  /\ frames' = [frames EXCEPT ![p] = @ + 1]
  /\ read_pc' = [read_pc EXCEPT ![p] =
                   IF is_running[p] /\ connected[p] THEN "wait" ELSE "done"]
  /\ UNCHANGED <<current, pc, msg, sock, connected, is_running, cancelling,
                 read_cancelling, ticks, connect_send, mgr_vars, messages_sent,
                 errors, connections, connection_errors, latencies>>

\* read_messages() 144-154: break out of the loop without an error.
\* reader.read(n) returns up to n bytes, so on an open connection a header
\* or body split across TCP segments gives a short read (145, 154) just as
\* an oversized length does (148-149); once the transport is lost or
\* closed the read returns EOF.  A pending read_task.cancel() ends the
\* task the same way (159-160).
ReadStop(p) ==
  /\ current = Idle /\ read_pc[p] = "wait"
  /\ read_pc' = [read_pc EXCEPT ![p] = "done"]
  /\ UNCHANGED <<current, pc, msg, sock, connected, is_running, cancelling,
                 read_cancelling, ticks, frames, connect_send, metric_vars, mgr_vars>>

\* read_messages() 161-162: reading a reset connection raises; the error
\* is counted and the task ends.
ReadError(p) ==
  /\ current = Idle /\ read_pc[p] = "wait" /\ ~read_cancelling[p]
  /\ sock[p] = "lost"
  /\ errors' = errors + 1
  /\ read_pc' = [read_pc EXCEPT ![p] = "done"]
  /\ UNCHANGED <<current, pc, msg, sock, connected, is_running, cancelling,
                 read_cancelling, ticks, frames, connect_send, mgr_vars,
                 messages_sent, messages_received, connections,
                 connection_errors, latencies>>

\* The environment, not the code: the server or the network ends an open
\* connection.  Later drains and reads on it fail.  asyncio learns of it
\* in the protocol's connection_lost() callback, which runs on the loop.
Lose(p) ==
  /\ current = Idle /\ sock[p] = "open"
  /\ sock' = [sock EXCEPT ![p] = "lost"]
  /\ UNCHANGED <<current, pc, msg, connected, is_running, cancelling, read_pc,
                 read_cancelling, ticks, frames, connect_send, metric_vars, mgr_vars>>

(***************************************************************************)
(* LoadTestManager.run_test() and monitor_stats().                         *)
(***************************************************************************)

\* run_test() 288-292: create one task per player of players[i:i+batch_size].
StartBatch ==
  LET next == IF created + BATCH_SIZE < TOTAL_PLAYERS
                THEN created + BATCH_SIZE ELSE TOTAL_PLAYERS
  IN /\ created' = next
     /\ pc' = [q \in Players |-> IF created <= q /\ q < next THEN "start" ELSE pc[q]]

\* run_test() 278-293, first iteration: print the header, create the
\* players, start the first batch and sleep the batch interval.
StartTest ==
  /\ current = Idle /\ mgr_pc = "init"
  /\ StartBatch
  /\ mgr_pc' = "ramp"
  /\ UNCHANGED <<current, msg, sock, connected, is_running, cancelling, read_pc,
                 read_cancelling, ticks, frames, connect_send, metric_vars,
                 mgr_running, mon_pc>>

\* run_test() 288-299: the batch interval ends (after every task created
\* before it has made its first step); start the next batch, or, after
\* the last one, create the monitor task and sleep TEST_DURATION.
RampWake ==
  /\ current = Idle /\ mgr_pc = "ramp"
  /\ \A p \in Players : pc[p] # "start"
  /\ IF created < TOTAL_PLAYERS
       THEN StartBatch /\ UNCHANGED <<mgr_pc, mon_pc>>
       ELSE /\ mon_pc' = "ready"
            /\ mgr_pc' = "duration"
            /\ UNCHANGED <<created, pc>>
  /\ UNCHANGED <<current, msg, sock, connected, is_running, cancelling, read_pc,
                 read_cancelling, ticks, frames, connect_send, metric_vars,
                 mgr_running>>

\* Fault variant of DurationEnd: the manager clears its own is_running
\* but neither stops nor cancels the players.
DurationEndNoStop ==
  /\ current = Idle /\ mgr_pc = "duration" /\ mon_pc # "ready"
  /\ mgr_running' = FALSE
  /\ mgr_pc' = "gather"
  /\ UNCHANGED <<current, player_vars, metric_vars, created, mon_pc>>

\* Fault variant of DurationEnd: the players stopped but their tasks not
\* cancelled.
DurationEndNoCancel ==
  /\ current = Idle /\ mgr_pc = "duration" /\ mon_pc # "ready"
  /\ mgr_running' = FALSE
  /\ is_running' = [p \in Players |-> FALSE]
  /\ mgr_pc' = "gather"
  /\ UNCHANGED <<current, pc, msg, sock, connected, cancelling, read_pc,
                 read_cancelling, ticks, frames, connect_send, metric_vars,
                 created, mon_pc>>

\* run_test() 299-311: TEST_DURATION has elapsed (after the monitor task
\* has made its first step); clear is_running, stop() every player, cancel
\* every task (cancel() of a finished task does nothing) and await gather.
DurationEnd ==
  /\ current = Idle /\ mgr_pc = "duration" /\ mon_pc # "ready"
  /\ mgr_running' = FALSE
  /\ is_running' = [p \in Players |-> FALSE]
  /\ cancelling' = [p \in Players |-> pc[p] # "done"]
  /\ mgr_pc' = "gather"
  /\ UNCHANGED <<current, pc, msg, sock, connected, read_pc, read_cancelling,
                 ticks, frames, connect_send, metric_vars, created, mon_pc>>

\* run_test() 311-315 and print_results() 337-379: gather returns once
\* every run() task has finished; the monitor is cancelled and the report
\* printed from the metrics as they stand.  main() then returns and
\* asyncio.run() cancels the tasks still pending (read tasks, monitor).
GatherDone ==
  /\ current = Idle /\ mgr_pc = "gather"
  /\ \A p \in Players : pc[p] = "done"
  /\ mgr_pc' = "reported"
  /\ mon_pc' = "done"
  /\ read_pc' = [p \in Players |-> IF read_pc[p] = "none" THEN "none" ELSE "done"]
  /\ UNCHANGED <<current, pc, msg, sock, connected, is_running, cancelling,
                 read_cancelling, ticks, frames, connect_send, metric_vars,
                 created, mgr_running>>

\* monitor_stats() 317-321 with print_live_stats() 323-335: while the
\* manager is running, sleep 2 s and print a snapshot of the metrics.
MonStep ==
  /\ current = Idle /\ mon_pc \in {"ready", "sleep"}
  /\ mon_pc' = IF mgr_running THEN "sleep" ELSE "done"
  /\ UNCHANGED <<current, player_vars, metric_vars, mgr_pc, created, mgr_running>>

\* main() 481-490 under asyncio.run() 497 (the asyncio.Runner of Python
\* 3.11 and later): Ctrl-C runs the runner's SIGINT handler on the loop,
\* which cancels the main task; no KeyboardInterrupt is raised into main(),
\* so its `except KeyboardInterrupt` is never reached.  The cancel is
\* delivered at run_test()'s await (a batch sleep, the TEST_DURATION sleep,
\* or gather(), which cancels its children): the CancelledError passes
\* through run_test() and main(), which catch only KeyboardInterrupt and
\* Exception, so print_results() never runs.  The runner then cancels
\* every task still pending (players, read tasks, monitor) and runs the
\* loop until they have all finished.  The handler and the delivery are
\* one step: no other step reads what the handler sets.
Interrupt ==
  /\ current = Idle /\ mgr_pc \in InterruptAt
  /\ mgr_pc' = "teardown"
  /\ cancelling' = [p \in Players |-> pc[p] \notin {"new", "done"}]
  /\ read_cancelling' = [p \in Players |->
                           read_cancelling[p] \/ read_pc[p] \in {"ready", "wait"}]
  /\ mon_pc' = IF mon_pc = "none" THEN "none" ELSE "done"
  /\ UNCHANGED <<current, pc, msg, sock, connected, is_running, read_pc, ticks,
                 frames, connect_send, metric_vars, created, mgr_running>>

\* The runner's teardown returns once every task has finished; asyncio.run()
\* raises KeyboardInterrupt and the process exits without a report.
Teardown ==
  /\ current = Idle /\ mgr_pc = "teardown"
  /\ \A p \in Players : pc[p] \in {"new", "done"} /\ read_pc[p] \in {"none", "done"}
  /\ mgr_pc' = "exited"
  /\ UNCHANGED <<current, player_vars, metric_vars, created, mgr_running, mon_pc>>

\* After the report, or the teardown, the program has exited.
Finished ==
  /\ mgr_pc \in {"reported", "exited"}
  /\ UNCHANGED vars

PlayerStep(p) ==
  \/ Start(p) \/ OpenFail(p) \/ OpenOk(p) \/ SendMessage(p) \/ DrainResume(p)
  \/ ConnectReturned(p) \/ LoopCheck(p) \/ MoveReturned(p) \/ Wake(p)
  \/ DisconnectSent(p) \/ Closed(p) \/ Cancelled(p)

ReadStep(p) == ReadStart(p) \/ ReadFrame(p) \/ ReadStop(p) \/ ReadError(p)

Next ==
  \/ \E p \in Players : PlayerStep(p) \/ ReadStep(p) \/ Lose(p)
  \/ StartTest \/ RampWake \/ DurationEnd \/ GatherDone \/ MonStep
  \/ Interrupt \/ Teardown
  \/ Finished

Spec == Init /\ [][Next]_vars

(***************************************************************************)
(* Fairness.  The event loop runs every ready task and fires every due    *)
(* timer, so each step of the code is weakly fair.  The environment is    *)
(* assumed to answer: a handshake ends, a paused drain() and wait_closed() *)
(* eventually complete (the server keeps reading).  Losing a connection   *)
(* (Lose) and Ctrl-C (Interrupt) need never happen.                       *)
(***************************************************************************)
Fairness ==
  /\ \A p \in Players : WF_vars(PlayerStep(p)) /\ WF_vars(ReadStep(p))
  /\ WF_vars(StartTest) /\ WF_vars(RampWake) /\ WF_vars(DurationEnd)
  /\ WF_vars(GatherDone) /\ WF_vars(MonStep)
  /\ WF_vars(Teardown)

FairSpec == Spec /\ Fairness

(***************************************************************************)
(* Fairness of the code alone, for a server that accepts connections but  *)
(* stops reading: the steps that wait on it (a drain() paused by flow     *)
(* control, wait_closed() flushing the buffer) need never complete.  A    *)
(* handshake still ends (the OS connect timeout), and a cancel or a lost  *)
(* connection still wakes a waiting task.                                 *)
(***************************************************************************)
WaitsOnServer(p) ==
  /\ ~cancelling[p]
  /\ \/ pc[p] = "closing" /\ sock[p] = "closed"
     \/ pc[p] = "drain" /\ sock[p] = "open"

StalledServerSpec ==
  /\ Spec
  /\ \A p \in Players : /\ WF_vars(PlayerStep(p) /\ ~WaitsOnServer(p))
                        /\ WF_vars(ReadStep(p))
  /\ WF_vars(StartTest) /\ WF_vars(RampWake) /\ WF_vars(DurationEnd)
  /\ WF_vars(GatherDone) /\ WF_vars(MonStep)
  /\ WF_vars(Teardown)


(***************************************************************************)
(* Properties.                                                             *)
(***************************************************************************)

\* spec §7: "the final report is always produced even if every client
\* failed", and §6: "an external interrupt triggers the same graceful-
\* shutdown path as natural completion".  A Ctrl-C cancels run_test()
\* (main 481-490, asyncio.run 497), so print_results() is skipped.
ReportProduced == <>(mgr_pc = "reported")

\* The program always ends, a Ctrl-C at any await of run_test() included:
\* every task the runner cancels finishes, also one cancelled a second time
\* inside its `finally: disconnect()` (run 214-215, disconnect 217-234),
\* and gather() or the runner's teardown returns.
ProgramEnds == <>(mgr_pc \in {"reported", "exited"})

\* spec §3/§4.2: a client's transport is released unconditionally once it
\* stops, so when the report is printed no player still holds an open
\* socket: every path out of run() that follows a successful handshake
\* passes through disconnect() (connect 93-111, run 196-215, disconnect
\* 217-234), whatever the stop, cancel and connection loss interleaving.
SocketsReleasedAtReport ==
  mgr_pc = "reported" => \A p \in Players : sock[p] # "open"

\* run() 209, read_task.cancel(), is never reached: stop() and cancel()
\* reach every player in one segment while it is suspended, so the
\* CancelledError ends run() at that suspension point and the loop
\* condition is never seen false.  Read tasks are therefore never
\* cancelled by the player (spec §4.2 says the receive task is cancelled
\* on stop); they end on EOF, a short read, an error, or when asyncio.run()
\* cancels them after the report or after Ctrl-C.
ReadCancelUnreached == \A p \in Players : pc[p] = "loop" => is_running[p]

\* spec §8: for a client with zero send failures the number of latency
\* samples equals messages_sent (update_position 191-194, send_message
\* 130-131).  Checked with one player, so the global counters are its own.
LatencyPerSend == errors = 0 => latencies = messages_sent

\* spec §4.2: if the initial Connect send fails the client goes to Failed
\* and never becomes Active, so it never sends a Move (connect 99-111,
\* send_message 132-133, run 198-206).
FailedConnectNeverActive ==
  \A p \in Players : connect_send[p] = "failed" => ticks[p] = 0


\* spec §4.2: the Disconnect send is best effort, "failure here is
\* swallowed, not counted as an error" (disconnect 219-234 calling
\* send_message 117-133).
DisconnectFailureNotCounted ==
  [][\A p \in Players :
       (msg[p] = "disconnect" /\ pc[p] \in {"send", "drain"} /\ pc'[p] = "sent")
         => errors' = errors]_vars

(***************************************************************************)
(* Refinement of the spec §4.2 client lifecycle.  A task not yet started  *)
(* is Idle; one opening the connection or sending Connect is Connecting;  *)
(* from connect()'s return until the loop is left it is Active; sending   *)
(* Disconnect and awaiting wait_closed() it is Disconnecting.  A finished *)
(* task is Closed if open_connection() gave it a writer and Failed if it  *)
(* never had one (the handshake failed or was cancelled).  The stop is    *)
(* the manager's is_running cleared, which DurationEnd does for every     *)
(* player in the same step, or the teardown after Ctrl-C, which cancels   *)
(* every player in one step.                                              *)
(***************************************************************************)
Sending(p, m) == pc[p] \in {"send", "drain", "sent"} /\ msg[p] = m

LifecycleState(p) ==
  CASE pc[p] = "new"                                      -> "Idle"
    [] pc[p] \in {"start", "open"} \/ Sending(p, "connect") -> "Connecting"
    [] pc[p] \in {"loop", "sleep"} \/ Sending(p, "move")    -> "Active"
    [] pc[p] = "closing" \/ Sending(p, "disconnect")        -> "Disconnecting"
    [] pc[p] = "done" /\ sock[p] # "none"                   -> "Closed"
    [] pc[p] = "done" /\ sock[p] = "none"                   -> "Failed"

Lifecycle == INSTANCE ClientLifecycle
               WITH Clients <- Players, MaxMoves <- MaxTicks,
                    state <- [p \in Players |-> LifecycleState(p)],
                    stopped <- ~mgr_running \/ mgr_pc \in {"teardown", "exited"},
                    moves <- ticks

\* spec §4.2: every behaviour of the TCP client is one of the lifecycle:
\* a player moves only while Active and before the stop, disconnects only
\* after it, and fails only from Connecting or Active (connect 93-115,
\* run 196-215, disconnect 217-234, run_test 288-311).
LifecycleRefined == Lifecycle!Spec

=============================================================================
