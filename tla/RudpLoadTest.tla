----------------------------- MODULE RudpLoadTest ----------------------------
(***************************************************************************)
(* src/rudp_load_test.py: the same LoadTestManager as tcp_load_test.py    *)
(* driving VirtualPlayer tasks that send length-prefixed JSON datagrams.  *)
(* send_message() calls socket.sendto() and never awaits, so connect(),   *)
(* update_position() and disconnect() never suspend: a player's task runs *)
(* from one asyncio.sleep() to the next in one atomic step, and the only  *)
(* suspension points are the sleeps.  Shutdown uses stop() alone; no task *)
(* is cancelled, except by asyncio.run() after a Ctrl-C.                  *)
(*                                                                         *)
(* Abstracted: positions, velocities, JSON, bytes, timestamps; a latency  *)
(* sample is counted, not valued.  Time is abstract as in TcpLoadTest.    *)
(***************************************************************************)
EXTENDS Naturals

CONSTANTS
  NUM_ROOMS,
  PLAYERS_PER_ROOM,
  BATCH_SIZE,   \* batch_size in run_test
  MaxTicks      \* bound: update_position() calls of one player before the test duration ends

ASSUME /\ NUM_ROOMS \in Nat \ {0}
       /\ PLAYERS_PER_ROOM \in Nat \ {0}
       /\ BATCH_SIZE \in Nat \ {0}
       /\ MaxTicks \in Nat \ {0}

TOTAL_PLAYERS == NUM_ROOMS * PLAYERS_PER_ROOM
Players == 0 .. TOTAL_PLAYERS - 1      \* player_id = room_id * PLAYERS_PER_ROOM + player_idx

VARIABLES
  pc,            \* [Players -> {"new", "start", "sleep", "done"}]: the run() task
  sock,          \* [Players -> {"none", "open", "closed"}]: VirtualPlayer.socket
  is_running,    \* VirtualPlayer.is_running
  cancelling,    \* [Players -> BOOLEAN]: task.cancel() requested, not yet delivered
  mgr_pc,        \* run_test: init, ramp, duration, gather, reported; after Ctrl-C teardown, exited
  created,       \* number of run() tasks created so far by the ramp loop
  mgr_running,   \* LoadTestManager.is_running
  mon_pc,        \* monitor_stats() task: none, ready, sleep, done
  messages_sent, errors,
  latencies,     \* len(metrics.latencies)
  ticks,         \* update_position() calls per player (bounded by MaxTicks)
  connect_send   \* history: outcome of the player's Connect send (none, ok, failed)

player_vars == <<pc, sock, is_running, ticks, connect_send, cancelling>>
metric_vars == <<messages_sent, errors, latencies>>
mgr_vars == <<mgr_pc, created, mgr_running, mon_pc>>
vars == <<player_vars, metric_vars, mgr_vars>>

TypeOK ==
  /\ pc \in [Players -> {"new", "start", "sleep", "done"}]
  /\ sock \in [Players -> {"none", "open", "closed"}]
  /\ is_running \in [Players -> BOOLEAN]
  /\ cancelling \in [Players -> BOOLEAN]
  /\ mgr_pc \in {"init", "ramp", "duration", "gather", "reported", "teardown", "exited"}
  /\ created \in 0 .. TOTAL_PLAYERS
  /\ mgr_running \in BOOLEAN
  /\ mon_pc \in {"none", "ready", "sleep", "done"}
  /\ {messages_sent, errors, latencies} \subseteq Nat
  /\ ticks \in [Players -> 0 .. MaxTicks]
  /\ connect_send \in [Players -> {"none", "ok", "failed"}]

\* LoadTestManager() and create_players(): VirtualPlayer.__init__ leaves
\* socket None and is_running set; no task exists yet.
Init ==
  /\ pc = [p \in Players |-> "new"]
  /\ sock = [p \in Players |-> "none"]
  /\ is_running = [p \in Players |-> TRUE]
  /\ cancelling = [p \in Players |-> FALSE]
  /\ mgr_pc = "init"
  /\ created = 0
  /\ mgr_running = TRUE
  /\ mon_pc = "none"
  /\ messages_sent = 0 /\ errors = 0 /\ latencies = 0
  /\ ticks = [p \in Players |-> 0]
  /\ connect_send = [p \in Players |-> "none"]

(***************************************************************************)
(* send_message() 112-124 never raises to its caller: sendto() succeeds  *)
(* (messages_sent + 1) or raises and is counted (errors + 1).            *)
(* Sends(ms, er, n): the counters after sends earlier in the segment      *)
(* (ms succeeded, er failed) and n more, any s of which succeed.          *)
(***************************************************************************)
Sends(ms, er, n) ==
  \E s \in 0 .. n :
    /\ messages_sent' = messages_sent + ms + s
    /\ errors' = errors + er + (n - s)

(***************************************************************************)
(* Loop(p, ms, er): run() from its `while self.is_running` test (164) to *)
(* the next suspension, after the sends counted by ms and er.  If         *)
(* the player runs: update_position() 126-156 sends a Move, appends a     *)
(* latency sample whatever the send did, and the task sleeps              *)
(* UPDATE_INTERVAL.  Otherwise the loop ends and `finally: disconnect()`  *)
(* (170-186) runs: the socket is set, so the Disconnect is sent and the   *)
(* socket closed (send_message() cannot raise, so close() always runs).   *)
(* The `except Exception` of 167-169 is unreachable: nothing in the loop  *)
(* raises an Exception.                                                   *)
(***************************************************************************)
\* Fault variant of Loop: a do-while loop that sends the Move before it
\* tests is_running.
LoopDoWhile(p, ms, er) ==
  /\ ticks' = [ticks EXCEPT ![p] = @ + 1]
  /\ latencies' = latencies + 1
  /\ IF is_running[p]
       THEN /\ Sends(ms, er, 1) /\ sock' = [sock EXCEPT ![p] = "open"]
            /\ pc' = [pc EXCEPT ![p] = "sleep"]
       ELSE /\ Sends(ms, er, 2) /\ sock' = [sock EXCEPT ![p] = "closed"]
            /\ pc' = [pc EXCEPT ![p] = "done"]

Loop(p, ms, er) ==
  IF is_running[p]
    THEN /\ Sends(ms, er, 1)
         /\ ticks' = [ticks EXCEPT ![p] = @ + 1]
         /\ latencies' = latencies + 1
         /\ sock' = [sock EXCEPT ![p] = "open"]
         /\ pc' = [pc EXCEPT ![p] = "sleep"]
    ELSE /\ Sends(ms, er, 1)
         /\ sock' = [sock EXCEPT ![p] = "closed"]
         /\ pc' = [pc EXCEPT ![p] = "done"]
         /\ UNCHANGED <<ticks, latencies>>

\* run() 158-161 with connect() 92-110, first segment of the task.  Either
\* socket.socket() raises: errors + 1, connect() returns False and run()
\* returns before its try, socket still None.  Or the socket is made, the
\* Connect sent (its failure is swallowed by send_message, so connect()
\* returns True) and the loop entered, all before the first sleep.
Start(p) ==
  /\ pc[p] = "start" /\ ~cancelling[p]
  /\ \/ /\ errors' = errors + 1
        /\ pc' = [pc EXCEPT ![p] = "done"]
        /\ UNCHANGED <<sock, ticks, connect_send, messages_sent, latencies>>
     \/ \E ok \in BOOLEAN :
          /\ connect_send' = [connect_send EXCEPT ![p] = IF ok THEN "ok" ELSE "failed"]
          /\ Loop(p, IF ok THEN 1 ELSE 0, IF ok THEN 0 ELSE 1)
  /\ UNCHANGED <<is_running, cancelling, mgr_vars>>

\* run() 164-166: the UPDATE_INTERVAL timer fires and the loop goes on.
\* While the player runs, MaxTicks bounds the firings before the test
\* duration ends.
Wake(p) ==
  /\ pc[p] = "sleep" /\ ~cancelling[p]
  /\ ticks[p] < MaxTicks \/ ~is_running[p]
  /\ Loop(p, 0, 0)
  /\ UNCHANGED <<is_running, connect_send, cancelling, mgr_vars>>

\* Fault variant of Cancelled: disconnect() called after the loop instead
\* of in `finally`, so a cancelled player skips it.
CancelledNoFinally(p) ==
  /\ cancelling[p] /\ pc[p] \in {"start", "sleep"}
  /\ pc' = [pc EXCEPT ![p] = "done"]
  /\ UNCHANGED <<sock, is_running, ticks, connect_send, cancelling, metric_vars, mgr_vars>>

\* The cancel is delivered at the task's next step.  A task that never
\* ran ends before connect(), holding no socket.  One sleeping in the loop
\* (166) gets CancelledError, which `except Exception` (167) does not
\* catch; `finally: disconnect()` (170-186) sends the Disconnect and
\* closes the socket without suspending, and the task ends.
Cancelled(p) ==
  /\ cancelling[p] /\ pc[p] \in {"start", "sleep"}
  /\ pc' = [pc EXCEPT ![p] = "done"]
  /\ IF pc[p] = "sleep"
       THEN Sends(0, 0, 1) /\ sock' = [sock EXCEPT ![p] = "closed"]
       ELSE UNCHANGED <<sock, messages_sent, errors>>
  /\ UNCHANGED <<is_running, ticks, connect_send, cancelling, latencies, mgr_vars>>

(***************************************************************************)
(* The manager, as in TcpLoadTest (run_test 228-265, with batch_size 50   *)
(* replaced by BATCH_SIZE).  Tasks created before a sleep() make their    *)
(* first step before its timer fires; the monitor makes its first step    *)
(* before TEST_DURATION ends.                                             *)
(***************************************************************************)
StartBatch ==
  LET next == IF created + BATCH_SIZE < TOTAL_PLAYERS
                THEN created + BATCH_SIZE ELSE TOTAL_PLAYERS
  IN /\ created' = next
     /\ pc' = [q \in Players |-> IF created <= q /\ q < next THEN "start" ELSE pc[q]]

\* run_test() 230-245, first iteration: header, create_players(), the
\* first batch of tasks, then the batch pause.
StartTest ==
  /\ mgr_pc = "init"
  /\ StartBatch
  /\ mgr_pc' = "ramp"
  /\ UNCHANGED <<sock, is_running, ticks, connect_send, cancelling, metric_vars,
                 mgr_running, mon_pc>>

\* run_test() 240-251: the batch pause ends; start the next batch, or after
\* the last one create the monitor task and sleep TEST_DURATION.
RampWake ==
  /\ mgr_pc = "ramp"
  /\ \A p \in Players : pc[p] # "start"
  /\ IF created < TOTAL_PLAYERS
       THEN StartBatch /\ UNCHANGED <<mgr_pc, mon_pc>>
       ELSE /\ mon_pc' = "ready"
            /\ mgr_pc' = "duration"
            /\ UNCHANGED <<created, pc>>
  /\ UNCHANGED <<sock, is_running, ticks, connect_send, cancelling, metric_vars, mgr_running>>

\* Fault variant of DurationEnd: the manager clears its own flag only.
DurationEndNoStop ==
  /\ mgr_pc = "duration" /\ mon_pc # "ready"
  /\ mgr_running' = FALSE
  /\ mgr_pc' = "gather"
  /\ UNCHANGED <<player_vars, metric_vars, created, mon_pc>>

\* run_test() 251-261: TEST_DURATION has elapsed; clear is_running, stop()
\* every player and await gather().  No task is cancelled.
DurationEnd ==
  /\ mgr_pc = "duration" /\ mon_pc # "ready"
  /\ mgr_running' = FALSE
  /\ is_running' = [p \in Players |-> FALSE]
  /\ mgr_pc' = "gather"
  /\ UNCHANGED <<pc, sock, ticks, connect_send, cancelling, metric_vars, created, mon_pc>>

\* run_test() 261-265: gather returns once every run() task has finished;
\* the monitor task is cancelled and print_results() (287-322) runs.
GatherDone ==
  /\ mgr_pc = "gather"
  /\ \A p \in Players : pc[p] = "done"
  /\ mgr_pc' = "reported"
  /\ mon_pc' = "done"
  /\ UNCHANGED <<player_vars, metric_vars, created, mgr_running>>

\* monitor_stats() 267-271 with print_live_stats() 273-285.
MonStep ==
  /\ mon_pc \in {"ready", "sleep"}
  /\ mon_pc' = IF mgr_running THEN "sleep" ELSE "done"
  /\ UNCHANGED <<player_vars, metric_vars, mgr_pc, created, mgr_running>>

\* Ctrl-C while run_test() awaits a sleep or gather().  main() 410-420 is
\* the same as in tcp_load_test.py: asyncio.run() (426) turns the SIGINT
\* into a cancel of the main task, so `except KeyboardInterrupt` is never
\* reached and print_results() is skipped; the runner then cancels every
\* pending task (the monitor ends at once) and waits for them.
Interrupt ==
  /\ mgr_pc \in {"ramp", "duration", "gather"}
  /\ mgr_pc' = "teardown"
  /\ cancelling' = [p \in Players |-> pc[p] \in {"start", "sleep"}]
  /\ mon_pc' = IF mon_pc = "none" THEN "none" ELSE "done"
  /\ UNCHANGED <<pc, sock, is_running, ticks, connect_send, metric_vars, created, mgr_running>>

\* asyncio.run(): every cancelled task has finished; the loop closes and
\* KeyboardInterrupt is raised out of the program.
Teardown ==
  /\ mgr_pc = "teardown"
  /\ \A p \in Players : pc[p] \in {"new", "done"}
  /\ mgr_pc' = "exited"
  /\ UNCHANGED <<player_vars, metric_vars, created, mgr_running, mon_pc>>

\* After the report, or the teardown, the program has exited.
Finished ==
  /\ mgr_pc \in {"reported", "exited"}
  /\ UNCHANGED vars

PlayerStep(p) == Start(p) \/ Wake(p) \/ Cancelled(p)

Next ==
  \/ \E p \in Players : PlayerStep(p)
  \/ StartTest \/ RampWake \/ DurationEnd \/ GatherDone \/ MonStep
  \/ Interrupt \/ Teardown
  \/ Finished

Spec == Init /\ [][Next]_vars

\* The event loop runs every ready task and fires every due timer.  A
\* Ctrl-C need never come: Interrupt is not fair.
Fairness ==
  /\ \A p \in Players : WF_vars(PlayerStep(p))
  /\ WF_vars(StartTest) /\ WF_vars(RampWake) /\ WF_vars(DurationEnd)
  /\ WF_vars(GatherDone) /\ WF_vars(MonStep) /\ WF_vars(Teardown)

FairSpec == Spec /\ Fairness

(***************************************************************************)
(* Properties.                                                             *)
(***************************************************************************)

\* spec §7: the final report is always produced, and §6: a Ctrl-C takes
\* the same path.  A Ctrl-C cancels run_test() (main 410-420, asyncio.run
\* 426), so print_results() is skipped: violated, as in TcpLoadTest.
ReportProduced == <>(mgr_pc = "reported")

\* The program always ends: with stop alone, every player wakes from its
\* sleep, sees the flag and leaves its loop, so gather() (261) returns; after
\* a Ctrl-C at any await of run_test(), every task the runner cancels
\* finishes, so the teardown returns.
ProgramEnds == <>(mgr_pc \in {"reported", "exited"})

\* spec §3/§4.2: when the program ends, with the report or through the
\* Ctrl-C teardown, every socket a player created has been closed on the
\* path through `finally: disconnect()` (run 170-171, disconnect 173-186),
\* whether the loop ended by the flag or by CancelledError; a player
\* whose socket() failed, or cancelled before it ran, never held one.
SocketsClosedAtEnd ==
  mgr_pc \in {"reported", "exited"} => \A p \in Players : sock[p] # "open"



\* spec §4.2: "Connecting -> Failed: handshake or initial send fails ...
\* client never becomes Active".  connect() 99-106 returns True whatever
\* send_message() did with the Connect datagram (its failure is counted
\* and swallowed at 123-124), so run() enters the Move loop.
FailedConnectNeverActive ==
  \A p \in Players : connect_send[p] = "failed" => ticks[p] = 0

(***************************************************************************)
(* Refinement of the spec §4.2 client lifecycle.  A task not yet started  *)
(* is Idle, one created but not yet run is Connecting, a sleeping one is  *)
(* Active; a finished task is Closed if it created a socket and Failed if *)
(* socket.socket() raised or it was cancelled before it ran.  The stop is *)
(* the manager's is_running cleared (DurationEnd stops every player in    *)
(* the same step) or the Ctrl-C teardown begun.                           *)
(***************************************************************************)
LifecycleState(p) ==
  CASE pc[p] = "new"                      -> "Idle"
    [] pc[p] = "start"                    -> "Connecting"
    [] pc[p] = "sleep"                    -> "Active"
    [] pc[p] = "done" /\ sock[p] # "none" -> "Closed"
    [] pc[p] = "done" /\ sock[p] = "none" -> "Failed"

Lifecycle == INSTANCE ClientLifecycle
               WITH Clients <- Players, MaxMoves <- MaxTicks,
                    state <- [p \in Players |-> LifecycleState(p)],
                    stopped <- ~mgr_running \/ mgr_pc \in {"teardown", "exited"},
                    moves <- ticks

\* The UDP client implements the spec §4.2 state machine: every step of
\* run(), connect(), update_position() and disconnect() (92-186) together
\* with the manager's start and stop (240-258) is a lifecycle step or
\* leaves the lifecycle unchanged; in particular no Move is sent outside
\* Active or after the stop, and no socket-less client becomes Active.
LifecycleRefined == Lifecycle!Spec

=============================================================================
