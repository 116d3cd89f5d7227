--------------------------- MODULE SimpleUdpServer ---------------------------
(***************************************************************************)
(* src/simple_udp_server.py: a UDP sink used as a load-test target.  Two   *)
(* threads share `self.stats`:                                             *)
(*   - the main thread (`run`) blocks in recvfrom(4096) and then updates   *)
(*     messages_received, bytes_received and clients, one statement at a   *)
(*     time; a KeyboardInterrupt ends the loop and the `finally` closes   *)
(*     the socket;                                                         *)
(*   - the daemon thread (`print_stats`) wakes every 5 s and reads the     *)
(*     counters, each in a statement of its own.                           *)
(* `self.running` is set once in __init__ and never cleared, so neither    *)
(* loop ends by its condition: the process ends only because the stats     *)
(* thread is a daemon, killed when the main thread returns.                *)
(*                                                                         *)
(* Clients send datagrams into the kernel receive buffer (a FIFO of at     *)
(* most RcvCap datagrams; one that finds it full is dropped).  Sizes are a *)
(* small set so that one exceeds the 4096-byte recvfrom buffer, which      *)
(* truncates it.  The `except socket.timeout` branch is unreachable (no    *)
(* timeout is set) and the `except Exception` branch changes no state, so  *)
(* neither is an action.                                                   *)
(***************************************************************************)
EXTENDS Naturals, Sequences, FiniteSets

CONSTANTS
  Addrs,        \* client addresses (model values)
  Sizes,        \* datagram sizes in bytes
  BufSize,      \* the recvfrom buffer size, 4096
  RcvCap,       \* datagrams the kernel receive buffer holds
  MaxArrivals   \* bound on the datagrams clients send

VARIABLES
  sock,               \* self.socket: "open" | "closed"
  queue,              \* kernel receive buffer: sequence of datagrams
  sent,               \* datagrams sent by clients so far (bounded)
  accepted,           \* datagrams that found room in the buffer
  main_pc,            \* main thread: "recv" "count" "bytes" "add" "finally" "done"
  data,               \* the datagram returned by recvfrom
  interrupted,        \* a KeyboardInterrupt has been raised in the main thread
  messages_received,  \* self.stats['messages_received']
  bytes_received,     \* self.stats['bytes_received']
  clients,            \* self.stats['clients']
  stats_pc,           \* stats thread: "sleep" "rate" "count" "clients" "bytes" "killed"
  seen,               \* the values the stats thread last read
  process             \* "running" | "exited"

vars == <<sock, queue, sent, accepted, main_pc, data, interrupted,
          messages_received, bytes_received, clients, stats_pc, seen, process>>

Datagrams == [addr : Addrs, size : Sizes]
NoData == [addr |-> "none", size |-> 0]

\* Mutant: the byte count taken from the datagram sent, not the bytes read.
ReceivedUntruncated(d) == d.size

\* recvfrom(BufSize) returns at most BufSize bytes of a datagram.
Received(d) == IF d.size > BufSize THEN BufSize ELSE d.size

Seen == [rate : Nat, count : Nat, clients : Nat, bytes : Nat]

TypeOK ==
  /\ sock \in {"open", "closed"}
  /\ queue \in Seq(Datagrams) /\ Len(queue) <= RcvCap
  /\ sent \in 0 .. MaxArrivals /\ accepted \in 0 .. sent
  /\ main_pc \in {"recv", "count", "bytes", "add", "finally", "done"}
  /\ data \in Datagrams \cup {NoData}
  /\ interrupted \in BOOLEAN
  /\ messages_received \in 0 .. accepted
  /\ bytes_received \in 0 .. (messages_received * BufSize)
  /\ clients \subseteq Addrs
  /\ stats_pc \in {"sleep", "rate", "count", "clients", "bytes", "killed"}
  /\ seen \in Seen
  /\ process \in {"running", "exited"}

\* __init__: socket bound, counters zero, clients empty.
Init ==
  /\ sock = "open"
  /\ queue = <<>> /\ sent = 0 /\ accepted = 0
  /\ main_pc = "recv" /\ data = NoData /\ interrupted = FALSE
  /\ messages_received = 0 /\ bytes_received = 0 /\ clients = {}
  /\ stats_pc = "sleep"
  /\ seen = [rate |-> 0, count |-> 0, clients |-> 0, bytes |-> 0]
  /\ process = "running"

StatsVars == <<stats_pc, seen>>
Counters == <<messages_received, bytes_received, clients>>

(***************************************************************************)
(* Environment: a client sends a datagram to the bound socket.  The kernel *)
(* queues it if the receive buffer has room and drops it otherwise.        *)
(***************************************************************************)
Arrive(d) ==
  /\ process = "running" /\ sock = "open" /\ sent < MaxArrivals
  /\ sent' = sent + 1
  /\ IF Len(queue) < RcvCap
       THEN queue' = Append(queue, d) /\ accepted' = accepted + 1
       ELSE UNCHANGED <<queue, accepted>>
  /\ UNCHANGED <<sock, main_pc, data, interrupted, Counters, StatsVars, process>>

(***************************************************************************)
(* Main thread, run(): one action per statement of the receive loop.      *)
(***************************************************************************)
\* Mutant: the client recorded as soon as the datagram is read.
ReceiveAddingClient ==
  /\ main_pc = "recv" /\ queue # <<>>
  /\ data' = Head(queue) /\ queue' = Tail(queue)
  /\ clients' = clients \cup {Head(queue).addr}
  /\ main_pc' = "count"
  /\ UNCHANGED <<sock, sent, accepted, interrupted, messages_received,
                 bytes_received, StatsVars, process>>

Receive ==
  /\ main_pc = "recv" /\ queue # <<>>
  /\ data' = Head(queue) /\ queue' = Tail(queue)
  /\ main_pc' = "count"
  /\ UNCHANGED <<sock, sent, accepted, interrupted, Counters, StatsVars, process>>

\* Mutant: a datagram counted only when its client is new.
CountMessageNewClientsOnly ==
  /\ main_pc = "count"
  /\ messages_received' = messages_received + (IF data.addr \in clients THEN 0 ELSE 1)
  /\ main_pc' = "bytes"
  /\ UNCHANGED <<sock, queue, sent, accepted, data, interrupted,
                 bytes_received, clients, StatsVars, process>>

CountMessage ==
  /\ main_pc = "count"
  /\ messages_received' = messages_received + 1
  /\ main_pc' = "bytes"
  /\ UNCHANGED <<sock, queue, sent, accepted, data, interrupted,
                 bytes_received, clients, StatsVars, process>>

CountBytes ==
  /\ main_pc = "bytes"
  /\ bytes_received' = bytes_received + Received(data)
  /\ main_pc' = "add"
  /\ UNCHANGED <<sock, queue, sent, accepted, data, interrupted,
                 messages_received, clients, StatsVars, process>>

AddClient ==
  /\ main_pc = "add"
  /\ clients' = clients \cup {data.addr}
  /\ main_pc' = "recv"
  /\ UNCHANGED <<sock, queue, sent, accepted, data, interrupted,
                 messages_received, bytes_received, StatsVars, process>>

\* Ctrl-C: KeyboardInterrupt is raised in the main thread between any two
\* statements of the loop, or inside a blocked recvfrom; the inner
\* `except Exception` does not catch it, the outer handler does.
Interrupt ==
  /\ main_pc \in {"recv", "count", "bytes", "add"} /\ ~interrupted
  /\ interrupted' = TRUE
  /\ main_pc' = "finally"
  /\ UNCHANGED <<sock, queue, sent, accepted, data, Counters, StatsVars, process>>

\* finally: self.socket.close(); run() returns.
Finally ==
  /\ main_pc = "finally"
  /\ sock' = "closed"
  /\ main_pc' = "done"
  /\ UNCHANGED <<queue, sent, accepted, data, interrupted, Counters, StatsVars, process>>

\* Mutant: the stats thread not a daemon, so shutdown joins it first.
ExitNonDaemon ==
  /\ main_pc = "done" /\ process = "running" /\ stats_pc = "killed"
  /\ process' = "exited"
  /\ UNCHANGED <<sock, queue, sent, accepted, main_pc, data, interrupted,
                 Counters, StatsVars>>

\* Interpreter shutdown after the main thread returns: the stats thread is
\* a daemon, so the process exits without joining it and the thread dies.
Exit ==
  /\ main_pc = "done" /\ process = "running"
  /\ process' = "exited"
  /\ stats_pc' = "killed"
  /\ UNCHANGED <<sock, queue, sent, accepted, main_pc, data, interrupted,
                 Counters, seen>>

(***************************************************************************)
(* Stats thread, print_stats(): `while self.running` never ends; after the *)
(* sleep each counter is read by its own statement, while the main thread *)
(* keeps updating them.                                                    *)
(***************************************************************************)
StatsRead(from, to, field, value) ==
  /\ process = "running" /\ stats_pc = from
  /\ stats_pc' = to
  /\ seen' = [seen EXCEPT ![field] = value]
  /\ UNCHANGED <<sock, queue, sent, accepted, main_pc, data, interrupted,
                 Counters, process>>

\* time.sleep(5) ends
Wake ==
  /\ process = "running" /\ stats_pc = "sleep"
  /\ stats_pc' = "rate"
  /\ UNCHANGED <<sock, queue, sent, accepted, main_pc, data, interrupted,
                 Counters, seen, process>>

ReadRate == StatsRead("rate", "count", "rate", messages_received)
ReadCount == StatsRead("count", "clients", "count", messages_received)
ReadClients == StatsRead("clients", "bytes", "clients", Cardinality(clients))
ReadBytes == StatsRead("bytes", "sleep", "bytes", bytes_received)

MainStep == Receive \/ CountMessage \/ CountBytes \/ AddClient \/ Finally
StatsStep == Wake \/ ReadRate \/ ReadCount \/ ReadClients \/ ReadBytes

Next ==
  \/ \E d \in Datagrams : Arrive(d)
  \/ MainStep \/ Interrupt \/ Exit \/ StatsStep

\* Both threads are scheduled by the OS and the GIL is handed over at
\* least every switch interval, so each thread's enabled step is taken.
\* Clients and Ctrl-C are the environment: no fairness.
Fairness ==
  /\ WF_vars(Receive) /\ WF_vars(CountMessage) /\ WF_vars(CountBytes)
  /\ WF_vars(AddClient) /\ WF_vars(Finally) /\ WF_vars(Exit)
  /\ WF_vars(StatsStep)

Spec == Init /\ [][Next]_vars /\ Fairness

-----------------------------------------------------------------------------
(* Properties *)

\* The receive loop adds a client only after counting its datagram, so at
\* every point the stats thread may read them, the distinct clients are
\* no more than the datagrams counted, and no datagram is counted twice
\* or before it was taken off the buffer.
ClientsWithinMessages ==
  /\ Cardinality(clients) <= messages_received
  /\ messages_received + Len(queue) + (IF main_pc = "count" THEN 1 ELSE 0)
       <= accepted

\* run() never clears self.running, so the stats loop never ends by its
\* condition: after Ctrl-C the process still exits, because the stats
\* thread is a daemon.
InterruptEndsProcess == interrupted ~> process = "exited"

\* Every datagram that the kernel queued is counted by the receive loop
\* unless Ctrl-C ends the loop first.
AcceptedCounted ==
  \A n \in 1 .. MaxArrivals :
    accepted >= n ~> (messages_received >= n \/ interrupted)

=============================================================================
