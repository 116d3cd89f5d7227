---------------------------- MODULE ClientLifecycle ---------------------------
(***************************************************************************)
(* The virtual client state machine of spec §4.2, abstracted from any    *)
(* transport: Idle -> Connecting -> Connected -> Active -> Disconnecting  *)
(* -> Closed, with Failed reachable from Connecting and Active.  `moves`  *)
(* counts the Active ticks (Move messages) of each client, `stopped` is   *)
(* the orchestrator-issued stop (spec §4.3), applied to every client at   *)
(* once.                                                                  *)
(*                                                                         *)
(* Connected and Disconnecting are transient ("Connected -> Active:       *)
(* immediately following connect"; the Disconnect send "does not block   *)
(* progress"), so an implementation may pass through them inside the     *)
(* step that enters them: Activate goes straight to Active and may take   *)
(* the first tick, and Leave goes from Active straight to Closed.  The   *)
(* two-step path through Disconnecting is kept for implementations that   *)
(* suspend while disconnecting.                                           *)
(***************************************************************************)
EXTENDS Naturals

CONSTANTS
  Clients,
  MaxMoves     \* bound on the ticks of one client

VARIABLES state, stopped, moves

vars == <<state, stopped, moves>>

States == {"Idle", "Connecting", "Active", "Disconnecting", "Closed", "Failed"}
Ended == {"Closed", "Failed"}

TypeOK ==
  /\ state \in [Clients -> States]
  /\ stopped \in BOOLEAN
  /\ moves \in [Clients -> 0 .. MaxMoves]

Init ==
  /\ state = [c \in Clients |-> "Idle"]
  /\ stopped = FALSE
  /\ moves = [c \in Clients |-> 0]

Move(c) == moves' = [moves EXCEPT ![c] = @ + 1]
SetState(c, s) == state' = [state EXCEPT ![c] = s]

\* The orchestrator starts a batch of idle clients (before the stop).
Begin(S) ==
  /\ S # {} /\ ~stopped
  /\ \A c \in S : state[c] = "Idle"
  /\ state' = [c \in Clients |-> IF c \in S THEN "Connecting" ELSE state[c]]
  /\ UNCHANGED <<stopped, moves>>

\* Handshake and initial send succeed; Connected passes at once to Active,
\* whose first tick may be taken in the same step (not after the stop).
Activate(c) ==
  /\ state[c] = "Connecting"
  /\ SetState(c, "Active")
  /\ \/ UNCHANGED moves
     \/ ~stopped /\ moves[c] < MaxMoves /\ Move(c)
  /\ UNCHANGED stopped

ConnectFail(c) ==
  /\ state[c] = "Connecting"
  /\ SetState(c, "Failed")
  /\ UNCHANGED <<stopped, moves>>

\* An Active tick repeats until the stop.
Tick(c) ==
  /\ state[c] = "Active" /\ ~stopped /\ moves[c] < MaxMoves
  /\ Move(c)
  /\ UNCHANGED <<state, stopped>>

Stop ==
  /\ ~stopped
  /\ stopped' = TRUE
  /\ UNCHANGED <<state, moves>>

Disconnect(c) ==
  /\ state[c] = "Active" /\ stopped
  /\ SetState(c, "Disconnecting")
  /\ UNCHANGED <<stopped, moves>>

Release(c) ==
  /\ state[c] = "Disconnecting"
  /\ SetState(c, "Closed")
  /\ UNCHANGED <<stopped, moves>>

\* Disconnect and Release in one step.
Leave(c) ==
  /\ state[c] = "Active" /\ stopped
  /\ SetState(c, "Closed")
  /\ UNCHANGED <<stopped, moves>>

TransportFail(c) ==
  /\ state[c] = "Active"
  /\ SetState(c, "Failed")
  /\ UNCHANGED <<stopped, moves>>

ClientStep(c) ==
  \/ Activate(c) \/ ConnectFail(c) \/ Tick(c) \/ Disconnect(c)
  \/ Release(c) \/ Leave(c) \/ TransportFail(c)

Next ==
  \/ \E S \in SUBSET Clients : Begin(S)
  \/ Stop
  \/ \E c \in Clients : ClientStep(c)

Spec == Init /\ [][Next]_vars

\* spec §4.2-4.3: after the stop, every client that was started reaches a
\* terminal state (Closed or Failed): no client stays Active or half
\* disconnected.
StartedClientsEnd ==
  \A c \in Clients : (stopped /\ state[c] # "Idle") ~> state[c] \in Ended

=============================================================================
