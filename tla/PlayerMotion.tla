----------------------------- MODULE PlayerMotion -----------------------------
(***************************************************************************)
(* The random walk of VirtualPlayer.update_position() (tcp 164-179, rudp  *)
(* 126-141; the two are identical): advance the position by the velocity, *)
(* reflect and clamp each planar axis that left [0, WORLD_SIZE], then     *)
(* with probability 0.1 resample both velocity components in [-1, 1].    *)
(*                                                                         *)
(* Positions and velocities are floats in the code; here they are         *)
(* integers in a fixed unit (tenths in MC_PlayerMotion), so WORLD_SIZE and *)
(* the velocity samples are given in that unit.  Float rounding of the    *)
(* sum cannot take a position out of bounds, since every out-of-range     *)
(* value is clamped.  Component 2 (z) is never written by the code and is *)
(* left out.                                                              *)
(***************************************************************************)
EXTENDS Integers

CONSTANTS
  WORLD_SIZE,    \* WORLD_SIZE, in model units
  Velocities     \* the values random.uniform(-1, 1) may yield, in model units

ASSUME /\ WORLD_SIZE \in Nat \ {0}
       /\ Velocities \subseteq Int

Axes == {0, 1}

VARIABLES position, velocity

vars == <<position, velocity>>

\* VirtualPlayer.__init__ 80-89: position uniform in [0, WORLD_SIZE],
\* velocity uniform in [-1, 1] on each planar axis.
Init ==
  /\ position \in [Axes -> 0 .. WORLD_SIZE]
  /\ velocity \in [Axes -> Velocities]

Clamp(x) == IF x < 0 THEN 0 ELSE IF x > WORLD_SIZE THEN WORLD_SIZE ELSE x

\* update_position() 126-141: move, then for i in range(2) reflect and
\* clamp an axis that left the world, then maybe resample the velocity.
Tick ==
  LET moved == [i \in Axes |-> position[i] + velocity[i]]
      out(i) == moved[i] < 0 \/ moved[i] > WORLD_SIZE
      reflected == [i \in Axes |-> IF out(i) THEN -velocity[i] ELSE velocity[i]]
  IN /\ position' = [i \in Axes |-> IF out(i) THEN Clamp(moved[i]) ELSE moved[i]]
     /\ velocity' \in {reflected} \cup [Axes -> Velocities]

Spec == Init /\ [][Tick]_vars

\* spec §8: "a client at x = world_size - 0.1, vx = +1 must, after one
\* tick, have x == world_size and vx < 0" (reflection at 133-136; the
\* velocity resample at 139-141 comes after it).
ReflectionExample ==
  [][(position[0] = WORLD_SIZE - 1 /\ velocity[0] = 10)
       => (position'[0] = WORLD_SIZE /\ velocity'[0] < 0)]_vars

=============================================================================
