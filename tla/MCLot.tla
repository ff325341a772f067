------------------------------- MODULE MCLot -------------------------------
(***************************************************************************)
(* Small instances of module Lot for TLC.                                  *)
(***************************************************************************)
EXTENDS Lot, TLC

Tier(bound, step) == [bound |-> bound, step |-> step]

Config(policy, window) ==
  [stepPolicy |-> policy, window |-> window, extension |-> 1,
   maxExtensions |-> 1, proxyEnabled |-> TRUE]

Window(from, until, step, start, period) ==
  [from |-> from, until |-> until, step |-> step, start |-> start, period |-> period]

Symmetry == Permutations(Participants)

(* What some of the theorems take for granted of the constants.            *)
ASSUME RoomAssumption == SumsLeaveRoom
ASSUME ClimbAssumption == StepsClimb

NoWindows == {{}}
Untimed == {NoDeadline}

(* The online week with removals: one step, one extension, and a deadline  *)
(* in whose anti-snipe window the whole trade goes on.                     *)
OneStep == {Config({Tier(0, 1)}, 3)}

(* The way to the live final: a step that grows from 3 on, and a deadline  *)
(* the clock passes.                                                       *)
TwoTiers == {Config({Tier(0, 1), Tier(3, 2)}, 1)}

(* A window launched at once, and two forms of the window of a period that *)
(* begins at the second instant; the period's overlap the launched one.    *)
Launched == {Window(1, 3, 1, NoSum, NoPeriod)}
HappyHours == {Window(2, 3, 1, 1, "hours"), Window(2, 3, 2, NoSum, "hours")}

(* A window an auction announces before it opens its lots, with the lower  *)
(* step of the first instant; only the windows of periods lower the start. *)
Announced == {{Window(1, 2, 1, NoSum, NoPeriod)}}
=============================================================================
