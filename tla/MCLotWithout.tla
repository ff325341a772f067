---------------------------- MODULE MCLotWithout ----------------------------
(***************************************************************************)
(* A small instance of module LotWithout for TLC.                          *)
(***************************************************************************)
EXTENDS LotWithout, TLC

Tiers == {[bound |-> 0, step |-> 1], [bound |-> 3, step |-> 2]}

TwoTiers ==
  {[stepPolicy |-> Tiers, window |-> 1, extension |-> 1,
    maxExtensions |-> 1, proxyEnabled |-> TRUE]}

(* Launched at some moment of the first instant: the step of the upper     *)
(* tier falls to one for what comes after it.  A period's window lowers it *)
(* at the second instant.                                                  *)
LaunchedWindow ==
  {[from |-> 1, until |-> 2, step |-> 1, start |-> NoSum, period |-> NoPeriod]}

PeriodWindow ==
  {[from |-> 2, until |-> 3, step |-> 1, start |-> NoSum, period |-> "hours"]}

NoWindows == {{}}

Symmetry == Permutations(Others)
Untimed == {NoDeadline}
=============================================================================
