--------------------------- MODULE MCGuiController ---------------------------
(***************************************************************************)
(* GuiController with two chat turns in one process, one turn next to      *)
(* another operation, and one turn with a lost process and a second one.   *)
(***************************************************************************)
EXTENDS GuiController

MCTurn == {1, 2}
MCOperation == {11}

Bound(t, o, h, c, s, l) ==
  [turns |-> t, operations |-> o, stops |-> h, clears |-> c, sessions |-> s, crashes |-> l]

TwoTurns == Bound({1, 2}, {}, 1, 0, 1, 0)
Beside == Bound({1}, {11}, 1, 0, 1, 0)
Cleared == Bound({1}, {}, 0, 1, 1, 0)
Restarted == Bound({1}, {}, 0, 0, 2, 1)
MCLimits == {TwoTurns, Beside, Cleared, Restarted}
=============================================================================
