-------------------------------- MODULE Duel --------------------------------
(***************************************************************************)
(* What one game session promises, without cards, mana or hit points: two  *)
(* sides take turns; a packet of the player is waited for exactly when it  *)
(* is the player's move or the game is over, after END_TURN thus only when *)
(* the AI has moved; a side's own card can only make that side win; only   *)
(* the end of a turn (poison) can give another result, and the turn is     *)
(* then marked as ended; a finished game never changes.  Game.tla is shown *)
(* to implement it.                                                        *)
(***************************************************************************)
EXTENDS Integers

VARIABLES
  turn,     \* 0 = player, 1 = AI
  over,     \* 0 / 1
  winner,   \* 0 = none, 1 = player, 2 = AI
  ended,    \* the turn came to its end: no card was the last event
  waits     \* the last packet was handled and the next one is waited for

duelVars == <<turn, over, winner, ended, waits>>

Init == turn = 0 /\ over = 0 /\ winner = 0 /\ ended = FALSE /\ waits = TRUE

(* The side to move plays a card that ends the game in its favour; if that *)
(* is the AI, this is also the end of the player's END_TURN.               *)
Finish ==
  /\ over = 0
  /\ over' = 1
  /\ winner' = turn + 1
  /\ waits' = TRUE
  /\ UNCHANGED <<turn, ended>>

(* The side to move ends its turn and the other side moves: the player has *)
(* to wait for the AI, until the AI has done the same, ...                 *)
Pass ==
  /\ over = 0
  /\ turn' = 1 - turn
  /\ waits' = (turn' = 0)
  /\ UNCHANGED <<over, winner, ended>>

(* ... unless the end of the turn finishes the game, with any result.      *)
Expire ==
  /\ over = 0
  /\ over' = 1
  /\ winner' \in 0..2
  /\ ended' = TRUE
  /\ waits' = TRUE
  /\ turn' = turn

Next == Finish \/ Pass \/ Expire

Spec == Init /\ [][Next]_duelVars

=============================================================================
