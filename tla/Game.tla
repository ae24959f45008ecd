-------------------------------- MODULE Game --------------------------------
(***************************************************************************)
(* The rules engine of one session: the game helpers, the turn FSM, the AI *)
(* and the main loop of run_session in src/src/server.c, as run by one     *)
(* worker process on its local state_t and hand_t.                         *)
(*                                                                         *)
(* The variables carry the names of the fields of state_t.  The battle log *)
(* (push_log) carries no rule and is left out.                             *)
(***************************************************************************)
EXTENDS Cards

CONSTANTS
  Pool,        \* card ids rand_card_id can return
  START_HP,    \* initial hit points of both sides (30 in run_session)
  MaxTurns     \* bound: player turns started in one game; up to 250 no
               \* int16_t or uint8_t field of state_t can wrap (StatusBounds)

ASSUME PoolAssumption     == Pool \subseteq CardIds /\ Pool # {}
ASSUME StartHpAssumption  == START_HP \in 1..100
ASSUME MaxTurnsAssumption == MaxTurns \in 1..250

VARIABLES
  p_hp, p_shield, p_buff, p_poison,
  ai_hp, ai_shield, ai_buff, ai_poison,
  turn,                       \* 0 = player, 1 = AI
  phase, mana, game_over,
  winner,                     \* 0 = none, 1 = player, 2 = AI
  hand,                       \* hand_t.card_ids[0..2] of the side to move
  pc,                         \* "recv": in proto_recv; "ai": in process_ai_turn
  reply,                      \* what the handler of the last packet sent
  round                       \* history: turns the player has started

pStatus  == <<p_hp, p_shield, p_buff, p_poison>>
aiStatus == <<ai_hp, ai_shield, ai_buff, ai_poison>>
gameVars == <<pStatus, aiStatus, turn, phase, mana, game_over, winner, hand>>
vars     == <<gameVars, pc, reply, round>>

HAND_N   == 3
MAX_MANA == 3
Idx      == 0..(HAND_N - 1)
Hands    == [Idx -> Pool]

Ops      == {"LOGIN_REQ", "PING", "PLAY_CARD", "END_TURN", "UNKNOWN"}

PHASE_DRAW == 0
PHASE_MAIN == 1
PHASE_END  == 2

(* Stores to int16_t and uint8_t fields.                                   *)
I16(x) == ((x + 32768) % 65536) - 32768
U8(x)  == x % 256
-----------------------------------------------------------------------------
(* apply_damage: the shield absorbs first, hp is clamped at zero.          *)
Absorbed(s, dmg) ==
  IF dmg <= 0 \/ s <= 0 THEN 0 ELSE IF dmg < s THEN dmg ELSE s

\* mutant: no clamp at zero
ClampNot(h) == h

Clamp(h) == IF h < 0 THEN 0 ELSE h

\* mutant: damage that the shield absorbed still reaches hp
DamagedHpNoAbsorb(h, s, dmg) == IF dmg > 0 THEN Clamp(I16(h - dmg)) ELSE h

DamagedHp(h, s, dmg) ==
  LET rest == dmg - Absorbed(s, dmg) IN
    IF rest > 0 THEN Clamp(I16(h - rest)) ELSE h

DamagedShield(s, dmg) == I16(s - Absorbed(s, dmg))

(* tick_poison: two damage and one turn off each poisoned side.            *)
TickedHp(h, p) == IF p > 0 THEN Clamp(I16(h - 2)) ELSE h

\* mutant: poison does not wear off
TickedPoisonStays(p) == p

TickedPoison(p) == IF p > 0 THEN U8(p - 1) ELSE p

(* check_game_over on the given hit points.                                *)
SomeoneDead(p, a) == p <= 0 \/ a <= 0

WinnerOf(p, a) == IF p > a THEN 1 ELSE IF a > p THEN 2 ELSE 0

\* mutant: the winner is the side whose turn it is
CheckGameOverTurn(p, a) ==
  IF game_over = 0 /\ SomeoneDead(p, a)
    THEN game_over' = 1 /\ winner' = turn + 1
    ELSE UNCHANGED <<game_over, winner>>

CheckGameOver(p, a) ==
  IF game_over = 0 /\ SomeoneDead(p, a)
    THEN game_over' = 1 /\ winner' = WinnerOf(p, a)
    ELSE UNCHANGED <<game_over, winner>>
-----------------------------------------------------------------------------
(* handle_play_card: the return code of its checks ...                     *)
PlayRc(idx) ==
  IF idx >= HAND_N THEN -1
  ELSE IF ~IsCard(hand[idx]) THEN -3
  ELSE IF g_cards[hand[idx]].cost > mana THEN -2
  ELSE 0

(* ... and the effect of the card when they pass, on the fields of the     *)
(* side that plays it (my_) and of its opponent (foe_).                    *)
CardEffect(c, my_hp, my_shield, my_buff, foe_hp, foe_shield, foe_poison) ==
  \/ /\ c.type = "CT_ATK"
     /\ foe_hp'     = DamagedHp(foe_hp, foe_shield, c.value + my_buff)
     /\ foe_shield' = DamagedShield(foe_shield, c.value + my_buff)
     /\ my_buff'    = 0
     /\ UNCHANGED <<my_hp, my_shield, foe_poison>>
  \/ /\ c.type = "CT_HEAL"
     /\ my_hp' = I16(my_hp + c.value)
     /\ UNCHANGED <<my_shield, my_buff, foe_hp, foe_shield, foe_poison>>
  \/ /\ c.type = "CT_SHIELD"
     /\ my_shield' = I16(my_shield + c.value)
     /\ UNCHANGED <<my_hp, my_buff, foe_hp, foe_shield, foe_poison>>
  \/ /\ c.type = "CT_BUFF"
     /\ my_buff' = I16(my_buff + c.value)
     /\ UNCHANGED <<my_hp, my_shield, foe_hp, foe_shield, foe_poison>>
  \/ /\ c.type = "CT_POISON"
     /\ foe_poison' = U8(foe_poison + c.value)
     /\ UNCHANGED <<my_hp, my_shield, my_buff, foe_hp, foe_shield>>

HandlePlayCard(is_ai, idx) ==
  LET c == g_cards[hand[idx]] IN
  /\ PlayRc(idx) = 0
  /\ mana' = U8(mana - c.cost)
  /\ IF is_ai
       THEN /\ CardEffect(c, ai_hp, ai_shield, ai_buff, p_hp, p_shield, p_poison)
            /\ UNCHANGED <<ai_poison, p_buff>>
       ELSE /\ CardEffect(c, p_hp, p_shield, p_buff, ai_hp, ai_shield, ai_poison)
            /\ UNCHANGED <<p_poison, ai_buff>>
  /\ CheckGameOver(p_hp', ai_hp')
  /\ UNCHANGED <<turn, phase>>
-----------------------------------------------------------------------------
(* enter_turn and phase_draw: full mana, three random cards, MAIN phase.   *)
EnterTurn(is_ai) ==
  /\ turn'  = is_ai
  /\ mana'  = MAX_MANA
  /\ hand'  \in Hands
  /\ phase' = PHASE_MAIN
  /\ round' = IF is_ai = 0 THEN round + 1 ELSE round

\* mutant: phase_end does not return when poison ended the game
PhaseEndGoesOn ==
  /\ p_hp'      = TickedHp(p_hp, p_poison)
  /\ p_poison'  = TickedPoison(p_poison)
  /\ ai_hp'     = TickedHp(ai_hp, ai_poison)
  /\ ai_poison' = TickedPoison(ai_poison)
  /\ CheckGameOver(p_hp', ai_hp')
  /\ EnterTurn(1 - turn)
  /\ UNCHANGED <<p_shield, p_buff, ai_shield, ai_buff>>

(* phase_end: tick both poisons, stop if that ended the game, otherwise    *)
(* the other side's turn begins.                                           *)
PhaseEnd ==
  /\ p_hp'      = TickedHp(p_hp, p_poison)
  /\ p_poison'  = TickedPoison(p_poison)
  /\ ai_hp'     = TickedHp(ai_hp, ai_poison)
  /\ ai_poison' = TickedPoison(ai_poison)
  /\ CheckGameOver(p_hp', ai_hp')
  /\ IF game_over' = 1
       THEN phase' = PHASE_END /\ UNCHANGED <<turn, mana, hand, round>>
       ELSE EnterTurn(1 - turn)
  /\ UNCHANGED <<p_shield, p_buff, ai_shield, ai_buff>>
-----------------------------------------------------------------------------
(* ai_eval_card *)
AiEval(c) ==
  (IF ai_hp < 10 /\ c.type = "CT_HEAL" THEN 100 ELSE 0)
  + (IF p_shield > 0 /\ c.type = "CT_BUFF" THEN 40 ELSE 0)
  + (CASE c.type = "CT_ATK" -> c.value
       [] c.type = "CT_POISON" /\ p_poison = 0 -> 30
       [] c.type = "CT_SHIELD" /\ ai_shield = 0 -> 20
       [] OTHER -> 0)
  - 2 * c.cost

AiAffordable(i) == IsCard(hand[i]) /\ g_cards[hand[i]].cost <= mana

\* mutant: >= makes the last of equal cards win
AiPickLast(best, i) ==
  IF AiAffordable(i) /\ AiEval(g_cards[hand[i]]) >= best.score
    THEN [idx |-> i, score |-> AiEval(g_cards[hand[i]])]
    ELSE best

(* One iteration of the selection loop of process_ai_turn.                 *)
AiPick(best, i) ==
  IF AiAffordable(i) /\ AiEval(g_cards[hand[i]]) > best.score
    THEN [idx |-> i, score |-> AiEval(g_cards[hand[i]])]
    ELSE best

AiBest == AiPick(AiPick(AiPick([idx |-> -1, score |-> -9999], 0), 1), 2).idx
-----------------------------------------------------------------------------
(* LOGIN in the handshake of run_session: a fresh game, player to move.    *)
Init ==
  /\ p_hp = START_HP /\ ai_hp = START_HP
  /\ p_shield = 0 /\ p_buff = 0 /\ p_poison = 0
  /\ ai_shield = 0 /\ ai_buff = 0 /\ ai_poison = 0
  /\ turn      = 0
  /\ phase     = PHASE_MAIN
  /\ mana      = MAX_MANA
  /\ game_over = 0
  /\ winner    = 0
  /\ hand      \in Hands
  /\ pc        = "recv"
  /\ reply     = [op |-> "LOGIN_REQ", err |-> 0, board |-> TRUE]
  /\ round     = 1

(* board: OP_STATE and OP_HAND were sent; err: the code of an OP_ERROR.    *)
Reply(op, err, board) == reply' = [op |-> op, err |-> err, board |-> board]

RecvPing ==
  /\ pc = "recv"
  /\ Reply("PING", 0, FALSE)
  /\ UNCHANGED <<gameVars, pc, round>>

(* A packet after the end of the game only gets the final board again.     *)
RecvAfterOver(op) ==
  /\ pc = "recv"
  /\ game_over = 1
  /\ Reply(op, 0, TRUE)
  /\ UNCHANGED <<gameVars, pc, round>>

PlayErr(idx, plenOk) ==
  IF turn # 0 THEN -11
  ELSE IF phase # PHASE_MAIN THEN -12
  ELSE IF ~plenOk THEN -10
  ELSE PlayRc(idx)

(* OP_PLAY_CARD accepted: the card stays in the player's hand.             *)
RecvPlay(idx) ==
  /\ pc = "recv"
  /\ game_over = 0
  /\ PlayErr(idx, TRUE) = 0
  /\ HandlePlayCard(FALSE, idx)
  /\ Reply("PLAY_CARD", 0, TRUE)
  /\ UNCHANGED <<hand, pc, round>>

\* mutant: an error reply is not followed by the board
RefusePlayBare(idx, plenOk) ==
  /\ pc = "recv"
  /\ game_over = 0
  /\ PlayErr(idx, plenOk) # 0
  /\ Reply("PLAY_CARD", PlayErr(idx, plenOk), FALSE)
  /\ UNCHANGED <<gameVars, pc, round>>

(* OP_PLAY_CARD refused: the three early returns send no board.            *)
RefusePlay(idx, plenOk) ==
  LET err == PlayErr(idx, plenOk) IN
  /\ pc = "recv"
  /\ game_over = 0
  /\ err # 0
  /\ Reply("PLAY_CARD", err, err \notin {-10, -11, -12})
  /\ UNCHANGED <<gameVars, pc, round>>

\* mutant: END_TURN does not run the AI's turn
RecvEndTurnNoAi ==
  /\ pc = "recv"
  /\ game_over = 0
  /\ round < MaxTurns
  /\ turn = 0
  /\ PhaseEnd
  /\ pc' = "recv"
  /\ Reply("END_TURN", 0, TRUE)

\* mutant: END_TURN is handled although the game is over
RecvEndTurnLate ==
  /\ pc = "recv"
  /\ round < MaxTurns
  /\ turn = 0
  /\ PhaseEnd
  /\ pc' = IF turn' = 1 /\ game_over' = 0 THEN "ai" ELSE "recv"
  /\ Reply("END_TURN", 0, pc' = "recv")

(* OP_END_TURN: phase_end hands the turn to the AI unless poison ended the *)
(* game; the reply waits for process_ai_turn.                              *)
RecvEndTurn ==
  /\ pc = "recv"
  /\ game_over = 0
  /\ round < MaxTurns
  /\ IF turn # 0
       THEN /\ Reply("END_TURN", -11, FALSE)
            /\ UNCHANGED <<gameVars, pc, round>>
       ELSE /\ PhaseEnd
            /\ pc' = IF turn' = 1 /\ game_over' = 0 THEN "ai" ELSE "recv"
            /\ Reply("END_TURN", 0, pc' = "recv")

(* A repeated LOGIN or RESUME is dropped, any other opcode is refused.     *)
RecvOther(op) ==
  /\ pc = "recv"
  /\ game_over = 0
  /\ Reply(op, IF op = "UNKNOWN" THEN -99 ELSE 0, FALSE)
  /\ UNCHANGED <<gameVars, pc, round>>

\* mutant: the chosen card is neither played nor removed from the hand
AiPlayRetry ==
  /\ pc = "ai"
  /\ phase = PHASE_MAIN
  /\ game_over = 0
  /\ AiBest >= 0
  /\ UNCHANGED vars

(* process_ai_turn: play the best affordable card and remove it ...        *)
AiPlay ==
  /\ pc = "ai"
  /\ phase = PHASE_MAIN
  /\ game_over = 0
  /\ \E best_idx \in Idx :
       /\ best_idx = AiBest
       /\ HandlePlayCard(TRUE, best_idx)
       /\ hand' = [hand EXCEPT ![best_idx] = NO_CARD]
  /\ pc' = IF game_over' = 1 THEN "recv" ELSE "ai"
  /\ Reply("END_TURN", 0, game_over' = 1)
  /\ UNCHANGED round

(* ... until nothing is affordable, then end the AI's turn.                *)
AiEnd ==
  /\ pc = "ai"
  /\ phase = PHASE_MAIN
  /\ game_over = 0
  /\ AiBest < 0
  /\ PhaseEnd
  /\ pc' = "recv"
  /\ Reply("END_TURN", 0, TRUE)

Next ==
  \/ RecvPing
  \/ \E op \in {"PLAY_CARD", "END_TURN", "LOGIN_REQ", "UNKNOWN"} : RecvAfterOver(op)
  \/ \E idx \in Idx : RecvPlay(idx)
  \/ \E idx \in 0..HAND_N, plenOk \in BOOLEAN : RefusePlay(idx, plenOk)
  \/ RecvEndTurn
  \/ \E op \in {"LOGIN_REQ", "UNKNOWN"} : RecvOther(op)
  \/ AiPlay
  \/ AiEnd

(* The worker runs process_ai_turn without waiting for anybody.            *)
Fairness == WF_vars(AiPlay \/ AiEnd)

Spec     == Init /\ [][Next]_vars
FairSpec == Spec /\ Fairness
-----------------------------------------------------------------------------
TypeOK ==
  /\ p_hp \in Nat /\ p_shield \in Nat /\ p_buff \in Nat /\ p_poison \in 0..255
  /\ ai_hp \in Nat /\ ai_shield \in Nat /\ ai_buff \in Nat /\ ai_poison \in 0..255
  /\ turn \in {0, 1}
  /\ phase \in {PHASE_MAIN, PHASE_END}
  /\ mana \in 0..MAX_MANA
  /\ game_over \in {0, 1}
  /\ winner \in 0..2
  /\ hand \in [Idx -> CardIds \union {NO_CARD}]
  /\ pc \in {"recv", "ai"}
  /\ reply \in [op : Ops, err : Int, board : BOOLEAN]
  /\ round \in 1..MaxTurns

(* The game is over exactly when a side has no hit points left, and the    *)
(* winner field then names the side that is still alive (nobody if poison  *)
(* killed both at once): check_game_over is reached after every change.    *)
OutcomeCorrect ==
  /\ game_over = 1 <=> (p_hp = 0 \/ ai_hp = 0)
  /\ winner = 1 => p_hp > 0 /\ ai_hp = 0
  /\ winner = 2 => ai_hp > 0 /\ p_hp = 0
  /\ game_over = 1 /\ winner = 0 => p_hp = 0 /\ ai_hp = 0

(* Turns the AI has started, and the mana each side can still spend.       *)
AiTurns  == IF turn = 1 THEN round ELSE round - 1
PBudget  == IF turn = 0 THEN mana ELSE 0
AiBudget == IF turn = 1 THEN mana ELSE 0

(* What a side can have gained in n turns with b mana left to spend, at 7/3*)
(* hp, 3 shield and 2 attack per mana; its foe's poison, at 1 per mana and *)
(* two ticks per round, grows by at most one per round.                    *)
Gained(n, b, my_hp, my_shield, my_buff, foe_poison) ==
  /\ 3 * my_hp + 7 * b <= 3 * START_HP + 21 * n
  /\ my_shield + 3 * b <= 9 * n
  /\ my_buff + 2 * b <= 6 * n
  /\ foe_poison + b <= n + 2

(* How far the unbounded statuses of state_t can have grown.  The int16_t  *)
(* and uint8_t fields therefore never wrap in a game of at most MaxTurns   *)
(* <= 250 player turns.                                                    *)
StatusBounds ==
  /\ Gained(round, PBudget, p_hp, p_shield, p_buff, ai_poison)
  /\ Gained(AiTurns, AiBudget, ai_hp, ai_shield, ai_buff, p_poison)
  /\ turn = 0 => p_poison <= AiTurns + 1
  /\ turn = 1 => ai_poison <= round + 1

(* When the worker blocks in proto_recv the game is over, or it is the     *)
(* player's MAIN phase with a hand of three real cards: the client never   *)
(* has to wait for a turn that nobody is going to take.                    *)
ReadyToRecv ==
  pc = "recv" /\ game_over = 0 =>
    turn = 0 /\ phase = PHASE_MAIN /\ \A i \in Idx : IsCard(hand[i])

(* recv_until and the bench client wait for STATE and HAND after each      *)
(* PLAY_CARD and END_TURN and ignore ERROR: every well-formed request must *)
(* be answered with a board, so the "not your turn", "phase error" and     *)
(* "invalid card" replies can never be sent.                               *)
BoardAlwaysSent ==
  /\ pc = "recv" /\ reply.op \in {"PLAY_CARD", "END_TURN"} /\ reply.err # -10 => reply.board
  /\ reply.err \notin {-3, -11, -12}

(* process_ai_turn's loop picks the first affordable card of maximal score.*)
AiPicksFirstBest ==
  pc = "ai" =>
    LET can   == {i \in Idx : AiAffordable(i)}
        score(i) == AiEval(g_cards[hand[i]])
        tops  == {i \in can : \A j \in can : score(j) <= score(i)}
    IN  AiBest = IF can = {} THEN -1 ELSE CHOOSE i \in tops : \A j \in tops : i <= j

(* A finished game is never touched again, whatever packets arrive.        *)
FinalBoardFrozen == [][game_over = 1 => UNCHANGED gameVars]_vars

(* A card hurts only the opponent of the side that plays it, and only once *)
(* the opponent's shield is used up (apply_damage, handle_play_card).      *)
DamageRule ==
  [][phase' = PHASE_MAIN /\ turn' = turn =>
       /\ p_hp'  < p_hp  => turn = 1 /\ p_shield' = 0
       /\ ai_hp' < ai_hp => turn = 0 /\ ai_shield' = 0]_vars

(* Every END_TURN is answered: the AI's turn always comes to an end.       *)
AiTurnEnds == pc = "ai" ~> pc = "recv"

(* The session implements the abstract duel: the phase tells the end of a  *)
(* turn (phase_end) from a card, and being back in proto_recv is what      *)
(* "answered and waiting" means.  So no card of a side makes the other     *)
(* side win, and END_TURN is not answered while the AI has moves to make.  *)
D == INSTANCE Duel WITH over <- game_over, ended <- (phase = PHASE_END), waits <- (pc = "recv")
DuelSpec == D!Spec

=============================================================================
