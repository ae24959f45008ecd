---------------------------- MODULE Game_proofs ----------------------------
(***************************************************************************)
(* Proofs about the rules engine of Game.tla, for every Pool, START_HP and *)
(* MaxTurns its assumptions allow.                                         *)
(***************************************************************************)
EXTENDS Game, TLAPS

(* The facts about control that the invariants of Game need to be          *)
(* inductive: process_ai_turn runs on the AI's turn of a live game, and a  *)
(* live game is in its MAIN phase with no winner.                          *)
ControlInv ==
  /\ game_over = 0 => winner = 0 /\ phase = PHASE_MAIN
  /\ pc = "ai" => turn = 1 /\ game_over = 0 /\ round < MaxTurns

(* The inductive invariant. *)
IInv ==
  /\ TypeOK
  /\ ControlInv
  /\ OutcomeCorrect
  /\ StatusBounds
  /\ ReadyToRecv
  /\ BoardAlwaysSent
-----------------------------------------------------------------------------
(* A range that holds every hp, shield and buff of a game.                 *)
Wide == 0..3000

(* Stores that fit the field are exact.                                    *)
LEMMA I16Exact == ASSUME NEW x \in Int, -32768 <= x, x <= 32767
                  PROVE  I16(x) = x
  BY DEF I16

(* The same for a uint8_t field.                                           *)
LEMMA U8Exact == ASSUME NEW x \in 0..255
                 PROVE  U8(x) = x
  BY DEF U8

(* What each card of g_cards gains per mana, at most.                      *)
CardRates(t, k, v) ==
  /\ t = "CT_HEAL"   => 3 * v <= 7 * k
  /\ t = "CT_SHIELD" => v <= 3 * k
  /\ t = "CT_BUFF"   => v <= 2 * k
  /\ t = "CT_POISON" => v <= k

(* Every card of the table has a type, a cost, a value, and those rates.   *)
LEMMA CardFacts ==
  ASSUME NEW id \in CardIds
  PROVE  \E t \in CardTypes, k \in 1..3, v \in 2..8 :
            g_cards[id] = Card(t, k, v) /\ CardRates(t, k, v)
  <1>1. CASE id = 100
    <2> g_cards[id] = Card("CT_ATK", 1, 3)
      BY <1>1 DEF g_cards, CardIds
    <2> QED
      BY DEF CardRates, CardTypes
  <1>2. CASE id = 101
    <2> g_cards[id] = Card("CT_ATK", 2, 5)
      BY <1>2 DEF g_cards, CardIds
    <2> QED
      BY DEF CardRates, CardTypes
  <1>3. CASE id = 102
    <2> g_cards[id] = Card("CT_ATK", 3, 8)
      BY <1>3 DEF g_cards, CardIds
    <2> QED
      BY DEF CardRates, CardTypes
  <1>4. CASE id = 200
    <2> g_cards[id] = Card("CT_HEAL", 2, 4)
      BY <1>4 DEF g_cards, CardIds
    <2> QED
      BY DEF CardRates, CardTypes
  <1>5. CASE id = 201
    <2> g_cards[id] = Card("CT_HEAL", 3, 7)
      BY <1>5 DEF g_cards, CardIds
    <2> QED
      BY DEF CardRates, CardTypes
  <1>6. CASE id = 300
    <2> g_cards[id] = Card("CT_SHIELD", 1, 3)
      BY <1>6 DEF g_cards, CardIds
    <2> QED
      BY DEF CardRates, CardTypes
  <1>7. CASE id = 301
    <2> g_cards[id] = Card("CT_SHIELD", 2, 6)
      BY <1>7 DEF g_cards, CardIds
    <2> QED
      BY DEF CardRates, CardTypes
  <1>8. CASE id = 400
    <2> g_cards[id] = Card("CT_BUFF", 1, 2)
      BY <1>8 DEF g_cards, CardIds
    <2> QED
      BY DEF CardRates, CardTypes
  <1>9. CASE id = 401
    <2> g_cards[id] = Card("CT_BUFF", 2, 4)
      BY <1>9 DEF g_cards, CardIds
    <2> QED
      BY DEF CardRates, CardTypes
  <1>10. CASE id = 500
    <2> g_cards[id] = Card("CT_POISON", 2, 2)
      BY <1>10 DEF g_cards, CardIds
    <2> QED
      BY DEF CardRates, CardTypes
  <1>11. CASE id = 501
    <2> g_cards[id] = Card("CT_POISON", 3, 3)
      BY <1>11 DEF g_cards, CardIds
    <2> QED
      BY DEF CardRates, CardTypes
  <1> QED
    BY <1>1, <1>2, <1>3, <1>4, <1>5, <1>6, <1>7, <1>8, <1>9, <1>10, <1>11 DEF CardIds

(* apply_damage never heals, never leaves a negative value, and lets       *)
(* damage through only when it has used up the shield.                     *)
LEMMA DamageFacts ==
  ASSUME NEW h \in Wide, NEW s \in Wide, NEW d \in Wide
  PROVE  /\ DamagedHp(h, s, d) \in 0..h
         /\ DamagedShield(s, d) \in 0..s
         /\ DamagedHp(h, s, d) < h => DamagedShield(s, d) = 0
  <1> DEFINE a == Absorbed(s, d)
  <1>1. a \in 0..s /\ a <= d /\ (a < d => a = s)
    BY DEF Absorbed, Wide
  <1> HIDE DEF a
  <1>2. DamagedShield(s, d) = s - a
    <2>1. DamagedShield(s, d) = I16(s - a)
      BY DEF DamagedShield, a
    <2>2. I16(s - a) = s - a
      BY <1>1, I16Exact DEF Wide
    <2> QED
      BY <2>1, <2>2
  <1>3. DamagedHp(h, s, d) = IF d - a > 0 THEN Clamp(I16(h - (d - a))) ELSE h
    BY DEF DamagedHp, a
  <1>4. I16(h - (d - a)) = h - (d - a)
    BY <1>1, I16Exact DEF Wide
  <1> QED
    BY <1>1, <1>2, <1>3, <1>4 DEF Clamp, Wide

(* tick_poison on one side.                                                *)
LEMMA TickFacts ==
  ASSUME NEW h \in Wide, NEW p \in 0..255
  PROVE  /\ TickedHp(h, p) \in 0..h
         /\ TickedPoison(p) = IF p > 0 THEN p - 1 ELSE 0
  <1>1. I16(h - 2) = h - 2
    BY I16Exact DEF Wide
  <1>2. p > 0 => U8(p - 1) = p - 1
    BY U8Exact
  <1> QED
    BY <1>1, <1>2 DEF TickedHp, TickedPoison, Clamp, Wide

(* Consequences of the invariant: every status is small enough for the     *)
(* lemmas above.                                                           *)
LEMMA SmallStatus ==
  IInv => /\ p_hp \in Wide /\ p_shield \in Wide
          /\ p_buff + 8 \in Wide /\ p_poison  \in 0..252
          /\ ai_hp \in Wide /\ ai_shield \in Wide
          /\ ai_buff + 8 \in Wide /\ ai_poison \in 0..252
  <1> SUFFICES ASSUME IInv PROVE SmallStatus!2
    OBVIOUS
  <1>1. /\ round \in 1..250 /\ AiTurns \in 0..250
        /\ PBudget \in 0..3 /\ AiBudget \in 0..3
    BY MaxTurnsAssumption DEF IInv, TypeOK, AiTurns, PBudget, AiBudget, MAX_MANA
  <1>2. /\ p_hp \in Nat /\ p_shield \in Nat /\ p_buff \in Nat /\ p_poison \in Nat
        /\ ai_hp \in Nat /\ ai_shield \in Nat /\ ai_buff \in Nat /\ ai_poison \in Nat
    BY DEF IInv, TypeOK
  <1>3. p_hp \in Wide /\ p_shield \in Wide /\ p_buff + 8 \in Wide /\ ai_poison \in 0..252
    BY <1>1, <1>2, StartHpAssumption, SMTT(60) DEF IInv, StatusBounds, Gained, Wide
  <1>4. ai_hp \in Wide /\ ai_shield \in Wide /\ ai_buff + 8 \in Wide /\ p_poison \in 0..252
    BY <1>1, <1>2, StartHpAssumption, SMTT(60) DEF IInv, StatusBounds, Gained, Wide
  <1> QED
    BY <1>3, <1>4

(* A card of cost k seen as a change of the old statuses h, d, b of the    *)
(* side that plays it and fh, fd, fp of its opponent to the new ones.      *)
Effect(k, h, d, b, fh, fd, fp, h1, d1, b1, fh1, fd1, fp1) ==
  /\ h1 \in Nat /\ d1 \in Nat /\ b1 \in Nat
  /\ h <= h1 /\ 3 * h1 <= 3 * h + 7 * k
  /\ d1 <= d + 3 * k
  /\ b1 <= b + 2 * k
  /\ fh1 \in 0..fh /\ fd1 \in 0..fd /\ (fh1 < fh => fd1 = 0)
  /\ fp1 \in Nat /\ fp1 <= fp + k

(* handle_play_card by the player: the gain is bounded by the cost.        *)
LEMMA PlayerEffect ==
  ASSUME NEW t \in CardTypes, NEW k \in 1..3, NEW v \in 2..8, CardRates(t, k, v),
         p_hp \in Wide, p_shield \in Wide, p_buff + 8 \in Wide,
         ai_hp \in Wide, ai_shield \in Wide, ai_poison \in Nat, p_buff \in Nat,
         ai_poison + k <= 255,
         CardEffect(Card(t, k, v), p_hp, p_shield, p_buff, ai_hp, ai_shield, ai_poison)
  PROVE  Effect(k, p_hp, p_shield, p_buff, ai_hp, ai_shield, ai_poison,
                p_hp', p_shield', p_buff', ai_hp', ai_shield', ai_poison')
  <1>1. CASE t = "CT_ATK"
    <2>1. /\ ai_hp' = DamagedHp(ai_hp, ai_shield, v + p_buff)
          /\ ai_shield' = DamagedShield(ai_shield, v + p_buff)
          /\ p_buff' = 0 /\ p_hp' = p_hp /\ p_shield' = p_shield
          /\ ai_poison' = ai_poison
      BY <1>1 DEF CardEffect, Card
    <2>2. v + p_buff \in Wide /\ ai_hp \in Wide /\ ai_shield \in Wide
      BY SMTT(60) DEF Wide
    <2> DEFINE d == v + p_buff
               H == DamagedHp(ai_hp, ai_shield, d)
               S == DamagedShield(ai_shield, d)
    <2>4. ai_hp' = H /\ ai_shield' = S /\ d \in Wide
      BY <2>1, <2>2
    <2> HIDE DEF d
    <2>3. H \in 0..ai_hp /\ S \in 0..ai_shield /\ (H < ai_hp => S = 0)
      BY <2>2, <2>4, DamageFacts, Zenon
    <2> HIDE DEF H, S
    <2> QED
      BY <2>1, <2>3, <2>4, SMTT(60) DEF Effect, Wide
  <1>2. CASE t = "CT_HEAL"
    <2>1. I16(p_hp + v) = p_hp + v
      BY I16Exact DEF Wide
    <2>2. p_hp' = p_hp + v /\ UNCHANGED <<p_shield, p_buff, ai_hp, ai_shield, ai_poison>>
      BY <1>2, <2>1 DEF CardEffect, Card
    <2> QED
      BY <1>2, <2>2, SMTT(60) DEF Effect, CardRates, Wide
  <1>3. CASE t = "CT_SHIELD"
    <2>1. I16(p_shield + v) = p_shield + v
      BY I16Exact DEF Wide
    <2>2. p_shield' = p_shield + v /\ UNCHANGED <<p_hp, p_buff, ai_hp, ai_shield, ai_poison>>
      BY <1>3, <2>1 DEF CardEffect, Card
    <2> QED
      BY <1>3, <2>2, SMTT(60) DEF Effect, CardRates, Wide
  <1>4. CASE t = "CT_BUFF"
    <2>1. I16(p_buff + v) = p_buff + v
      BY I16Exact DEF Wide
    <2>2. p_buff' = p_buff + v /\ UNCHANGED <<p_hp, p_shield, ai_hp, ai_shield, ai_poison>>
      BY <1>4, <2>1 DEF CardEffect, Card
    <2> QED
      BY <1>4, <2>2, SMTT(60) DEF Effect, CardRates, Wide
  <1>5. CASE t = "CT_POISON"
    <2>1. U8(ai_poison + v) = ai_poison + v
      BY <1>5, U8Exact, SMTT(60) DEF CardRates
    <2>2. ai_poison' = ai_poison + v /\ UNCHANGED <<p_hp, p_shield, p_buff, ai_hp, ai_shield>>
      BY <1>5, <2>1 DEF CardEffect, Card
    <2> QED
      BY <1>5, <2>2, SMTT(60) DEF Effect, CardRates, Wide
  <1> QED
    BY <1>1, <1>2, <1>3, <1>4, <1>5, SMTT(60) DEF CardTypes

(* handle_play_card by the AI: the gain is bounded by the cost.            *)
LEMMA AiEffect ==
  ASSUME NEW t \in CardTypes, NEW k \in 1..3, NEW v \in 2..8, CardRates(t, k, v),
         ai_hp \in Wide, ai_shield \in Wide, ai_buff + 8 \in Wide,
         p_hp \in Wide, p_shield \in Wide, p_poison \in Nat, ai_buff \in Nat,
         p_poison + k <= 255,
         CardEffect(Card(t, k, v), ai_hp, ai_shield, ai_buff, p_hp, p_shield, p_poison)
  PROVE  Effect(k, ai_hp, ai_shield, ai_buff, p_hp, p_shield, p_poison,
                ai_hp', ai_shield', ai_buff', p_hp', p_shield', p_poison')
  <1>1. CASE t = "CT_ATK"
    <2>1. /\ p_hp' = DamagedHp(p_hp, p_shield, v + ai_buff)
          /\ p_shield' = DamagedShield(p_shield, v + ai_buff)
          /\ ai_buff' = 0 /\ ai_hp' = ai_hp /\ ai_shield' = ai_shield
          /\ p_poison' = p_poison
      BY <1>1, SMTT(60) DEF CardEffect, Card
    <2>2. v + ai_buff \in Wide /\ p_hp \in Wide /\ p_shield \in Wide
      BY DEF Wide
    <2> DEFINE d == v + ai_buff
               H == DamagedHp(p_hp, p_shield, d)
               S == DamagedShield(p_shield, d)
    <2>4. p_hp' = H /\ p_shield' = S /\ d \in Wide
      BY <2>1, <2>2
    <2> HIDE DEF d
    <2>3. H \in 0..p_hp /\ S \in 0..p_shield /\ (H < p_hp => S = 0)
      BY <2>2, <2>4, DamageFacts, Zenon
    <2> HIDE DEF H, S
    <2> QED
      BY <2>1, <2>3, <2>4, SMTT(60) DEF Effect, Wide
  <1>2. CASE t = "CT_HEAL"
    <2>1. I16(ai_hp + v) = ai_hp + v
      BY I16Exact DEF Wide
    <2>2. ai_hp' = ai_hp + v /\ UNCHANGED <<ai_shield, ai_buff, p_hp, p_shield, p_poison>>
      BY <1>2, <2>1 DEF CardEffect, Card
    <2> QED
      BY <1>2, <2>2, SMTT(60) DEF Effect, CardRates, Wide
  <1>3. CASE t = "CT_SHIELD"
    <2>1. I16(ai_shield + v) = ai_shield + v
      BY I16Exact DEF Wide
    <2>2. ai_shield' = ai_shield + v /\ UNCHANGED <<ai_hp, ai_buff, p_hp, p_shield, p_poison>>
      BY <1>3, <2>1 DEF CardEffect, Card
    <2> QED
      BY <1>3, <2>2, SMTT(60) DEF Effect, CardRates, Wide
  <1>4. CASE t = "CT_BUFF"
    <2>1. I16(ai_buff + v) = ai_buff + v
      BY I16Exact DEF Wide
    <2>2. ai_buff' = ai_buff + v /\ UNCHANGED <<ai_hp, ai_shield, p_hp, p_shield, p_poison>>
      BY <1>4, <2>1 DEF CardEffect, Card
    <2> QED
      BY <1>4, <2>2, SMTT(60) DEF Effect, CardRates, Wide
  <1>5. CASE t = "CT_POISON"
    <2>1. U8(p_poison + v) = p_poison + v
      BY <1>5, U8Exact DEF CardRates
    <2>2. p_poison' = p_poison + v /\ UNCHANGED <<ai_hp, ai_shield, ai_buff, p_hp, p_shield>>
      BY <1>5, <2>1 DEF CardEffect, Card
    <2> QED
      BY <1>5, <2>2 DEF Effect, CardRates, Wide
  <1> QED
    BY <1>1, <1>2, <1>3, <1>4, <1>5, SMTT(60) DEF CardTypes

(* How the bounds of the side that plays a card and of its opponent move.  *)
LEMMA GainedPlay ==
  ASSUME NEW n \in Nat, NEW m \in 0..3, NEW k \in 1..3, NEW m1 \in 0..3, m1 = m - k,
         NEW h \in Nat, NEW d \in Nat, NEW b \in Nat, NEW fp \in Nat,
         NEW h1 \in Nat, NEW d1 \in Nat, NEW b1 \in Nat, NEW fp1 \in Nat,
         3 * h1 <= 3 * h + 7 * k, d1 <= d + 3 * k, b1 <= b + 2 * k, fp1 <= fp + k,
         Gained(n, m, h, d, b, fp)
  PROVE  Gained(n, m1, h1, d1, b1, fp1)
  BY StartHpAssumption DEF Gained

(* Losing hit points or shield keeps what was gained within bounds.        *)
LEMMA GainedSuffer ==
  ASSUME NEW n \in Nat, NEW b \in Nat, NEW fp \in Nat,
         NEW h \in Nat, NEW d \in Nat, NEW h1 \in 0..h, NEW d1 \in 0..d,
         Gained(n, 0, h, d, b, fp)
  PROVE  Gained(n, 0, h1, d1, b, fp)
  BY StartHpAssumption DEF Gained

(* handle_play_card on a live game, for the player and for the AI.         *)
LEMMA PlayerCard ==
  ASSUME IInv, NEW idx \in Idx, turn = 0, game_over = 0, HandlePlayCard(FALSE, idx)
  PROVE  \E k \in 1..3 :
           /\ k <= mana /\ mana' = mana - k
           /\ ai_poison + k <= 252
           /\ Effect(k, p_hp, p_shield, p_buff, ai_hp, ai_shield, ai_poison,
                     p_hp', p_shield', p_buff', ai_hp', ai_shield', ai_poison')
           /\ p_poison' = p_poison /\ ai_buff' = ai_buff
           /\ CheckGameOver(p_hp', ai_hp')
           /\ turn' = turn /\ phase' = phase
  <1>1. /\ PlayRc(idx) = 0
        /\ mana' = U8(mana - g_cards[hand[idx]].cost)
        /\ CardEffect(g_cards[hand[idx]], p_hp, p_shield, p_buff, ai_hp, ai_shield, ai_poison)
        /\ p_poison' = p_poison /\ ai_buff' = ai_buff
        /\ CheckGameOver(p_hp', ai_hp') /\ turn' = turn /\ phase' = phase
    BY DEF HandlePlayCard
  <1>2. PICK t \in CardTypes, k \in 1..3, v \in 2..8 :
          g_cards[hand[idx]] = Card(t, k, v) /\ CardRates(t, k, v)
    <2>1. IsCard(hand[idx])
      BY <1>1 DEF PlayRc
    <2> QED
      BY <2>1, CardFacts DEF IsCard
  <1>4. mana \in 0..3
    BY DEF IInv, TypeOK, MAX_MANA
  <1>3. k <= mana /\ mana' = U8(mana - k)
    <2>1. ~(Card(t, k, v).cost > mana)
      BY <1>1, <1>2 DEF PlayRc
    <2>2. Card(t, k, v).cost = k
      BY DEF Card
    <2> QED
      BY <1>1, <1>2, <1>4, <2>1, <2>2
  <1>5. mana' = mana - k
    <2>1. mana - k \in 0..255
      BY <1>3, <1>4
    <2> QED
      BY <1>3, <2>1, U8Exact
  <1>6. ai_poison + k <= 252
    <2>1. ai_poison + mana <= round + 2 /\ round \in 0..250 /\ ai_poison \in Nat
      BY MaxTurnsAssumption DEF IInv, TypeOK, StatusBounds, Gained, PBudget, AiTurns
    <2> QED
      BY <1>3, <1>4, <2>1
  <1>7. Effect(k, p_hp, p_shield, p_buff, ai_hp, ai_shield, ai_poison,
               p_hp', p_shield', p_buff', ai_hp', ai_shield', ai_poison')
    <2>1. CardEffect(Card(t, k, v), p_hp, p_shield, p_buff, ai_hp, ai_shield, ai_poison)
      BY <1>1, <1>2
    <2>2. /\ p_hp \in Wide /\ p_shield \in Wide /\ p_buff + 8 \in Wide
          /\ ai_hp \in Wide /\ ai_shield \in Wide
      BY SmallStatus
    <2>3. ai_poison \in Nat /\ p_buff \in Nat /\ ai_poison + k <= 255
      BY <1>6 DEF IInv, TypeOK
    <2> QED
      BY <1>2, <2>1, <2>2, <2>3, PlayerEffect
  <1> QED
    BY <1>1, <1>3, <1>5, <1>6, <1>7

(* The effect of the card the AI plays, from the invariant alone.          *)
LEMMA AiCard ==
  ASSUME IInv, NEW idx \in Idx, turn = 1, game_over = 0, HandlePlayCard(TRUE, idx)
  PROVE  \E k \in 1..3 :
           /\ k <= mana /\ mana' = mana - k
           /\ p_poison + k <= 252
           /\ Effect(k, ai_hp, ai_shield, ai_buff, p_hp, p_shield, p_poison,
                     ai_hp', ai_shield', ai_buff', p_hp', p_shield', p_poison')
           /\ ai_poison' = ai_poison /\ p_buff' = p_buff
           /\ CheckGameOver(p_hp', ai_hp')
           /\ turn' = turn /\ phase' = phase
  <1>1. /\ PlayRc(idx) = 0
        /\ mana' = U8(mana - g_cards[hand[idx]].cost)
        /\ CardEffect(g_cards[hand[idx]], ai_hp, ai_shield, ai_buff, p_hp, p_shield, p_poison)
        /\ ai_poison' = ai_poison /\ p_buff' = p_buff
        /\ CheckGameOver(p_hp', ai_hp') /\ turn' = turn /\ phase' = phase
    BY DEF HandlePlayCard
  <1>2. PICK t \in CardTypes, k \in 1..3, v \in 2..8 :
          g_cards[hand[idx]] = Card(t, k, v) /\ CardRates(t, k, v)
    <2>1. IsCard(hand[idx])
      BY <1>1 DEF PlayRc
    <2> QED
      BY <2>1, CardFacts DEF IsCard
  <1>4. mana \in 0..3
    BY DEF IInv, TypeOK, MAX_MANA
  <1>3. k <= mana /\ mana' = U8(mana - k)
    <2>1. ~(Card(t, k, v).cost > mana)
      BY <1>1, <1>2 DEF PlayRc
    <2>2. Card(t, k, v).cost = k
      BY DEF Card
    <2> QED
      BY <1>1, <1>2, <1>4, <2>1, <2>2
  <1>5. mana' = mana - k
    <2>1. mana - k \in 0..255
      BY <1>3, <1>4
    <2> QED
      BY <1>3, <2>1, U8Exact
  <1>6. p_poison + k <= 252
    <2>1. p_poison + mana <= AiTurns + 2 /\ AiTurns \in 0..250 /\ p_poison \in Nat
      BY MaxTurnsAssumption DEF IInv, TypeOK, StatusBounds, Gained, AiBudget, AiTurns
    <2> QED
      BY <1>3, <1>4, <2>1
  <1>7. Effect(k, ai_hp, ai_shield, ai_buff, p_hp, p_shield, p_poison,
               ai_hp', ai_shield', ai_buff', p_hp', p_shield', p_poison')
    <2>1. CardEffect(Card(t, k, v), ai_hp, ai_shield, ai_buff, p_hp, p_shield, p_poison)
      BY <1>1, <1>2
    <2>2. /\ ai_hp \in Wide /\ ai_shield \in Wide /\ ai_buff + 8 \in Wide
          /\ p_hp \in Wide /\ p_shield \in Wide
      BY SmallStatus
    <2>3. p_poison \in Nat /\ ai_buff \in Nat /\ p_poison + k <= 255
      BY <1>6 DEF IInv, TypeOK
    <2> QED
      BY <1>2, <2>1, <2>2, <2>3, AiEffect
  <1> QED
    BY <1>1, <1>3, <1>5, <1>6, <1>7

(* check_game_over, reached with the new hit points in place.              *)
LEMMA OutcomeStep ==
  ASSUME game_over = 0, winner = 0, p_hp' \in Nat, ai_hp' \in Nat,
         CheckGameOver(p_hp', ai_hp')
  PROVE  /\ OutcomeCorrect'
         /\ game_over' \in {0, 1} /\ winner' \in 0..2
         /\ game_over' = 0 => winner' = 0
         /\ game_over' = 1 => winner' = WinnerOf(p_hp', ai_hp')
  <1>1. CASE SomeoneDead(p_hp', ai_hp')
    BY <1>1 DEF CheckGameOver, SomeoneDead, WinnerOf, OutcomeCorrect
  <1>2. CASE ~SomeoneDead(p_hp', ai_hp')
    BY <1>2 DEF CheckGameOver, SomeoneDead, OutcomeCorrect
  <1> QED
    BY <1>1, <1>2

(* What a card played on a live game does to the invariant.                *)
LEMMA PlayerCardStep ==
  ASSUME IInv, NEW idx \in Idx, turn = 0, game_over = 0, round' = round,
         HandlePlayCard(FALSE, idx)
  PROVE  /\ p_hp' \in Nat /\ p_shield' \in Nat /\ p_buff' \in Nat /\ p_poison' \in 0..255
         /\ ai_hp' \in Nat /\ ai_shield' \in Nat /\ ai_buff' \in Nat /\ ai_poison' \in 0..255
         /\ mana' \in 0..MAX_MANA /\ turn' = turn /\ phase' = phase
         /\ game_over' \in {0, 1} /\ winner' \in 0..2
         /\ OutcomeCorrect' /\ StatusBounds'
         /\ game_over' = 0 => winner' = 0
         /\ game_over' = 1 => winner' = turn + 1
         /\ p_hp' >= p_hp
         /\ ai_hp' < ai_hp => ai_shield' = 0
  <1>1. PICK k \in 1..3 :
           /\ k <= mana /\ mana' = mana - k
           /\ ai_poison + k <= 252
           /\ Effect(k, p_hp, p_shield, p_buff, ai_hp, ai_shield, ai_poison,
                     p_hp', p_shield', p_buff', ai_hp', ai_shield', ai_poison')
           /\ p_poison' = p_poison /\ ai_buff' = ai_buff
           /\ CheckGameOver(p_hp', ai_hp')
           /\ turn' = turn /\ phase' = phase
    BY PlayerCard
  <1>2. /\ p_hp \in Nat /\ p_shield \in Nat /\ p_buff \in Nat /\ p_poison \in 0..255
        /\ ai_hp \in Nat /\ ai_shield \in Nat /\ ai_buff \in Nat /\ ai_poison \in 0..255
        /\ mana \in 0..3 /\ round \in Nat /\ round >= 1
    BY MaxTurnsAssumption DEF IInv, TypeOK, MAX_MANA
  <1>3. /\ p_hp' \in Nat /\ p_shield' \in Nat /\ p_buff' \in Nat /\ p_poison' \in 0..255
        /\ ai_hp' \in Nat /\ ai_shield' \in Nat /\ ai_buff' \in Nat /\ ai_poison' \in 0..255
        /\ p_hp' >= p_hp /\ (ai_hp' < ai_hp => ai_shield' = 0)
    BY <1>1, <1>2 DEF Effect
  <1>4. mana' \in 0..3
    BY <1>1, <1>2
  <1>5. p_hp > 0 /\ ai_hp > 0 /\ winner = 0
    BY <1>2 DEF IInv, OutcomeCorrect, ControlInv
  <1>6. /\ OutcomeCorrect' /\ game_over' \in {0, 1} /\ winner' \in 0..2
        /\ game_over' = 0 => winner' = 0
        /\ game_over' = 1 => winner' = WinnerOf(p_hp', ai_hp')
    BY <1>1, <1>3, <1>5, OutcomeStep
  <1>7. game_over' = 1 => winner' = turn + 1
    <2>1. game_over' = 1 => ai_hp' = 0
      BY <1>2, <1>3, <1>5, <1>6 DEF OutcomeCorrect
    <2> QED
      BY <1>2, <1>3, <1>5, <1>6, <2>1 DEF WinnerOf
  <1>8. StatusBounds'
    <2> DEFINE a == AiTurns
    <2>1. a \in Nat /\ a' = a
      BY <1>1, <1>2 DEF AiTurns
    <2>2. /\ PBudget = mana /\ PBudget' = mana'
          /\ AiBudget = 0 /\ AiBudget' = 0
      BY <1>1 DEF PBudget, AiBudget
    <2>3. /\ Gained(round, mana, p_hp, p_shield, p_buff, ai_poison)
          /\ Gained(a, 0, ai_hp, ai_shield, ai_buff, p_poison)
          /\ turn = 0 => p_poison <= a + 1
          /\ turn = 1 => ai_poison <= round + 1
      BY <2>2 DEF IInv, StatusBounds
    <2> HIDE DEF a
    <2>4. Gained(round, mana', p_hp', p_shield', p_buff', ai_poison')
      <3>1. /\ 3 * p_hp' <= 3 * p_hp + 7 * k /\ p_shield' <= p_shield + 3 * k
            /\ p_buff' <= p_buff + 2 * k /\ ai_poison' <= ai_poison + k
        BY <1>1 DEF Effect
      <3>2. /\ round \in Nat /\ p_hp' \in Nat /\ p_shield' \in Nat /\ p_buff' \in Nat
            /\ ai_poison' \in Nat /\ ai_poison \in Nat
        BY <1>2, <1>3, <2>1
      <3> QED
        BY <1>1, <1>2, <1>4, <2>3, <3>1, <3>2, GainedPlay, ZenonT(60)
    <2>5. Gained(a, 0, ai_hp', ai_shield', ai_buff', p_poison')
      <3>1. ai_hp' \in 0..ai_hp /\ ai_shield' \in 0..ai_shield
        BY <1>1 DEF Effect
      <3>2. a \in Nat /\ p_poison \in Nat
        BY <1>2, <2>1
      <3> QED
        BY <1>1, <1>2, <2>3, <3>1, <3>2, GainedSuffer
    <2>6. /\ turn = 0 => p_poison' <= a + 1
          /\ turn = 1 => ai_poison' <= round + 1
      BY <1>1, <2>3
    <2> QED
      BY <1>1, <2>1, <2>2, <2>4, <2>5, <2>6 DEF StatusBounds, Gained, a
  <1> QED
    BY <1>1, <1>3, <1>4, <1>6, <1>7, <1>8 DEF MAX_MANA

(* What a card played on a live game does to the invariant.                *)
LEMMA AiCardStep ==
  ASSUME IInv, NEW idx \in Idx, turn = 1, game_over = 0, round' = round,
         HandlePlayCard(TRUE, idx)
  PROVE  /\ p_hp' \in Nat /\ p_shield' \in Nat /\ p_buff' \in Nat /\ p_poison' \in 0..255
         /\ ai_hp' \in Nat /\ ai_shield' \in Nat /\ ai_buff' \in Nat /\ ai_poison' \in 0..255
         /\ mana' \in 0..MAX_MANA /\ turn' = turn /\ phase' = phase
         /\ game_over' \in {0, 1} /\ winner' \in 0..2
         /\ OutcomeCorrect' /\ StatusBounds'
         /\ game_over' = 0 => winner' = 0
         /\ game_over' = 1 => winner' = turn + 1
         /\ ai_hp' >= ai_hp
         /\ p_hp' < p_hp => p_shield' = 0
  <1>1. PICK k \in 1..3 :
           /\ k <= mana /\ mana' = mana - k
           /\ p_poison + k <= 252
           /\ Effect(k, ai_hp, ai_shield, ai_buff, p_hp, p_shield, p_poison,
                     ai_hp', ai_shield', ai_buff', p_hp', p_shield', p_poison')
           /\ ai_poison' = ai_poison /\ p_buff' = p_buff
           /\ CheckGameOver(p_hp', ai_hp')
           /\ turn' = turn /\ phase' = phase
    BY AiCard
  <1>2. /\ p_hp \in Nat /\ p_shield \in Nat /\ p_buff \in Nat /\ p_poison \in 0..255
        /\ ai_hp \in Nat /\ ai_shield \in Nat /\ ai_buff \in Nat /\ ai_poison \in 0..255
        /\ mana \in 0..3 /\ round \in Nat /\ round >= 1
    BY MaxTurnsAssumption DEF IInv, TypeOK, MAX_MANA
  <1>3. /\ ai_hp' \in Nat /\ ai_shield' \in Nat /\ ai_buff' \in Nat /\ ai_poison' \in 0..255
        /\ p_hp' \in Nat /\ p_shield' \in Nat /\ p_buff' \in Nat /\ p_poison' \in 0..255
        /\ ai_hp' >= ai_hp /\ (p_hp' < p_hp => p_shield' = 0)
    BY <1>1, <1>2 DEF Effect
  <1>4. mana' \in 0..3
    BY <1>1, <1>2
  <1>5. p_hp > 0 /\ ai_hp > 0 /\ winner = 0
    BY <1>2 DEF IInv, OutcomeCorrect, ControlInv
  <1>6. /\ OutcomeCorrect' /\ game_over' \in {0, 1} /\ winner' \in 0..2
        /\ game_over' = 0 => winner' = 0
        /\ game_over' = 1 => winner' = WinnerOf(p_hp', ai_hp')
    BY <1>1, <1>3, <1>5, OutcomeStep
  <1>7. game_over' = 1 => winner' = turn + 1
    <2>1. game_over' = 1 => p_hp' = 0
      BY <1>2, <1>3, <1>5, <1>6 DEF OutcomeCorrect
    <2> QED
      BY <1>2, <1>3, <1>5, <1>6, <2>1 DEF WinnerOf
  <1>8. StatusBounds'
    <2> DEFINE a == AiTurns
    <2>1. a \in Nat /\ a' = a
      BY <1>1, <1>2 DEF AiTurns
    <2>2. /\ PBudget = 0 /\ PBudget' = 0
          /\ AiBudget = mana /\ AiBudget' = mana'
      BY <1>1 DEF PBudget, AiBudget
    <2>3. /\ Gained(round, 0, p_hp, p_shield, p_buff, ai_poison)
          /\ Gained(a, mana, ai_hp, ai_shield, ai_buff, p_poison)
          /\ turn = 0 => p_poison <= a + 1
          /\ turn = 1 => ai_poison <= round + 1
      BY <2>2 DEF IInv, StatusBounds
    <2> HIDE DEF a
    <2>4. Gained(a, mana', ai_hp', ai_shield', ai_buff', p_poison')
      <3>1. /\ 3 * ai_hp' <= 3 * ai_hp + 7 * k /\ ai_shield' <= ai_shield + 3 * k
            /\ ai_buff' <= ai_buff + 2 * k /\ p_poison' <= p_poison + k
        BY <1>1 DEF Effect
      <3>2. /\ a \in Nat /\ ai_hp' \in Nat /\ ai_shield' \in Nat /\ ai_buff' \in Nat
            /\ p_poison' \in Nat /\ p_poison \in Nat
        BY <1>2, <1>3, <2>1
      <3> QED
        BY <1>1, <1>2, <1>4, <2>3, <3>1, <3>2, GainedPlay
    <2>5. Gained(round, 0, p_hp', p_shield', p_buff', ai_poison')
      <3>1. p_hp' \in 0..p_hp /\ p_shield' \in 0..p_shield
        BY <1>1 DEF Effect
      <3>2. round \in Nat /\ ai_poison \in Nat
        BY <1>2, <2>1
      <3> QED
        BY <1>1, <1>2, <2>3, <3>1, <3>2, GainedSuffer
    <2>6. /\ turn = 0 => p_poison' <= a + 1
          /\ turn = 1 => ai_poison' <= round + 1
      BY <1>1, <2>3
    <2> QED
      BY <1>1, <2>1, <2>2, <2>4, <2>5, <2>6 DEF StatusBounds, Gained, a
  <1> QED
    BY <1>1, <1>3, <1>4, <1>6, <1>7, <1>8 DEF MAX_MANA

(* How the bounds move at the end of a turn: poison shrinks, the side that *)
(* begins a turn gets three mana and one more turn to account for.         *)
LEMMA GainedBegin ==
  ASSUME NEW n \in Nat, NEW h \in Nat, NEW d \in Nat, NEW b \in Nat,
         NEW h1 \in 0..h, NEW fp \in Nat, NEW fp1 \in Nat,
         Gained(n, 0, h, d, b, fp), fp <= n + 1, fp > 0 => fp1 = fp - 1, fp = 0 => fp1 = 0
  PROVE  Gained(n + 1, 3, h1, d, b, fp1)
  BY StartHpAssumption DEF Gained

(* A tick of the poison at the end of a turn keeps the bounds.             *)
LEMMA GainedEnd ==
  ASSUME NEW n \in Nat, NEW m \in 0..3, NEW h \in Nat, NEW d \in Nat, NEW b \in Nat,
         NEW h1 \in 0..h, NEW fp \in Nat, NEW fp1 \in Nat,
         Gained(n, m, h, d, b, fp), fp > 0 => fp1 = fp - 1, fp = 0 => fp1 = 0
  PROVE  /\ Gained(n, m, h1, d, b, fp1)
         /\ Gained(n, 0, h1, d, b, fp1) /\ fp1 <= n + 1
  BY StartHpAssumption DEF Gained

(* phase_end on a live game.                                               *)
LEMMA PhaseEndStep ==
  ASSUME IInv, game_over = 0, round < MaxTurns, PhaseEnd
  PROVE  /\ p_hp' \in Nat /\ p_shield' \in Nat /\ p_buff' \in Nat /\ p_poison' \in 0..255
         /\ ai_hp' \in Nat /\ ai_shield' \in Nat /\ ai_buff' \in Nat /\ ai_poison' \in 0..255
         /\ mana' \in 0..MAX_MANA /\ round' \in 1..MaxTurns
         /\ game_over' \in {0, 1} /\ winner' \in 0..2
         /\ OutcomeCorrect' /\ StatusBounds'
         /\ game_over' = 1 => turn' = turn /\ phase' = PHASE_END /\ hand' = hand /\ round' = round
         /\ game_over' = 0 => /\ winner' = 0 /\ turn' = 1 - turn /\ phase' = PHASE_MAIN
                              /\ hand' \in Hands
                              /\ turn' = 1 => round' = round
  <1>1. /\ p_hp' = TickedHp(p_hp, p_poison) /\ p_poison' = TickedPoison(p_poison)
        /\ ai_hp' = TickedHp(ai_hp, ai_poison) /\ ai_poison' = TickedPoison(ai_poison)
        /\ CheckGameOver(p_hp', ai_hp')
        /\ p_shield' = p_shield /\ p_buff' = p_buff
        /\ ai_shield' = ai_shield /\ ai_buff' = ai_buff
    BY DEF PhaseEnd
  <1>2. /\ game_over' = 1 => phase' = PHASE_END /\ turn' = turn /\ mana' = mana
                             /\ hand' = hand /\ round' = round
        /\ game_over' # 1 => EnterTurn(1 - turn)
    BY DEF PhaseEnd
  <1>3. /\ p_hp \in Nat /\ p_shield \in Nat /\ p_buff \in Nat /\ p_poison \in 0..255
        /\ ai_hp \in Nat /\ ai_shield \in Nat /\ ai_buff \in Nat /\ ai_poison \in 0..255
        /\ mana \in 0..3 /\ turn \in {0, 1} /\ round \in 1..MaxTurns
    BY DEF IInv, TypeOK, MAX_MANA
  <1>4. p_hp \in Wide /\ ai_hp \in Wide
    BY SmallStatus
  <1>5. /\ p_hp' \in 0..p_hp /\ ai_hp' \in 0..ai_hp
        /\ p_poison' = IF p_poison > 0 THEN p_poison - 1 ELSE 0
        /\ ai_poison' = IF ai_poison > 0 THEN ai_poison - 1 ELSE 0
    BY <1>1, <1>3, <1>4, TickFacts, ZenonT(60)
  <1>6. /\ p_hp' \in Nat /\ p_poison' \in 0..255 /\ ai_hp' \in Nat /\ ai_poison' \in 0..255
    BY <1>3, <1>5
  <1>7. /\ OutcomeCorrect' /\ game_over' \in {0, 1} /\ winner' \in 0..2
        /\ game_over' = 0 => winner' = 0
    BY <1>1, <1>6, OutcomeStep DEF IInv, ControlInv
  <1>8. game_over' = 0 => /\ turn' = 1 - turn /\ phase' = PHASE_MAIN /\ mana' = 3
                          /\ hand' \in Hands
                          /\ round' = IF turn = 1 THEN round + 1 ELSE round
    BY <1>2, <1>3 DEF EnterTurn, MAX_MANA
  <1>9. mana' \in 0..3 /\ round' \in 1..MaxTurns
    BY <1>2, <1>3, <1>7, <1>8, MaxTurnsAssumption
  <1>10. StatusBounds'
    <2> DEFINE a == AiTurns
    <2>1. a \in Nat /\ a = (IF turn = 1 THEN round ELSE round - 1)
      BY <1>3 DEF AiTurns
    <2>2. /\ Gained(round, PBudget, p_hp, p_shield, p_buff, ai_poison)
          /\ Gained(a, AiBudget, ai_hp, ai_shield, ai_buff, p_poison)
          /\ turn = 0 => p_poison <= a + 1
          /\ turn = 1 => ai_poison <= round + 1
      BY DEF IInv, StatusBounds
    <2>3. PBudget \in 0..3 /\ AiBudget \in 0..3
      BY <1>3 DEF PBudget, AiBudget
    <2>9. /\ p_poison > 0 => p_poison' = p_poison - 1
          /\ p_poison = 0 => p_poison' = 0
          /\ ai_poison > 0 => ai_poison' = ai_poison - 1
          /\ ai_poison = 0 => ai_poison' = 0
          /\ p_poison \in Nat /\ p_poison' \in Nat /\ ai_poison \in Nat /\ ai_poison' \in Nat
          /\ round \in Nat
      BY <1>3, <1>5, MaxTurnsAssumption
    <2>10. /\ p_hp \in Nat /\ p_shield \in Nat /\ p_buff \in Nat /\ p_hp' \in 0..p_hp
           /\ ai_hp \in Nat /\ ai_shield \in Nat /\ ai_buff \in Nat /\ ai_hp' \in 0..ai_hp
      BY <1>3, <1>5
    <2>4. /\ Gained(round, PBudget, p_hp', p_shield, p_buff, ai_poison')
          /\ Gained(round, 0, p_hp', p_shield, p_buff, ai_poison') /\ ai_poison' <= round + 1
      BY <2>2, <2>3, <2>9, <2>10, GainedEnd
    <2>5. /\ Gained(a, AiBudget, ai_hp', ai_shield, ai_buff, p_poison')
          /\ Gained(a, 0, ai_hp', ai_shield, ai_buff, p_poison') /\ p_poison' <= a + 1
      <3>1. a \in Nat
        BY <2>1
      <3> HIDE DEF a
      <3> QED
        BY <2>2, <2>3, <2>9, <2>10, <3>1, GainedEnd
    <2>6. CASE game_over' = 1
      <3>1. AiTurns' = a /\ PBudget' = PBudget /\ AiBudget' = AiBudget
        BY <1>2, <2>6 DEF AiTurns, PBudget, AiBudget
      <3> HIDE DEF a
      <3> QED
        BY <1>1, <1>2, <2>4, <2>5, <2>6, <3>1 DEF StatusBounds
    <2>7. CASE game_over' = 0 /\ turn = 0
      <3>1. AiTurns' = a + 1 /\ PBudget' = 0 /\ AiBudget' = 3 /\ round' = round /\ turn' = 1
        BY <1>3, <1>8, <2>1, <2>7 DEF AiTurns, PBudget, AiBudget
      <3>2. AiBudget = 0
        BY <2>7 DEF AiBudget
      <3> HIDE DEF a
      <3>3. Gained(a + 1, 3, ai_hp', ai_shield, ai_buff, p_poison')
        BY <2>1, <2>2, <2>7, <2>9, <2>10, <3>2, GainedBegin
      <3> QED
        BY <1>1, <2>4, <3>1, <3>3 DEF StatusBounds
    <2>8. CASE game_over' = 0 /\ turn = 1
      <3>1. AiTurns' = a /\ PBudget' = 3 /\ AiBudget' = 0 /\ round' = round + 1 /\ turn' = 0
        BY <1>3, <1>8, <2>1, <2>8 DEF AiTurns, PBudget, AiBudget
      <3>2. PBudget = 0
        BY <2>8 DEF PBudget
      <3> HIDE DEF a
      <3>3. Gained(round + 1, 3, p_hp', p_shield, p_buff, ai_poison')
        BY <2>2, <2>8, <2>9, <2>10, <3>2, GainedBegin
      <3> QED
        BY <1>1, <2>5, <3>1, <3>3 DEF StatusBounds
    <2> QED
      BY <1>3, <1>7, <2>6, <2>7, <2>8
  <1> QED
    BY <1>1, <1>2, <1>3, <1>6, <1>7, <1>8, <1>9, <1>10 DEF MAX_MANA

-----------------------------------------------------------------------------
(* What the handlers put in reply is well-typed.                           *)
LEMMA ReplyType ==
  ASSUME NEW op \in Ops, NEW err \in Int, NEW b \in BOOLEAN
  PROVE  [op |-> op, err |-> err, board |-> b] \in [op : Ops, err : Int, board : BOOLEAN]
  OBVIOUS

(* The opcodes and error codes of the replies are of their types.          *)
LEMMA OpsType ==
  /\ {"LOGIN_REQ", "PING", "PLAY_CARD", "END_TURN", "UNKNOWN"} \subseteq Ops
  /\ {0, -1, -2, -10, -99} \subseteq Int
  BY DEF Ops

(* A session starts in the invariant.                                      *)
LEMMA InitIInv == Init => IInv
  <1> SUFFICES ASSUME Init PROVE IInv
    OBVIOUS
  <1>1. hand \in Hands /\ \A i \in Idx : hand[i] \in CardIds
    BY PoolAssumption DEF Init, Hands
  <1>2. TypeOK
    <2>1. hand \in [Idx -> CardIds \union {NO_CARD}]
      BY <1>1, PoolAssumption DEF Hands
    <2>2. reply \in [op : Ops, err : Int, board : BOOLEAN]
      BY OpsType, ReplyType DEF Init
    <2> QED
      BY <2>1, <2>2, StartHpAssumption, MaxTurnsAssumption DEF Init, TypeOK, MAX_MANA
  <1>3. OutcomeCorrect
    BY StartHpAssumption DEF Init, OutcomeCorrect
  <1>4. StatusBounds
    BY StartHpAssumption DEF Init, StatusBounds, Gained, PBudget, AiBudget, AiTurns, MAX_MANA
  <1>5. ControlInv /\ ReadyToRecv /\ BoardAlwaysSent
    BY <1>1 DEF Init, ControlInv, ReadyToRecv, BoardAlwaysSent, IsCard
  <1> QED
    BY <1>2, <1>3, <1>4, <1>5 DEF IInv

(* The packets that change nothing but the reply.                          *)
LEMMA ReplyStep ==
  ASSUME IInv, UNCHANGED <<gameVars, pc, round>>, BoardAlwaysSent',
         reply' \in [op : Ops, err : Int, board : BOOLEAN]
  PROVE  IInv'
  <1>1. TypeOK'
    BY DEF IInv, TypeOK, gameVars, pStatus, aiStatus
  <1>2. ControlInv' /\ OutcomeCorrect' /\ ReadyToRecv'
    BY DEF IInv, ControlInv, OutcomeCorrect, ReadyToRecv, gameVars, pStatus, aiStatus
  <1>3. StatusBounds'
    BY DEF IInv, StatusBounds, Gained, PBudget, AiBudget, AiTurns, gameVars, pStatus, aiStatus
  <1> QED
    BY <1>1, <1>2, <1>3 DEF IInv

(* Why the error replies that send no board cannot occur: in proto_recv    *)
(* the game waits for the player, in MAIN, with three real cards.          *)
LEMMA PlayErrRange ==
  ASSUME IInv, pc = "recv", game_over = 0, NEW idx \in 0..HAND_N, NEW plenOk \in BOOLEAN
  PROVE  PlayErr(idx, plenOk) \in {0, -1, -2, -10}
  <1>1. turn = 0 /\ phase = PHASE_MAIN /\ \A i \in Idx : IsCard(hand[i])
    BY DEF IInv, ReadyToRecv
  <1>2. PlayRc(idx) \in {0, -1, -2}
    BY <1>1 DEF PlayRc, Idx, HAND_N
  <1> QED
    BY <1>1, <1>2 DEF PlayErr

(* An accepted PLAY_CARD keeps the invariant.                              *)
LEMMA PlayStep ==
  ASSUME IInv, NEW idx \in Idx, RecvPlay(idx)
  PROVE  IInv'
  <1>1. /\ pc = "recv" /\ game_over = 0 /\ HandlePlayCard(FALSE, idx)
        /\ reply' = [op |-> "PLAY_CARD", err |-> 0, board |-> TRUE]
        /\ hand' = hand /\ pc' = pc /\ round' = round
    BY DEF RecvPlay, Reply
  <1>2. turn = 0 /\ phase = PHASE_MAIN /\ winner = 0 /\ \A i \in Idx : IsCard(hand[i])
    BY <1>1 DEF IInv, ReadyToRecv, ControlInv
  <1>3. /\ p_hp' \in Nat /\ p_shield' \in Nat /\ p_buff' \in Nat /\ p_poison' \in 0..255
        /\ ai_hp' \in Nat /\ ai_shield' \in Nat /\ ai_buff' \in Nat /\ ai_poison' \in 0..255
        /\ mana' \in 0..MAX_MANA /\ turn' = turn /\ phase' = phase
        /\ game_over' \in {0, 1} /\ winner' \in 0..2
        /\ OutcomeCorrect' /\ StatusBounds'
        /\ game_over' = 0 => winner' = 0
    BY <1>1, <1>2, PlayerCardStep, ZenonT(60)
  <1>4. TypeOK'
    <2>1. reply' \in [op : Ops, err : Int, board : BOOLEAN]
      BY <1>1, OpsType, ReplyType
    <2> QED
      BY <1>1, <1>3, <2>1 DEF IInv, TypeOK
  <1>5. ControlInv' /\ ReadyToRecv' /\ BoardAlwaysSent'
    BY <1>1, <1>2, <1>3 DEF ControlInv, ReadyToRecv, BoardAlwaysSent
  <1> QED
    BY <1>3, <1>4, <1>5 DEF IInv

(* END_TURN keeps the invariant.                                           *)
LEMMA EndTurnStep ==
  ASSUME IInv, RecvEndTurn
  PROVE  IInv'
  <1>1. /\ pc = "recv" /\ game_over = 0 /\ round < MaxTurns /\ turn = 0
    BY DEF RecvEndTurn, IInv, ReadyToRecv
  <1>2. /\ PhaseEnd
        /\ pc' = IF turn' = 1 /\ game_over' = 0 THEN "ai" ELSE "recv"
        /\ reply' = [op |-> "END_TURN", err |-> 0, board |-> pc' = "recv"]
    BY <1>1 DEF RecvEndTurn, Reply
  <1>3. /\ p_hp' \in Nat /\ p_shield' \in Nat /\ p_buff' \in Nat /\ p_poison' \in 0..255
        /\ ai_hp' \in Nat /\ ai_shield' \in Nat /\ ai_buff' \in Nat /\ ai_poison' \in 0..255
        /\ mana' \in 0..MAX_MANA /\ round' \in 1..MaxTurns
        /\ game_over' \in {0, 1} /\ winner' \in 0..2
        /\ OutcomeCorrect' /\ StatusBounds'
        /\ game_over' = 1 => turn' = turn /\ phase' = PHASE_END /\ hand' = hand /\ round' = round
        /\ game_over' = 0 => /\ winner' = 0 /\ turn' = 1 - turn /\ phase' = PHASE_MAIN
                             /\ hand' \in Hands
                             /\ turn' = 1 => round' = round
    BY <1>1, <1>2, PhaseEndStep
  <1>4. /\ turn' \in {0, 1} /\ phase' \in {PHASE_MAIN, PHASE_END}
        /\ hand' \in [Idx -> CardIds \union {NO_CARD}]
    BY <1>1, <1>3, PoolAssumption DEF IInv, TypeOK, Hands
  <1>5. TypeOK'
    <2>1. reply' \in [op : Ops, err : Int, board : BOOLEAN]
      BY <1>2, OpsType, ReplyType
    <2>2. pc' \in {"recv", "ai"}
      BY <1>2
    <2> QED
      BY <1>3, <1>4, <2>1, <2>2 DEF TypeOK
  <1>6. ControlInv' /\ ReadyToRecv'
    BY <1>1, <1>2, <1>3 DEF ControlInv, ReadyToRecv
  <1>7. BoardAlwaysSent'
    <2>1. reply'.err = 0 /\ (pc' = "recv" => reply'.board)
      BY <1>2
    <2> QED
      BY <2>1 DEF BoardAlwaysSent
  <1> QED
    BY <1>3, <1>5, <1>6, <1>7 DEF IInv

(* A card of the AI keeps the invariant.                                   *)
LEMMA AiPlayStep ==
  ASSUME IInv, AiPlay
  PROVE  IInv'
  <1>1. /\ pc = "ai" /\ game_over = 0
        /\ pc' = IF game_over' = 1 THEN "recv" ELSE "ai"
        /\ reply' = [op |-> "END_TURN", err |-> 0, board |-> game_over' = 1]
        /\ round' = round
    BY DEF AiPlay, Reply
  <1>2. turn = 1 /\ round < MaxTurns /\ phase = PHASE_MAIN
    BY <1>1 DEF IInv, ControlInv
  <1>3. PICK i \in Idx : HandlePlayCard(TRUE, i) /\ hand' = [hand EXCEPT ![i] = NO_CARD]
    BY DEF AiPlay
  <1>4. /\ p_hp' \in Nat /\ p_shield' \in Nat /\ p_buff' \in Nat /\ p_poison' \in 0..255
        /\ ai_hp' \in Nat /\ ai_shield' \in Nat /\ ai_buff' \in Nat /\ ai_poison' \in 0..255
        /\ mana' \in 0..MAX_MANA /\ turn' = turn /\ phase' = phase
        /\ game_over' \in {0, 1} /\ winner' \in 0..2
        /\ OutcomeCorrect' /\ StatusBounds'
        /\ game_over' = 0 => winner' = 0
    BY <1>1, <1>2, <1>3, AiCardStep, ZenonT(60)
  <1>5. hand' \in [Idx -> CardIds \union {NO_CARD}]
    BY <1>1, <1>3 DEF IInv, TypeOK
  <1>6. TypeOK'
    <2>1. reply' \in [op : Ops, err : Int, board : BOOLEAN]
      BY <1>1, OpsType, ReplyType
    <2>2. pc' \in {"recv", "ai"}
      BY <1>1
    <2> QED
      BY <1>1, <1>4, <1>5, <2>1, <2>2 DEF IInv, TypeOK
  <1>7. ControlInv' /\ ReadyToRecv'
    BY <1>1, <1>2, <1>4 DEF ControlInv, ReadyToRecv
  <1>8. BoardAlwaysSent'
    <2>1. reply'.err = 0 /\ (pc' = "recv" => reply'.board)
      BY <1>1
    <2> QED
      BY <2>1 DEF BoardAlwaysSent
  <1> QED
    BY <1>4, <1>6, <1>7, <1>8 DEF IInv

(* The end of the AI's turn keeps the invariant.                           *)
LEMMA AiEndStep ==
  ASSUME IInv, AiEnd
  PROVE  IInv'
  <1>1. /\ pc = "ai" /\ game_over = 0 /\ PhaseEnd /\ pc' = "recv"
        /\ reply' = [op |-> "END_TURN", err |-> 0, board |-> TRUE]
    BY DEF AiEnd, Reply
  <1>2. turn = 1 /\ round < MaxTurns
    BY <1>1 DEF IInv, ControlInv
  <1>3. /\ p_hp' \in Nat /\ p_shield' \in Nat /\ p_buff' \in Nat /\ p_poison' \in 0..255
        /\ ai_hp' \in Nat /\ ai_shield' \in Nat /\ ai_buff' \in Nat /\ ai_poison' \in 0..255
        /\ mana' \in 0..MAX_MANA /\ round' \in 1..MaxTurns
        /\ game_over' \in {0, 1} /\ winner' \in 0..2
        /\ OutcomeCorrect' /\ StatusBounds'
        /\ game_over' = 1 => turn' = turn /\ phase' = PHASE_END /\ hand' = hand /\ round' = round
        /\ game_over' = 0 => /\ winner' = 0 /\ turn' = 1 - turn /\ phase' = PHASE_MAIN
                             /\ hand' \in Hands
                             /\ turn' = 1 => round' = round
    BY <1>1, <1>2, PhaseEndStep
  <1>4. /\ turn' \in {0, 1} /\ phase' \in {PHASE_MAIN, PHASE_END}
        /\ hand' \in [Idx -> CardIds \union {NO_CARD}]
        /\ game_over' = 0 => \A i \in Idx : hand'[i] \in CardIds
    BY <1>2, <1>3, PoolAssumption DEF IInv, TypeOK, Hands
  <1>5. TypeOK'
    <2>1. reply' \in [op : Ops, err : Int, board : BOOLEAN]
      BY <1>1, OpsType, ReplyType
    <2>2. pc' \in {"recv", "ai"}
      BY <1>1
    <2> QED
      BY <1>3, <1>4, <2>1, <2>2 DEF TypeOK
  <1>6. ControlInv' /\ ReadyToRecv' /\ BoardAlwaysSent'
    BY <1>1, <1>2, <1>3, <1>4 DEF ControlInv, ReadyToRecv, BoardAlwaysSent, IsCard
  <1> QED
    BY <1>3, <1>5, <1>6 DEF IInv

(* IInv is inductive.                                                      *)
LEMMA NextIInv == IInv /\ [Next]_vars => IInv'
  <1> SUFFICES ASSUME IInv, [Next]_vars PROVE IInv'
    OBVIOUS
  <1>1. CASE UNCHANGED vars
    BY <1>1 DEF vars, gameVars, pStatus, aiStatus, IInv, TypeOK, ControlInv, OutcomeCorrect,
       StatusBounds, Gained, PBudget, AiBudget, AiTurns, ReadyToRecv, BoardAlwaysSent
  <1>2. CASE RecvPing
    <2>1. reply' = [op |-> "PING", err |-> 0, board |-> FALSE]
      BY <1>2 DEF RecvPing, Reply
    <2>2. reply' \in [op : Ops, err : Int, board : BOOLEAN]
      BY <2>1, OpsType, ReplyType
    <2> QED
      BY <1>2, <2>1, <2>2, ReplyStep DEF RecvPing, BoardAlwaysSent
  <1>3. ASSUME NEW op \in {"PLAY_CARD", "END_TURN", "LOGIN_REQ", "UNKNOWN"}, RecvAfterOver(op)
        PROVE  IInv'
    <2>1. reply' = [op |-> op, err |-> 0, board |-> TRUE]
      BY <1>3 DEF RecvAfterOver, Reply
    <2>2. reply' \in [op : Ops, err : Int, board : BOOLEAN]
      BY <1>3, <2>1, OpsType, ReplyType
    <2> QED
      BY <1>3, <2>1, <2>2, ReplyStep DEF RecvAfterOver, BoardAlwaysSent
  <1>4. ASSUME NEW idx \in Idx, RecvPlay(idx)
        PROVE  IInv'
    BY <1>4, PlayStep
  <1>5. ASSUME NEW idx \in 0..HAND_N, NEW plenOk \in BOOLEAN, RefusePlay(idx, plenOk)
        PROVE  IInv'
    <2> DEFINE e == PlayErr(idx, plenOk)
    <2>1. /\ reply' = [op |-> "PLAY_CARD", err |-> e, board |-> e \notin {-10, -11, -12}]
          /\ UNCHANGED <<gameVars, pc, round>>
      BY <1>5 DEF RefusePlay, Reply
    <2>2. e \in {-1, -2, -10}
      BY <1>5, PlayErrRange DEF RefusePlay
    <2> HIDE DEF e
    <2>3. CASE e = -10
      <3>1. reply' = [op |-> "PLAY_CARD", err |-> -10, board |-> FALSE]
        BY <2>1, <2>3
      <3>2. reply' \in [op : Ops, err : Int, board : BOOLEAN]
        BY <3>1, OpsType, ReplyType
      <3> QED
        BY <2>1, <3>1, <3>2, ReplyStep DEF BoardAlwaysSent
    <2>4. CASE e \in {-1, -2}
      <3>1. reply' = [op |-> "PLAY_CARD", err |-> e, board |-> TRUE]
        <4>1. e \notin {-10, -11, -12}
          BY <2>4
        <4> QED
          BY <2>1, <4>1
      <3>2. reply' \in [op : Ops, err : Int, board : BOOLEAN]
        BY <2>4, <3>1, OpsType, ReplyType
      <3> QED
        BY <2>1, <2>4, <3>1, <3>2, ReplyStep DEF BoardAlwaysSent
    <2> QED
      BY <2>2, <2>3, <2>4
  <1>6. CASE RecvEndTurn
    BY <1>6, EndTurnStep
  <1>7. ASSUME NEW op \in {"LOGIN_REQ", "UNKNOWN"}, RecvOther(op)
        PROVE  IInv'
    <2>1. PICK e \in {0, -99} : reply' = [op |-> op, err |-> e, board |-> FALSE]
      BY <1>7 DEF RecvOther, Reply
    <2>2. reply' \in [op : Ops, err : Int, board : BOOLEAN]
      BY <1>7, <2>1, OpsType, ReplyType
    <2> QED
      BY <1>7, <2>1, <2>2, ReplyStep DEF RecvOther, BoardAlwaysSent
  <1>8. CASE AiPlay
    BY <1>8, AiPlayStep
  <1>9. CASE AiEnd
    BY <1>9, AiEndStep
  <1> QED
    BY <1>1, <1>2, <1>3, <1>4, <1>5, <1>6, <1>7, <1>8, <1>9 DEF Next

(* The inductive invariant holds in every state of a session.              *)
THEOREM Invariance == Spec => []IInv
  BY InitIInv, NextIInv, PTL DEF Spec

(* Every field of the session keeps its type.                              *)
THEOREM TypeCorrect == Spec => []TypeOK
  BY Invariance, PTL DEF IInv

(* The game ends exactly with the death of a side, and winner is right.    *)
THEOREM OutcomeTheorem == Spec => []OutcomeCorrect
  BY Invariance, PTL DEF IInv

(* No int16_t or uint8_t field wraps within 250 player turns.              *)
THEOREM BoundsTheorem == Spec => []StatusBounds
  BY Invariance, PTL DEF IInv

(* The worker only ever waits for a player who has something to do.        *)
THEOREM ReadyTheorem == Spec => []ReadyToRecv
  BY Invariance, PTL DEF IInv

(* Every well-formed request is answered with a board.                     *)
THEOREM BoardTheorem == Spec => []BoardAlwaysSent
  BY Invariance, PTL DEF IInv

(* Every score ai_eval_card can return beats the -9999 that the selection  *)
(* loop of process_ai_turn starts from.                                    *)
LEMMA ScoreAboveStart ==
  ASSUME NEW id \in CardIds
  PROVE  AiEval(g_cards[id]) \in Int /\ AiEval(g_cards[id]) > -9999
<1>1. PICK t \in CardTypes, k \in 1..3, v \in 2..8 : g_cards[id] = Card(t, k, v)
  BY CardFacts
<1>2. g_cards[id].type = t /\ g_cards[id].cost = k /\ g_cards[id].value = v
  BY <1>1 DEF Card
<1> QED BY <1>1, <1>2 DEF AiEval, CardTypes

(* The selection loop over a hand: comparing with > keeps the first card   *)
(* of maximal score, and -1 is left exactly when no card is affordable.    *)
LEMMA LoopKeepsFirstBest ==
  ASSUME TypeOK
  PROVE  LET can == {i \in Idx : AiAffordable(i)}
             score(i) == AiEval(g_cards[hand[i]])
             tops == {i \in can : \A j \in can : score(j) <= score(i)}
         IN  /\ can = {} => AiBest = -1
             /\ can # {} => AiBest \in tops /\ \A j \in tops : AiBest <= j
<1> DEFINE can == {i \in Idx : AiAffordable(i)}
           score(i) == AiEval(g_cards[hand[i]])
           tops == {i \in can : \A j \in can : score(j) <= score(i)}
           start == [idx |-> -1, score |-> -9999]
           first == AiPick(start, 0)
           second == AiPick(first, 1)
           third == AiPick(second, 2)
<1>1. ASSUME NEW i \in Idx, AiAffordable(i) PROVE score(i) \in Int /\ score(i) > -9999
  BY <1>1, ScoreAboveStart DEF AiAffordable, IsCard
<1>2. Idx = {0, 1, 2} BY DEF Idx, HAND_N
<1> HIDE DEF score
<1>3. /\ AiAffordable(0) => first.idx = 0 /\ first.score = score(0)
      /\ ~AiAffordable(0) => first.idx = -1 /\ first.score = -9999
  BY <1>1, <1>2 DEF AiPick, score
<1>4. /\ AiAffordable(1) /\ score(1) > first.score => second.idx = 1 /\ second.score = score(1)
      /\ ~(AiAffordable(1) /\ score(1) > first.score)
           => second.idx = first.idx /\ second.score = first.score
  BY DEF AiPick, score
<1>5. /\ AiAffordable(2) /\ score(2) > second.score => AiBest = 2
      /\ ~(AiAffordable(2) /\ score(2) > second.score) => AiBest = second.idx
  BY DEF AiPick, AiBest, score
<1> HIDE DEF first, second, third
<1>6. can = {} => AiBest = -1
  BY <1>2, <1>3, <1>4, <1>5
<1>7. ASSUME can # {} PROVE AiBest \in tops /\ \A j \in tops : AiBest <= j
  <2>1. \A i \in {0, 1, 2} : AiAffordable(i) => score(i) \in Int /\ score(i) > -9999
    BY <1>1, <1>2
  <2>2. AiAffordable(0) \/ AiAffordable(1) \/ AiAffordable(2)
    BY <1>2, <1>7
  <2>3. /\ AiBest \in {0, 1, 2} /\ AiAffordable(AiBest)
        /\ \A j \in {0, 1, 2} : AiAffordable(j) => score(j) <= score(AiBest)
        /\ \A j \in {0, 1, 2} : AiAffordable(j) /\ j < AiBest => score(j) < score(AiBest)
    BY <1>3, <1>4, <1>5, <2>1, <2>2
  <2> QED BY <1>2, <2>1, <2>3
<1> QED BY <1>6, <1>7 DEF score

(* process_ai_turn plays the first affordable card of the best score.      *)
THEOREM ChoiceTheorem == Spec => []AiPicksFirstBest
<1>1. TypeOK => AiPicksFirstBest
  <2> SUFFICES ASSUME TypeOK PROVE AiPicksFirstBest OBVIOUS
  <2> DEFINE can == {i \in Idx : AiAffordable(i)}
             score(i) == AiEval(g_cards[hand[i]])
             tops == {i \in can : \A j \in can : score(j) <= score(i)}
  <2>1. /\ can = {} => AiBest = -1
        /\ can # {} => AiBest \in tops /\ \A j \in tops : AiBest <= j
    BY LoopKeepsFirstBest
  <2>2. tops \subseteq Int BY DEF Idx, HAND_N
  <2>3. ASSUME can # {} PROVE AiBest = CHOOSE i \in tops : \A j \in tops : i <= j
    <3>1. AiBest \in tops /\ \A j \in tops : AiBest <= j
      BY <2>1, <2>3
    <3> HIDE DEF tops
    <3>2. ASSUME NEW i \in tops, \A j \in tops : i <= j PROVE i = AiBest
      <4>1. i \in Int /\ AiBest \in Int /\ i <= AiBest /\ AiBest <= i
        BY <2>2, <3>1, <3>2
      <4> QED BY <4>1
    <3> QED BY <3>1, <3>2
  <2> QED BY <2>1, <2>3 DEF AiPicksFirstBest
<1> QED BY <1>1, TypeCorrect, PTL

(* What the step of each action may do to a live game.                     *)
LEMMA StepShape ==
  ASSUME IInv, [Next]_vars
  PROVE  \/ UNCHANGED gameVars
         \/ /\ game_over = 0 /\ turn = 0 /\ round' = round
            /\ \E idx \in Idx : HandlePlayCard(FALSE, idx)
         \/ /\ game_over = 0 /\ turn = 1 /\ round' = round
            /\ \E idx \in Idx : HandlePlayCard(TRUE, idx)
         \/ game_over = 0 /\ round < MaxTurns /\ PhaseEnd
  <1>1. CASE UNCHANGED vars
    BY <1>1 DEF vars
  <1>2. CASE RecvPing
    BY <1>2 DEF RecvPing
  <1>3. ASSUME NEW op \in {"PLAY_CARD", "END_TURN", "LOGIN_REQ", "UNKNOWN"}, RecvAfterOver(op)
        PROVE  UNCHANGED gameVars
    BY <1>3 DEF RecvAfterOver
  <1>4. ASSUME NEW idx \in Idx, RecvPlay(idx)
        PROVE  game_over = 0 /\ turn = 0 /\ round' = round /\ HandlePlayCard(FALSE, idx)
    BY <1>4 DEF RecvPlay, IInv, ReadyToRecv
  <1>5. ASSUME NEW idx \in 0..HAND_N, NEW plenOk \in BOOLEAN, RefusePlay(idx, plenOk)
        PROVE  UNCHANGED gameVars
    BY <1>5 DEF RefusePlay
  <1>6. CASE RecvEndTurn
    BY <1>6 DEF RecvEndTurn
  <1>7. ASSUME NEW op \in {"LOGIN_REQ", "UNKNOWN"}, RecvOther(op)
        PROVE  UNCHANGED gameVars
    BY <1>7 DEF RecvOther
  <1>8. CASE AiPlay
    <2>1. game_over = 0 /\ turn = 1 /\ round' = round
      BY <1>8 DEF AiPlay, IInv, ControlInv
    <2>2. PICK i \in Idx : HandlePlayCard(TRUE, i)
      BY <1>8 DEF AiPlay
    <2> QED
      BY <2>1, <2>2
  <1>9. CASE AiEnd
    BY <1>9 DEF AiEnd, IInv, ControlInv
  <1> QED
    BY <1>1, <1>2, <1>3, <1>4, <1>5, <1>6, <1>7, <1>8, <1>9 DEF Next

(* A finished game is never touched again.                                 *)
THEOREM FrozenTheorem == Spec => FinalBoardFrozen
  <1>1. ASSUME IInv, [Next]_vars PROVE [game_over = 1 => UNCHANGED gameVars]_vars
    <2>1. game_over = 0 \/ UNCHANGED gameVars
      BY <1>1, StepShape
    <2> QED
      BY <2>1
  <1> QED
    BY <1>1, Invariance, PTL DEF Spec, FinalBoardFrozen

(* A card only hurts the other side, and only through an empty shield.     *)
THEOREM DamageTheorem == Spec => DamageRule
  <1> DEFINE Rule == phase' = PHASE_MAIN /\ turn' = turn =>
                       /\ p_hp'  < p_hp  => turn = 1 /\ p_shield' = 0
                       /\ ai_hp' < ai_hp => turn = 0 /\ ai_shield' = 0
  <1>1. ASSUME IInv, [Next]_vars PROVE [Rule]_vars
    <2>0. p_hp \in Nat /\ ai_hp \in Nat /\ turn \in {0, 1}
      BY <1>1 DEF IInv, TypeOK
    <2>1. CASE UNCHANGED gameVars
      BY <2>0, <2>1 DEF gameVars, pStatus, aiStatus
    <2>2. ASSUME game_over = 0, turn = 0, round' = round,
                 NEW idx \in Idx, HandlePlayCard(FALSE, idx)
          PROVE  Rule
      <3>1. /\ p_hp' \in Nat /\ p_hp' >= p_hp /\ (ai_hp' < ai_hp => ai_shield' = 0)
        BY <1>1, <2>2, PlayerCardStep, ZenonT(60)
      <3> QED
        BY <2>0, <2>2, <3>1
    <2>3. ASSUME game_over = 0, turn = 1, round' = round,
                 NEW idx \in Idx, HandlePlayCard(TRUE, idx)
          PROVE  Rule
      <3>1. /\ ai_hp' \in Nat /\ ai_hp' >= ai_hp /\ (p_hp' < p_hp => p_shield' = 0)
        BY <1>1, <2>3, AiCardStep, ZenonT(60)
      <3> QED
        BY <2>0, <2>3, <3>1
    <2>4. ASSUME game_over = 0, round < MaxTurns, PhaseEnd
          PROVE  Rule
      <3>1. /\ game_over' = 1 => phase' = PHASE_END
            /\ game_over' = 0 => turn' = 1 - turn
            /\ game_over' \in {0, 1}
        BY <1>1, <2>4, PhaseEndStep
      <3> QED
        BY <2>0, <3>1 DEF PHASE_END, PHASE_MAIN
    <2> QED
      BY <1>1, <2>1, <2>2, <2>3, <2>4, StepShape
  <1> QED
    BY <1>1, Invariance, PTL DEF Spec, DamageRule

(* Whether run_session is in proto_recv follows from the board.            *)
LEMMA WaitsWhen ==
  ASSUME IInv
  PROVE  (pc = "recv") = (turn = 0 \/ game_over = 1)
  <1>1. /\ pc \in {"recv", "ai"} /\ turn \in {0, 1} /\ game_over \in {0, 1}
    BY DEF IInv, TypeOK
  <1>2. pc = "recv" => turn = 0 \/ game_over = 1
    BY <1>1 DEF IInv, ReadyToRecv
  <1>3. pc = "ai" => turn = 1 /\ game_over = 0
    BY DEF IInv, ControlInv
  <1> QED
    BY <1>1, <1>2, <1>3

(* One session implements the abstract duel: a card is a Finish or a       *)
(* stutter, the end of a turn a Pass or an Expire, and the worker is back  *)
(* in proto_recv exactly when the player is to move or the game is over.   *)
THEOREM Refinement == Spec => DuelSpec
  <1> DEFINE waiting == pc = "recv"
             atEnd   == phase = PHASE_END
  <1>1. Init => D!Init
    BY DEF Init, D!Init, PHASE_MAIN, PHASE_END
  <1>2. ASSUME IInv, IInv', [Next]_vars PROVE [D!Next]_(D!duelVars)
    <2>0. /\ turn \in {0, 1} /\ turn' \in {0, 1} /\ game_over' \in {0, 1}
          /\ game_over = 0 => ~atEnd
      BY <1>2 DEF IInv, TypeOK, ControlInv, PHASE_MAIN, PHASE_END
    <2>1. /\ waiting = (turn = 0 \/ game_over = 1)
          /\ waiting' = (turn' = 0 \/ game_over' = 1)
      <3>1. waiting = (turn = 0 \/ game_over = 1)
        BY <1>2, WaitsWhen
      <3>2. /\ pc' \in {"recv", "ai"} /\ turn' \in {0, 1} /\ game_over' \in {0, 1}
            /\ pc' = "recv" => turn' = 0 \/ game_over' = 1
            /\ pc' = "ai" => turn' = 1 /\ game_over' = 0
        BY <1>2 DEF IInv, TypeOK, ReadyToRecv, ControlInv
      <3> QED
        BY <3>1, <3>2
    <2> HIDE DEF waiting, atEnd
    <2>3. winner = 0 \/ game_over = 1
      BY <1>2 DEF IInv, ControlInv, TypeOK
    <2>2. ASSUME game_over = 0, turn' = turn, phase' = phase, game_over' \in {0, 1},
                 game_over' = 0 => winner' = 0,
                 game_over' = 1 => winner' = turn + 1
          PROVE  [D!Next]_(D!duelVars)
      <3>1. atEnd' = atEnd
        BY <2>2 DEF atEnd
      <3>2. CASE game_over' = 0
        <4>1. winner' = winner /\ waiting' = waiting /\ game_over' = game_over
          BY <2>1, <2>2, <2>3, <3>2
        <4> QED
          BY <2>2, <3>1, <4>1 DEF D!duelVars, atEnd, waiting
      <3>3. CASE game_over' = 1
        <4>1. waiting' = TRUE
          BY <2>1, <3>3
        <4> QED
          BY <2>2, <3>1, <3>3, <4>1 DEF D!Next, D!Finish, atEnd, waiting
      <3> QED
        BY <2>2, <3>2, <3>3
    <2>4. CASE UNCHANGED gameVars
      <3>1. /\ turn' = turn /\ game_over' = game_over /\ winner' = winner /\ phase' = phase
        BY <2>4 DEF gameVars
      <3>2. waiting' = waiting
        BY <2>1, <3>1
      <3> QED
        BY <3>1, <3>2 DEF D!duelVars, waiting
    <2>5. ASSUME game_over = 0, turn = 0, round' = round,
                 NEW idx \in Idx, HandlePlayCard(FALSE, idx)
          PROVE  [D!Next]_(D!duelVars)
      <3>1. /\ turn' = turn /\ phase' = phase /\ game_over' \in {0, 1}
            /\ game_over' = 0 => winner' = 0
            /\ game_over' = 1 => winner' = turn + 1
        BY <1>2, <2>5, PlayerCardStep, ZenonT(60)
      <3> QED
        BY <2>2, <2>5, <3>1
    <2>6. ASSUME game_over = 0, turn = 1, round' = round,
                 NEW idx \in Idx, HandlePlayCard(TRUE, idx)
          PROVE  [D!Next]_(D!duelVars)
      <3>1. /\ turn' = turn /\ phase' = phase /\ game_over' \in {0, 1}
            /\ game_over' = 0 => winner' = 0
            /\ game_over' = 1 => winner' = turn + 1
        BY <1>2, <2>6, AiCardStep, ZenonT(60)
      <3> QED
        BY <2>2, <2>6, <3>1
    <2>7. ASSUME game_over = 0, round < MaxTurns, PhaseEnd
          PROVE  [D!Next]_(D!duelVars)
      <3>1. /\ game_over' \in {0, 1} /\ winner' \in 0..2
            /\ game_over' = 1 => turn' = turn /\ phase' = PHASE_END
            /\ game_over' = 0 => winner' = 0 /\ turn' = 1 - turn /\ phase' = PHASE_MAIN
        BY <1>2, <2>7, PhaseEndStep
      <3>2. CASE game_over' = 1
        <4>1. turn' = turn /\ atEnd' = TRUE /\ waiting' = TRUE
          BY <2>1, <3>1, <3>2 DEF atEnd
        <4> QED
          BY <2>7, <3>1, <3>2, <4>1 DEF D!Next, D!Expire, atEnd, waiting
      <3>3. CASE game_over' = 0
        <4>1. atEnd' = atEnd
          BY <2>0, <2>7, <3>1, <3>3 DEF atEnd, PHASE_MAIN, PHASE_END
        <4>2. waiting' = (turn' = 0)
          BY <2>1, <3>3
        <4>3. winner' = winner /\ turn' = 1 - turn /\ game_over' = game_over
          BY <2>3, <2>7, <3>1, <3>3
        <4> QED
          BY <2>7, <4>1, <4>2, <4>3 DEF D!Next, D!Pass, atEnd, waiting
      <3> QED
        BY <3>1, <3>2, <3>3
    <2> QED
      BY <1>2, <2>4, <2>5, <2>6, <2>7, StepShape
  <1> QED
    BY <1>1, <1>2, Invariance, PTL DEF Spec, DuelSpec, D!Spec
-----------------------------------------------------------------------------
(* What Sessions.tla takes over from the rules engine.  A request that is  *)
(* refused, or comes too late, leaves the board alone; ...                 *)
Refused == UNCHANGED gameVars /\ pc' = pc

(* ... a card (PlayOutcomes) leaves turn and hand alone, won or not; ...   *)
CardPlayed ==
  /\ pc = "recv" /\ pc' = "recv" /\ reply'.op = "PLAY_CARD" /\ reply'.board
  /\ game_over = 0 /\ game_over' \in {0, 1} /\ turn = 0
  /\ UNCHANGED <<turn, hand>>

(* ... the end of the player's turn (EndOutcomes) ends the game, or deals  *)
(* the AI a hand and runs process_ai_turn before anything is received; ... *)
TurnEnded ==
  /\ pc = "recv" /\ reply'.op = "END_TURN" /\ game_over = 0 /\ turn = 0
  /\ \/ game_over' = 1 /\ pc' = "recv" /\ reply'.board /\ UNCHANGED <<turn, hand>>
     \/ game_over' = 0 /\ pc' = "ai" /\ turn' = 1 /\ hand' \in Hands

(* ... and process_ai_turn (AiOutcomes) uses up a card of its hand in each *)
(* round of its loop, so that it has at most HAND_N rounds, and leaves the *)
(* loop with the game over, or with the player's turn and a new hand.      *)
AiMoved ==
  /\ pc = "ai" /\ reply'.op = "END_TURN" /\ game_over = 0 /\ turn = 1
  /\ pc' = "recv" => reply'.board
  /\ \/ /\ \E i \in Idx : IsCard(hand[i]) /\ hand' = [hand EXCEPT ![i] = NO_CARD]
        /\ turn' = 1 /\ game_over' \in {0, 1}
        /\ pc' = IF game_over' = 1 THEN "recv" ELSE "ai"
     \/ game_over' = 1 /\ pc' = "recv" /\ UNCHANGED <<turn, hand>>
     \/ game_over' = 0 /\ pc' = "recv" /\ turn' = 0 /\ hand' \in Hands

(* The handlers of run_session have no other outcomes than those that      *)
(* Sessions.tla gives its workers.                                         *)
THEOREM HandlerOutcomes == Spec => [][Refused \/ CardPlayed \/ TurnEnded \/ AiMoved]_vars
  <1> DEFINE Outcome == Refused \/ CardPlayed \/ TurnEnded \/ AiMoved
  <1>1. ASSUME IInv, Next PROVE Outcome
    <2>0. turn \in {0, 1} /\ game_over \in {0, 1}
      BY <1>1 DEF IInv, TypeOK
    <2>1. CASE RecvPing
      BY <2>1 DEF RecvPing, Refused
    <2>2. ASSUME NEW op \in {"PLAY_CARD", "END_TURN", "LOGIN_REQ", "UNKNOWN"}, RecvAfterOver(op)
          PROVE  Outcome
      BY <2>2 DEF RecvAfterOver, Refused
    <2>3. ASSUME NEW idx \in Idx, RecvPlay(idx) PROVE Outcome
      <3>1. /\ pc = "recv" /\ pc' = "recv" /\ game_over = 0 /\ hand' = hand /\ round' = round
            /\ reply' = [op |-> "PLAY_CARD", err |-> 0, board |-> TRUE] /\ HandlePlayCard(FALSE, idx)
        BY <2>3 DEF RecvPlay, Reply
      <3>2. turn = 0
        BY <1>1, <3>1 DEF IInv, ReadyToRecv
      <3>3. turn' = turn /\ game_over' \in {0, 1}
        BY <1>1, <3>1, <3>2, PlayerCardStep
      <3>4. reply'.op = "PLAY_CARD" /\ reply'.board
        BY <3>1
      <3> QED
        BY <3>1, <3>2, <3>3, <3>4 DEF CardPlayed
    <2>4. ASSUME NEW idx \in 0..HAND_N, NEW plenOk \in BOOLEAN, RefusePlay(idx, plenOk)
          PROVE  Outcome
      BY <2>4 DEF RefusePlay, Refused
    <2>5. CASE RecvEndTurn
      <3>1. pc = "recv" /\ game_over = 0 /\ round < MaxTurns
        BY <2>5 DEF RecvEndTurn
      <3>2. turn = 0
        BY <1>1, <3>1 DEF IInv, ReadyToRecv
      <3>3. /\ PhaseEnd /\ pc' = (IF turn' = 1 /\ game_over' = 0 THEN "ai" ELSE "recv")
            /\ reply' = [op |-> "END_TURN", err |-> 0, board |-> pc' = "recv"]
        BY <2>5, <3>2 DEF RecvEndTurn, Reply
      <3>4. /\ game_over' \in {0, 1}
            /\ game_over' = 1 => turn' = turn /\ hand' = hand
            /\ game_over' = 0 => turn' = 1 - turn /\ hand' \in Hands
        BY <1>1, <3>1, <3>3, PhaseEndStep
      <3>5. reply'.op = "END_TURN" /\ reply'.board = (pc' = "recv")
        BY <3>3
      <3>6. CASE game_over' = 1
        <4>1. pc' = "recv"
          BY <3>3, <3>6
        <4>2. reply'.board
          BY <3>5, <4>1
        <4> QED
          BY <3>1, <3>2, <3>4, <3>5, <3>6, <4>1, <4>2 DEF TurnEnded
      <3>7. CASE game_over' = 0
        <4>1. turn' = 1 /\ pc' = "ai"
          BY <3>2, <3>3, <3>4, <3>7
        <4> QED
          BY <3>1, <3>2, <3>4, <3>5, <3>7, <4>1 DEF TurnEnded
      <3> QED
        BY <3>4, <3>6, <3>7
    <2>6. ASSUME NEW op \in {"LOGIN_REQ", "UNKNOWN"}, RecvOther(op) PROVE Outcome
      BY <2>6 DEF RecvOther, Refused
    <2>7. CASE AiPlay
      <3>1. PICK i \in Idx : HandlePlayCard(TRUE, i) /\ hand' = [hand EXCEPT ![i] = NO_CARD]
        BY <2>7 DEF AiPlay
      <3>2. /\ pc = "ai" /\ pc' = (IF game_over' = 1 THEN "recv" ELSE "ai") /\ round' = round
            /\ reply' = [op |-> "END_TURN", err |-> 0, board |-> game_over' = 1]
        BY <2>7 DEF AiPlay, Reply
      <3>3. turn = 1 /\ game_over = 0
        BY <1>1, <3>2 DEF IInv, ControlInv
      <3>4. turn' = turn /\ game_over' \in {0, 1}
        BY <1>1, <3>1, <3>2, <3>3, AiCardStep
      <3>5. IsCard(hand[i])
        BY <3>1 DEF HandlePlayCard, PlayRc, Idx, HAND_N
      <3>6. reply'.op = "END_TURN" /\ reply'.board = (game_over' = 1)
        BY <3>2
      <3>7. pc' = "recv" => reply'.board
        BY <3>2, <3>6
      <3> QED
        BY <3>1, <3>2, <3>3, <3>4, <3>5, <3>6, <3>7 DEF AiMoved
    <2>8. CASE AiEnd
      <3>1. /\ pc = "ai" /\ pc' = "recv" /\ PhaseEnd
            /\ reply' = [op |-> "END_TURN", err |-> 0, board |-> TRUE]
        BY <2>8 DEF AiEnd, Reply
      <3>2. turn = 1 /\ game_over = 0 /\ round < MaxTurns
        BY <1>1, <3>1 DEF IInv, ControlInv
      <3>3. /\ game_over' \in {0, 1}
            /\ game_over' = 1 => turn' = turn /\ hand' = hand
            /\ game_over' = 0 => turn' = 1 - turn /\ hand' \in Hands
        BY <1>1, <3>1, <3>2, PhaseEndStep
      <3>4. reply'.op = "END_TURN" /\ reply'.board
        BY <3>1
      <3>5. game_over' = 0 => turn' = 0
        BY <3>2, <3>3
      <3> QED
        BY <3>1, <3>2, <3>3, <3>4, <3>5 DEF AiMoved
    <2> QED
      BY <1>1, <2>1, <2>2, <2>3, <2>4, <2>5, <2>6, <2>7, <2>8 DEF Next
  <1>2. ASSUME IInv, [Next]_vars PROVE [Outcome]_vars
    BY <1>1, <1>2
  <1> QED
    BY <1>2, Invariance, PTL DEF Spec
=============================================================================
