------------------------------- MODULE Cards -------------------------------
(***************************************************************************)
(* The static card table of src/src/common/cards.c.  A card id that is not *)
(* in CardIds is one for which get_card_def returns NULL; NO_CARD (0) is   *)
(* the id left in a hand slot once the AI has used it.                     *)
(***************************************************************************)
EXTENDS Integers

CardIds   == {100, 101, 102, 200, 201, 300, 301, 400, 401, 500, 501}
NO_CARD   == 0
CardTypes == {"CT_ATK", "CT_HEAL", "CT_SHIELD", "CT_BUFF", "CT_POISON"}

Card(t, c, v) == [type |-> t, cost |-> c, value |-> v]

(* The card table g_cards: type, mana cost and value of every card id.     *)
g_cards ==
  [id \in CardIds |->
     CASE id = 100 -> Card("CT_ATK",    1, 3)
       [] id = 101 -> Card("CT_ATK",    2, 5)
       [] id = 102 -> Card("CT_ATK",    3, 8)
       [] id = 200 -> Card("CT_HEAL",   2, 4)
       [] id = 201 -> Card("CT_HEAL",   3, 7)
       [] id = 300 -> Card("CT_SHIELD", 1, 3)
       [] id = 301 -> Card("CT_SHIELD", 2, 6)
       [] id = 400 -> Card("CT_BUFF",   1, 2)
       [] id = 401 -> Card("CT_BUFF",   2, 4)
       [] id = 500 -> Card("CT_POISON", 2, 2)
       [] id = 501 -> Card("CT_POISON", 3, 3)]

(* get_card_def(id) != NULL *)
IsCard(id) == id \in CardIds

=============================================================================
