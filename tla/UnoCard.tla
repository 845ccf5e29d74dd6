------------------------------ MODULE UnoCard ------------------------------
(***************************************************************************)
(* Cards of the game (game/card.h) and the rule that says which card may   *)
(* follow which (RoomManager::game_can_play_card, game/room.cpp).          *)
(*                                                                         *)
(* A card is the integer the server puts on the wire: its low three bits   *)
(* are a colour, the four bits above them a function.  The masks and       *)
(* shifts of the source are written with % and \div.                       *)
(***************************************************************************)
EXTENDS Integers, FiniteSets

COLOR_ALL == 0
COLOR_RED == 1
COLOR_YELLOW == 2
COLOR_BLUE == 3
COLOR_GREEN == 4

\* The colours a player may name when a wild card is played.
Colors == {COLOR_RED, COLOR_YELLOW, COLOR_BLUE, COLOR_GREEN}

FUNC_NONE == 0
FUNC_0 == 1
FUNC_SKIP == 11
FUNC_REVERSE == 12
FUNC_DRAW2 == 13
FUNC_DRAW4 == 14
FUNC_CHGCOLOR == 15

is_valid_color(c) == c \in COLOR_ALL .. COLOR_GREEN
is_valid_func(f) == f \in FUNC_NONE .. FUNC_CHGCOLOR

get_color(c) == c % 8
get_func(c) == (c \div 8) % 16
compose_card(c, f) == (c % 8) + (f % 16) * 8

is_valid_card(c) ==
  /\ is_valid_color(get_color(c))
  /\ is_valid_func(get_func(c))
  /\ get_func(c) = FUNC_CHGCOLOR => get_color(c) = COLOR_ALL

is_func_card(c) ==
  get_func(c) \in {FUNC_SKIP, FUNC_REVERSE, FUNC_DRAW2, FUNC_DRAW4,
                   FUNC_CHGCOLOR}

(***************************************************************************)
(* How many copies of card c one set holds: the table CARD_SET.            *)
(***************************************************************************)
CARD_SET(c) ==
  LET color == get_color(c)
      func  == get_func(c)
  IN  IF color = COLOR_ALL
      THEN IF func \in {FUNC_DRAW4, FUNC_CHGCOLOR} THEN 4 ELSE 0
      ELSE IF func = FUNC_0 THEN 1
      ELSE IF func \in FUNC_0 + 1 .. FUNC_DRAW4 THEN 2 ELSE 0

\* The faces that occur in a set, and 0, the value of Room::last before the
\* first card is turned over.
Faces == {c \in 1 .. 127 : is_valid_card(c) /\ CARD_SET(c) > 0}
NoCard == 0

\* A card whose penalty is added to Room::draw.
IsDrawCard(c) == get_func(c) \in {FUNC_DRAW2, FUNC_DRAW4}

(***************************************************************************)
(* The penalty counter of the source has no bound.  It is saturated at cap *)
(* here: a penalty hands out at most the cards that are left, so with cap  *)
(* at least the size of the deck no behaviour is lost.                     *)
(***************************************************************************)
AddPenalty(d, c, cap) ==
  LET k == IF get_func(c) = FUNC_DRAW2 THEN 2
           ELSE IF get_func(c) = FUNC_DRAW4 THEN 4 ELSE 0
  IN  IF d + k > cap THEN cap ELSE d + k

\* Mutant: the wild-card rule of the branch without a penalty leaks into the
\* penalty branch.
MutWildAnswers(last, c) ==
  \/ get_color(c) = COLOR_ALL
  \/ get_func(last) = FUNC_DRAW2 /\ IsDrawCard(c)
  \/ get_func(last) = FUNC_DRAW4 /\ get_func(c) = FUNC_DRAW4

\* Mutant: any card with a penalty answers any other.
MutAnyDrawAnswers(last, c) == IsDrawCard(last) /\ IsDrawCard(c)

(***************************************************************************)
(* The branch of game_can_play_card taken while a penalty is pending       *)
(* (draw > 0).  The order of the tests is the source's: a wild last card   *)
(* is decided before its function is looked at.                            *)
(***************************************************************************)
CanAnswerPenalty(last, c) ==
  IF get_color(last) = COLOR_ALL
  THEN /\ get_color(c) = COLOR_ALL
       /\ get_func(last) = FUNC_CHGCOLOR
       /\ get_func(c) = FUNC_DRAW4
  ELSE \/ /\ get_func(last) = FUNC_DRAW2
          /\ \/ get_func(c) = FUNC_DRAW2
             \/ /\ get_func(c) = FUNC_DRAW4
                /\ get_color(c) \in {get_color(last), COLOR_ALL}
       \/ /\ get_func(last) = FUNC_DRAW4
          /\ get_func(c) = FUNC_DRAW4

(***************************************************************************)
(* May c be laid on last by the player whose turn it is?  chg is the       *)
(* colour chosen with the last wild card, draw the pending penalty.        *)
(***************************************************************************)
CanFollow(last, chg, draw, c) ==
  \/ c = last
  \/ IF draw > 0
     THEN CanAnswerPenalty(last, c)
     ELSE \/ get_color(last) = COLOR_ALL /\ get_color(c) = chg
          \/ get_color(c) \in {get_color(last), COLOR_ALL}
          \/ get_func(c) = get_func(last)
=============================================================================
