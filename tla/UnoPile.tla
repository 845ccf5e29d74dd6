------------------------------ MODULE UnoPile ------------------------------
(***************************************************************************)
(* What a room promises about its discard pile, and nothing else: the card *)
(* on top (Room::last), the colour named with it (Room::last_chg_color)    *)
(* and the pending penalty (Room::draw) change only when a card that may   *)
(* follow is played, when the penalty is taken, when the first card is     *)
(* turned over, and when a round begins or ends.  Players, seats, hands    *)
(* and clocks are absent; UnoGame is shown to implement this module.       *)
(***************************************************************************)
EXTENDS UnoCard

CONSTANTS Face,      \* the faces that occur in the deck
          MaxDraw    \* bound on the penalty counter, see UnoCard!AddPenalty

ASSUME FaceAssumption ==
  /\ Face \subseteq 1 .. 127
  /\ \A c \in Face : get_color(c) \in Colors \cup {COLOR_ALL}
ASSUME MaxDrawAssumption == MaxDraw \in Nat /\ MaxDraw >= 4

VARIABLES last, last_chg_color, draw
pile == <<last, last_chg_color, draw>>

PileInit == last = NoCard /\ last_chg_color = 0 /\ draw = 0

\* A round begins or ends: game_start, game_over.
PileReset == last' = NoCard /\ last_chg_color' = 0 /\ draw' = 0

\* The first card is turned over.  Its function is not applied, and nothing
\* makes it a number card.
PileFirst == /\ last = NoCard
             /\ last' \in Face
             /\ last_chg_color' = 0
             /\ UNCHANGED draw

\* A card is played; a wild card names a colour.
PilePlay(c, chg) ==
  /\ CanFollow(last, last_chg_color, draw, c)
  /\ get_color(c) = COLOR_ALL => chg \in Colors
  /\ last' = c
  /\ last_chg_color' = IF get_color(c) = COLOR_ALL THEN chg ELSE 0
  /\ draw' = AddPenalty(draw, c, MaxDraw)

\* The player whose turn it is takes the penalty.
PileTake == draw > 0 /\ draw' = 0 /\ UNCHANGED <<last, last_chg_color>>

PileNext ==
  \/ PileReset
  \/ PileFirst
  \/ \E c \in Face, chg \in Colors : PilePlay(c, chg)
  \/ PileTake

PileSpec == PileInit /\ [][PileNext]_pile

-----------------------------------------------------------------------------
(***************************************************************************)
(* A penalty is pending only while a +2 or +4 lies on top, so the          *)
(* assert(false) that closes the penalty branch of game_can_play_card is   *)
(* never reached (room.cpp:737).                                           *)
(***************************************************************************)
PenaltyHasItsCard == draw > 0 => IsDrawCard(last)

(***************************************************************************)
(* A pending penalty is answered by raising it or is taken whole, and a +4 *)
(* is never answered by a +2: the level on the table only goes up          *)
(* (room.cpp:698-738).                                                     *)
(***************************************************************************)
PenaltyOnlyEscalates ==
  [][draw > 0 /\ draw' > 0 /\ pile' # pile
       => /\ draw' >= draw
          /\ get_func(last') >= get_func(last)
          /\ IsDrawCard(last')]_pile
=============================================================================
