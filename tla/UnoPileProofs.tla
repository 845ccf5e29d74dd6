--------------------------- MODULE UnoPileProofs ---------------------------
(***************************************************************************)
(* Proofs about the discard pile for every set of faces and every bound on *)
(* the penalty counter.                                                    *)
(***************************************************************************)
EXTENDS UnoPile, TLAPS

(***************************************************************************)
(* The inductive invariant: the pile is typed, and a pending penalty has   *)
(* its card on top.                                                        *)
(***************************************************************************)
PileTypes ==
  /\ last \in Face \cup {NoCard}
  /\ last_chg_color \in Colors \cup {0}
  /\ draw \in 0 .. MaxDraw

PileInv == PileTypes /\ PenaltyHasItsCard

(* The function of a card is one of the sixteen four bits can name, and an *)
(* empty pile has none.                                                    *)
LEMMA FuncType ==
  /\ \A c \in Face \cup {NoCard} : get_func(c) \in 0 .. 15
  /\ get_func(NoCard) = FUNC_NONE
  BY FaceAssumption DEF get_func, NoCard, FUNC_NONE

(* Adding a penalty keeps the counter within its bound and never lowers    *)
(* it; without a +2 or +4 the counter stays.                               *)
LEMMA PenaltyGrows ==
  ASSUME NEW d \in 0 .. MaxDraw, NEW c
  PROVE  /\ AddPenalty(d, c, MaxDraw) \in 0 .. MaxDraw
         /\ AddPenalty(d, c, MaxDraw) >= d
         /\ ~IsDrawCard(c) => AddPenalty(d, c, MaxDraw) = d
  BY MaxDrawAssumption DEF AddPenalty, IsDrawCard

(* What answers a pending penalty is a +2 or +4, and no lower than the     *)
(* card it answers.                                                        *)
LEMMA AnswerRaises ==
  ASSUME NEW c, NEW top, IsDrawCard(top), NEW chg, NEW d, d > 0,
         CanFollow(top, chg, d, c)
  PROVE  IsDrawCard(c) /\ (get_func(top) = FUNC_DRAW4 => get_func(c) = FUNC_DRAW4)
  BY DEF CanFollow, CanAnswerPenalty, IsDrawCard, FUNC_DRAW2, FUNC_DRAW4,
         FUNC_CHGCOLOR

(* A card played on a typed pile leaves a pile that keeps the invariant. *)
LEMMA PlayKeepsPile ==
  ASSUME PileInv, NEW c \in Face, NEW chg \in Colors, PilePlay(c, chg)
  PROVE  PileInv'
  <1>1. PileTypes'
    BY PenaltyGrows DEF PileInv, PileTypes, PilePlay
  <1>2. PenaltyHasItsCard'
    <2>1. CASE IsDrawCard(c)
      BY <2>1 DEF PilePlay, PenaltyHasItsCard
    <2>2. CASE ~IsDrawCard(c)
      <3>1. draw' = draw /\ last' = c
        BY <2>2, PenaltyGrows DEF PilePlay, PileInv, PileTypes
      <3>2. ~(draw > 0)
        BY <2>2, AnswerRaises DEF PilePlay, PileInv, PenaltyHasItsCard
      <3> QED BY <3>1, <3>2 DEF PenaltyHasItsCard
    <2> QED BY <2>1, <2>2
  <1> QED BY <1>1, <1>2 DEF PileInv

LEMMA PileInductive == PileInv /\ [PileNext]_pile => PileInv'
  <1> SUFFICES ASSUME PileInv, [PileNext]_pile
               PROVE  PileInv'
    OBVIOUS
  <1>1. CASE PileReset
    BY <1>1, MaxDrawAssumption DEF PileReset, PileInv, PileTypes, PenaltyHasItsCard
  <1>2. CASE PileFirst
    <2>1. draw = 0
      BY <1>2, FuncType
         DEF PileFirst, PileInv, PileTypes, PenaltyHasItsCard, IsDrawCard,
             FUNC_NONE, FUNC_DRAW2, FUNC_DRAW4
    <2> QED BY <1>2, <2>1 DEF PileFirst, PileInv, PileTypes, PenaltyHasItsCard
  <1>3. ASSUME NEW c \in Face, NEW chg \in Colors, PilePlay(c, chg)
        PROVE  PileInv'
    BY <1>3, PlayKeepsPile
  <1>4. CASE PileTake
    BY <1>4, MaxDrawAssumption DEF PileTake, PileInv, PileTypes, PenaltyHasItsCard
  <1>5. CASE UNCHANGED pile
    BY <1>5 DEF pile, PileInv, PileTypes, PenaltyHasItsCard
  <1> QED BY <1>1, <1>2, <1>3, <1>4, <1>5 DEF PileNext

LEMMA PileAlways == PileSpec => []PileInv
  <1>1. PileInit => PileInv
    BY MaxDrawAssumption DEF PileInit, PileInv, PileTypes, PenaltyHasItsCard
  <1> QED BY <1>1, PileInductive, PTL DEF PileSpec

(* Whatever faces the deck has, a penalty is pending only while the card   *)
(* that caused it lies on top: game_can_play_card never reaches its        *)
(* assert(false).                                                          *)
THEOREM PenaltyAlwaysHasItsCard == PileSpec => []PenaltyHasItsCard
  <1>1. PileInv => PenaltyHasItsCard
    BY DEF PileInv
  <1> QED BY <1>1, PileAlways, PTL

(* Whatever faces the deck has, a pending penalty is raised or taken       *)
(* whole: the counter never goes down in part, and a +4 is never answered  *)
(* by a +2.                                                                *)
THEOREM PenaltyNeverDeescalates == PileSpec => PenaltyOnlyEscalates
  <1> DEFINE Escalates ==
        draw > 0 /\ draw' > 0 /\ pile' # pile
          => /\ draw' >= draw
             /\ get_func(last') >= get_func(last)
             /\ IsDrawCard(last')
  <1>1. PileInv /\ [PileNext]_pile => [Escalates]_pile
    <2> SUFFICES ASSUME PileInv, PileNext, draw > 0, draw' > 0, pile' # pile
                 PROVE  Escalates
      OBVIOUS
    <2>1. ~PileReset /\ ~PileTake
      BY DEF PileReset, PileTake, PileInv, PileTypes
    <2>2. ~PileFirst
      BY FuncType DEF PileFirst, PileInv, PileTypes, PenaltyHasItsCard, IsDrawCard,
                      FUNC_NONE, FUNC_DRAW2, FUNC_DRAW4
    <2>3. PICK c \in Face, chg \in Colors : PilePlay(c, chg)
      BY <2>1, <2>2 DEF PileNext
    <2>4. last' = c /\ draw' >= draw
      BY <2>3, PenaltyGrows DEF PilePlay, PileInv, PileTypes
    <2>5. /\ IsDrawCard(last) /\ IsDrawCard(c)
          /\ get_func(last) = FUNC_DRAW4 => get_func(c) = FUNC_DRAW4
      BY <2>3, AnswerRaises DEF PilePlay, PileInv, PenaltyHasItsCard
    <2>6. get_func(c) >= get_func(last)
      BY <2>5 DEF IsDrawCard, FUNC_DRAW2, FUNC_DRAW4
    <2> QED BY <2>4, <2>5, <2>6
  <1> QED BY <1>1, PileAlways, PTL DEF PileSpec, PenaltyOnlyEscalates
=============================================================================
