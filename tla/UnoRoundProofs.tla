--------------------------- MODULE UnoRoundProofs ---------------------------
(***************************************************************************)
(* Proofs about a round of UnoGame: who has been told to play, whose turn  *)
(* survives a leave, what may happen to a hand, who may be reported and    *)
(* how a round is won.  They rest on the two invariants of UnoGameProofs,  *)
(* TableInv and CardsConserved.                                            *)
(***************************************************************************)
EXTENDS UnoGameProofs

(***************************************************************************)
(* The room and its round agree on whether one is going on.                *)
(***************************************************************************)
PhasesAgree == state = "idle" <=> game_state = "idle"

(***************************************************************************)
(* Until the room waits for a player nothing has been played: no card is   *)
(* on top, no colour named, no penalty pending, nothing discarded and      *)
(* nobody can be reported.                                                 *)
(***************************************************************************)
BareUntilPlay ==
  game_state # "wait_player" =>
    /\ last = NoCard /\ last_chg_color = 0 /\ draw = 0
    /\ history = {}
    /\ last_can_report = NoUid

RoundInv == PhasesAgree /\ BareUntilPlay /\ TurnAnnounced

(* A step between phases that changes none of what RoundInv says of them. *)
LEMMA RoundKept ==
  ASSUME RoundInv, game_state # "wait_player",
         UNCHANGED <<state, game_state, history, pile, last_can_report>>
  PROVE  RoundInv'
  BY DEF RoundInv, PhasesAgree, BareUntilPlay, TurnAnnounced, pile

(* The end, and the erasure, of a round. *)
LEMMA RoundCleared ==
  ASSUME ClearRound, state' = "idle" <=> game_state' = "idle",
         game_state' # "wait_player"
  PROVE  RoundInv'
  BY DEF RoundInv, PhasesAgree, BareUntilPlay, TurnAnnounced, ClearRound

(* A step to a waiting room that tells everybody whose turn it is. *)
LEMMA RoundAnnounced ==
  ASSUME TableInv', state' = "playing", game_state' = "wait_player",
         announced' = ReadSeat(seq', cursor')
  PROVE  RoundInv'
  <1>1. Seated(seq', cursor')
    BY DEF TableInv, TurnSeated
  <1>2. announced' = Cur'
    BY <1>1 DEF ReadSeat, Cur
  <1> QED BY <1>2 DEF RoundInv, PhasesAgree, BareUntilPlay, TurnAnnounced

(* In an idle room nobody is waited for. *)
LEMMA IdleNotWaiting ==
  ASSUME RoundInv, state = "idle"
  PROVE  game_state # "wait_player"
  BY DEF RoundInv, PhasesAgree

LEMMA LeaveRound ==
  ASSUME TableInv, TableInv', RoundInv, NEW u \in players, LeaveOrErase(u),
         state = "idle" \/ game_state = "wait_player"
  PROVE  RoundInv'
  <1>1. CASE curr_players = 1
    BY <1>1, RoundCleared DEF LeaveOrErase, EraseRoom
  <1>2. CASE curr_players # 1 /\ state = "playing" /\ curr_players = 2
    BY <1>2, RoundCleared DEF LeaveOrErase, game_player_leave, game_over
  <1>3. CASE curr_players # 1 /\ ~(state = "playing" /\ curr_players = 2)
    <2>1. /\ seq' = RemoveSeat(seq, SeatOf(u))
          /\ announced' = ReadSeat(RemoveSeat(seq, SeatOf(u)), cursor')
          /\ UNCHANGED <<state, game_state, history, pile, marks>>
      BY <1>3 DEF LeaveOrErase, game_player_leave, Thinking
    <2>2. CASE state = "idle"
      BY <2>1, <2>2, IdleNotWaiting, RoundKept DEF marks
    <2>3. CASE state = "playing" /\ game_state = "wait_player"
      BY <2>1, <2>3, RoundAnnounced
    <2> QED BY <2>2, <2>3 DEF TableInv, TypeOK, RoomTypeOK, RoundInv, PhasesAgree
  <1> QED BY <1>1, <1>2, <1>3

LEMMA CardPlayRound ==
  ASSUME TableInv', RoundInv, state = "playing", NEW u, NEW d, NEW with_uno,
         NEW chg, game_player_card_play(u, d, with_uno, chg)
  PROVE  RoundInv'
  <1>1. \/ \E w, dir : game_over(w, dir)
        \/ /\ game_state' = "wait_player" /\ state' = state
           /\ announced' = ReadSeat(seq, cursor') /\ seq' = seq
    BY DEF game_player_card_play, Thinking, seats
  <1>2. CASE \E w, dir : game_over(w, dir)
    BY <1>2, RoundCleared DEF game_over
  <1> QED BY <1>1, <1>2, RoundAnnounced

LEMMA DealCardRound ==
  ASSUME TableInv', state = "playing", game_player_deal_card
  PROVE  RoundInv'
  BY RoundAnnounced DEF game_player_deal_card, Thinking, seats

(* A card dealt when nothing has been discarded leaves nothing discarded. *)
LEMMA DealKeepsBare ==
  ASSUME history = {}, NEW u, NEW count, DealTo(u, count)
  PROVE  history' = {}
  BY DEF DealTo, game_card_heap_deal

LEMMA DealingRound ==
  ASSUME RoundInv, UpdateDealing
  PROVE  RoundInv'
  <1>1. /\ state = "playing" /\ game_state = "dealing"
        /\ game_state' \in {"dealing", "dealing_dealer"}
        /\ UNCHANGED <<state, pile, marks>>
    BY DEF UpdateDealing, TimedOut
  <1>2. history' = {}
    BY <1>1, DealKeepsBare DEF UpdateDealing, RoundInv, BareUntilPlay
  <1> QED BY <1>1, <1>2
          DEF RoundInv, PhasesAgree, BareUntilPlay, TurnAnnounced, pile, marks

LEMMA DealingDealerRound ==
  ASSUME RoundInv, UpdateDealingDealer
  PROVE  RoundInv'
  <1>1. /\ state = "playing" /\ game_state = "dealing_dealer"
        /\ game_state' \in {"dealing_dealer", "select_first_card"}
        /\ UNCHANGED <<state, pile, last_can_report>>
    BY DEF UpdateDealingDealer, TimedOut
  <1>2. history' = {}
    BY <1>1, DealKeepsBare DEF UpdateDealingDealer, RoundInv, BareUntilPlay
  <1> QED BY <1>1, <1>2
          DEF RoundInv, PhasesAgree, BareUntilPlay, TurnAnnounced, pile

LEMMA RoundInductive ==
  TableInv /\ TableInv' /\ RoundInv /\ [Next]_vars => RoundInv'
  <1> SUFFICES ASSUME TableInv, TableInv', RoundInv, [Next]_vars
               PROVE  RoundInv'
    OBVIOUS
  <1>0. state = "idle" => game_state # "wait_player"
    BY IdleNotWaiting
  <1>1. ASSUME NEW u \in Uid, Request(u)
        PROVE  RoundInv'
    <2>1. ASSUME NEW n \in PlayerCounts, create_room_req(u, n)
          PROVE  RoundInv'
      <3>1. players = {} /\ UNCHANGED <<state, game_state, cards, pile, marks>>
        BY <2>1 DEF create_room_req
      <3>2. state = "idle"
        BY <3>1, CurIsPlayer DEF TableInv, TypeOK, RoomTypeOK
      <3> QED BY <1>0, <3>1, <3>2, RoundKept DEF cards, marks
    <2>2. CASE enter_room_req(u)
      BY <1>0, <2>2, RoundKept DEF enter_room_req, cards, marks
    <2>3. CASE leave_room_req(u)
      <3>1. state = "idle" \/ game_state = "wait_player"
        BY <2>3 DEF leave_room_req, RoundInv, PhasesAgree, TableInv, TypeOK,
                    TurnTypeOK
      <3> QED BY <2>3, <3>1, LeaveRound DEF leave_room_req
    <2>4. ASSUME NEW v \in Uid, room_kickout_player_req(u, v)
          PROVE  RoundInv'
      BY <2>4, LeaveRound DEF room_kickout_player_req
    <2>5. CASE get_ready_req(u)
      BY <1>0, <2>5, RoundKept DEF get_ready_req, cards, marks
    <2>6. CASE shuffle_room_seats_req(u)
      BY <1>0, <2>6, RoundKept DEF shuffle_room_seats_req, cards, marks
    <2>7. CASE start_game_req(u)
      BY <2>7, RoundCleared DEF start_game_req, game_start
    <2>8. ASSUME NEW d \in rest[u], NEW with_uno \in BOOLEAN,
                 NEW chg \in Named(d, Colors),
                 game_play_card_req(u, d, with_uno, chg)
          PROVE  RoundInv'
      BY <2>8, CardPlayRound DEF game_play_card_req
    <2>9. CASE game_deal_card_req(u)
      BY <2>9, DealCardRound DEF game_deal_card_req
    <2>10. CASE game_report_no_uno_req(u)
      <3>1. last_can_report # NoUid
            /\ UNCHANGED <<state, game_state, seats, turn, pile, announced>>
        BY <2>10 DEF game_report_no_uno_req, game_player_report_no_uno
      <3> QED BY <3>1 DEF RoundInv, PhasesAgree, BareUntilPlay, TurnAnnounced,
                          Cur, seats, turn
    <2> QED BY <1>1, <2>1, <2>2, <2>3, <2>4, <2>5, <2>6, <2>7, <2>8, <2>9,
               <2>10 DEF Request
  <1>2. CASE Tick
    <2>1. CASE CountDown
      BY <2>1 DEF CountDown, RoundInv, PhasesAgree, BareUntilPlay,
                  TurnAnnounced, Cur, seats, cards, pile, marks
    <2>2. CASE UpdateDealing
      BY <2>2, DealingRound
    <2>3. CASE UpdateDealingDealer
      BY <2>3, DealingDealerRound
    <2>4. CASE UpdateSelectFirstCard
      BY <2>4, RoundAnnounced
         DEF UpdateSelectFirstCard, TimedOut, Thinking, seats
    <2>5. CASE UpdateWaitPlayer
      BY <2>5, DealCardRound, CardPlayRound DEF UpdateWaitPlayer, TimedOut
    <2> QED BY <1>2, <2>1, <2>2, <2>3, <2>4, <2>5 DEF Tick, game_update
  <1>3. CASE UNCHANGED vars
    BY <1>3 DEF vars, RoundInv, PhasesAgree, BareUntilPlay, TurnAnnounced, Cur,
                seats, turn, cards, pile, marks
  <1> QED BY <1>1, <1>2, <1>3 DEF Next, Gone

LEMMA TableAndRound == Spec => [](TableInv /\ RoundInv)
  <1>1. Init => RoundInv
    BY DEF Init, RoundInv, PhasesAgree, BareUntilPlay, TurnAnnounced
  <1>2. Spec => []TableInv
    BY TableAlways, PTL DEF TableInv
  <1> QED BY <1>1, <1>2, RoundInductive, PTL DEF Spec

(* Whenever the room waits for a player, that player is the one everybody  *)
(* was told about last: after every play, draw, time-out, penalty and      *)
(* leave the "thinking" broadcast names the player under the cursor.       *)
THEOREM TurnAlwaysAnnounced == Spec => []TurnAnnounced
  BY TableAndRound, PTL DEF RoundInv

-----------------------------------------------------------------------------
(***************************************************************************)
(* What can happen while a round is going on: somebody leaves, plays or    *)
(* draws a card or is reported, the clock runs, cards are dealt.           *)
(***************************************************************************)
Plays(u) ==
  \E d \in rest[u], with_uno \in BOOLEAN, chg \in Colors \cup {COLOR_ALL} :
    game_player_card_play(u, d, with_uno, chg)

LEMMA PlayingSteps ==
  ASSUME TableInv, state = "playing", [Next]_vars
  PROVE  \/ /\ game_state = "wait_player" /\ curr_players # 1
            /\ \E u \in players : game_player_leave(u)
         \/ \E u \in players : Plays(u)
         \/ game_player_deal_card
         \/ game_player_report_no_uno
         \/ CountDown \/ UpdateDealing \/ UpdateDealingDealer
         \/ UpdateSelectFirstCard
         \/ UNCHANGED vars
  <1> DEFINE goal == \/ /\ game_state = "wait_player" /\ curr_players # 1
                        /\ \E u \in players : game_player_leave(u)
                     \/ \E u \in players : Plays(u)
                     \/ game_player_deal_card
                     \/ game_player_report_no_uno
                     \/ CountDown \/ UpdateDealing \/ UpdateDealingDealer
                     \/ UpdateSelectFirstCard
                     \/ UNCHANGED vars
  <1> SUFFICES goal
    OBVIOUS
  <1>0. players # {} /\ curr_players # 1
    BY CurIsPlayer DEF TableInv, TurnSeated
  <1>1. ASSUME NEW u \in Uid, Request(u)
        PROVE  goal
    <2>1. CASE leave_room_req(u)
      <3>1. game_state = "wait_player"
        BY <2>1 DEF leave_room_req, TableInv, TurnSeated, TypeOK, TurnTypeOK
      <3> QED BY <1>0, <2>1, <3>1 DEF leave_room_req, LeaveOrErase
    <2>2. ASSUME NEW d \in rest[u], NEW with_uno \in BOOLEAN,
                 NEW chg \in Named(d, Colors),
                 game_play_card_req(u, d, with_uno, chg)
          PROVE  goal
      <3>1. chg \in Colors \cup {COLOR_ALL}
        BY DEF Named
      <3> QED BY <2>2, <3>1 DEF game_play_card_req, Plays
    <2>3. CASE game_deal_card_req(u)
      BY <2>3 DEF game_deal_card_req
    <2>4. CASE game_report_no_uno_req(u)
      BY <2>4 DEF game_report_no_uno_req
    <2>5. /\ \A n \in PlayerCounts : ~create_room_req(u, n)
          /\ ~enter_room_req(u) /\ ~get_ready_req(u)
          /\ \A v \in Uid : ~room_kickout_player_req(u, v)
          /\ ~shuffle_room_seats_req(u) /\ ~start_game_req(u)
      BY <1>0 DEF create_room_req, enter_room_req, get_ready_req,
                  room_kickout_player_req, shuffle_room_seats_req,
                  start_game_req
    <2> HIDE DEF goal
    <2> QED BY <1>1, <2>1, <2>2, <2>3, <2>4, <2>5 DEF Request
  <1>2. CASE UpdateWaitPlayer
    <2>1. ASSUME NEW d \in rest[Cur], NEW uno \in BOOLEAN,
                 NEW chg \in Named(d, AutoColors(rest[Cur])),
                 game_player_card_play(Cur, d, uno, chg)
          PROVE  goal
      <3>1. AutoColors(rest[Cur]) \subseteq Colors
        BY DEF AutoColors, Colors
      <3>2. chg \in Colors \cup {COLOR_ALL}
        BY <3>1, <2>1 DEF Named
      <3> QED BY <2>1, <3>2, CurIsPlayer DEF Plays
    <2>2. CASE game_player_deal_card
      BY <2>2
    <2>3. CASE ~game_player_deal_card
      <3>1. PICK d \in rest[Cur],
                 uno \in IF Cardinality(rest[Cur]) = 2 THEN BOOLEAN ELSE {FALSE} :
              \E chg \in Named(d, AutoColors(rest[Cur])) :
                game_player_card_play(Cur, d, uno, chg)
        BY <1>2, <2>3 DEF UpdateWaitPlayer
      <3>2. uno \in BOOLEAN
        OBVIOUS
      <3> QED BY <2>1, <3>1, <3>2
    <2> QED BY <2>2, <2>3
  <1> QED BY <1>1, <1>2 DEF Next, Tick, Gone, game_update

-----------------------------------------------------------------------------
(***************************************************************************)
(* The turn survives a leave.                                              *)
(***************************************************************************)

(* The seat that a cursor points at after seat i has closed. *)
LEMMA SeatBehindGap ==
  ASSUME NEW S, NEW s \in Seq(S), NEW i \in 0 .. Len(s) - 1,
         NEW k \in 0 .. Len(s) - 1, k # i
  PROVE  RemoveSeat(s, i)[(IF k > i THEN k - 1 ELSE k) + 1] = s[k + 1]
  <1>1. Len(s) \in Nat
    OBVIOUS
  <1>2. CASE k > i
    <2>1. k \in 1 .. Len(s) - 1 /\ ~(k <= i) /\ k - 1 + 1 = k
      BY <1>1, <1>2
    <2> QED BY <1>2, <2>1 DEF RemoveSeat
  <1>3. CASE k < i
    <2>1. k + 1 \in 1 .. Len(s) - 1 /\ k + 1 <= i
      BY <1>1, <1>3
    <2> QED BY <1>3, <2>1 DEF RemoveSeat
  <1> QED BY <1>2, <1>3

LEMMA LeaveKeepsTurn ==
  ASSUME TableInv, NEW u \in players, game_player_leave(u),
         state = "playing", state' = "playing"
  PROVE  seq'[cursor' + 1] = IF Cur \in players' THEN Cur
                             ELSE seq[game_cursor_move(cursor, direction, FALSE) + 1]
  <1> DEFINE i == SeatOf(u)
             next == game_cursor_move(cursor, direction, FALSE)
             moved == IF i = cursor THEN next ELSE cursor
  <1>1. i \in 0 .. Len(seq) - 1 /\ seq[i + 1] = u
    BY SeatOfPlayer DEF TableInv
  <1>2. /\ Len(seq) \in Nat /\ curr_players = Len(seq) /\ Len(seq) >= 2
        /\ cursor \in 0 .. Len(seq) - 1 /\ direction \in {-1, 1}
        /\ seq \in Seq(Uid) /\ Cur \in players
        /\ \A j, k \in 1 .. Len(seq) : seq[j] = seq[k] => j = k
    BY CurIsPlayer DEF TableInv, TurnSeated, TypeOK, RoomTypeOK, SeatsAgree
  <1>3. next \in 0 .. Len(seq) - 1 /\ next # cursor
    <2>1. next = StepSeat(cursor, direction, Len(seq))
      BY <1>2 DEF game_cursor_move
    <2>2. StepSeat(cursor, direction, Len(seq)) \in 0 .. Len(seq) - 1
      <3>1. Len(seq) >= 1
        BY <1>2
      <3> QED BY <1>2, <3>1, StepSeatInRange, Zenon
    <2>3. StepSeat(cursor, direction, Len(seq)) # cursor
      BY <1>2, StepSeatMoves
    <2> QED BY <2>1, <2>2, <2>3
  <1>4. /\ seq' = RemoveSeat(seq, i) /\ players' = players \ {u}
        /\ cursor' = IF moved < 0 THEN -2
                     ELSE IF moved > i THEN moved - 1 ELSE moved
    BY DEF game_player_leave, game_over, CursorAfterLeave
  <1> HIDE DEF i, next
  <1>5. moved \in 0 .. Len(seq) - 1 /\ moved # i
    BY <1>1, <1>2, <1>3
  <1> HIDE DEF moved
  <1>6. seq'[cursor' + 1] = seq[moved + 1]
    <2>1. cursor' = IF moved > i THEN moved - 1 ELSE moved
      BY <1>2, <1>4, <1>5
    <2> QED BY <1>1, <1>2, <1>4, <1>5, <2>1, SeatBehindGap
  <1>7. u = Cur <=> i = cursor
    <2>1. i + 1 \in 1 .. Len(seq) /\ cursor + 1 \in 1 .. Len(seq)
      BY <1>1, <1>2
    <2> QED BY <1>1, <1>2, <2>1 DEF Cur
  <1> QED BY <1>2, <1>4, <1>6, <1>7 DEF moved, next, Cur

(* Only a leave changes who plays in a running round. *)
LEMMA OnlyLeavesChangePlayers ==
  ASSUME TableInv, state = "playing", players' # players, [Next]_vars
  PROVE  \E u \in players : curr_players # 1 /\ game_player_leave(u)
  <1>1. ASSUME NEW u \in players, Plays(u)
        PROVE  players' = players
    BY <1>1 DEF Plays, game_player_card_play, seats
  <1>2. ~game_player_deal_card /\ ~game_player_report_no_uno
    BY DEF game_player_deal_card, game_player_report_no_uno, seats
  <1>3. ~CountDown /\ ~UpdateDealing /\ ~UpdateDealingDealer
        /\ ~UpdateSelectFirstCard
    BY DEF CountDown, UpdateDealing, UpdateDealingDealer,
           UpdateSelectFirstCard, seats
  <1>4. ~UNCHANGED vars
    BY DEF vars, seats
  <1> QED BY <1>1, <1>2, <1>3, <1>4, PlayingSteps

(* Somebody who leaves a round takes no turn away and gives none twice:    *)
(* the cursor follows the closing seats, at every seat of every table, in  *)
(* both directions (room.cpp:298-320).                                     *)
THEOREM TurnAlwaysSurvivesLeave == Spec => TurnSurvivesLeave
  <1> DEFINE Kept == state = "playing" /\ state' = "playing" /\ players' # players
                       => seq'[cursor' + 1] =
                            IF Cur \in players' THEN Cur
                            ELSE seq[game_cursor_move(cursor, direction, FALSE) + 1]
  <1>1. TableInv /\ [Next]_vars => [Kept]_vars
    BY OnlyLeavesChangePlayers, LeaveKeepsTurn
  <1> QED BY <1>1, TableAndRound, PTL DEF Spec, TurnSurvivesLeave

-----------------------------------------------------------------------------
(***************************************************************************)
(* What may happen to a hand.                                              *)
(***************************************************************************)
LEMMA DealOnlyAdds ==
  ASSUME TypeOK, NEW u, NEW count, DealTo(u, count), NEW v \in Uid
  PROVE  rest[v] \subseteq rest'[v]
  BY DEF DealTo, TypeOK, CardTypeOK

LEMMA PlayTakesOneCard ==
  ASSUME TableInv, NEW u \in players, Plays(u), state' = "playing"
  PROVE  \E d \in rest[u] :
           /\ last' = face[d] /\ rest[u] \ {d} \subseteq rest'[u]
           /\ \A v \in Uid \ {u} : rest'[v] = rest[v]
  <1>1. PICK d \in rest[u], with_uno \in BOOLEAN, chg \in Colors \cup {COLOR_ALL} :
          game_player_card_play(u, d, with_uno, chg)
    BY DEF Plays
  <1>2. rest \in [Uid -> SUBSET Deck] /\ u \in Uid
    BY DEF TableInv, TypeOK, RoomTypeOK, CardTypeOK
  <1>3. PICK got : /\ rest' = [rest EXCEPT ![u] = (rest[u] \ {d}) \cup got]
                   /\ last' = face[d]
    BY <1>1 DEF game_player_card_play, game_over
  <1> QED BY <1>2, <1>3

LEMMA HandsPrivateStep ==
  ASSUME TableInv, state = "playing", state' = "playing", [Next]_vars,
         NEW v \in players, v \in players'
  PROVE  \/ rest[v] \subseteq rest'[v]
         \/ /\ \E d \in rest[v] : rest[v] \ {d} \subseteq rest'[v] /\ last' = face[d]
            /\ \A x \in (players \cap players') \ {v} : rest[x] \subseteq rest'[x]
  <1>1. /\ TypeOK /\ v \in Uid /\ rest \in [Uid -> SUBSET Deck]
        /\ players \subseteq Uid
    BY DEF TableInv, TypeOK, RoomTypeOK, CardTypeOK
  <1>2. ASSUME NEW u \in players, game_player_leave(u)
        PROVE  rest'[v] = rest[v]
    <2>1. players' = players \ {u} /\ rest' = [rest EXCEPT ![u] = {}]
      BY <1>2 DEF game_player_leave, game_over
    <2> QED BY <1>1, <2>1
  <1>3. ASSUME NEW u \in players, Plays(u)
        PROVE  \/ rest[v] \subseteq rest'[v]
               \/ /\ \E d \in rest[v] : rest[v] \ {d} \subseteq rest'[v] /\ last' = face[d]
                  /\ \A x \in (players \cap players') \ {v} : rest[x] \subseteq rest'[x]
    BY <1>1, <1>3, PlayTakesOneCard
  <1>4. game_player_deal_card => rest[v] \subseteq rest'[v]
    BY <1>1, DealOnlyAdds DEF game_player_deal_card
  <1>5. game_player_report_no_uno => rest[v] \subseteq rest'[v]
    BY <1>1, DealOnlyAdds DEF game_player_report_no_uno, cards
  <1>6. UpdateDealing \/ UpdateDealingDealer => rest[v] \subseteq rest'[v]
    BY <1>1, DealOnlyAdds DEF UpdateDealing, UpdateDealingDealer
  <1>7. CountDown \/ UpdateSelectFirstCard \/ UNCHANGED vars => rest' = rest
    BY DEF CountDown, UpdateSelectFirstCard, vars, cards
  <1> QED BY <1>2, <1>3, <1>4, <1>5, <1>6, <1>7, PlayingSteps

(* No step of a round takes a card out of the hand of a player who stays,  *)
(* except the one card that one player lays on the pile: whoever is        *)
(* reported or punished, and whatever is reshuffled or left behind.        *)
THEOREM HandsAlwaysPrivate == Spec => HandsLoseOnlyPlayedCards
  <1> DEFINE Private ==
        state = "playing" /\ state' = "playing" =>
          \A u \in players \cap players' :
            \/ rest[u] \subseteq rest'[u]
            \/ /\ \E d \in rest[u] : rest[u] \ {d} \subseteq rest'[u] /\ last' = face[d]
               /\ \A v \in (players \cap players') \ {u} : rest[v] \subseteq rest'[v]
  <1>1. TableInv /\ [Next]_vars => [Private]_vars
    BY HandsPrivateStep
  <1> QED BY <1>1, TableAndRound, PTL DEF Spec, HandsLoseOnlyPlayedCards

-----------------------------------------------------------------------------
(***************************************************************************)
(* Who can be reported holds one card.                                     *)
(***************************************************************************)

(* Between rounds only start_game_req begins anything. *)
LEMMA IdleSteps ==
  ASSUME TableInv, RoundInv, state = "idle", [Next]_vars
  PROVE  game_state' = "idle" \/ \E u \in Uid : start_game_req(u)
  <1>1. game_state = "idle"
    BY DEF RoundInv, PhasesAgree
  <1>2. ASSUME NEW u \in Uid, Request(u), ~start_game_req(u)
        PROVE  game_state' = "idle"
    <2>1. ASSUME NEW v, LeaveOrErase(v)
          PROVE  game_state' = "idle"
      BY <1>1, <2>1 DEF LeaveOrErase, EraseRoom, game_player_leave
    <2>2. CASE leave_room_req(u) \/ \E v \in Uid : room_kickout_player_req(u, v)
      BY <2>1, <2>2 DEF leave_room_req, room_kickout_player_req
    <2>3. CASE \/ \E n \in PlayerCounts : create_room_req(u, n)
               \/ enter_room_req(u) \/ get_ready_req(u)
               \/ shuffle_room_seats_req(u)
      BY <1>1, <2>3 DEF create_room_req, enter_room_req, get_ready_req,
                        shuffle_room_seats_req
    <2>4. /\ \A d, with_uno, chg : ~game_play_card_req(u, d, with_uno, chg)
          /\ ~game_deal_card_req(u) /\ ~game_report_no_uno_req(u)
      BY DEF game_play_card_req, game_deal_card_req, game_report_no_uno_req
    <2> QED BY <1>2, <2>2, <2>3, <2>4 DEF Request
  <1>3. ~Tick
    BY DEF Tick, game_update, CountDown, UpdateDealing, UpdateDealingDealer,
           UpdateSelectFirstCard, UpdateWaitPlayer, TimedOut
  <1>4. UNCHANGED vars => game_state' = "idle"
    BY <1>1 DEF vars
  <1> QED BY <1>2, <1>3, <1>4 DEF Next, Gone

(* Every pile of cards is finite. *)
LEMMA PilesFinite ==
  ASSUME TypeOK
  PROVE  /\ IsFiniteSet(heap) /\ IsFiniteSet(history)
         /\ \A u \in Uid : IsFiniteSet(rest[u])
         /\ Cardinality(heap) \in Nat /\ Cardinality(history) \in Nat
         /\ \A u \in Uid : Cardinality(rest[u]) \in Nat
  <1>1. IsFiniteSet(Deck) /\ heap \subseteq Deck /\ history \subseteq Deck
        /\ \A u \in Uid : rest[u] \subseteq Deck
    BY DeckAssumption DEF TypeOK, CardTypeOK
  <1>2. IsFiniteSet(heap) /\ IsFiniteSet(history)
        /\ \A u \in Uid : IsFiniteSet(rest[u])
    BY <1>1, FS_Subset
  <1> QED BY <1>2, FS_CardinalityType

(* Dealing no card deals no card. *)
LEMMA DealNone ==
  ASSUME NEW h, NEW g, IsFiniteSet(h), NEW o \in game_card_heap_deal(h, g, 0)
  PROVE  o.got = {}
  <1>1. Cardinality(h) \in Nat
    BY FS_CardinalityType
  <1>2. o.got \subseteq h /\ Cardinality(o.got) = 0
    BY <1>1 DEF game_card_heap_deal
  <1> QED BY <1>2, FS_Subset, FS_EmptySet

(* A player who is marked has just played the last card but one. *)
LEMMA MarkedHoldsOne ==
  ASSUME TableInv, NEW u \in players, Plays(u), last_can_report' # NoUid
  PROVE  last_can_report' = u /\ Cardinality(rest'[u]) = 1
  <1>1. PICK d \in rest[u], with_uno \in BOOLEAN, chg \in Colors \cup {COLOR_ALL} :
          game_player_card_play(u, d, with_uno, chg)
    BY DEF Plays
  <1> DEFINE hand == rest[u] \ {d}
             need == Cardinality(rest[u]) = 2
             count == Punishment(hand, face[d], need, with_uno)
  <1>2. PICK o \in game_card_heap_deal(heap, history \cup {d}, count) :
          /\ rest' = [rest EXCEPT ![u] = hand \cup o.got]
          /\ last_can_report' = ReportMark(u, need, with_uno)
    BY <1>1 DEF game_player_card_play, game_over, ClearRound
  <1>3. /\ TypeOK /\ u \in Uid /\ rest \in [Uid -> SUBSET Deck]
        /\ IsFiniteSet(heap) /\ IsFiniteSet(rest[u])
    BY PilesFinite DEF TableInv, TypeOK, RoomTypeOK, CardTypeOK
  <1>4. need /\ ~with_uno /\ last_can_report' = u
    BY <1>2 DEF ReportMark
  <1>5. IsFiniteSet(hand) /\ Cardinality(hand) = 1
    BY <1>3, <1>4, FS_RemoveElement
  <1>6. hand # {}
    BY <1>5, FS_EmptySet
  <1>7. count = 0
    BY <1>4, <1>6 DEF Punishment
  <1>8. o.got = {}
    BY <1>2, <1>3, <1>7, DealNone
  <1> QED BY <1>2, <1>3, <1>4, <1>5, <1>8

LEMMA ReportableInductive ==
  ASSUME TableInv, RoundInv, RoundInv', ReportableHoldsOneCard, [Next]_vars
  PROVE  ReportableHoldsOneCard'
  <1>1. /\ players \subseteq Uid /\ NoUid \notin Uid
        /\ rest \in [Uid -> SUBSET Deck]
    BY UidAssumption DEF TableInv, TypeOK, RoomTypeOK, CardTypeOK
  <1>2. ASSUME last_can_report' = NoUid, players' \subseteq Uid
        PROVE  ReportableHoldsOneCard'
    BY <1>1, <1>2 DEF ReportableHoldsOneCard
  <1>3. ASSUME UNCHANGED <<last_can_report, rest, players>>
        PROVE  ReportableHoldsOneCard'
    BY <1>3 DEF ReportableHoldsOneCard
  <1>4. players' \subseteq Uid
    BY TableInductive DEF TableInv, TypeOK, RoomTypeOK
  <1>5. CASE game_state' # "wait_player"
    BY <1>2, <1>4, <1>5 DEF RoundInv, BareUntilPlay
  <1>6. CASE state = "idle" /\ game_state' = "wait_player"
    BY <1>6, IdleSteps DEF start_game_req, game_start
  <1>7. CASE state = "playing" /\ game_state' = "wait_player"
    <2>1. ASSUME NEW u \in players, game_player_leave(u)
          PROVE  ReportableHoldsOneCard'
      <3>1. /\ players' = players \ {u} /\ rest' = [rest EXCEPT ![u] = {}]
            /\ last_can_report' = last_can_report
        BY <1>7, <2>1 DEF game_player_leave, game_over, marks
      <3> QED BY <1>1, <3>1 DEF ReportableHoldsOneCard
    <2>2. ASSUME NEW u \in players, Plays(u)
          PROVE  ReportableHoldsOneCard'
      BY <1>2, <1>4, <2>2, MarkedHoldsOne DEF ReportableHoldsOneCard
    <2>3. game_player_deal_card => last_can_report' = NoUid
      BY DEF game_player_deal_card
    <2>4. game_player_report_no_uno =>
            last_can_report' = NoUid
              \/ UNCHANGED <<last_can_report, rest, players>>
      BY DEF game_player_report_no_uno, seats, cards
    <2>5. CountDown \/ UpdateSelectFirstCard \/ UNCHANGED vars =>
            UNCHANGED <<last_can_report, rest, players>>
      BY DEF CountDown, UpdateSelectFirstCard, vars, seats, cards, marks
    <2>6. ~UpdateDealing /\ ~UpdateDealingDealer
      BY <1>7 DEF UpdateDealing, UpdateDealingDealer, TimedOut
    <2> QED BY <1>2, <1>3, <1>4, <1>7, <2>1, <2>2, <2>3, <2>4, <2>5, <2>6,
               PlayingSteps
  <1> QED BY <1>5, <1>6, <1>7 DEF TableInv, TypeOK, RoomTypeOK

(* Whoever can be reported for not crying UNO, and is still in the room,   *)
(* holds exactly one card, for every deck and every penalty: no draw,      *)
(* penalty, leave or new round leaves a mark behind on a bigger hand.      *)
THEOREM ReportableAlwaysHoldsOneCard == Spec => []ReportableHoldsOneCard
  <1>1. Init => ReportableHoldsOneCard
    BY DEF Init, ReportableHoldsOneCard
  <1>2. TableInv /\ RoundInv /\ RoundInv' /\ ReportableHoldsOneCard /\ [Next]_vars
          => ReportableHoldsOneCard'
    BY ReportableInductive
  <1> QED BY <1>1, <1>2, TableAndRound, PTL DEF Spec

-----------------------------------------------------------------------------
(***************************************************************************)
(* How a round is won.                                                     *)
(***************************************************************************)

(* With a card on the discard pile, a penalty always hands out a card. *)
LEMMA DealSome ==
  ASSUME NEW h, NEW g, IsFiniteSet(h), IsFiniteSet(g), g # {},
         NEW count \in Nat, count >= 1, NEW o \in game_card_heap_deal(h, g, count)
  PROVE  o.got # {}
  <1>1. Cardinality(h) \in Nat /\ Cardinality(g) \in Nat /\ Cardinality(g) # 0
    BY FS_CardinalityType, FS_EmptySet
  <1>2. \A x : Cardinality(x) # 0 => x # {}
    BY FS_EmptySet
  <1>3. CASE count - Cardinality(h) <= 0
    <2>1. Cardinality(o.got) = count
      BY <1>3 DEF game_card_heap_deal
    <2> QED BY <1>2, <2>1
  <1>4. CASE ~(count - Cardinality(h) <= 0)
    <2> DEFINE short == count - Cardinality(h)
               most  == IF short <= Cardinality(g) THEN short ELSE Cardinality(g)
    <2>1. most # 0
      BY <1>1, <1>4
    <2>2. PICK s \in SUBSET g : Cardinality(s) = most /\ o.got = h \cup s
      BY <1>4 DEF game_card_heap_deal
    <2> QED BY <1>2, <2>1, <2>2
  <1> QED BY <1>3, <1>4

(* Ending on a function card costs at least one card. *)
LEMMA LastFunctionCardCosts ==
  ASSUME NEW c, is_func_card(c), NEW need_uno \in BOOLEAN, NEW with_uno \in BOOLEAN
  PROVE  Punishment({}, c, need_uno, with_uno) \in Nat
         /\ Punishment({}, c, need_uno, with_uno) >= 1
  BY CountAssumption DEF Punishment

LEMMA WonByPlaying ==
  ASSUME TableInv, NEW u \in players, Plays(u), state = "playing", state' = "idle"
  PROVE  /\ last_win' = u
         /\ \E d \in Deck : rest[u] = {d} /\ ~is_func_card(face[d])
  <1>1. PICK d \in rest[u], with_uno \in BOOLEAN, chg \in Colors \cup {COLOR_ALL} :
          game_player_card_play(u, d, with_uno, chg)
    BY DEF Plays
  <1> DEFINE hand == rest[u] \ {d}
             need == Cardinality(rest[u]) = 2
             count == Punishment(hand, face[d], need, with_uno)
  <1>2. PICK o \in game_card_heap_deal(heap, history \cup {d}, count) :
          hand \cup o.got = {} /\ last_win' = u
    BY <1>1 DEF game_player_card_play, game_over
  <1>3. /\ u \in Uid /\ rest[u] \subseteq Deck
        /\ IsFiniteSet(heap) /\ IsFiniteSet(history)
    BY PilesFinite DEF TableInv, TypeOK, RoomTypeOK, CardTypeOK
  <1>4. hand = {} /\ rest[u] = {d} /\ d \in Deck
    BY <1>2, <1>3
  <1>5. ASSUME is_func_card(face[d])
        PROVE  FALSE
    <2>1. count \in Nat /\ count >= 1
      <3>1. need \in BOOLEAN
        OBVIOUS
      <3> HIDE DEF need
      <3> QED BY <1>4, <1>5, <3>1, LastFunctionCardCosts
    <2>2. IsFiniteSet(history \cup {d}) /\ history \cup {d} # {}
      BY <1>3, FS_AddElement
    <2> HIDE DEF count
    <2> QED BY <1>2, <1>3, <2>1, <2>2, DealSome
  <1> QED BY <1>2, <1>4, <1>5

LEMMA WonStep ==
  ASSUME TableInv, [Next]_vars, state = "playing", state' = "idle",
         players' = players
  PROVE  /\ last_win' \in players
         /\ \E d \in Deck : rest[last_win'] = {d} /\ ~is_func_card(face[d])
  <1>1. ASSUME NEW u \in players
        PROVE  ~game_player_leave(u)
    BY DEF game_player_leave
  <1>2. ~game_player_deal_card /\ ~game_player_report_no_uno
    BY DEF game_player_deal_card, game_player_report_no_uno
  <1>3. ~CountDown /\ ~UpdateDealing /\ ~UpdateDealingDealer
        /\ ~UpdateSelectFirstCard /\ ~UNCHANGED vars
    BY DEF CountDown, UpdateDealing, UpdateDealingDealer,
           UpdateSelectFirstCard, vars
  <1>4. PICK u \in players : Plays(u)
    BY <1>1, <1>2, <1>3, PlayingSteps
  <1> QED BY <1>4, WonByPlaying

(* A round that nobody left is won only by playing the last card of a      *)
(* hand, and never with a function card, however small the deck: the card  *)
(* just played is on the discard pile, so the penalty always finds one.    *)
THEOREM NeverWonOnFunctionCard == Spec => NoWinOnFunctionCard
  <1> DEFINE Won ==
        state = "playing" /\ state' = "idle" /\ players' = players
          => /\ last_win' \in players
             /\ \E d \in Deck : /\ rest[last_win'] = {d}
                                /\ ~is_func_card(face[d])
  <1>1. TableInv /\ [Next]_vars => [Won]_vars
    BY WonStep
  <1> QED BY <1>1, TableAndRound, PTL DEF Spec, NoWinOnFunctionCard
=============================================================================
