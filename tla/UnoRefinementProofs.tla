------------------------ MODULE UnoRefinementProofs ------------------------
(***************************************************************************)
(* Proofs that UnoGame, the room with its seats, cards and clock,          *)
(* implements two smaller specifications: UnoPile, what the rules say of   *)
(* the discard pile, and UnoRoom, what the sessions see of a room.         *)
(***************************************************************************)
EXTENDS UnoRoundProofs

-----------------------------------------------------------------------------
(***************************************************************************)
(* The discard pile.                                                       *)
(***************************************************************************)

(* The rule of play is the same one in both specifications. *)
LEMMA SameRule ==
  ASSUME NEW top, NEW chg, NEW d, NEW c
  PROVE  /\ Pile!CanFollow(top, chg, d, c) = CanFollow(top, chg, d, c)
         /\ Pile!AddPenalty(d, c, MaxDraw) = AddPenalty(d, c, MaxDraw)
         /\ Pile!get_color(c) = get_color(c)
         /\ Pile!COLOR_ALL = COLOR_ALL /\ Pile!Colors = Colors
         /\ Pile!NoCard = NoCard
  <1>1. /\ \A x : Pile!get_color(x) = get_color(x) /\ Pile!get_func(x) = get_func(x)
        /\ Pile!COLOR_ALL = COLOR_ALL /\ Pile!NoCard = NoCard
        /\ Pile!Colors = Colors
        /\ Pile!FUNC_DRAW2 = FUNC_DRAW2 /\ Pile!FUNC_DRAW4 = FUNC_DRAW4
        /\ Pile!FUNC_CHGCOLOR = FUNC_CHGCOLOR
    BY DEF Pile!get_color, get_color, Pile!get_func, get_func, Pile!COLOR_ALL,
           COLOR_ALL, Pile!NoCard, NoCard, Pile!Colors, Colors, Pile!COLOR_RED,
           COLOR_RED, Pile!COLOR_YELLOW, COLOR_YELLOW, Pile!COLOR_BLUE,
           COLOR_BLUE, Pile!COLOR_GREEN, COLOR_GREEN, Pile!FUNC_DRAW2,
           FUNC_DRAW2, Pile!FUNC_DRAW4, FUNC_DRAW4, Pile!FUNC_CHGCOLOR,
           FUNC_CHGCOLOR
  <1>2. Pile!CanAnswerPenalty(top, c) = CanAnswerPenalty(top, c)
    BY <1>1 DEF Pile!CanAnswerPenalty, CanAnswerPenalty
  <1>3. Pile!CanFollow(top, chg, d, c) = CanFollow(top, chg, d, c)
    BY <1>1, <1>2 DEF Pile!CanFollow, CanFollow
  <1>4. Pile!AddPenalty(d, c, MaxDraw) = AddPenalty(d, c, MaxDraw)
    BY <1>1 DEF Pile!AddPenalty, AddPenalty
  <1> QED BY <1>1, <1>3, <1>4

(* A card that is played, on turn or ahead of it, may follow. *)
LEMMA PlayedMayFollow ==
  ASSUME NEW c, NEW ahead, game_can_play_card(c, ahead)
  PROVE  CanFollow(last, last_chg_color, draw, c)
  BY DEF game_can_play_card, CanFollow

LEMMA ClearIsReset ==
  ASSUME ClearRound
  PROVE  Pile!PileNext
  BY DEF ClearRound, Pile!PileNext, Pile!PileReset, Pile!NoCard, NoCard

LEMMA PlayRefinesPile ==
  ASSUME TableInv, NEW u \in players, Plays(u)
  PROVE  Pile!PileNext
  <1>1. PICK d \in rest[u], with_uno \in BOOLEAN, chg \in Colors \cup {COLOR_ALL} :
          game_player_card_play(u, d, with_uno, chg)
    BY DEF Plays
  <1> DEFINE c == face[d]
             named == IF get_color(c) = COLOR_ALL THEN chg ELSE COLOR_RED
  <1>2. CASE ClearRound
    BY <1>2, ClearIsReset
  <1>3. CASE ~ClearRound
    <2>1. /\ last' = c
          /\ last_chg_color' = IF get_color(c) = COLOR_ALL THEN chg ELSE 0
          /\ draw' = AddPenalty(draw, c, MaxDraw)
          /\ get_color(c) = COLOR_ALL => chg \in Colors
          /\ game_can_play_card(c, u # Cur)
      BY <1>1, <1>3 DEF game_player_card_play, game_over
    <2>2. c \in Face
      BY DEF Face, TableInv, TypeOK, RoomTypeOK, CardTypeOK
    <2>3. named \in Colors
      BY <2>1 DEF Colors
    <2>4. CanFollow(last, last_chg_color, draw, c)
      BY <2>1, PlayedMayFollow
    <2> HIDE DEF c
    <2>5. Pile!PilePlay(c, named)
      BY <2>1, <2>3, <2>4, SameRule DEF Pile!PilePlay
    <2>6. named \in Pile!Colors
      BY <2>3, SameRule
    <2> HIDE DEF named
    <2> QED BY <2>2, <2>5, <2>6 DEF Pile!PileNext
  <1> QED BY <1>2, <1>3

LEMMA PileStep ==
  ASSUME TableInv, RoundInv, [Next]_vars
  PROVE  [Pile!PileNext]_(Pile!pile)
  <1> DEFINE same == UNCHANGED <<last, last_chg_color, draw>>
  <1>0. SUFFICES Pile!PileNext \/ same
    BY DEF Pile!pile
  <1>1. draw \in Nat
    BY CountAssumption DEF TableInv, TypeOK, PileTypeOK
  <1>2. CASE state = "idle"
    <2>1. CASE \E u \in Uid : start_game_req(u)
      BY <2>1, ClearIsReset DEF start_game_req, game_start
    <2>2. CASE game_state' = "idle"
      <3>1. RoundInv'
        BY RoundInductive, TableInductive
      <3> QED BY <1>2, <2>2, <3>1, IdleNotWaiting DEF RoundInv, BareUntilPlay
    <2> QED BY <1>2, <2>1, <2>2, IdleSteps
  <1>3. CASE state = "playing"
    <2>1. ASSUME NEW u \in players, game_player_leave(u)
          PROVE  Pile!PileNext \/ same
      BY <2>1, ClearIsReset DEF game_player_leave, game_over, pile
    <2>2. ASSUME NEW u \in players, Plays(u)
          PROVE  Pile!PileNext
      BY <2>2, PlayRefinesPile
    <2>3. CASE game_player_deal_card
      <3>1. draw' = 0 /\ UNCHANGED <<last, last_chg_color>>
        BY <2>3 DEF game_player_deal_card
      <3> QED BY <1>1, <3>1 DEF Pile!PileNext, Pile!PileTake
    <2>4. CASE UpdateSelectFirstCard
      <3>1. last = NoCard /\ last_chg_color = 0
        BY <2>4 DEF UpdateSelectFirstCard, TimedOut, RoundInv, BareUntilPlay
      <3>2. /\ last_chg_color' = 0 /\ draw' = draw
            /\ last' \in Face \cup {NoCard}
        <4>1. last' \in Face \cup {NoCard}
          BY <2>4, TableInductive DEF TableInv, TypeOK, PileTypeOK
        <4> QED BY <2>4, <4>1 DEF UpdateSelectFirstCard
      <3> QED BY <3>1, <3>2, SameRule DEF Pile!PileNext, Pile!PileFirst
    <2>5. CASE \/ game_player_report_no_uno \/ CountDown \/ UpdateDealing
               \/ UpdateDealingDealer \/ UNCHANGED vars
      BY <2>5 DEF game_player_report_no_uno, CountDown, UpdateDealing,
             UpdateDealingDealer, vars, pile
    <2> HIDE DEF same
    <2> QED BY <1>3, <2>1, <2>2, <2>3, <2>4, <2>5, PlayingSteps
  <1> QED BY <1>2, <1>3 DEF TableInv, TypeOK, RoomTypeOK

(* Every room implements UnoPile: whatever players, seats, penalties and   *)
(* the clock do, the top card, the named colour and the pending penalty    *)
(* change only by a card that may follow, by taking the penalty, by the    *)
(* first card or by a new round.                                           *)
THEOREM GameImplementsPile == Spec => PileRefined
  <1>1. Init => Pile!PileInit
    BY SameRule DEF Init, Pile!PileInit
  <1>2. TableInv /\ RoundInv /\ [Next]_vars => [Pile!PileNext]_(Pile!pile)
    BY PileStep
  <1> QED BY <1>1, <1>2, TableAndRound, PTL DEF Spec, PileRefined, Pile!PileSpec

-----------------------------------------------------------------------------
(***************************************************************************)
(* The room as the sessions see it.                                        *)
(***************************************************************************)

\* The phase of UnoRoom that a game_state stands for.
PhaseOf(g) == IF g = "idle" THEN "idle"
              ELSE IF g = "wait_player" THEN "waiting" ELSE "dealing"

RoomView == [players |-> players, owner |-> owner, max_players |-> max_players,
             phase |-> PhaseOf(game_state)]

(* Both specifications count with the same operator. *)
LEMMA SameCount ==
  ASSUME NEW S
  PROVE  Room!Cardinality(S) = Cardinality(S)
  BY DEF Room!Cardinality, Cardinality

(* curr_players counts the players. *)
LEMMA PlayersCounted ==
  ASSUME TableInv
  PROVE  IsFiniteSet(players) /\ Cardinality(players) = curr_players
  <1>1. /\ Len(seq) \in Nat /\ curr_players = Len(seq)
        /\ seq \in [1 .. Len(seq) -> players]
        /\ \A x \in players : \E i \in 1 .. Len(seq) : seq[i] = x
        /\ \A i, j \in 1 .. Len(seq) : seq[i] = seq[j] => i = j
    BY DEF TableInv, TypeOK, RoomTypeOK, SeatsAgree
  <1> DEFINE n == Len(seq)
  <1>2. IsFiniteSet(1 .. n) /\ Cardinality(1 .. n) = n
    <2>1. n \in Nat
      BY <1>1
    <2> HIDE DEF n
    <2> QED BY <2>1, FS_Interval
  <1>3. seq \in Surjection(1 .. Len(seq), players)
        /\ seq \in Injection(1 .. Len(seq), players)
    BY <1>1 DEF Surjection, Injection, IsInjective
  <1> QED BY <1>1, <1>2, <1>3, FS_Surjection

(* The players who stay after one of several has left. *)
LEMMA PlayersLeft ==
  ASSUME TableInv, NEW u \in players
  PROVE  /\ players \ {u} = {} <=> curr_players = 1
         /\ Cardinality(players \ {u}) = 1 <=> curr_players = 2
  <1>1. IsFiniteSet(players) /\ Cardinality(players) = curr_players
    BY PlayersCounted
  <1>2. /\ IsFiniteSet(players \ {u})
        /\ Cardinality(players \ {u}) = curr_players - 1
    BY <1>1, FS_RemoveElement
  <1>3. curr_players \in Nat
    BY DEF TableInv, TypeOK, RoomTypeOK
  <1>4. players \ {u} = {} <=> Cardinality(players \ {u}) = 0
    BY <1>2, FS_EmptySet
  <1> QED BY <1>2, <1>3, <1>4

LEMMA LeaveRefinesRoom ==
  ASSUME TableInv, RoundInv, NEW u \in players, LeaveOrErase(u),
         state = "idle" \/ game_state = "wait_player"
  PROVE  Room!Leave
  <1> DEFINE left == players \ {u}
  <1>1. Room!CanLeave(RoomView) /\ u \in RoomView.players
    BY DEF Room!CanLeave, RoomView, PhaseOf, RoundInv, PhasesAgree
  <1>2. /\ left = {} <=> curr_players = 1
        /\ Cardinality(left) = 1 <=> curr_players = 2
    BY PlayersLeft
  <1>3. CASE curr_players = 1
    <2>1. RoomView' = Room!NoRoom
      BY <1>3 DEF LeaveOrErase, EraseRoom, RoomView, PhaseOf, Room!NoRoom
    <2>2. RoomView' \in Room!WithoutPlayer(RoomView, u)
      BY <1>2, <1>3, <2>1 DEF Room!WithoutPlayer, RoomView
    <2> QED BY <1>1, <2>2 DEF Room!Leave, RoomView, PhaseOf
  <1>4. CASE curr_players # 1
    <2>1. /\ players' = left /\ max_players' = max_players
          /\ owner' = IF owner = u THEN RemoveSeat(seq, SeatOf(u))[1] ELSE owner
          /\ game_state' = IF state = "playing" /\ curr_players = 2
                           THEN "idle" ELSE game_state
      BY <1>4 DEF LeaveOrErase, game_player_leave, game_over
    <2>2. RemoveSeat(seq, SeatOf(u))[1] \in left
      <3> DEFINE s == RemoveSeat(seq, SeatOf(u))
      <3>1. /\ s \in Seq(Uid) /\ Len(s) = Len(seq) - 1
            /\ left = {s[j] : j \in 1 .. Len(s)}
        BY RemoveSeatProps DEF TableInv
      <3>2. Len(s) >= 1
        <4>1. curr_players \in Nat /\ curr_players = Len(seq) /\ curr_players # 0
          BY SeatOfPlayer DEF TableInv, TypeOK, RoomTypeOK, SeatsAgree
        <4> HIDE DEF s
        <4> QED BY <1>4, <3>1, <4>1
      <3> HIDE DEF s
      <3> QED BY <3>1, <3>2 DEF s
    <2>3. owner' \in IF owner = u THEN left ELSE {owner}
      BY <2>1, <2>2
    <2>4. PhaseOf(game_state') =
            IF Cardinality(left) = 1 THEN "idle" ELSE PhaseOf(game_state)
      BY <1>2, <2>1 DEF PhaseOf, RoundInv, PhasesAgree, TableInv, TypeOK, RoomTypeOK
    <2> DEFINE phase == IF Cardinality(left) = 1 THEN "idle"
                        ELSE PhaseOf(game_state)
    <2>5. RoomView' = [players |-> left, owner |-> owner',
                       max_players |-> max_players, phase |-> phase]
      BY <2>1, <2>4 DEF RoomView
    <2>6. RoomView' \in Room!WithoutPlayer(RoomView, u)
      <3>1. left # {}
        BY <1>2, <1>4
      <3>2. /\ RoomView.players = players /\ RoomView.owner = owner
            /\ RoomView.phase = PhaseOf(game_state)
        BY DEF RoomView
      <3>3. Room!Cardinality(left) = Cardinality(left)
        BY SameCount
      <3>4. Room!WithoutPlayer(RoomView, u) =
              {[RoomView EXCEPT !.players = left, !.owner = o, !.phase = phase] :
                 o \in IF owner = u THEN left ELSE {owner}}
        BY <3>1, <3>2, <3>3 DEF Room!WithoutPlayer
      <3> HIDE DEF left, phase
      <3>5. [RoomView EXCEPT !.players = left, !.owner = owner', !.phase = phase]
              = [players |-> left, owner |-> owner',
                 max_players |-> max_players, phase |-> phase]
        <4> DEFINE m  == max_players
                   h  == PhaseOf(game_state)
                   o2 == owner'
        <4> HIDE DEF m, h, o2
        <4>1. RoomView = [players |-> players, owner |-> owner,
                          max_players |-> m, phase |-> h]
          BY DEF RoomView, m, h
        <4>2. [[players |-> players, owner |-> owner, max_players |-> m,
                phase |-> h] EXCEPT !.players = left]
                = [players |-> left, owner |-> owner, max_players |-> m, phase |-> h]
          OBVIOUS
        <4>3. [[players |-> left, owner |-> owner, max_players |-> m, phase |-> h]
                 EXCEPT !.owner = o2]
                = [players |-> left, owner |-> o2, max_players |-> m, phase |-> h]
          OBVIOUS
        <4>4. [[players |-> left, owner |-> o2, max_players |-> m, phase |-> h]
                 EXCEPT !.phase = phase]
                = [players |-> left, owner |-> o2, max_players |-> m, phase |-> phase]
          OBVIOUS
        <4>5. [[[RoomView EXCEPT !.players = left] EXCEPT !.owner = o2]
                 EXCEPT !.phase = phase]
                = [players |-> left, owner |-> o2, max_players |-> m, phase |-> phase]
          BY <4>1, <4>2, <4>3, <4>4
        <4>6. [RoomView EXCEPT !.players = left, !.owner = o2, !.phase = phase]
                = [[[RoomView EXCEPT !.players = left] EXCEPT !.owner = o2]
                     EXCEPT !.phase = phase]
          OBVIOUS
        <4>7. [RoomView EXCEPT !.players = left, !.owner = o2, !.phase = phase]
                = [players |-> left, owner |-> o2, max_players |-> m, phase |-> phase]
          BY <4>5, <4>6, Zenon
        <4> QED BY <4>7, Zenon DEF o2, m
      <3> QED BY <2>3, <2>5, <3>4, <3>5
    <2> QED BY <1>1, <2>6 DEF Room!Leave, RoomView, PhaseOf
  <1> QED BY <1>3, <1>4

(* A step about the round that keeps the seats moves the phase on. *)
LEMMA PlayRefinesRoom ==
  ASSUME players # {}, UNCHANGED <<players, owner, max_players>>,
         PhaseOf(game_state') \in Room!AfterPhases(PhaseOf(game_state))
  PROVE  Room!Play
  <1> DEFINE p == PhaseOf(game_state')
  <1>1. RoomView' = [RoomView EXCEPT !.phase = p]
    <2>1. RoomView' = [players |-> players, owner |-> owner,
                       max_players |-> max_players, phase |-> p]
      BY DEF RoomView
    <2> HIDE DEF p
    <2>2. [RoomView EXCEPT !.phase = p] =
            [players |-> players, owner |-> owner, max_players |-> max_players,
             phase |-> p]
      BY DEF RoomView
    <2> QED BY <2>1, <2>2, Zenon
  <1>2. RoomView.phase = PhaseOf(game_state) /\ RoomView.players = players
    BY DEF RoomView
  <1>3. RoomView' \in Room!AfterPlay(RoomView)
    <2>1. p \in Room!AfterPhases(RoomView.phase)
      BY <1>2
    <2> HIDE DEF p
    <2> QED BY <1>1, <2>1, Zenon DEF Room!AfterPlay
  <1>4. Room!Exists(RoomView)
    BY <1>2 DEF Room!Exists
  <1> QED BY <1>3, <1>4 DEF Room!Play, RoomView, PhaseOf

(* During a round a game_state stands for dealing or for waiting. *)
LEMMA PhasesOfRound ==
  ASSUME NEW g
  PROVE  /\ PhaseOf(g) \in {"idle", "dealing", "waiting"}
         /\ PhaseOf(g) # "idle" =>
              {"waiting", "idle"} \subseteq Room!AfterPhases(PhaseOf(g))
         /\ PhaseOf(g) \in Room!AfterPhases(PhaseOf(g))
  BY DEF PhaseOf, Room!AfterPhases

LEMMA CreateRefinesRoom ==
  ASSUME TableInv, RoundInv, NEW u \in Uid, NEW n \in PlayerCounts,
         create_room_req(u, n)
  PROVE  Room!Create
  <1>1. /\ players = {} /\ owner' = u /\ max_players' = n /\ players' = {u}
        /\ game_state' = game_state
    BY DEF create_room_req
  <1>2. game_state = "idle"
    BY <1>1, CurIsPlayer DEF TableInv, TypeOK, RoomTypeOK, RoundInv, PhasesAgree
  <1>3. RoomView' = Room!NewRoom(u, n)
    BY <1>1, <1>2 DEF RoomView, PhaseOf, Room!NewRoom
  <1>4. ~Room!Exists(RoomView)
    BY <1>1 DEF Room!Exists, RoomView
  <1> QED BY <1>3, <1>4 DEF Room!Create, RoomView, PhaseOf

LEMMA EnterRefinesRoom ==
  ASSUME TableInv, RoundInv, NEW u \in Uid, enter_room_req(u)
  PROVE  Room!Enter
  <1>1. /\ players # {} /\ u \notin players /\ state = "idle"
        /\ curr_players < max_players /\ players' = players \cup {u}
        /\ UNCHANGED <<game_state, owner, max_players>>
    BY DEF enter_room_req
  <1>2. RoomView.players = players /\ RoomView.max_players = max_players
        /\ RoomView.phase = "idle"
    BY <1>1 DEF RoomView, PhaseOf, RoundInv, PhasesAgree
  <1>3. Room!CanEnter(RoomView, u) /\ Room!Exists(RoomView)
    <2>1. Room!Cardinality(players) = curr_players
      BY PlayersCounted, SameCount
    <2> QED BY <1>1, <1>2, <2>1 DEF Room!CanEnter, Room!Exists
  <1>4. RoomView' = Room!WithPlayer(RoomView, u)
    BY <1>1 DEF RoomView, PhaseOf, Room!WithPlayer
  <1> QED BY <1>3, <1>4 DEF Room!Enter, RoomView, PhaseOf

LEMMA StartRefinesRoom ==
  ASSUME TableInv, RoundInv, NEW u \in Uid, start_game_req(u)
  PROVE  Room!Start
  <1>1. /\ u \in players /\ owner = u /\ state = "idle"
        /\ Cardinality(players) >= 2 /\ game_state' = "dealing"
        /\ UNCHANGED <<players, owner, max_players>>
    BY DEF start_game_req, game_start, seats
  <1>2. /\ RoomView.players = players /\ RoomView.owner = owner
        /\ RoomView.phase = "idle"
    BY <1>1 DEF RoomView, PhaseOf, RoundInv, PhasesAgree
  <1>3. Room!CanStart(RoomView, u)
    BY <1>1, <1>2, SameCount DEF Room!CanStart
  <1>4. RoomView' = Room!Started(RoomView)
    BY <1>1 DEF RoomView, PhaseOf, Room!Started
  <1> QED BY <1>1, <1>2, <1>3, <1>4 DEF Room!Start, RoomView, PhaseOf

LEMMA RoomStep ==
  ASSUME TableInv, RoundInv, [Next]_vars
  PROVE  Room!RoomNext \/ UNCHANGED <<players, owner, max_players, game_state>>
  <1> DEFINE same == UNCHANGED <<players, owner, max_players, game_state>>
             goal == Room!RoomNext \/ same
  <1> SUFFICES goal
    OBVIOUS
  <1>0. UNCHANGED vars => same
    BY DEF vars, seats
  <1>1. CASE state = "idle"
    <2>1. ASSUME NEW u \in Uid, Request(u)
          PROVE  goal
      <3>1. ASSUME NEW n \in PlayerCounts, create_room_req(u, n)
            PROVE  goal
        BY <3>1, CreateRefinesRoom DEF Room!RoomNext
      <3>2. CASE enter_room_req(u)
        BY <3>2, EnterRefinesRoom DEF Room!RoomNext
      <3>3. CASE leave_room_req(u)
        BY <1>1, <3>3, LeaveRefinesRoom DEF leave_room_req, Room!RoomNext
      <3>4. ASSUME NEW v \in Uid, room_kickout_player_req(u, v)
            PROVE  goal
        BY <1>1, <3>4, LeaveRefinesRoom DEF room_kickout_player_req, Room!RoomNext
      <3>5. CASE start_game_req(u)
        BY <3>5, StartRefinesRoom DEF Room!RoomNext
      <3>6. CASE get_ready_req(u) \/ shuffle_room_seats_req(u)
        BY <3>6 DEF get_ready_req, shuffle_room_seats_req, seats
      <3>7. /\ \A d, with_uno, chg : ~game_play_card_req(u, d, with_uno, chg)
            /\ ~game_deal_card_req(u) /\ ~game_report_no_uno_req(u)
        BY <1>1 DEF game_play_card_req, game_deal_card_req, game_report_no_uno_req
      <3> HIDE DEF goal
      <3> QED BY <2>1, <3>1, <3>2, <3>3, <3>4, <3>5, <3>6, <3>7 DEF Request
    <2>2. ~Tick
      BY <1>1 DEF Tick, game_update, CountDown, UpdateDealing,
                  UpdateDealingDealer, UpdateSelectFirstCard, UpdateWaitPlayer,
                  TimedOut
    <2> HIDE DEF same
    <2> QED BY <1>0, <2>1, <2>2 DEF Next, Gone
  <1>2. CASE state = "playing"
    <2>0. players # {} /\ PhaseOf(game_state) # "idle"
      BY <1>2, CurIsPlayer DEF TableInv, TurnSeated, PhaseOf
    <2>1. ASSUME UNCHANGED <<players, owner, max_players>>,
                 game_state' \in {"idle", "wait_player"}
          PROVE  goal
      <3>1. PhaseOf(game_state') \in {"idle", "waiting"}
        BY <2>1 DEF PhaseOf
      <3> QED BY <2>0, <2>1, <3>1, PhasesOfRound, PlayRefinesRoom
              DEF Room!RoomNext
    <2>2. ASSUME UNCHANGED <<players, owner, max_players>>,
                 PhaseOf(game_state') = PhaseOf(game_state)
          PROVE  goal
      BY <2>0, <2>2, PhasesOfRound, PlayRefinesRoom DEF Room!RoomNext
    <2>3. ASSUME NEW u \in players, curr_players # 1, game_player_leave(u),
                 game_state = "wait_player"
          PROVE  goal
      BY <2>3, LeaveRefinesRoom DEF LeaveOrErase, Room!RoomNext
    <2>4. ASSUME NEW u \in players, Plays(u)
          PROVE  goal
      <3>1. UNCHANGED <<players, owner, max_players>>
            /\ game_state' \in {"idle", "wait_player"}
        BY <2>4 DEF Plays, game_player_card_play, game_over, seats
      <3> QED BY <2>1, <3>1
    <2>5. CASE game_player_deal_card \/ UpdateSelectFirstCard
      <3>1. UNCHANGED <<players, owner, max_players>>
            /\ game_state' = "wait_player"
        BY <2>5 DEF game_player_deal_card, UpdateSelectFirstCard, seats
      <3> QED BY <2>1, <3>1
    <2>6. CASE UpdateDealing \/ UpdateDealingDealer
      <3>1. UNCHANGED <<players, owner, max_players>>
        BY <2>6 DEF UpdateDealing, UpdateDealingDealer, seats
      <3>2. PhaseOf(game_state') = PhaseOf(game_state)
        BY <2>6 DEF UpdateDealing, UpdateDealingDealer, TimedOut, PhaseOf
      <3> QED BY <2>2, <3>1, <3>2
    <2>7. CASE game_player_report_no_uno \/ CountDown
      BY <2>7 DEF game_player_report_no_uno, CountDown, seats
    <2> HIDE DEF goal
    <2>8. UNCHANGED vars => goal
      BY <1>0 DEF goal
    <2> QED BY <1>2, <2>3, <2>4, <2>5, <2>6, <2>7, <2>8, PlayingSteps
  <1> QED BY <1>1, <1>2 DEF TableInv, TypeOK, RoomTypeOK

(* Every room with its cards implements UnoRoom, the machine that          *)
(* UnoSession puts in its table of rooms: seats change one at a time and   *)
(* only when the round allows it, the owner is always one of the players   *)
(* left, and a round goes from dealing to waiting to idle.                 *)
THEOREM GameImplementsRoom == Spec => RoomRefined
  <1> DEFINE view == [players |-> players, owner |-> owner,
                      max_players |-> max_players,
                      phase |-> IF game_state = "idle" THEN "idle"
                                ELSE IF game_state = "wait_player"
                                     THEN "waiting" ELSE "dealing"]
  <1>1. Init => Room!RoomInit
    BY DEF Init, Room!RoomInit, Room!NoRoom
  <1>2. TableInv /\ RoundInv /\ [Next]_vars => [Room!RoomNext]_view
    BY RoomStep
  <1> QED BY <1>1, <1>2, TableAndRound, PTL DEF Spec, RoomRefined, Room!RoomSpec

-----------------------------------------------------------------------------
(***************************************************************************)
(* The theorems about the discard pile, carried over to the game.          *)
(***************************************************************************)
PileTheory == INSTANCE UnoPileProofs

(* What UnoPile assumes of the faces follows from what UnoGame assumes of  *)
(* the deck.                                                               *)
LEMMA PileAssumptions == PileTheory!FaceAssumption /\ PileTheory!MaxDrawAssumption
  <1>1. Face \subseteq 1 .. 127 /\ \A c \in Face : is_valid_card(c)
    BY DeckAssumption DEF Face
  <1>2. \A c \in Face : PileTheory!get_color(c) \in PileTheory!Colors \cup {PileTheory!COLOR_ALL}
    BY <1>1 DEF is_valid_card, is_valid_color, get_color, COLOR_ALL, COLOR_GREEN,
           PileTheory!get_color, PileTheory!Colors, PileTheory!COLOR_ALL,
           PileTheory!COLOR_RED, PileTheory!COLOR_YELLOW, PileTheory!COLOR_BLUE,
           PileTheory!COLOR_GREEN
  <1> QED BY <1>1, <1>2, CountAssumption
          DEF PileTheory!FaceAssumption, PileTheory!MaxDrawAssumption

LEMMA SamePileRule ==
  ASSUME NEW top, NEW chg, NEW d, NEW c
  PROVE  /\ PileTheory!CanFollow(top, chg, d, c) = Pile!CanFollow(top, chg, d, c)
         /\ PileTheory!AddPenalty(d, c, MaxDraw) = Pile!AddPenalty(d, c, MaxDraw)
         /\ PileTheory!get_color(c) = Pile!get_color(c)
         /\ PileTheory!COLOR_ALL = Pile!COLOR_ALL
         /\ PileTheory!Colors = Pile!Colors /\ PileTheory!NoCard = Pile!NoCard
  <1>1. /\ \A x : /\ PileTheory!get_color(x) = Pile!get_color(x)
                  /\ PileTheory!get_func(x) = Pile!get_func(x)
        /\ PileTheory!COLOR_ALL = Pile!COLOR_ALL
        /\ PileTheory!NoCard = Pile!NoCard /\ PileTheory!Colors = Pile!Colors
        /\ PileTheory!FUNC_DRAW2 = Pile!FUNC_DRAW2
        /\ PileTheory!FUNC_DRAW4 = Pile!FUNC_DRAW4
        /\ PileTheory!FUNC_CHGCOLOR = Pile!FUNC_CHGCOLOR
    BY DEF PileTheory!get_color, Pile!get_color, PileTheory!get_func,
           Pile!get_func, PileTheory!COLOR_ALL, Pile!COLOR_ALL,
           PileTheory!NoCard, Pile!NoCard, PileTheory!Colors, Pile!Colors,
           PileTheory!COLOR_RED, Pile!COLOR_RED, PileTheory!COLOR_YELLOW,
           Pile!COLOR_YELLOW, PileTheory!COLOR_BLUE, Pile!COLOR_BLUE,
           PileTheory!COLOR_GREEN, Pile!COLOR_GREEN, PileTheory!FUNC_DRAW2,
           Pile!FUNC_DRAW2, PileTheory!FUNC_DRAW4, Pile!FUNC_DRAW4,
           PileTheory!FUNC_CHGCOLOR, Pile!FUNC_CHGCOLOR
  <1>2. PileTheory!CanAnswerPenalty(top, c) = Pile!CanAnswerPenalty(top, c)
    BY <1>1 DEF PileTheory!CanAnswerPenalty, Pile!CanAnswerPenalty
  <1>3. PileTheory!CanFollow(top, chg, d, c) = Pile!CanFollow(top, chg, d, c)
    BY <1>1, <1>2 DEF PileTheory!CanFollow, Pile!CanFollow
  <1>4. PileTheory!AddPenalty(d, c, MaxDraw) = Pile!AddPenalty(d, c, MaxDraw)
    BY <1>1 DEF PileTheory!AddPenalty, Pile!AddPenalty
  <1> QED BY <1>1, <1>3, <1>4

LEMMA SamePileSpec == Pile!PileSpec => PileTheory!PileSpec
  <1>1. Pile!PileInit => PileTheory!PileInit
    BY SamePileRule DEF Pile!PileInit, PileTheory!PileInit
  <1>2. [Pile!PileNext]_(Pile!pile) => [PileTheory!PileNext]_(PileTheory!pile)
    <2> SUFFICES ASSUME [Pile!PileNext]_(Pile!pile)
                 PROVE  [PileTheory!PileNext]_(PileTheory!pile)
      OBVIOUS
    <2>1. CASE Pile!PileReset
      BY <2>1, SamePileRule DEF Pile!PileReset, PileTheory!PileReset, PileTheory!PileNext
    <2>2. CASE Pile!PileFirst
      BY <2>2, SamePileRule DEF Pile!PileFirst, PileTheory!PileFirst, PileTheory!PileNext
    <2>3. ASSUME NEW c \in Face, NEW chg \in Pile!Colors, Pile!PilePlay(c, chg)
          PROVE  PileTheory!PileNext
      <3>1. PileTheory!PilePlay(c, chg) /\ chg \in PileTheory!Colors
        BY <2>3, SamePileRule DEF Pile!PilePlay, PileTheory!PilePlay
      <3> QED BY <3>1 DEF PileTheory!PileNext
    <2>4. CASE Pile!PileTake
      BY <2>4 DEF Pile!PileTake, PileTheory!PileTake, PileTheory!PileNext
    <2>5. CASE UNCHANGED Pile!pile
      BY <2>5 DEF Pile!pile, PileTheory!pile
    <2> QED BY <2>1, <2>2, <2>3, <2>4, <2>5 DEF Pile!PileNext
  <1> QED BY <1>1, <1>2, PTL DEF Pile!PileSpec, PileTheory!PileSpec

(* Hence in every room, whoever plays, leaves or is punished, a penalty is *)
(* pending only while the +2 or +4 that caused it lies on top, and it is   *)
(* raised or taken whole.                                                  *)
THEOREM PileTheoremsInGame ==
  Spec => []PileTheory!PenaltyHasItsCard /\ PileTheory!PenaltyOnlyEscalates
  <1>1. Spec => PileTheory!PileSpec
    BY GameImplementsPile, SamePileSpec DEF PileRefined
  <1>2. PileTheory!PileSpec => []PileTheory!PenaltyHasItsCard
    BY PileAssumptions, PileTheory!PenaltyAlwaysHasItsCard
  <1>3. PileTheory!PileSpec => PileTheory!PenaltyOnlyEscalates
    BY PileAssumptions, PileTheory!PenaltyNeverDeescalates
  <1> QED BY <1>1, <1>2, <1>3, PTL
=============================================================================
