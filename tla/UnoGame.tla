------------------------------ MODULE UnoGame ------------------------------
(***************************************************************************)
(* One room of the server (struct Room, class RoomManager): its seats and  *)
(* the card game played in it.  Every request handler that changes the     *)
(* room is one action, and so is every case of the 100 ms update           *)
(* (RoomManager::update, game_update).  The server is single-threaded:     *)
(* handlers and updates run one after another on the event loop, in any    *)
(* order.                                                                  *)
(*                                                                         *)
(* Abstractions.  Cards are elements of Deck with a face; heap, history    *)
(* and hands are sets of them, because the code shuffles the heap and no   *)
(* rule looks at the order.  Requests the code refuses change nothing and  *)
(* are not steps.  Room::Player::offline is never set in the program as    *)
(* built (README, "Presence"), so the offline kick and the shorter         *)
(* thinking time of offline players do not occur here.                     *)
(***************************************************************************)
EXTENDS UnoCard, Sequences

CONSTANTS
  Uid,            \* the users
  NoUid,          \* -1 in the source (0 in a new room): no user
  Garbage,        \* what an out-of-bounds read of seq yields
  Deck,           \* the physical cards of CARD_SET_COUNT sets
  face,           \* the face of each of them
  PlayerCounts,   \* the values of player_count that clients send
  MaxDraw,        \* bound on the penalty counter (UnoCard!AddPenalty)
  PLAYER_START_CARD_COUNT, DEALER_START_CARD_EXT_COUNT,
  TIMER_DEALING_INTERVAL, TIMER_SELECT_FIRST_CARD_INTERVAL,
  TIMER_PLAYER_THINKING,
  PUNISH_FOR_LAST_FUNC_CARD, PUNISH_FOR_NO_UNO

Face == {face[d] : d \in Deck}

ASSUME UidAssumption == NoUid \notin Uid /\ Garbage \notin Uid \cup {NoUid}
ASSUME DeckAssumption ==
  /\ IsFiniteSet(Deck)
  /\ face \in [Deck -> 1 .. 127]
  /\ \A d \in Deck : is_valid_card(face[d])
ASSUME CountAssumption ==
  /\ PlayerCounts \subseteq Int
  /\ MaxDraw \in Nat /\ MaxDraw >= 4
  /\ \A k \in {PLAYER_START_CARD_COUNT, DEALER_START_CARD_EXT_COUNT,
               TIMER_DEALING_INTERVAL, TIMER_SELECT_FIRST_CARD_INTERVAL,
               TIMER_PLAYER_THINKING, PUNISH_FOR_LAST_FUNC_CARD,
               PUNISH_FOR_NO_UNO} : k \in Nat \ {0}

VARIABLES
  \* the room
  state, owner, max_players, curr_players, players, seq, ready,
  last_win, last_direction,
  \* the round
  game_state, deal_turn, cursor, direction, dealer, timer,
  heap, history, rest, last, last_chg_color, draw,
  last_can_report, can_play_ahead,
  \* what everyone was last told, and the process
  announced,      \* the user named by the last "thinking" broadcast
  aborted         \* an assert failed: the process is gone

seats == <<owner, max_players, curr_players, players, seq>>
result == <<last_win, last_direction>>
cards == <<heap, history, rest>>
pile  == <<last, last_chg_color, draw>>
turn  == <<cursor, direction, dealer, timer, deal_turn>>
marks == <<last_can_report, can_play_ahead>>
vars  == <<state, game_state, seats, ready, result, turn, cards, pile, marks,
           announced, aborted>>

RoomTypeOK ==
  /\ state \in {"idle", "playing"}
  /\ owner \in Uid \cup {NoUid}
  /\ max_players \in PlayerCounts \cup {0}
  /\ curr_players \in Nat
  /\ players \subseteq Uid /\ ready \subseteq Uid
  /\ seq \in Seq(Uid)
  /\ last_win \in Uid \cup {NoUid}
  /\ last_direction \in {-1, 1}

TurnTypeOK ==
  /\ game_state \in {"idle", "dealing", "dealing_dealer",
                     "select_first_card", "wait_player"}
  /\ deal_turn \in Nat /\ timer \in Nat
  /\ cursor \in Int /\ direction \in {-1, 0, 1}
  /\ dealer \in Uid \cup {NoUid}
  /\ announced \in Uid \cup {NoUid, Garbage}

CardTypeOK ==
  /\ heap \subseteq Deck /\ history \subseteq Deck
  /\ rest \in [Uid -> SUBSET Deck]

PileTypeOK ==
  /\ last \in Face \cup {NoCard}
  /\ last_chg_color \in Colors \cup {0}
  /\ draw \in 0 .. MaxDraw

MarkTypeOK ==
  /\ last_can_report \in Uid \cup {NoUid}
  /\ can_play_ahead \in BOOLEAN
  /\ aborted \in BOOLEAN

TypeOK == RoomTypeOK /\ TurnTypeOK /\ CardTypeOK /\ PileTypeOK /\ MarkTypeOK

-----------------------------------------------------------------------------
(***************************************************************************)
(* Seats.  cursor counts from 0, as in the source.                         *)
(***************************************************************************)
SeatOf(u) == (CHOOSE i \in 1 .. Len(seq) : seq[i] = u) - 1
Seated(s, k) == k \in 0 .. Len(s) - 1
Cur == seq[cursor + 1]

\* seq[k] as the source reads it: no bound is checked.
ReadSeat(s, k) == IF Seated(s, k) THEN s[k + 1] ELSE Garbage

RemoveSeat(s, i) ==
  [j \in 1 .. Len(s) - 1 |-> IF j <= i THEN s[j] ELSE s[j + 1]]

\* Mutant: the wrap-around comes one seat too late.
MutStepSeat(k, dir, n) ==
  IF k + dir > n THEN 0 ELSE IF k + dir < 0 THEN n - 1 ELSE k + dir

\* One step around the table of n players in direction dir.
StepSeat(k, dir, n) ==
  IF k + dir >= n THEN 0 ELSE IF k + dir < 0 THEN n - 1 ELSE k + dir

\* game_cursor_move by one seat, or by two for a skip card.
game_cursor_move(k, dir, skip) ==
  LET one == StepSeat(k, dir, curr_players)
  IN  IF skip THEN StepSeat(one, dir, curr_players) ELSE one

\* Mutant: the discard pile is shuffled into the heap and not cleared.
MutReshuffleKeepsHistory(h, g, count) ==
  LET short == count - Cardinality(h)
      most  == IF short <= Cardinality(g) THEN short ELSE Cardinality(g)
  IN  IF short <= 0
      THEN {[got |-> s, heap |-> h \ s, history |-> g] :
              s \in {x \in SUBSET h : Cardinality(x) = count}}
      ELSE {[got |-> h \cup s, heap |-> g \ s, history |-> g] :
              s \in {x \in SUBSET g : Cardinality(x) = most}}

(***************************************************************************)
(* The outcomes of taking count cards one after another with               *)
(* game_card_heap_deal from heap h and discard pile g: when the heap is    *)
(* empty the discard pile is shuffled into it, once, and what is still     *)
(* missing then is not dealt.                                              *)
(***************************************************************************)
game_card_heap_deal(h, g, count) ==
  LET short == count - Cardinality(h)
      most  == IF short <= Cardinality(g) THEN short ELSE Cardinality(g)
  IN  IF short <= 0
      THEN {[got |-> s, heap |-> h \ s, history |-> g] :
              s \in {x \in SUBSET h : Cardinality(x) = count}}
      ELSE {[got |-> h \cup s, heap |-> g \ s, history |-> {}] :
              s \in {x \in SUBSET g : Cardinality(x) = most}}

\* Mutant: the overwritten hand.
MutDealOverwrites(u, count) ==
  \E o \in game_card_heap_deal(heap, history, count) :
    /\ rest' = [rest EXCEPT ![u] = o.got]
    /\ heap' = o.heap /\ history' = o.history

\* count cards from the heap into u's hand.
DealTo(u, count) ==
  \E o \in game_card_heap_deal(heap, history, count) :
    /\ rest' = [rest EXCEPT ![u] = @ \cup o.got]
    /\ heap' = o.heap /\ history' = o.history

\* Mutant: a card played ahead of turn need not equal the last one.
MutAnyCardAhead(c, ahead) ==
  IF ahead
  THEN can_play_ahead
  ELSE CanFollow(last, last_chg_color, draw, c)

game_can_play_card(c, ahead) ==
  IF ahead
  THEN can_play_ahead /\ c = last
  ELSE CanFollow(last, last_chg_color, draw, c)

\* Mutant: the broadcast names the player the cursor pointed at before.
MutThinkingTooEarly(s, k) == announced' = ReadSeat(s, cursor)

\* The "thinking" broadcast: everyone is told whose turn it is.
Thinking(s, k) == announced' = ReadSeat(s, k)

-----------------------------------------------------------------------------
(***************************************************************************)
(* Init: the room does not exist yet; its fields have the values a new     *)
(* Room gets.                                                              *)
(***************************************************************************)
Init ==
  /\ state = "idle" /\ game_state = "idle"
  /\ owner = NoUid /\ max_players = 0 /\ curr_players = 0
  /\ players = {} /\ seq = <<>> /\ ready = {}
  /\ last_win = NoUid /\ last_direction = -1
  /\ deal_turn = 0 /\ cursor = 0 /\ direction = 0 /\ dealer = NoUid
  /\ timer = 0
  /\ heap = {} /\ history = {} /\ rest = [u \in Uid |-> {}]
  /\ last = NoCard /\ last_chg_color = 0 /\ draw = 0
  /\ last_can_report = NoUid /\ can_play_ahead = FALSE
  /\ announced = NoUid
  /\ aborted = FALSE

(***************************************************************************)
(* The statements game_start and game_over have in common.                 *)
(***************************************************************************)
ClearRound ==
  /\ deal_turn' = 0
  /\ last' = NoCard /\ last_chg_color' = 0 /\ draw' = 0
  /\ last_can_report' = NoUid /\ can_play_ahead' = FALSE
  /\ history' = {} /\ rest' = [u \in Uid |-> {}]
  /\ ready' = {}

game_over(u, dir) ==
  /\ last_win' = u /\ last_direction' = dir
  /\ state' = "idle" /\ game_state' = "idle"
  /\ cursor' = -1 /\ direction' = 1 /\ dealer' = NoUid /\ timer' = 0
  /\ heap' = {}
  /\ ClearRound

(***************************************************************************)
(* The round begins: the last winner deals, or else anyone; the direction  *)
(* is the opposite of the last round's.  The process aborts if the deck    *)
(* cannot serve everyone.                                                  *)
(***************************************************************************)
game_start ==
  /\ dealer' \in IF last_win # NoUid THEN {last_win} ELSE players
  /\ cursor' = IF dealer' \in players THEN SeatOf(dealer') ELSE cursor
  /\ direction' = -last_direction
  /\ heap' = Deck
  /\ state' = "playing" /\ game_state' = "dealing"
  /\ timer' = TIMER_DEALING_INTERVAL
  /\ ClearRound
  /\ aborted' = (\/ cursor' = -1
                 \/ Cardinality(Deck) <
                      curr_players * PLAYER_START_CARD_COUNT
                        + DEALER_START_CARD_EXT_COUNT)

\* Mutant: the cursor is not shifted with the seats behind it.
MutCursorNotShifted(u) ==
  IF state = "playing" /\ SeatOf(u) = cursor
  THEN game_cursor_move(cursor, direction, FALSE) ELSE cursor

(***************************************************************************)
(* Where the cursor points after u has left: if u had the turn it moves on *)
(* first, and then it follows the seats that close up.  The comparison of  *)
(* cursor with the seat index is unsigned in the source, so a negative     *)
(* cursor counts as the larger one; below 0 its value plays no role until  *)
(* game_start sets it, and it is kept at -2.                               *)
(***************************************************************************)
CursorAfterLeave(u) ==
  LET i     == SeatOf(u)
      moved == IF state = "playing" /\ i = cursor
               THEN game_cursor_move(cursor, direction, FALSE) ELSE cursor
  IN  IF moved < 0 THEN -2 ELSE IF moved > i THEN moved - 1 ELSE moved

\* Mutant: a winner who left stays recorded, to deal the next round.
MutLastWinKept(u) == last_win

LastWinAfterLeave(u) == IF last_win = u THEN NoUid ELSE last_win

(***************************************************************************)
(* u leaves; the room keeps at least one player.  The hand goes back to    *)
(* the heap, the first player left inherits the room, and if only one is   *)
(* left in a round that player wins it.                                    *)
(***************************************************************************)
game_player_leave(u) ==
  LET left == RemoveSeat(seq, SeatOf(u))
  IN  /\ players' = players \ {u}
      /\ seq' = left
      /\ curr_players' = curr_players - 1
      /\ owner' = IF owner = u THEN left[1] ELSE owner
      /\ IF state = "playing" /\ curr_players = 2
         THEN game_over(left[1], direction) /\ UNCHANGED announced
         ELSE /\ cursor' = CursorAfterLeave(u)
              /\ timer' = IF game_state = "wait_player" /\ SeatOf(u) = cursor
                          THEN TIMER_DEALING_INTERVAL ELSE timer
              /\ heap' = heap \cup rest[u]
              /\ rest' = [rest EXCEPT ![u] = {}]
              /\ ready' = ready \ {u}
              /\ last_win' = LastWinAfterLeave(u)
              /\ Thinking(left, cursor')
              /\ UNCHANGED <<state, game_state, last_direction, deal_turn,
                             direction, dealer, history, pile, marks>>
      /\ UNCHANGED <<max_players, aborted>>

\* Mutant: ending on a function card costs nothing.
MutNoLastCardPenalty(hand, c, need_uno, with_uno) ==
  IF with_uno /\ ~need_uno THEN PUNISH_FOR_LAST_FUNC_CARD ELSE 0

\* The cards u draws for a cry of UNO that is not due and for playing a
\* function card as the last one.  Both are dealt with the same constant.
Punishment(hand, c, need_uno, with_uno) ==
    (IF with_uno /\ ~need_uno THEN PUNISH_FOR_LAST_FUNC_CARD ELSE 0)
  + (IF hand = {} /\ is_func_card(c) THEN PUNISH_FOR_LAST_FUNC_CARD ELSE 0)

\* Mutant: the mark of an earlier player is not cleared.
MutMarkNotCleared(u, need_uno, with_uno) ==
  IF need_uno /\ ~with_uno THEN u ELSE last_can_report

\* Who can be reported after u has played.
ReportMark(u, need_uno, with_uno) ==
  IF need_uno /\ ~with_uno THEN u ELSE NoUid

(***************************************************************************)
(* u plays card d of its hand, on its turn or, with a card identical to    *)
(* the last one, ahead of it.  chg is the colour named with a wild card.   *)
(* Crying UNO when it is not due, and ending on a function card, cost      *)
(* cards: the two penalties are dealt one after the other.  A hand that is *)
(* empty after that has won.                                               *)
(***************************************************************************)
game_player_card_play(u, d, with_uno, chg) ==
  LET c        == face[d]
      hand     == rest[u] \ {d}
      need_uno == Cardinality(rest[u]) = 2
      ahead    == u # Cur
      dir      == IF get_func(c) = FUNC_REVERSE THEN -direction ELSE direction
      punish   == Punishment(hand, c, need_uno, with_uno)
  IN  /\ d \in rest[u]
      /\ get_color(c) = COLOR_ALL => chg \in Colors
      /\ game_can_play_card(c, ahead)
      /\ \E o \in game_card_heap_deal(heap, history \cup {d}, punish) :
           IF hand \cup o.got = {}
           THEN game_over(u, dir) /\ UNCHANGED announced
           ELSE /\ rest' = [rest EXCEPT ![u] = hand \cup o.got]
                /\ heap' = o.heap /\ history' = o.history
                /\ last' = c
                /\ last_chg_color' = IF get_color(c) = COLOR_ALL THEN chg ELSE 0
                /\ draw' = AddPenalty(draw, c, MaxDraw)
                /\ direction' = dir
                /\ cursor' = game_cursor_move(IF ahead THEN SeatOf(u) ELSE cursor,
                                              dir, get_func(c) = FUNC_SKIP)
                /\ game_state' = "wait_player"
                /\ timer' = TIMER_PLAYER_THINKING
                /\ can_play_ahead' = TRUE
                /\ last_can_report' = ReportMark(u, need_uno, with_uno)
                /\ Thinking(seq, cursor')
                /\ UNCHANGED <<state, ready, result, deal_turn, dealer>>
      /\ UNCHANGED <<seats, aborted>>

(***************************************************************************)
(* The player on turn takes the pending penalty, or one card, and the turn *)
(* moves on: game_player_deal_card with reason normal.                     *)
(***************************************************************************)
game_player_deal_card ==
  /\ DealTo(Cur, IF draw # 0 THEN draw ELSE 1)
  /\ draw' = 0
  /\ cursor' = game_cursor_move(cursor, direction, FALSE)
  /\ game_state' = "wait_player"
  /\ timer' = TIMER_PLAYER_THINKING
  /\ last_can_report' = NoUid /\ can_play_ahead' = FALSE
  /\ Thinking(seq, cursor')
  /\ UNCHANGED <<state, seats, ready, result, direction, dealer, deal_turn,
                 last, last_chg_color, aborted>>

(***************************************************************************)
(* Somebody reports the player who did not cry UNO.  The process aborts if *)
(* that player is no longer in the room.                                   *)
(***************************************************************************)
game_player_report_no_uno ==
  /\ last_can_report # NoUid
  /\ IF last_can_report \in players
     THEN /\ DealTo(last_can_report, PUNISH_FOR_NO_UNO)
          /\ last_can_report' = NoUid
          /\ UNCHANGED aborted
     ELSE aborted' = TRUE /\ UNCHANGED <<cards, last_can_report>>
  /\ UNCHANGED <<state, game_state, seats, ready, result, turn, pile,
                 can_play_ahead, announced>>

-----------------------------------------------------------------------------
(***************************************************************************)
(* Requests.  u is the user of a session in state gaming whose room_id is  *)
(* this room's, except in create_room_req and enter_room_req.              *)
(***************************************************************************)
\* player_count out of range is answered with an error, and the handler goes
\* on: every value is accepted.
create_room_req(u, player_count) ==
  /\ players = {}
  /\ owner' = u /\ max_players' = player_count
  /\ curr_players' = 1 /\ players' = {u} /\ seq' = <<u>>
  /\ UNCHANGED <<state, game_state, ready, result, turn, cards, pile, marks,
                 announced, aborted>>

enter_room_req(u) ==
  /\ players # {} /\ u \notin players
  /\ state = "idle"
  /\ curr_players < max_players
  /\ players' = players \cup {u}
  /\ curr_players' = curr_players + 1
  /\ seq' = Append(seq, u)
  /\ UNCHANGED <<state, game_state, owner, max_players, ready, result, turn,
                 cards, pile, marks, announced, aborted>>

\* m_rooms.erase: nothing of the room is left.
EraseRoom ==
  /\ ClearRound
  /\ state' = "idle" /\ game_state' = "idle"
  /\ owner' = NoUid /\ max_players' = 0 /\ curr_players' = 0
  /\ players' = {} /\ seq' = <<>>
  /\ last_win' = NoUid /\ last_direction' = -1
  /\ cursor' = 0 /\ direction' = 0 /\ dealer' = NoUid /\ timer' = 0
  /\ heap' = {} /\ announced' = NoUid
  /\ UNCHANGED aborted

\* The last player to leave takes the room along.
LeaveOrErase(u) ==
  IF curr_players = 1 THEN EraseRoom ELSE game_player_leave(u)

\* Mutant: players may leave while cards are being dealt.
MutLeaveAnyTime(u) == u \in players /\ LeaveOrErase(u)

leave_room_req(u) ==
  /\ u \in players
  /\ game_state \notin {"dealing", "dealing_dealer", "select_first_card"}
  /\ LeaveOrErase(u)

room_kickout_player_req(u, be_kicked) ==
  /\ u \in players /\ owner = u
  /\ state = "idle"
  /\ be_kicked \in players
  /\ LeaveOrErase(be_kicked)

get_ready_req(u) ==
  /\ u \in players
  /\ state = "idle"
  /\ ready' = ready \cup {u}
  /\ UNCHANGED <<state, game_state, seats, result, turn, cards, pile, marks,
                 announced, aborted>>

\* The cooldown compares now with time_point::min(), which overflows: the
\* request may be served or refused.
shuffle_room_seats_req(u) ==
  /\ u \in players /\ owner = u
  /\ state = "idle"
  /\ \E p \in [1 .. Len(seq) -> 1 .. Len(seq)] :
       /\ \A i, j \in 1 .. Len(seq) : p[i] = p[j] => i = j
       /\ seq' = [i \in 1 .. Len(seq) |-> seq[p[i]]]
  /\ ready' = {}
  /\ UNCHANGED <<state, game_state, owner, max_players, curr_players, players,
                 result, turn, cards, pile, marks, announced, aborted>>

start_game_req(u) ==
  /\ u \in players /\ owner = u
  /\ state = "idle"
  /\ Cardinality(players) >= 2
  /\ players \ {u} \subseteq ready
  /\ game_start
  /\ UNCHANGED <<seats, result, announced>>

\* The three game requests ask for state playing and not for a game_state,
\* so they are served while cards are still being dealt.
game_play_card_req(u, d, with_uno, chg) ==
  /\ u \in players
  /\ state = "playing"
  /\ game_player_card_play(u, d, with_uno, chg)

game_deal_card_req(u) ==
  /\ u \in players
  /\ state = "playing"
  /\ u = Cur
  /\ game_player_deal_card

game_report_no_uno_req(u) ==
  /\ u \in players
  /\ state = "playing"
  /\ game_player_report_no_uno

-----------------------------------------------------------------------------
(***************************************************************************)
(* The update of a playing room, once per tick: the timer counts down, and *)
(* when it has run out the phase is worked on.  An idle room is left alone *)
(* by its update.                                                          *)
(***************************************************************************)
\* Mutant: the countdown does not stop at the end.
MutCountDownPastZero ==
  /\ state = "playing"
  /\ timer' = timer - 1
  /\ UNCHANGED <<state, game_state, seats, ready, result, cursor, direction,
                 dealer, deal_turn, cards, pile, marks, announced, aborted>>

CountDown ==
  /\ state = "playing"
  /\ timer > 1
  /\ timer' = timer - 1
  /\ UNCHANGED <<state, game_state, seats, ready, result, cursor, direction,
                 dealer, deal_turn, cards, pile, marks, announced, aborted>>

\* Mutant: a timer of 1 has not run out yet.
MutTimedOutLate(phase) == state = "playing" /\ timer <= 0 /\ game_state = phase

TimedOut(phase) == state = "playing" /\ timer <= 1 /\ game_state = phase

\* Mutant: one card too many is dealt.
MutDealtOneMore == deal_turn + 1 > curr_players * PLAYER_START_CARD_COUNT

StartHandsDealt == deal_turn + 1 >= curr_players * PLAYER_START_CARD_COUNT

\* One card to the player under the cursor, which moves on.
UpdateDealing ==
  /\ TimedOut("dealing")
  /\ DealTo(Cur, 1)
  /\ cursor' = game_cursor_move(cursor, direction, FALSE)
  /\ IF StartHandsDealt
     THEN game_state' = "dealing_dealer" /\ deal_turn' = 0
     ELSE game_state' = game_state /\ deal_turn' = deal_turn + 1
  /\ timer' = TIMER_DEALING_INTERVAL
  /\ UNCHANGED <<state, seats, ready, result, direction, dealer, pile, marks,
                 announced, aborted>>

\* The extra cards of the dealer.
UpdateDealingDealer ==
  /\ TimedOut("dealing_dealer")
  /\ DealTo(Cur, 1)
  /\ aborted' = (heap \cup history = {})
  /\ IF deal_turn + 1 >= DEALER_START_CARD_EXT_COUNT
     THEN /\ game_state' = "select_first_card"
          /\ deal_turn' = 0
          /\ timer' = TIMER_SELECT_FIRST_CARD_INTERVAL
          /\ can_play_ahead' = TRUE
     ELSE /\ deal_turn' = deal_turn + 1
          /\ timer' = TIMER_DEALING_INTERVAL
          /\ UNCHANGED <<game_state, can_play_ahead>>
  /\ UNCHANGED <<state, seats, ready, result, cursor, direction, dealer, pile,
                 last_can_report, announced>>

\* The first card.  A function card is put back and another one drawn at
\* random, but no more than 101 times and only while other cards are left:
\* any card of the heap can be the one that stays.
UpdateSelectFirstCard ==
  /\ TimedOut("select_first_card")
  /\ \E o \in game_card_heap_deal(heap, history, 1) :
       /\ heap' = o.heap
       /\ history' = o.history \cup o.got
       /\ last' \in IF o.got = {} THEN {NoCard} ELSE {face[d] : d \in o.got}
       /\ aborted' = (o.got = {})
  /\ last_chg_color' = 0
  /\ game_state' = "wait_player"
  /\ timer' = TIMER_PLAYER_THINKING
  /\ Thinking(seq, cursor)
  /\ UNCHANGED <<state, seats, ready, result, cursor, direction, dealer,
                 deal_turn, rest, draw, marks>>

\* The colours that can come with card d: none with a coloured card.
Named(d, options) ==
  IF get_color(face[d]) = COLOR_ALL THEN options ELSE {COLOR_ALL}

\* The colour the server names for a player: blue if the hand has a blue
\* card, else green, else yellow, else red, and any colour if it has none.
AutoColors(hand) ==
  LET held  == {get_color(face[d]) : d \in hand}
      order == <<COLOR_BLUE, COLOR_GREEN, COLOR_YELLOW, COLOR_RED>>
      first == {i \in 1 .. 4 : /\ order[i] \in held
                               /\ \A j \in 1 .. i - 1 : order[j] \notin held}
  IN  IF first = {} THEN Colors ELSE {order[i] : i \in first}

\* The server plays for the player whose time is up: some playable card, with
\* a cry of UNO half of the time when it is due, or else it draws.
UpdateWaitPlayer ==
  LET playable == {d \in rest[Cur] : game_can_play_card(face[d], FALSE)}
  IN  /\ TimedOut("wait_player")
      /\ IF playable = {}
         THEN game_player_deal_card
         ELSE \E d \in playable,
                 uno \in IF Cardinality(rest[Cur]) = 2
                         THEN BOOLEAN ELSE {FALSE} :
              \E chg \in Named(d, AutoColors(rest[Cur])) :
                game_player_card_play(Cur, d, uno, chg)

game_update ==
  \/ CountDown
  \/ UpdateDealing
  \/ UpdateDealingDealer
  \/ UpdateSelectFirstCard
  \/ UpdateWaitPlayer

Tick == ~aborted /\ game_update

Request(u) ==
  \/ \E n \in PlayerCounts : create_room_req(u, n)
  \/ enter_room_req(u)
  \/ leave_room_req(u)
  \/ \E v \in Uid : room_kickout_player_req(u, v)
  \/ get_ready_req(u)
  \/ shuffle_room_seats_req(u)
  \/ start_game_req(u)
  \/ \E d \in rest[u], with_uno \in BOOLEAN : \E chg \in Named(d, Colors) :
       game_play_card_req(u, d, with_uno, chg)
  \/ game_deal_card_req(u)
  \/ game_report_no_uno_req(u)

\* After a failed assert nothing happens any more.
Gone == aborted /\ UNCHANGED vars

Next ==
  \/ ~aborted /\ \E u \in Uid : Request(u)
  \/ Tick
  \/ Gone

Spec == Init /\ [][Next]_vars

\* libuv fires the update timer again and again (server.cpp, onUpdate).
FairSpec == Spec /\ WF_vars(Tick)

-----------------------------------------------------------------------------
(***************************************************************************)
(* No card is lost, doubled or left behind: during a round the heap, the   *)
(* discard pile and the hands partition the deck, through reshuffles,      *)
(* penalties, played and drawn cards and players who leave with a hand;    *)
(* between rounds no card is anywhere (room.cpp:108-223, 285-291,          *)
(* 401-417).                                                               *)
(***************************************************************************)
CardsConserved ==
  /\ heap \cup history \cup UNION {rest[u] : u \in Uid}
       = IF state = "playing" THEN Deck ELSE {}
  /\ heap \cap history = {}
  /\ \A u \in Uid : rest[u] \cap (heap \cup history) = {}
  /\ \A u, v \in Uid : u # v => rest[u] \cap rest[v] = {}
  /\ \A u \in Uid \ players : rest[u] = {}

(***************************************************************************)
(* players, seq and curr_players, three records of who is in the room that *)
(* every join, leave, kick and shuffle updates separately, agree; the      *)
(* owner and the last winner, who deals the next round, are among them     *)
(* (room.cpp:133-152, 293-344).                                            *)
(***************************************************************************)
SeatsAgree ==
  /\ curr_players = Len(seq)
  /\ players = {seq[i] : i \in 1 .. Len(seq)}
  /\ \A i, j \in 1 .. Len(seq) : seq[i] = seq[j] => i = j
  /\ players # {} => owner \in players
  /\ last_win \in players \cup {NoUid}
  /\ ready \subseteq players

(***************************************************************************)
(* A running round always has somebody to wait for: at least two players,  *)
(* a cursor within the table, a direction, a running timer (the asserts at *)
(* room.cpp:304, 785, 832, 921).                                           *)
(***************************************************************************)
TurnSeated ==
  state = "playing" =>
    /\ game_state # "idle"
    /\ curr_players >= 2
    /\ Seated(seq, cursor)
    /\ direction \in {-1, 1}
    /\ timer > 0

(***************************************************************************)
(* Dealing goes around the table evenly and ends at the dealer: while      *)
(* starting hands are dealt no two hands differ by more than one card, and *)
(* when the dealer's extra cards and the first card are due everyone has a *)
(* full starting hand and the cursor is back at the dealer, in either      *)
(* direction (the asserts at room.cpp:816-817, 834, 907).                  *)
(***************************************************************************)
DealtEvenly ==
  LET count(u) == Cardinality(rest[u])
      full == PLAYER_START_CARD_COUNT
  IN  ~aborted =>
        /\ game_state = "dealing" =>
             \A u, v \in players : count(u) <= count(v) + 1 /\ count(u) <= full
        /\ game_state \in {"dealing_dealer", "select_first_card"} =>
             /\ Cur = dealer
             /\ \A u \in players \ {dealer} : count(u) = full
             /\ count(dealer) = IF game_state = "select_first_card"
                                THEN full + DEALER_START_CARD_EXT_COUNT
                                ELSE full + deal_turn

(***************************************************************************)
(* While the room waits for a player, that player is the one everybody was *)
(* told about last, whatever joined, left or was punished since            *)
(* (room.cpp:357-359, 560-563, 647-649, 913-916).                          *)
(***************************************************************************)
TurnAnnounced == game_state = "wait_player" => announced = Cur

(***************************************************************************)
(* Whoever can be reported for not crying UNO holds exactly one card, as   *)
(* long as they are in the room: the mark never outlives the situation     *)
(* (room.cpp:548-558, 642).                                                *)
(***************************************************************************)
ReportableHoldsOneCard ==
  last_can_report \in players => Cardinality(rest[last_can_report]) = 1

(***************************************************************************)
(* A round that ends with everyone still seated is won by a player who     *)
(* played the last card of the hand, and that card is not a function card: *)
(* the penalty always finds a card to deal, because the card just played   *)
(* is already on the discard pile (room.cpp:518-540).                      *)
(***************************************************************************)
NoWinOnFunctionCard ==
  [][state = "playing" /\ state' = "idle" /\ players' = players
       => /\ last_win' \in players
          /\ \E d \in Deck : /\ rest[last_win'] = {d}
                             /\ ~is_func_card(face[d])]_vars

(***************************************************************************)
(* When somebody leaves during a round and the round goes on, the turn     *)
(* stays with the player who had it; if that is the one who left, it goes  *)
(* to the next player in the direction of play (room.cpp:293-323).         *)
(***************************************************************************)
TurnSurvivesLeave ==
  [][state = "playing" /\ state' = "playing" /\ players' # players
       => seq'[cursor' + 1] =
            IF Cur \in players' THEN Cur
            ELSE seq[game_cursor_move(cursor, direction, FALSE) + 1]]_vars

(***************************************************************************)
(* Hands are private: in one step at most one hand loses cards, exactly    *)
(* one, whose face is then on top of the pile, unless its owner leaves or  *)
(* the round ends.  In particular a report or a penalty never takes a card *)
(* from anybody (room.cpp:478-481, 606-619).                               *)
(***************************************************************************)
HandsLoseOnlyPlayedCards ==
  [][state = "playing" /\ state' = "playing" =>
       \A u \in players \cap players' :
         \/ rest[u] \subseteq rest'[u]
         \/ /\ \E d \in rest[u] : rest[u] \ {d} \subseteq rest'[u] /\ last' = face[d]
            /\ \A v \in (players \cap players') \ {u} : rest[v] \subseteq rest'[v]]_vars

\* The discard pile does what UnoPile promises.
Pile == INSTANCE UnoPile
PileRefined == Pile!PileSpec

(***************************************************************************)
(* Seen from the sessions, the room with its cards is the small machine of *)
(* UnoRoom: seats change one at a time and only while the round allows it, *)
(* the owner is inherited, and a round moves from dealing to waiting to    *)
(* idle, through every join, leave, kick, time-out and card request.       *)
(***************************************************************************)
Room == INSTANCE UnoRoom WITH
  room <- [players |-> players, owner |-> owner, max_players |-> max_players,
           phase |-> IF game_state = "idle" THEN "idle"
                     ELSE IF game_state = "wait_player" THEN "waiting"
                     ELSE "dealing"]
RoomRefined == Room!RoomSpec

(***************************************************************************)
(* Every round that has begun gets past dealing, and no turn lasts for     *)
(* ever: again and again either the room is idle or somebody is given a    *)
(* full thinking time, whatever the clients do or fail to do               *)
(* (room.cpp:780-1002).                                                    *)
(***************************************************************************)
TurnsKeepComing ==
  []<>(\/ state = "idle"
       \/ aborted
       \/ game_state = "wait_player" /\ timer = TIMER_PLAYER_THINKING)

(***************************************************************************)
(* The assert of game_player_report_no_uno: the player that can be         *)
(* reported is in the room (room.cpp:667).                                 *)
(***************************************************************************)
ReportTargetSeated == last_can_report \in players \cup {NoUid}

(***************************************************************************)
(* Only a seated user is ever announced as the one to play: cursor is the  *)
(* current player of a playing room (room.h:70).                           *)
(***************************************************************************)
NoGarbageAnnounced == announced # Garbage

(***************************************************************************)
(* Play starts after the starting hands have been dealt (room.cpp:11,      *)
(* PLAYER_START_CARD_COUNT): while the room waits for a player everyone    *)
(* has a card.                                                             *)
(***************************************************************************)
EveryHandDealt ==
  game_state = "wait_player" => \A u \in players : rest[u] # {}
=============================================================================
