--------------------------- MODULE UnoGameProofs ---------------------------
(***************************************************************************)
(* Proofs about UnoGame for every set of users, every deck and every value *)
(* of the timers, hand sizes and penalties.                                *)
(***************************************************************************)
EXTENDS UnoGame, FiniteSetTheorems, TLAPS

-----------------------------------------------------------------------------
(***************************************************************************)
(* The operators the actions are built from.                               *)
(***************************************************************************)

(* One step around a table of n players stays at the table. *)
LEMMA StepSeatInRange ==
  ASSUME NEW n \in Nat, n >= 1, NEW k \in 0 .. n - 1, NEW dir \in {-1, 1}
  PROVE  StepSeat(k, dir, n) \in 0 .. n - 1
  BY DEF StepSeat

(* A move of the cursor, by one seat or two, stays at the table. *)
LEMMA CursorMoveInRange ==
  ASSUME curr_players \in Nat, curr_players >= 1,
         NEW k \in 0 .. curr_players - 1, NEW dir \in {-1, 1},
         NEW skip \in BOOLEAN
  PROVE  game_cursor_move(k, dir, skip) \in 0 .. curr_players - 1
  <1>1. StepSeat(k, dir, curr_players) \in 0 .. curr_players - 1
    BY StepSeatInRange
  <1>2. StepSeat(StepSeat(k, dir, curr_players), dir, curr_players)
          \in 0 .. curr_players - 1
    BY <1>1, StepSeatInRange
  <1> QED BY <1>1, <1>2 DEF game_cursor_move

(* A player's seat is a position of seq that holds the player. *)
LEMMA SeatOfPlayer ==
  ASSUME TypeOK, SeatsAgree, NEW u \in players
  PROVE  /\ SeatOf(u) \in 0 .. Len(seq) - 1
         /\ seq[SeatOf(u) + 1] = u
  <1>1. \E i \in 1 .. Len(seq) : seq[i] = u
    BY DEF SeatsAgree
  <1>2. PICK i \in 1 .. Len(seq) :
          i = (CHOOSE j \in 1 .. Len(seq) : seq[j] = u) /\ seq[i] = u
    BY <1>1
  <1>3. Len(seq) \in Nat
    BY DEF TypeOK, RoomTypeOK
  <1> QED BY <1>2, <1>3 DEF SeatOf

(* A set is the range of a sequence when each covers the other. *)
LEMMA SeatedSet ==
  ASSUME NEW P, NEW s, \A x \in P : \E i \in 1 .. Len(s) : s[i] = x,
         \A i \in 1 .. Len(s) : s[i] \in P
  PROVE  P = {s[i] : i \in 1 .. Len(s)}
  OBVIOUS

(* A leave closes the gap in seq and keeps the other seats in order. *)
LEMMA RemoveSeatProps ==
  ASSUME TypeOK, SeatsAgree, NEW u \in players
  PROVE  LET left == RemoveSeat(seq, SeatOf(u))
         IN  /\ left \in Seq(Uid) /\ Len(left) = Len(seq) - 1
             /\ players \ {u} = {left[j] : j \in 1 .. Len(left)}
             /\ \A j, k \in 1 .. Len(left) : left[j] = left[k] => j = k
  <1> DEFINE i == SeatOf(u)
             t == RemoveSeat(seq, i)
  <1>1. /\ seq \in Seq(Uid) /\ Len(seq) \in Nat
        /\ players = {seq[j] : j \in 1 .. Len(seq)}
        /\ \A j, k \in 1 .. Len(seq) : seq[j] = seq[k] => j = k
    BY DEF TypeOK, RoomTypeOK, SeatsAgree
  <1>2. i \in 0 .. Len(seq) - 1 /\ seq[i + 1] = u
    BY SeatOfPlayer
  <1> HIDE DEF i
  <1>3. Len(seq) >= 1 /\ Len(seq) - 1 \in Nat
    BY <1>1, <1>2
  <1>4. \A j \in 1 .. Len(seq) - 1 :
          t[j] = IF j <= i THEN seq[j] ELSE seq[j + 1]
    BY DEF RemoveSeat
  <1>5. t \in Seq(Uid) /\ Len(t) = Len(seq) - 1
    <2>0. \A j \in 1 .. Len(seq) : seq[j] \in Uid
      BY <1>1
    <2>1. \A j \in 1 .. Len(seq) - 1 : t[j] \in Uid
      <3> HIDE DEF t
      <3> QED BY <2>0, <1>3, <1>4
    <2>2. t = [j \in 1 .. Len(seq) - 1 |-> t[j]]
      BY DEF RemoveSeat
    <2> QED BY <1>3, <2>1, <2>2
  <1> HIDE DEF t
  <1>6. \A j \in 1 .. Len(t) : t[j] \in players \ {u}
    <2> TAKE j \in 1 .. Len(t)
    <2>1. PICK k \in 1 .. Len(seq) : t[j] = seq[k] /\ k # i + 1
      BY <1>1, <1>2, <1>3, <1>4, <1>5
    <2> QED BY <1>1, <1>2, <2>1
  <1>7. \A x \in players \ {u} : \E j \in 1 .. Len(t) : t[j] = x
    <2> TAKE x \in players \ {u}
    <2>1. PICK k \in 1 .. Len(seq) : seq[k] = x
      BY <1>1
    <2>2. CASE k <= i
      BY <2>1, <2>2, <1>2, <1>3, <1>4, <1>5
    <2>3. CASE k > i
      <3>1. k - 1 \in 1 .. Len(seq) - 1 /\ ~(k - 1 <= i)
        BY <2>1, <2>3, <1>2, <1>3
      <3> QED BY <2>1, <3>1, <1>4, <1>5
    <2> QED BY <2>2, <2>3, <1>2
  <1>8. players \ {u} = {t[j] : j \in 1 .. Len(t)}
    BY <1>6, <1>7, SeatedSet
  <1>9. \A j, k \in 1 .. Len(t) : t[j] = t[k] => j = k
    BY <1>1, <1>2, <1>3, <1>4, <1>5
  <1> QED BY <1>5, <1>8, <1>9 DEF t, i

(* Dealing splits heap and discard pile into the cards dealt, the new heap *)
(* and the new discard pile.                                               *)
LEMMA DealSplits ==
  ASSUME NEW h, NEW g, h \cap g = {}, NEW count,
         NEW o \in game_card_heap_deal(h, g, count)
  PROVE  /\ o.got \cup o.heap \cup o.history = h \cup g
         /\ o.got \cap o.heap = {} /\ o.got \cap o.history = {}
         /\ o.heap \cap o.history = {}
  BY DEF game_card_heap_deal

(* Whatever is dealt, and whatever stays, was in the heap or on the pile. *)
LEMMA DealWithin ==
  ASSUME NEW h, NEW g, NEW count, NEW o \in game_card_heap_deal(h, g, count)
  PROVE  /\ o.got \subseteq h \cup g
         /\ o.heap \subseteq h \cup g
         /\ o.history \subseteq h \cup g
  BY DEF game_card_heap_deal

(* A penalty is a number within its bound. *)
LEMMA AddPenaltyType ==
  ASSUME NEW d \in 0 .. MaxDraw, NEW c
  PROVE  AddPenalty(d, c, MaxDraw) \in 0 .. MaxDraw
  BY CountAssumption DEF AddPenalty

(* The timers are positive. *)
LEMMA TimersPositive ==
  /\ TIMER_DEALING_INTERVAL \in Nat /\ TIMER_DEALING_INTERVAL > 0
  /\ TIMER_SELECT_FIRST_CARD_INTERVAL \in Nat
  /\ TIMER_SELECT_FIRST_CARD_INTERVAL > 0
  /\ TIMER_PLAYER_THINKING \in Nat /\ TIMER_PLAYER_THINKING > 0
  BY CountAssumption

(* What a broadcast names is a user or garbage. *)
LEMMA ReadSeatType ==
  ASSUME NEW s \in Seq(Uid), NEW k \in Int
  PROVE  ReadSeat(s, k) \in Uid \cup {Garbage}
  BY DEF ReadSeat, Seated

(* A dealing keeps every pile of cards within the deck. *)
LEMMA DealToTypes ==
  ASSUME TypeOK, NEW u \in Uid, NEW count, DealTo(u, count)
  PROVE  CardTypeOK'
  <1>1. PICK o \in game_card_heap_deal(heap, history, count) :
          /\ rest' = [rest EXCEPT ![u] = @ \cup o.got]
          /\ heap' = o.heap /\ history' = o.history
    BY DEF DealTo
  <1>2. heap \cup history \subseteq Deck /\ rest \in [Uid -> SUBSET Deck]
    BY DEF TypeOK, CardTypeOK
  <1>3. o.got \subseteq Deck /\ o.heap \subseteq Deck /\ o.history \subseteq Deck
    BY <1>2, DealWithin
  <1> QED BY <1>1, <1>2, <1>3 DEF CardTypeOK

-----------------------------------------------------------------------------
(***************************************************************************)
(* The inductive invariant of the table.  TypeOK alone is not inductive:   *)
(* that the new owner of a room, the dealer and the player on turn are     *)
(* users needs the records of the seats to agree, and that the cursor      *)
(* stays at the table needs at least two seated players in a round.        *)
(***************************************************************************)
TableInv == TypeOK /\ SeatsAgree /\ TurnSeated

(* The player on turn is a player, and the cursor is that player's seat. *)
LEMMA CurIsPlayer ==
  ASSUME TableInv, state = "playing"
  PROVE  /\ Cur \in players /\ Cur \in Uid
         /\ Len(seq) \in Nat /\ curr_players = Len(seq)
         /\ cursor \in 0 .. curr_players - 1
         /\ direction \in {-1, 1}
  <1>1. cursor \in 0 .. Len(seq) - 1 /\ curr_players = Len(seq)
        /\ direction \in {-1, 1}
    BY DEF TableInv, SeatsAgree, TurnSeated, Seated
  <1>2. Len(seq) \in Nat /\ cursor + 1 \in 1 .. Len(seq)
    BY <1>1 DEF TableInv, TypeOK, RoomTypeOK, TurnTypeOK
  <1>3. seq[cursor + 1] \in players /\ players \subseteq Uid
    BY <1>2 DEF TableInv, SeatsAgree, TypeOK, RoomTypeOK
  <1> QED BY <1>1, <1>2, <1>3 DEF Cur

LEMMA InitTable == Init => TableInv
  <1> SUFFICES ASSUME Init PROVE TableInv
    OBVIOUS
  <1>1. TypeOK
    <2>1. RoomTypeOK
      BY DEF Init, RoomTypeOK
    <2>2. TurnTypeOK
      BY DEF Init, TurnTypeOK
    <2>3. CardTypeOK
      BY DEF Init, CardTypeOK
    <2>4. PileTypeOK
      BY CountAssumption DEF Init, PileTypeOK
    <2>5. MarkTypeOK
      BY DEF Init, MarkTypeOK
    <2> QED BY <2>1, <2>2, <2>3, <2>4, <2>5 DEF TypeOK
  <1>2. SeatsAgree
    <2>1. Len(seq) = 0 /\ 1 .. Len(seq) = {}
      BY DEF Init
    <2>2. players = {seq[i] : i \in 1 .. Len(seq)}
      BY <2>1, SeatedSet DEF Init
    <2>3. curr_players = Len(seq) /\ players = {} /\ last_win = NoUid
          /\ ready = {}
      BY <2>1 DEF Init
    <2> QED BY <2>1, <2>2, <2>3 DEF SeatsAgree
  <1>3. TurnSeated
    BY DEF Init, TurnSeated
  <1> QED BY <1>1, <1>2, <1>3 DEF TableInv

(* What game_start, game_over and the erasure of a room clear is typed. *)
LEMMA ClearRoundTypes ==
  ASSUME ClearRound, heap' \subseteq Deck, aborted' \in BOOLEAN
  PROVE  CardTypeOK' /\ PileTypeOK' /\ MarkTypeOK'
  <1>1. CardTypeOK'
    BY DEF ClearRound, CardTypeOK
  <1>2. PileTypeOK'
    BY CountAssumption DEF ClearRound, PileTypeOK
  <1>3. MarkTypeOK'
    BY DEF ClearRound, MarkTypeOK
  <1> QED BY <1>1, <1>2, <1>3

LEMMA CreateTable ==
  ASSUME TableInv, NEW u \in Uid, NEW n \in PlayerCounts, create_room_req(u, n)
  PROVE  TableInv'
  <1> USE DEF create_room_req
  <1>1. seq' \in Seq(Uid) /\ Len(seq') = 1 /\ seq'[1] = u
    OBVIOUS
  <1>2. TypeOK'
    <2>1. RoomTypeOK'
      BY <1>1 DEF TableInv, TypeOK, RoomTypeOK, result
    <2>2. TurnTypeOK'
      BY DEF TableInv, TypeOK, TurnTypeOK, turn
    <2>3. CardTypeOK' /\ PileTypeOK'
      BY DEF TableInv, TypeOK, CardTypeOK, PileTypeOK, cards, pile
    <2>4. MarkTypeOK'
      BY DEF TableInv, TypeOK, MarkTypeOK, marks
    <2> QED BY <2>1, <2>2, <2>3, <2>4 DEF TypeOK
  <1>3. SeatsAgree'
    <2>1. players' = {seq'[i] : i \in 1 .. Len(seq')}
      BY <1>1, SeatedSet
    <2>2. last_win' \in players' \cup {NoUid} /\ ready' \subseteq players'
      BY DEF TableInv, SeatsAgree, result
    <2>3. \A i, j \in 1 .. Len(seq') : i = j
      BY <1>1
    <2> QED BY <1>1, <2>1, <2>2, <2>3 DEF SeatsAgree
  <1>4. TurnSeated'
    <2>0. players = {} /\ players = {seq[i] : i \in 1 .. Len(seq)}
      BY DEF TableInv, SeatsAgree
    <2>1. \A i \in 1 .. Len(seq) : FALSE
      BY <2>0, Zenon
    <2>2. state' # "playing"
      BY <2>1 DEF TableInv, TurnSeated, SeatsAgree, TypeOK, RoomTypeOK
    <2> QED BY <2>2 DEF TurnSeated
  <1> QED BY <1>2, <1>3, <1>4 DEF TableInv

LEMMA EnterTable ==
  ASSUME TableInv, NEW u \in Uid, enter_room_req(u)
  PROVE  TableInv'
  <1> USE DEF enter_room_req
  <1>1. /\ seq \in Seq(Uid) /\ Len(seq) \in Nat /\ curr_players = Len(seq)
        /\ seq' \in Seq(Uid) /\ Len(seq') = Len(seq) + 1
        /\ \A i \in 1 .. Len(seq) : seq'[i] = seq[i]
        /\ seq'[Len(seq) + 1] = u
    BY DEF TableInv, TypeOK, RoomTypeOK, SeatsAgree
  <1>2. TypeOK'
    <2>1. RoomTypeOK'
      BY <1>1 DEF TableInv, TypeOK, RoomTypeOK, result
    <2>2. TurnTypeOK'
      BY DEF TableInv, TypeOK, TurnTypeOK, turn
    <2>3. CardTypeOK' /\ PileTypeOK'
      BY DEF TableInv, TypeOK, CardTypeOK, PileTypeOK, cards, pile
    <2>4. MarkTypeOK'
      BY DEF TableInv, TypeOK, MarkTypeOK, marks
    <2> QED BY <2>1, <2>2, <2>3, <2>4 DEF TypeOK
  <1>3. SeatsAgree'
    <2>0. players = {seq[i] : i \in 1 .. Len(seq)}
      BY DEF TableInv, SeatsAgree
    <2>1. \A x \in players' : \E i \in 1 .. Len(seq') : seq'[i] = x
      BY <1>1, <2>0
    <2>2. \A i \in 1 .. Len(seq') : seq'[i] \in players'
      BY <1>1, <2>0
    <2>3. players' = {seq'[i] : i \in 1 .. Len(seq')}
      BY <2>1, <2>2, SeatedSet
    <2>4. \A i \in 1 .. Len(seq) : seq[i] # u
      BY <2>0
    <2>5. \A i, j \in 1 .. Len(seq') : seq'[i] = seq'[j] => i = j
      BY <1>1, <2>4 DEF TableInv, SeatsAgree
    <2>6. owner' \in players'
      BY DEF TableInv, SeatsAgree
    <2>7. last_win' \in players' \cup {NoUid} /\ ready' \subseteq players'
      BY DEF TableInv, SeatsAgree, result
    <2> QED BY <1>1, <2>3, <2>5, <2>6, <2>7 DEF SeatsAgree
  <1>4. TurnSeated'
    BY DEF TurnSeated
  <1> QED BY <1>2, <1>3, <1>4 DEF TableInv

LEMMA EraseTable ==
  ASSUME TableInv, EraseRoom
  PROVE  TableInv'
  <1> USE DEF EraseRoom
  <1>1. TypeOK'
    <2>1. RoomTypeOK'
      BY DEF RoomTypeOK, ClearRound
    <2>2. TurnTypeOK'
      BY DEF TurnTypeOK, ClearRound
    <2>3. CardTypeOK' /\ PileTypeOK' /\ MarkTypeOK'
      BY ClearRoundTypes DEF TableInv, TypeOK, MarkTypeOK
    <2> QED BY <2>1, <2>2, <2>3 DEF TypeOK
  <1>2. SeatsAgree'
    <2>1. Len(seq') = 0 /\ 1 .. Len(seq') = {}
      OBVIOUS
    <2>2. players' = {seq'[i] : i \in 1 .. Len(seq')}
      BY <2>1, SeatedSet
    <2>3. curr_players' = Len(seq') /\ players' = {} /\ last_win' = NoUid
          /\ ready' = {}
      BY <2>1 DEF ClearRound
    <2> QED BY <2>1, <2>2, <2>3 DEF SeatsAgree
  <1>3. TurnSeated'
    BY DEF TurnSeated
  <1> QED BY <1>1, <1>2, <1>3 DEF TableInv

LEMMA ReadyTable ==
  ASSUME TableInv, NEW u \in Uid, get_ready_req(u)
  PROVE  TableInv'
  <1> USE DEF get_ready_req, seats
  <1>1. TypeOK'
    <2>1. RoomTypeOK'
      BY DEF TableInv, TypeOK, RoomTypeOK, result
    <2>2. TurnTypeOK'
      BY DEF TableInv, TypeOK, TurnTypeOK, turn
    <2>3. CardTypeOK' /\ PileTypeOK'
      BY DEF TableInv, TypeOK, CardTypeOK, PileTypeOK, cards, pile
    <2>4. MarkTypeOK'
      BY DEF TableInv, TypeOK, MarkTypeOK, marks
    <2> QED BY <2>1, <2>2, <2>3, <2>4 DEF TypeOK
  <1>2. SeatsAgree'
    BY DEF TableInv, SeatsAgree, result
  <1>3. TurnSeated'
    BY DEF TurnSeated
  <1> QED BY <1>1, <1>2, <1>3 DEF TableInv

LEMMA ShuffleTable ==
  ASSUME TableInv, NEW u \in Uid, shuffle_room_seats_req(u)
  PROVE  TableInv'
  <1> USE DEF shuffle_room_seats_req
  <1>1. PICK p \in [1 .. Len(seq) -> 1 .. Len(seq)] :
          /\ \A i, j \in 1 .. Len(seq) : p[i] = p[j] => i = j
          /\ seq' = [i \in 1 .. Len(seq) |-> seq[p[i]]]
    OBVIOUS
  <1>2. seq \in Seq(Uid) /\ Len(seq) \in Nat
    BY DEF TableInv, TypeOK, RoomTypeOK
  <1>3. \A i \in 1 .. Len(seq) : seq'[i] = seq[p[i]] /\ seq[p[i]] \in Uid
    BY <1>1, <1>2
  <1>4. seq' \in Seq(Uid) /\ Len(seq') = Len(seq)
    BY <1>1, <1>2, <1>3
  <1>5. TypeOK'
    <2>1. RoomTypeOK'
      BY <1>4 DEF TableInv, TypeOK, RoomTypeOK, result
    <2>2. TurnTypeOK'
      BY DEF TableInv, TypeOK, TurnTypeOK, turn
    <2>3. CardTypeOK' /\ PileTypeOK'
      BY DEF TableInv, TypeOK, CardTypeOK, PileTypeOK, cards, pile
    <2>4. MarkTypeOK'
      BY DEF TableInv, TypeOK, MarkTypeOK, marks
    <2> QED BY <2>1, <2>2, <2>3, <2>4 DEF TypeOK
  <1>6. SeatsAgree'
    <2>1. \A k \in 1 .. Len(seq) : \E i \in 1 .. Len(seq) : p[i] = k
      <3>1. IsFiniteSet(1 .. Len(seq))
        BY <1>2, FS_Interval
      <3>2. p \in Injection(1 .. Len(seq), 1 .. Len(seq))
        BY <1>1 DEF Injection, IsInjective
      <3>3. p \in Surjection(1 .. Len(seq), 1 .. Len(seq))
        BY <3>1, <3>2, FS_Injection
      <3> QED BY <3>3 DEF Surjection
    <2>2. players = {seq[i] : i \in 1 .. Len(seq)}
      BY DEF TableInv, SeatsAgree
    <2>3. \A x \in players' : \E i \in 1 .. Len(seq') : seq'[i] = x
      <3> TAKE x \in players'
      <3>1. PICK k \in 1 .. Len(seq) : seq[k] = x
        BY <2>2
      <3>2. PICK i \in 1 .. Len(seq) : p[i] = k
        BY <2>1
      <3> QED BY <3>1, <3>2, <1>3, <1>4
    <2>4. \A i \in 1 .. Len(seq') : seq'[i] \in players'
      BY <1>1, <1>3, <1>4, <2>2
    <2>5. players' = {seq'[i] : i \in 1 .. Len(seq')}
      <3> HIDE DEF shuffle_room_seats_req
      <3> QED BY <2>3, <2>4, SeatedSet
    <2>6. \A i, j \in 1 .. Len(seq') : seq'[i] = seq'[j] => i = j
      BY <1>1, <1>3, <1>4 DEF TableInv, SeatsAgree
    <2>7. /\ curr_players' = Len(seq') /\ owner' \in players'
          /\ last_win' \in players' \cup {NoUid} /\ ready' \subseteq players'
      BY <1>4 DEF TableInv, SeatsAgree, result
    <2> QED BY <2>5, <2>6, <2>7 DEF SeatsAgree
  <1>7. TurnSeated'
    BY DEF TurnSeated
  <1> QED BY <1>5, <1>6, <1>7 DEF TableInv

LEMMA StartTable ==
  ASSUME TableInv, NEW u \in Uid, start_game_req(u)
  PROVE  TableInv'
  <1> USE DEF start_game_req, game_start, seats, result
  <1>1. dealer' \in players /\ players \subseteq Uid
    BY DEF TableInv, SeatsAgree, TypeOK, RoomTypeOK
  <1>2. cursor' = SeatOf(dealer') /\ SeatOf(dealer') \in 0 .. Len(seq) - 1
    BY <1>1, SeatOfPlayer DEF TableInv
  <1>3. Len(seq) \in Nat /\ Len(seq) = curr_players
    BY DEF TableInv, SeatsAgree, TypeOK, RoomTypeOK
  <1>4. direction' \in {-1, 1} /\ TIMER_DEALING_INTERVAL \in Nat \ {0}
    BY CountAssumption DEF TableInv, TypeOK, RoomTypeOK
  <1>5. TypeOK'
    <2>1. RoomTypeOK'
      BY DEF TableInv, TypeOK, RoomTypeOK, ClearRound
    <2>2. TurnTypeOK'
      BY <1>1, <1>2, <1>3, <1>4 DEF TableInv, TypeOK, TurnTypeOK, ClearRound
    <2>3. aborted' \in BOOLEAN
      OBVIOUS
    <2>4. CardTypeOK' /\ PileTypeOK' /\ MarkTypeOK'
      BY <2>3, ClearRoundTypes
    <2> QED BY <2>1, <2>2, <2>4 DEF TypeOK
  <1>6. SeatsAgree'
    BY DEF TableInv, SeatsAgree, ClearRound
  <1>7. TurnSeated'
    <2>1. IsFiniteSet(1 .. Len(seq)) /\ Cardinality(1 .. Len(seq)) = Len(seq)
      BY <1>3, FS_Interval
    <2>2. seq \in Surjection(1 .. Len(seq), players)
      BY DEF Surjection, TableInv, SeatsAgree, TypeOK, RoomTypeOK
    <2>3. IsFiniteSet(players) /\ Cardinality(players) <= Len(seq)
      BY <2>1, <2>2, FS_Surjection
    <2>4. Cardinality(players) \in Nat
      BY <2>3, FS_CardinalityType
    <2>5. curr_players >= 2
      BY <1>3, <2>3, <2>4
    <2> QED BY <1>2, <1>3, <1>4, <2>5 DEF TurnSeated, Seated
  <1> QED BY <1>5, <1>6, <1>7 DEF TableInv

(* Where a cursor at the table of n ends up when the other seat i closes. *)
LEMMA SeatAfterRemoval ==
  ASSUME NEW n \in Nat, n >= 2, NEW i \in 0 .. n - 1, NEW k \in 0 .. n - 1,
         k # i
  PROVE  (IF k > i THEN k - 1 ELSE k) \in 0 .. n - 2
  OBVIOUS

(* A step around a table of two or more goes to somebody else. *)
LEMMA StepSeatMoves ==
  ASSUME NEW n \in Nat, n >= 2, NEW k \in 0 .. n - 1, NEW dir \in {-1, 1}
  PROVE  StepSeat(k, dir, n) # k
  BY DEF StepSeat

(* The cursor is at the table of the players who stay. *)
LEMMA CursorAfterLeaveInRange ==
  ASSUME TableInv, NEW u \in players, state = "playing"
  PROVE  CursorAfterLeave(u) \in 0 .. Len(seq) - 2
  <1> DEFINE i == SeatOf(u)
             moved == IF i = cursor
                      THEN game_cursor_move(cursor, direction, FALSE)
                      ELSE cursor
  <1>1. i \in 0 .. Len(seq) - 1
    BY SeatOfPlayer DEF TableInv
  <1>2. /\ Len(seq) \in Nat /\ curr_players = Len(seq) /\ Len(seq) >= 2
        /\ cursor \in 0 .. Len(seq) - 1 /\ direction \in {-1, 1}
    BY CurIsPlayer DEF TableInv, TurnSeated
  <1>3. moved \in 0 .. Len(seq) - 1 /\ moved # i
    <2>0. Len(seq) >= 1
      BY <1>2
    <2>1. game_cursor_move(cursor, direction, FALSE)
            = StepSeat(cursor, direction, curr_players)
      BY DEF game_cursor_move
    <2>2. StepSeat(cursor, direction, Len(seq)) \in 0 .. Len(seq) - 1
      BY <2>0, <1>2, StepSeatInRange, Zenon
    <2>3. StepSeat(cursor, direction, Len(seq)) # cursor
      BY <1>2, StepSeatMoves
    <2> QED BY <2>1, <2>2, <2>3, <1>1, <1>2
  <1>4. CursorAfterLeave(u) = IF moved < 0 THEN -2
                              ELSE IF moved > i THEN moved - 1 ELSE moved
    BY DEF CursorAfterLeave
  <1> HIDE DEF i, moved
  <1> QED BY <1>1, <1>2, <1>3, <1>4, SeatAfterRemoval

(* In any state the cursor after a leave is a number. *)
LEMMA CursorAfterLeaveType ==
  ASSUME TableInv, NEW u \in players
  PROVE  CursorAfterLeave(u) \in Int
  <1>1. CASE state = "playing"
    BY <1>1, CursorAfterLeaveInRange DEF TableInv, TypeOK, RoomTypeOK
  <1>2. CASE state # "playing"
    BY <1>2, SeatOfPlayer
       DEF CursorAfterLeave, TableInv, TypeOK, RoomTypeOK, TurnTypeOK
  <1> QED BY <1>1, <1>2

(* The end of a round: what game_over assigns is typed. *)
LEMMA GameOverTypes ==
  ASSUME TypeOK, NEW u \in Uid, NEW dir \in {-1, 1}, game_over(u, dir),
         UNCHANGED <<announced, aborted>>
  PROVE  TurnTypeOK' /\ CardTypeOK' /\ PileTypeOK' /\ MarkTypeOK'
  <1> USE DEF game_over
  <1>1. TurnTypeOK'
    BY DEF ClearRound, TypeOK, TurnTypeOK
  <1>2. CardTypeOK' /\ PileTypeOK' /\ MarkTypeOK'
    BY ClearRoundTypes DEF TypeOK, MarkTypeOK
  <1> QED BY <1>1, <1>2

LEMMA LeaveTable ==
  ASSUME TableInv, NEW u \in players, curr_players # 1, game_player_leave(u)
  PROVE  TableInv'
  <1> DEFINE left == RemoveSeat(seq, SeatOf(u))
             over == state = "playing" /\ curr_players = 2
  <1>1. /\ seq \in Seq(Uid) /\ Len(seq) \in Nat /\ curr_players = Len(seq)
        /\ players = {seq[i] : i \in 1 .. Len(seq)} /\ players \subseteq Uid
        /\ \A i, j \in 1 .. Len(seq) : seq[i] = seq[j] => i = j
    BY DEF TableInv, TypeOK, RoomTypeOK, SeatsAgree
  <1>2. SeatOf(u) \in 0 .. Len(seq) - 1 /\ seq[SeatOf(u) + 1] = u
    BY SeatOfPlayer DEF TableInv
  <1>3. Len(seq) >= 2
    BY <1>1, <1>2
  <1>4. /\ left \in Seq(Uid) /\ Len(left) = Len(seq) - 1
        /\ players \ {u} = {left[j] : j \in 1 .. Len(left)}
        /\ \A j, k \in 1 .. Len(left) : left[j] = left[k] => j = k
    BY RemoveSeatProps DEF TableInv
  <1> HIDE DEF left
  <1>5. /\ players' = players \ {u} /\ seq' = left
        /\ curr_players' = curr_players - 1
        /\ owner' = IF owner = u THEN left[1] ELSE owner
        /\ UNCHANGED <<max_players, aborted>>
    BY DEF game_player_leave, left
  <1>6. left[1] \in players \ {u}
    <2>1. 1 \in 1 .. Len(left)
      BY <1>1, <1>3, <1>4
    <2>2. left[1] \in {left[j] : j \in 1 .. Len(left)}
      BY <2>1
    <2> QED BY <2>2, <1>4
  <1>7. /\ curr_players' = Len(seq')
        /\ players' = {seq'[i] : i \in 1 .. Len(seq')}
        /\ \A i, j \in 1 .. Len(seq') : seq'[i] = seq'[j] => i = j
        /\ owner' \in players'
    <2>1. owner \in players
      BY DEF TableInv, SeatsAgree
    <2> QED BY <2>1, <1>1, <1>4, <1>5, <1>6
  <1>8. CASE over
    <2>1. game_over(left[1], direction) /\ UNCHANGED announced
      BY <1>8 DEF game_player_leave, left
    <2>2. direction \in {-1, 1}
      BY <1>8 DEF TableInv, TurnSeated
    <2>3. TurnTypeOK' /\ CardTypeOK' /\ PileTypeOK' /\ MarkTypeOK'
      BY <1>1, <1>5, <1>6, <2>1, <2>2, GameOverTypes DEF TableInv
    <2>4. RoomTypeOK'
      BY <1>1, <1>3, <1>4, <1>5, <1>6, <1>7, <2>1, <2>2
         DEF game_over, ClearRound, TableInv, TypeOK, RoomTypeOK
    <2>5. SeatsAgree'
      <3>1. last_win' \in players' /\ ready' = {}
        BY <1>5, <1>6, <2>1 DEF game_over, ClearRound
      <3> QED BY <1>7, <3>1 DEF SeatsAgree
    <2>6. TurnSeated'
      BY <2>1 DEF game_over, TurnSeated
    <2> QED BY <2>3, <2>4, <2>5, <2>6 DEF TableInv, TypeOK
  <1>9. CASE ~over
    <2>1. /\ cursor' = CursorAfterLeave(u)
          /\ timer' = IF game_state = "wait_player" /\ SeatOf(u) = cursor
                      THEN TIMER_DEALING_INTERVAL ELSE timer
          /\ heap' = heap \cup rest[u]
          /\ rest' = [rest EXCEPT ![u] = {}]
          /\ ready' = ready \ {u}
          /\ last_win' = LastWinAfterLeave(u)
          /\ announced' = ReadSeat(left, cursor')
          /\ UNCHANGED <<state, game_state, last_direction, deal_turn,
                         direction, dealer, history, pile, marks>>
      BY <1>9 DEF game_player_leave, left, Thinking
    <2>2. cursor' \in Int
      BY <2>1, CursorAfterLeaveType
    <2>3. announced' \in Uid \cup {Garbage}
      BY <1>4, <2>1, <2>2, ReadSeatType
    <2>4. timer' \in Nat /\ (timer > 0 => timer' > 0)
      BY <2>1, CountAssumption DEF TableInv, TypeOK, TurnTypeOK
    <2>5. TypeOK'
      <3>1. RoomTypeOK'
        BY <1>1, <1>3, <1>4, <1>5, <1>6, <2>1
           DEF LastWinAfterLeave, TableInv, TypeOK, RoomTypeOK
      <3>2. TurnTypeOK'
        BY <2>1, <2>2, <2>3, <2>4 DEF TableInv, TypeOK, TurnTypeOK
      <3>3. CardTypeOK'
        BY <1>1, <2>1 DEF TableInv, TypeOK, CardTypeOK
      <3>4. PileTypeOK' /\ MarkTypeOK'
        BY <1>5, <2>1 DEF TableInv, TypeOK, PileTypeOK, MarkTypeOK, pile, marks
      <3> QED BY <3>1, <3>2, <3>3, <3>4 DEF TypeOK
    <2>6. SeatsAgree'
      <3>1. last_win' \in players' \cup {NoUid} /\ ready' \subseteq players'
        BY <1>5, <2>1 DEF LastWinAfterLeave, TableInv, SeatsAgree
      <3> QED BY <1>7, <3>1 DEF SeatsAgree
    <2>7. TurnSeated'
      <3> SUFFICES ASSUME state = "playing"
                   PROVE  TurnSeated'
        BY <2>1 DEF TurnSeated
      <3>1. cursor' \in 0 .. Len(seq) - 2
        BY <2>1, CursorAfterLeaveInRange
      <3>2. curr_players' >= 2
        BY <1>1, <1>3, <1>5, <1>9
      <3>3. Seated(seq', cursor')
        BY <1>1, <1>4, <1>5, <3>1 DEF Seated
      <3> QED BY <2>1, <2>4, <3>2, <3>3 DEF TableInv, TurnSeated
    <2> QED BY <2>5, <2>6, <2>7 DEF TableInv
  <1> QED BY <1>8, <1>9

LEMMA LeaveOrEraseTable ==
  ASSUME TableInv, NEW u \in players, LeaveOrErase(u)
  PROVE  TableInv'
  BY EraseTable, LeaveTable DEF LeaveOrErase

(* A step that leaves the room alone keeps what TableInv says of the seats. *)
LEMMA SeatsKept ==
  ASSUME TableInv, UNCHANGED <<state, seats, ready, result>>
  PROVE  RoomTypeOK' /\ SeatsAgree'
  <1>1. RoomTypeOK'
    BY DEF TableInv, TypeOK, RoomTypeOK, seats, result
  <1>2. SeatsAgree'
    BY DEF TableInv, SeatsAgree, seats, result
  <1> QED BY <1>1, <1>2

LEMMA CardPlayTable ==
  ASSUME TableInv, state = "playing", NEW u \in players, NEW d,
         NEW with_uno, NEW chg, chg \in Colors \cup {COLOR_ALL},
         game_player_card_play(u, d, with_uno, chg)
  PROVE  TableInv'
  <1> DEFINE c    == face[d]
             hand == rest[u] \ {d}
             need == Cardinality(rest[u]) = 2
             dir  == IF get_func(c) = FUNC_REVERSE THEN -direction
                     ELSE direction
             from == IF u # Cur THEN SeatOf(u) ELSE cursor
             skip == get_func(c) = FUNC_SKIP
             count == Punishment(hand, c, need, with_uno)
  <1>1. /\ players \subseteq Uid /\ rest \in [Uid -> SUBSET Deck]
        /\ heap \subseteq Deck /\ history \subseteq Deck
    BY DEF TableInv, TypeOK, RoomTypeOK, CardTypeOK
  <1>2. d \in rest[u] /\ d \in Deck /\ u \in Uid
    BY <1>1 DEF game_player_card_play
  <1>3. /\ Len(seq) \in Nat /\ curr_players = Len(seq)
        /\ cursor \in 0 .. curr_players - 1 /\ direction \in {-1, 1}
    BY CurIsPlayer
  <1>4. dir \in {-1, 1}
    BY <1>3
  <1>5. PICK o \in game_card_heap_deal(heap, history \cup {d}, count) :
           IF hand \cup o.got = {}
           THEN game_over(u, dir) /\ UNCHANGED announced
           ELSE /\ rest' = [rest EXCEPT ![u] = hand \cup o.got]
                /\ heap' = o.heap /\ history' = o.history
                /\ last' = c
                /\ last_chg_color' = IF get_color(c) = COLOR_ALL THEN chg ELSE 0
                /\ draw' = AddPenalty(draw, c, MaxDraw)
                /\ direction' = dir
                /\ cursor' = game_cursor_move(from, dir, skip)
                /\ game_state' = "wait_player"
                /\ timer' = TIMER_PLAYER_THINKING
                /\ can_play_ahead' = TRUE
                /\ last_can_report' = ReportMark(u, need, with_uno)
                /\ Thinking(seq, cursor')
                /\ UNCHANGED <<state, ready, result, deal_turn, dealer>>
    BY DEF game_player_card_play
  <1>6. UNCHANGED <<seats, aborted>> /\ (get_color(c) = COLOR_ALL => chg \in Colors)
    BY DEF game_player_card_play
  <1>7. o.got \subseteq Deck /\ o.heap \subseteq Deck /\ o.history \subseteq Deck
    BY <1>1, <1>2, DealWithin
  <1> HIDE DEF c, hand, need, dir, from, skip, count
  <1>8. CASE hand \cup o.got = {}
    <2>1. game_over(u, dir) /\ UNCHANGED announced
      BY <1>5, <1>8
    <2>2. TurnTypeOK' /\ CardTypeOK' /\ PileTypeOK' /\ MarkTypeOK'
      BY <1>2, <1>4, <1>6, <2>1, GameOverTypes DEF TableInv
    <2>3. RoomTypeOK'
      BY <1>2, <1>4, <1>6, <2>1
         DEF game_over, ClearRound, TableInv, TypeOK, RoomTypeOK, seats
    <2>4. SeatsAgree'
      BY <1>6, <2>1 DEF game_over, ClearRound, TableInv, SeatsAgree, seats
    <2>5. TurnSeated'
      BY <2>1 DEF game_over, TurnSeated
    <2> QED BY <2>2, <2>3, <2>4, <2>5 DEF TableInv, TypeOK
  <1>9. CASE hand \cup o.got # {}
    <2>1. RoomTypeOK' /\ SeatsAgree'
      BY <1>5, <1>6, <1>9, SeatsKept
    <2>2. cursor' \in 0 .. curr_players - 1
      <3>1. from \in 0 .. curr_players - 1
        BY <1>3, SeatOfPlayer DEF from, TableInv
      <3>2. curr_players >= 1
        BY <1>3
      <3>3. skip \in BOOLEAN
        BY DEF skip
      <3>4. game_cursor_move(from, dir, skip) \in 0 .. curr_players - 1
        BY <1>3, <1>4, <3>1, <3>2, <3>3, CursorMoveInRange
      <3> QED BY <1>5, <1>9, <3>4
    <2>3. TurnTypeOK'
      <3>1. announced' \in Uid \cup {Garbage}
        BY <1>3, <1>5, <1>9, <2>2, ReadSeatType
           DEF Thinking, TableInv, TypeOK, RoomTypeOK
      <3> QED BY <1>3, <1>4, <1>5, <1>9, <2>2, <3>1, CountAssumption
              DEF TableInv, TypeOK, TurnTypeOK
    <2>4. CardTypeOK'
      BY <1>1, <1>2, <1>5, <1>7, <1>9 DEF CardTypeOK, hand
    <2>5. PileTypeOK'
      <3>1. last' \in Face
        BY <1>2, <1>5, <1>9 DEF Face, c
      <3>2. last_chg_color' \in Colors \cup {0}
        BY <1>5, <1>6, <1>9
      <3>3. draw' \in 0 .. MaxDraw
        BY <1>5, <1>9, AddPenaltyType DEF TableInv, TypeOK, PileTypeOK
      <3> QED BY <3>1, <3>2, <3>3 DEF PileTypeOK
    <2>6. MarkTypeOK'
      BY <1>2, <1>5, <1>6, <1>9
         DEF ReportMark, TableInv, TypeOK, MarkTypeOK
    <2>7. TurnSeated'
      <3>1. Seated(seq', cursor') /\ curr_players' >= 2 /\ state' = "playing"
        BY <1>3, <1>5, <1>6, <1>9, <2>2 DEF Seated, seats, TableInv, TurnSeated
      <3> QED BY <1>4, <1>5, <1>9, <3>1, CountAssumption DEF TurnSeated
    <2> QED BY <2>1, <2>3, <2>4, <2>5, <2>6, <2>7 DEF TableInv, TypeOK
  <1> QED BY <1>8, <1>9

LEMMA DealCardTable ==
  ASSUME TableInv, state = "playing", game_player_deal_card
  PROVE  TableInv'
  <1>1. /\ Len(seq) \in Nat /\ curr_players = Len(seq) /\ Cur \in Uid
        /\ cursor \in 0 .. curr_players - 1 /\ direction \in {-1, 1}
    BY CurIsPlayer
  <1>2. /\ draw' = 0 /\ game_state' = "wait_player"
        /\ timer' = TIMER_PLAYER_THINKING
        /\ last_can_report' = NoUid /\ can_play_ahead' = FALSE
        /\ announced' = ReadSeat(seq, cursor')
        /\ UNCHANGED <<state, seats, ready, result, direction, dealer,
                       deal_turn, last, last_chg_color, aborted>>
    BY DEF game_player_deal_card, Thinking
  <1>3. RoomTypeOK' /\ SeatsAgree'
    BY <1>2, SeatsKept
  <1>4. cursor' \in 0 .. curr_players - 1 /\ cursor' \in Int
    <2>1. curr_players >= 1
      BY <1>1
    <2>2. game_cursor_move(cursor, direction, FALSE) \in 0 .. curr_players - 1
      BY <1>1, <2>1, CursorMoveInRange
    <2>3. cursor' = game_cursor_move(cursor, direction, FALSE)
      BY DEF game_player_deal_card
    <2>4. cursor' \in 0 .. curr_players - 1
      BY <2>2, <2>3, Zenon
    <2> QED BY <1>1, <2>4
  <1>5. TurnTypeOK'
    <2>1. announced' \in Uid \cup {Garbage}
      BY <1>2, <1>4, ReadSeatType DEF TableInv, TypeOK, RoomTypeOK
    <2> QED BY <1>2, <1>4, <2>1, TimersPositive DEF TableInv, TypeOK, TurnTypeOK
  <1>6. CardTypeOK'
    BY <1>1, DealToTypes DEF game_player_deal_card, TableInv
  <1>7. PileTypeOK'
    BY <1>2, CountAssumption DEF TableInv, TypeOK, PileTypeOK
  <1>8. MarkTypeOK'
    BY <1>2 DEF TableInv, TypeOK, MarkTypeOK
  <1>9. TurnSeated'
    BY <1>1, <1>2, <1>4, TimersPositive
       DEF Seated, seats, TableInv, TurnSeated
  <1> QED BY <1>3, <1>5, <1>6, <1>7, <1>8, <1>9 DEF TableInv, TypeOK

LEMMA ReportTable ==
  ASSUME TableInv, state = "playing", game_player_report_no_uno
  PROVE  TableInv'
  <1> USE DEF game_player_report_no_uno
  <1>1. RoomTypeOK' /\ SeatsAgree'
    BY SeatsKept
  <1>2. TurnTypeOK'
    BY DEF TableInv, TypeOK, TurnTypeOK, turn
  <1>3. CardTypeOK'
    <2>1. CASE last_can_report \in players
      BY <2>1, DealToTypes DEF TableInv, TypeOK, RoomTypeOK
    <2>2. CASE last_can_report \notin players
      BY <2>2 DEF TableInv, TypeOK, CardTypeOK, cards
    <2> QED BY <2>1, <2>2
  <1>4. PileTypeOK'
    BY DEF TableInv, TypeOK, PileTypeOK, pile
  <1>5. MarkTypeOK'
    BY DEF TableInv, TypeOK, MarkTypeOK
  <1>6. TurnSeated'
    BY DEF TableInv, TurnSeated, Seated, turn, seats
  <1> QED BY <1>1, <1>2, <1>3, <1>4, <1>5, <1>6 DEF TableInv, TypeOK

LEMMA CountDownTable ==
  ASSUME TableInv, CountDown
  PROVE  TableInv'
  <1> USE DEF CountDown
  <1>1. RoomTypeOK' /\ SeatsAgree'
    BY SeatsKept
  <1>2. TurnTypeOK'
    BY DEF TableInv, TypeOK, TurnTypeOK
  <1>3. CardTypeOK' /\ PileTypeOK'
    BY DEF TableInv, TypeOK, CardTypeOK, PileTypeOK, cards, pile
  <1>4. MarkTypeOK'
    BY DEF TableInv, TypeOK, MarkTypeOK, marks
  <1>5. TurnSeated'
    BY DEF TableInv, TypeOK, TurnTypeOK, TurnSeated, Seated, seats
  <1> QED BY <1>1, <1>2, <1>3, <1>4, <1>5 DEF TableInv, TypeOK

LEMMA DealingTable ==
  ASSUME TableInv, UpdateDealing
  PROVE  TableInv'
  <1>1. /\ state = "playing"
        /\ game_state' \in {"dealing", "dealing_dealer"}
        /\ deal_turn' \in {0, deal_turn + 1}
        /\ timer' = TIMER_DEALING_INTERVAL
        /\ UNCHANGED <<state, seats, ready, result, direction, dealer, pile,
                       marks, announced, aborted>>
    BY DEF UpdateDealing, TimedOut
  <1>2. /\ Len(seq) \in Nat /\ curr_players = Len(seq) /\ Cur \in Uid
        /\ cursor \in 0 .. curr_players - 1 /\ direction \in {-1, 1}
    BY <1>1, CurIsPlayer
  <1>3. RoomTypeOK' /\ SeatsAgree'
    BY <1>1, SeatsKept
  <1>4. cursor' \in 0 .. curr_players - 1 /\ cursor' \in Int
    <2>1. curr_players >= 1
      BY <1>2
    <2>2. game_cursor_move(cursor, direction, FALSE) \in 0 .. curr_players - 1
      BY <1>2, <2>1, CursorMoveInRange
    <2>3. cursor' = game_cursor_move(cursor, direction, FALSE)
      BY DEF UpdateDealing
    <2>4. cursor' \in 0 .. curr_players - 1
      BY <2>2, <2>3, Zenon
    <2> QED BY <1>2, <2>4
  <1>5. TurnTypeOK'
    BY <1>1, <1>4, TimersPositive DEF TableInv, TypeOK, TurnTypeOK
  <1>6. CardTypeOK'
    BY <1>2, DealToTypes DEF UpdateDealing, TableInv
  <1>7. PileTypeOK'
    BY <1>1 DEF TableInv, TypeOK, PileTypeOK, pile
  <1>8. MarkTypeOK'
    BY <1>1 DEF TableInv, TypeOK, MarkTypeOK, marks
  <1>9. TurnSeated'
    BY <1>1, <1>2, <1>4, TimersPositive
       DEF Seated, seats, TableInv, TurnSeated
  <1> QED BY <1>3, <1>5, <1>6, <1>7, <1>8, <1>9 DEF TableInv, TypeOK

LEMMA DealingDealerTable ==
  ASSUME TableInv, UpdateDealingDealer
  PROVE  TableInv'
  <1> USE DEF UpdateDealingDealer, TimedOut
  <1>1. RoomTypeOK' /\ SeatsAgree'
    BY SeatsKept
  <1>2. TurnTypeOK'
    BY CountAssumption DEF TableInv, TypeOK, TurnTypeOK
  <1>3. CardTypeOK'
    BY CurIsPlayer, DealToTypes DEF TableInv
  <1>4. PileTypeOK'
    BY DEF TableInv, TypeOK, PileTypeOK, pile
  <1>5. MarkTypeOK'
    BY DEF TableInv, TypeOK, MarkTypeOK
  <1>6. TurnSeated'
    BY CountAssumption DEF TableInv, TurnSeated, Seated, seats
  <1> QED BY <1>1, <1>2, <1>3, <1>4, <1>5, <1>6 DEF TableInv, TypeOK

LEMMA FirstCardTable ==
  ASSUME TableInv, UpdateSelectFirstCard
  PROVE  TableInv'
  <1> USE DEF UpdateSelectFirstCard, TimedOut
  <1>1. RoomTypeOK' /\ SeatsAgree'
    BY SeatsKept
  <1>2. TurnTypeOK'
    <2>1. announced' \in Uid \cup {Garbage}
      BY ReadSeatType DEF Thinking, TableInv, TypeOK, RoomTypeOK, TurnTypeOK
    <2> QED BY <2>1, CountAssumption DEF TableInv, TypeOK, TurnTypeOK
  <1>3. PICK o \in game_card_heap_deal(heap, history, 1) :
          /\ heap' = o.heap
          /\ history' = o.history \cup o.got
          /\ last' \in IF o.got = {} THEN {NoCard} ELSE {face[d] : d \in o.got}
          /\ aborted' = (o.got = {})
    OBVIOUS
  <1>4. o.got \subseteq Deck /\ o.heap \subseteq Deck /\ o.history \subseteq Deck
    BY DealWithin DEF TableInv, TypeOK, CardTypeOK
  <1>5. CardTypeOK'
    BY <1>3, <1>4 DEF TableInv, TypeOK, CardTypeOK
  <1>6. PileTypeOK'
    <2>1. last' \in Face \cup {NoCard}
      BY <1>3, <1>4 DEF Face
    <2> QED BY <2>1 DEF TableInv, TypeOK, PileTypeOK
  <1>7. MarkTypeOK'
    BY <1>3 DEF TableInv, TypeOK, MarkTypeOK, marks
  <1>8. TurnSeated'
    BY CountAssumption DEF TableInv, TurnSeated, Seated, seats
  <1> QED BY <1>1, <1>2, <1>5, <1>6, <1>7, <1>8 DEF TableInv, TypeOK

LEMMA WaitPlayerTable ==
  ASSUME TableInv, UpdateWaitPlayer
  PROVE  TableInv'
  <1>1. state = "playing"
    BY DEF UpdateWaitPlayer, TimedOut
  <1>2. CASE game_player_deal_card
    BY <1>1, <1>2, DealCardTable
  <1>3. ASSUME NEW d \in rest[Cur], NEW uno, NEW chg \in Named(d, AutoColors(rest[Cur])),
               game_player_card_play(Cur, d, uno, chg)
        PROVE  TableInv'
    <2>1. AutoColors(rest[Cur]) \subseteq Colors
      BY DEF AutoColors, Colors
    <2>2. chg \in Colors \cup {COLOR_ALL}
      BY <2>1, <1>3 DEF Named
    <2> QED BY <1>1, <1>3, <2>2, CurIsPlayer, CardPlayTable
  <1> QED BY <1>2, <1>3 DEF UpdateWaitPlayer

LEMMA TableInductive == TableInv /\ [Next]_vars => TableInv'
  <1> SUFFICES ASSUME TableInv, [Next]_vars
               PROVE  TableInv'
    OBVIOUS
  <1>1. ASSUME NEW u \in Uid, Request(u)
        PROVE  TableInv'
    <2>1. ASSUME NEW n \in PlayerCounts, create_room_req(u, n)
          PROVE  TableInv'
      BY <2>1, CreateTable
    <2>2. CASE enter_room_req(u)
      BY <2>2, EnterTable
    <2>3. CASE leave_room_req(u)
      BY <2>3, LeaveOrEraseTable DEF leave_room_req
    <2>4. ASSUME NEW v \in Uid, room_kickout_player_req(u, v)
          PROVE  TableInv'
      BY <2>4, LeaveOrEraseTable DEF room_kickout_player_req
    <2>5. CASE get_ready_req(u)
      BY <2>5, ReadyTable
    <2>6. CASE shuffle_room_seats_req(u)
      BY <2>6, ShuffleTable
    <2>7. CASE start_game_req(u)
      BY <2>7, StartTable
    <2>8. ASSUME NEW d \in rest[u], NEW with_uno \in BOOLEAN,
                 NEW chg \in Named(d, Colors),
                 game_play_card_req(u, d, with_uno, chg)
          PROVE  TableInv'
      <3>1. chg \in Colors \cup {COLOR_ALL}
        BY <2>8 DEF Named
      <3> QED BY <2>8, <3>1, CardPlayTable DEF game_play_card_req
    <2>9. CASE game_deal_card_req(u)
      BY <2>9, DealCardTable DEF game_deal_card_req
    <2>10. CASE game_report_no_uno_req(u)
      BY <2>10, ReportTable DEF game_report_no_uno_req
    <2> QED BY <1>1, <2>1, <2>2, <2>3, <2>4, <2>5, <2>6, <2>7, <2>8, <2>9,
               <2>10 DEF Request
  <1>2. CASE Tick
    BY <1>2, CountDownTable, DealingTable, DealingDealerTable, FirstCardTable,
       WaitPlayerTable DEF Tick, game_update
  <1>3. CASE UNCHANGED vars
    <2> USE <1>3 DEF vars, seats, result, turn, cards, pile, marks
    <2>1. RoomTypeOK' /\ SeatsAgree'
      BY SeatsKept
    <2>2. TurnTypeOK' /\ CardTypeOK' /\ PileTypeOK'
      BY DEF TableInv, TypeOK, TurnTypeOK, CardTypeOK, PileTypeOK
    <2>3. MarkTypeOK'
      BY DEF TableInv, TypeOK, MarkTypeOK
    <2>4. TurnSeated'
      BY DEF TableInv, TurnSeated, Seated
    <2> QED BY <2>1, <2>2, <2>3, <2>4 DEF TableInv, TypeOK
  <1> QED BY <1>1, <1>2, <1>3 DEF Next, Gone

(* In every behaviour, for any users, deck and constants, all state of the *)
(* room keeps its type, the three records of the seats agree, and a        *)
(* running round has a seated player to wait for.                          *)
THEOREM TableAlways == Spec => [](TypeOK /\ SeatsAgree /\ TurnSeated)
  <1>1. Spec => []TableInv
    BY InitTable, TableInductive, PTL DEF Spec
  <1> QED BY <1>1, PTL DEF TableInv

(* All state of Room keeps its type, the cursor its range included,        *)
(* whatever order requests, ticks and leaves come in.                      *)
THEOREM GameTypeOK == Spec => []TypeOK
  BY TableAlways, PTL

(* While a round runs the cursor of Room stands at a seated player, also   *)
(* after leaves, reversals and skips.                                      *)
THEOREM TurnAlwaysSeated == Spec => []TurnSeated
  BY TableAlways, PTL

-----------------------------------------------------------------------------
(***************************************************************************)
(* Conservation of cards.  Every step during a round moves cards between   *)
(* the heap, the discard pile and one hand.                                *)
(***************************************************************************)

(* A step that redistributes the cards of the heap, the discard pile and   *)
(* one hand among these three keeps all cards.                             *)
LEMMA CardsMoved ==
  ASSUME CardsConserved, NEW u \in Uid, state' = state,
         heap' \cup history' \cup rest'[u] = heap \cup history \cup rest[u],
         heap' \cap history' = {},
         rest'[u] \cap (heap' \cup history') = {},
         \A v \in Uid \ {u} : rest'[v] = rest[v],
         \A v \in Uid \ players' : rest'[v] = {}
  PROVE  CardsConserved'
  <1> DEFINE pool  == heap \cup history \cup rest[u]
             others == UNION {rest[v] : v \in Uid \ {u}}
             all   == IF state = "playing" THEN Deck ELSE {}
  <1>1. heap \cup history \cup UNION {rest[v] : v \in Uid} = all
    BY DEF CardsConserved
  <1>2. \A v \in Uid \ {u} : rest[v] \cap pool = {}
    BY DEF CardsConserved
  <1>3. \A v \in Uid \ {u} : rest'[v] \cap (heap' \cup history') = {}
                             /\ rest'[v] \cap rest'[u] = {}
    BY <1>2
  <1>4. heap' \cup history' \cup UNION {rest'[v] : v \in Uid} = all
    <2>1. UNION {rest[v] : v \in Uid} = rest[u] \cup others
      BY Zenon
    <2>2. UNION {rest'[v] : v \in Uid}
            = rest'[u] \cup UNION {rest'[v] : v \in Uid \ {u}}
      BY Zenon
    <2>3. UNION {rest'[v] : v \in Uid \ {u}} = others
      BY Zenon
    <2> HIDE DEF others, all
    <2> QED BY <1>1, <2>1, <2>2, <2>3
  <1>5. \A v \in Uid : rest'[v] \cap (heap' \cup history') = {}
    BY <1>3
  <1>6. \A v, w \in Uid : v # w => rest'[v] \cap rest'[w] = {}
    <2> SUFFICES ASSUME NEW v \in Uid, NEW w \in Uid, v # w
                 PROVE  rest'[v] \cap rest'[w] = {}
      OBVIOUS
    <2>1. CASE v = u \/ w = u
      BY <2>1, <1>3
    <2>2. CASE v # u /\ w # u
      BY <2>2 DEF CardsConserved
    <2> QED BY <2>1, <2>2
  <1> QED BY <1>4, <1>5, <1>6 DEF CardsConserved

(* Cards dealt to a player come from the heap and the discard pile. *)
LEMMA DealKeepsCards ==
  ASSUME TableInv, CardsConserved, NEW u \in players, NEW count,
         DealTo(u, count), UNCHANGED <<state, players>>
  PROVE  CardsConserved'
  <1>1. PICK o \in game_card_heap_deal(heap, history, count) :
          /\ rest' = [rest EXCEPT ![u] = @ \cup o.got]
          /\ heap' = o.heap /\ history' = o.history
    BY DEF DealTo
  <1>2. /\ o.got \cup o.heap \cup o.history = heap \cup history
        /\ o.got \cap o.heap = {} /\ o.got \cap o.history = {}
        /\ o.heap \cap o.history = {}
    BY DealSplits DEF CardsConserved
  <1>3. rest \in [Uid -> SUBSET Deck] /\ u \in Uid
    BY DEF TableInv, TypeOK, RoomTypeOK, CardTypeOK
  <1>4. rest'[u] = rest[u] \cup o.got /\ \A v \in Uid \ {u} : rest'[v] = rest[v]
    BY <1>1, <1>3
  <1>5. rest[u] \cap (heap \cup history) = {}
    BY <1>3 DEF CardsConserved
  <1>6. /\ heap' \cup history' \cup rest'[u] = heap \cup history \cup rest[u]
        /\ heap' \cap history' = {} /\ rest'[u] \cap (heap' \cup history') = {}
    BY <1>1, <1>2, <1>4, <1>5
  <1>7. \A v \in Uid \ players' : rest'[v] = {}
    BY <1>4 DEF CardsConserved
  <1> QED BY <1>3, <1>4, <1>6, <1>7, CardsMoved

(* A round that is over or not yet begun: the table is bare. *)
LEMMA ClearedCards ==
  ASSUME ClearRound, heap' = IF state' = "playing" THEN Deck ELSE {}
  PROVE  CardsConserved'
  <1>1. rest' = [v \in Uid |-> {}] /\ history' = {}
    BY DEF ClearRound
  <1>2. \A v \in Uid : rest'[v] = {}
    BY <1>1
  <1>3. UNION {rest'[v] : v \in Uid} = {}
    BY <1>2, Zenon
  <1> QED BY <1>1, <1>2, <1>3 DEF CardsConserved

(* Steps that touch no card. *)
LEMMA CardsUntouched ==
  ASSUME CardsConserved, UNCHANGED <<state, heap, history, rest>>,
         players \subseteq players'
  PROVE  CardsConserved'
  BY DEF CardsConserved

LEMMA LeaveCards ==
  ASSUME TableInv, CardsConserved, NEW u \in players, curr_players # 1,
         game_player_leave(u)
  PROVE  CardsConserved'
  <1>1. CASE state = "playing" /\ curr_players = 2
    BY <1>1, ClearedCards DEF game_player_leave, game_over
  <1>2. CASE ~(state = "playing" /\ curr_players = 2)
    <2>1. /\ players' = players \ {u} /\ state' = state
          /\ heap' = heap \cup rest[u] /\ history' = history
          /\ rest' = [rest EXCEPT ![u] = {}]
      BY <1>2 DEF game_player_leave
    <2>2. rest \in [Uid -> SUBSET Deck] /\ u \in Uid
      BY DEF TableInv, TypeOK, RoomTypeOK, CardTypeOK
    <2>3. rest'[u] = {} /\ \A v \in Uid \ {u} : rest'[v] = rest[v]
      BY <2>1, <2>2
    <2>4. heap \cap history = {} /\ rest[u] \cap (heap \cup history) = {}
      BY <2>2 DEF CardsConserved
    <2>5. \A v \in Uid \ players' : rest'[v] = {}
      BY <2>1, <2>3 DEF CardsConserved
    <2>6. /\ heap' \cup history' \cup rest'[u] = heap \cup history \cup rest[u]
          /\ heap' \cap history' = {} /\ rest'[u] \cap (heap' \cup history') = {}
      BY <2>1, <2>3, <2>4
    <2> QED BY <2>1, <2>2, <2>3, <2>5, <2>6, CardsMoved
  <1> QED BY <1>1, <1>2

LEMMA LeaveOrEraseCards ==
  ASSUME TableInv, CardsConserved, NEW u \in players, LeaveOrErase(u)
  PROVE  CardsConserved'
  <1>1. CASE EraseRoom
    BY <1>1, ClearedCards DEF EraseRoom
  <1> QED BY <1>1, LeaveCards DEF LeaveOrErase

LEMMA CardPlayCards ==
  ASSUME TableInv, CardsConserved, NEW u \in players, NEW d, NEW with_uno,
         NEW chg, game_player_card_play(u, d, with_uno, chg)
  PROVE  CardsConserved'
  <1> DEFINE hand  == rest[u] \ {d}
             count == Punishment(hand, face[d], Cardinality(rest[u]) = 2,
                                 with_uno)
             dir   == IF get_func(face[d]) = FUNC_REVERSE THEN -direction
                      ELSE direction
  <1>1. PICK o \in game_card_heap_deal(heap, history \cup {d}, count) :
           IF hand \cup o.got = {}
           THEN game_over(u, dir)
           ELSE /\ rest' = [rest EXCEPT ![u] = hand \cup o.got]
                /\ heap' = o.heap /\ history' = o.history
                /\ UNCHANGED state
    BY DEF game_player_card_play
  <1>2. d \in rest[u] /\ players' = players
    BY DEF game_player_card_play, seats
  <1> HIDE DEF hand, count, dir
  <1>3. CASE hand \cup o.got = {}
    BY <1>1, <1>3, ClearedCards DEF game_over
  <1>4. CASE hand \cup o.got # {}
    <2>1. /\ rest' = [rest EXCEPT ![u] = hand \cup o.got]
          /\ heap' = o.heap /\ history' = o.history
          /\ state' = state
      BY <1>1, <1>4
    <2>2. rest \in [Uid -> SUBSET Deck] /\ u \in Uid
      BY DEF TableInv, TypeOK, RoomTypeOK, CardTypeOK
    <2>3. heap \cap history = {} /\ rest[u] \cap (heap \cup history) = {}
      BY <2>2 DEF CardsConserved
    <2>4. heap \cap (history \cup {d}) = {}
      BY <1>2, <2>3
    <2>5. /\ o.got \cup o.heap \cup o.history = heap \cup (history \cup {d})
          /\ o.got \cap o.heap = {} /\ o.got \cap o.history = {}
          /\ o.heap \cap o.history = {}
      BY <2>4, DealSplits
    <2>6. rest'[u] = hand \cup o.got /\ \A v \in Uid \ {u} : rest'[v] = rest[v]
      BY <2>1, <2>2
    <2>7. /\ heap' \cup history' \cup rest'[u] = heap \cup history \cup rest[u]
          /\ heap' \cap history' = {} /\ rest'[u] \cap (heap' \cup history') = {}
      BY <1>2, <2>1, <2>3, <2>5, <2>6 DEF hand
    <2>8. \A v \in Uid \ players' : rest'[v] = {}
      BY <1>2, <2>6 DEF CardsConserved
    <2> QED BY <2>1, <2>2, <2>6, <2>7, <2>8, CardsMoved
  <1> QED BY <1>3, <1>4

LEMMA FirstCardCards ==
  ASSUME TableInv, CardsConserved, UpdateSelectFirstCard
  PROVE  CardsConserved'
  <1>1. PICK o \in game_card_heap_deal(heap, history, 1) :
          heap' = o.heap /\ history' = o.history \cup o.got
    BY DEF UpdateSelectFirstCard
  <1>2. Cur \in players /\ Cur \in Uid
    BY CurIsPlayer DEF UpdateSelectFirstCard, TimedOut
  <1>3. /\ o.got \cup o.heap \cup o.history = heap \cup history
        /\ o.got \cap o.heap = {} /\ o.got \cap o.history = {}
        /\ o.heap \cap o.history = {}
    BY DealSplits DEF CardsConserved
  <1>4. rest' = rest /\ state' = state /\ players' = players
    BY DEF UpdateSelectFirstCard, seats
  <1>5. rest[Cur] \cap (heap \cup history) = {}
    BY <1>2 DEF CardsConserved
  <1>6. /\ heap' \cup history' \cup rest'[Cur] = heap \cup history \cup rest[Cur]
        /\ heap' \cap history' = {}
        /\ rest'[Cur] \cap (heap' \cup history') = {}
    BY <1>1, <1>3, <1>4, <1>5
  <1>7. \A v \in Uid \ players' : rest'[v] = {}
    BY <1>4 DEF CardsConserved
  <1> QED BY <1>2, <1>4, <1>6, <1>7, CardsMoved

LEMMA DealCardCards ==
  ASSUME TableInv, CardsConserved, state = "playing", game_player_deal_card
  PROVE  CardsConserved'
  BY CurIsPlayer, DealKeepsCards DEF game_player_deal_card, seats

LEMMA ReportCards ==
  ASSUME TableInv, CardsConserved, game_player_report_no_uno
  PROVE  CardsConserved'
  <1>1. UNCHANGED <<state, players>>
    BY DEF game_player_report_no_uno, seats
  <1>2. CASE last_can_report \in players
    BY <1>1, <1>2, DealKeepsCards DEF game_player_report_no_uno
  <1>3. CASE last_can_report \notin players
    BY <1>1, <1>3, CardsUntouched DEF game_player_report_no_uno, cards
  <1> QED BY <1>2, <1>3

LEMMA CardsInductive ==
  TableInv /\ CardsConserved /\ [Next]_vars => CardsConserved'
  <1> SUFFICES ASSUME TableInv, CardsConserved, [Next]_vars
               PROVE  CardsConserved'
    OBVIOUS
  <1>1. ASSUME NEW u \in Uid, Request(u)
        PROVE  CardsConserved'
    <2>1. ASSUME NEW n \in PlayerCounts, create_room_req(u, n)
          PROVE  CardsConserved'
      BY <2>1, CardsUntouched DEF create_room_req, cards
    <2>2. CASE enter_room_req(u)
      BY <2>2, CardsUntouched DEF enter_room_req, cards
    <2>3. CASE leave_room_req(u)
      BY <2>3, LeaveOrEraseCards DEF leave_room_req
    <2>4. ASSUME NEW v \in Uid, room_kickout_player_req(u, v)
          PROVE  CardsConserved'
      BY <2>4, LeaveOrEraseCards DEF room_kickout_player_req
    <2>5. CASE get_ready_req(u)
      BY <2>5, CardsUntouched DEF get_ready_req, cards, seats
    <2>6. CASE shuffle_room_seats_req(u)
      BY <2>6, CardsUntouched DEF shuffle_room_seats_req, cards
    <2>7. CASE start_game_req(u)
      BY <2>7, ClearedCards DEF start_game_req, game_start
    <2>8. ASSUME NEW d \in rest[u], NEW with_uno \in BOOLEAN,
                 NEW chg \in Named(d, Colors),
                 game_play_card_req(u, d, with_uno, chg)
          PROVE  CardsConserved'
      BY <2>8, CardPlayCards DEF game_play_card_req
    <2>9. CASE game_deal_card_req(u)
      BY <2>9, DealCardCards DEF game_deal_card_req
    <2>10. CASE game_report_no_uno_req(u)
      BY <2>10, ReportCards DEF game_report_no_uno_req
    <2> QED BY <1>1, <2>1, <2>2, <2>3, <2>4, <2>5, <2>6, <2>7, <2>8, <2>9,
               <2>10 DEF Request
  <1>2. CASE Tick
    <2>1. CASE CountDown
      BY <2>1, CardsUntouched DEF CountDown, cards, seats
    <2>2. CASE UpdateDealing
      BY <2>2, CurIsPlayer, DealKeepsCards DEF UpdateDealing, TimedOut, seats
    <2>3. CASE UpdateDealingDealer
      BY <2>3, CurIsPlayer, DealKeepsCards
         DEF UpdateDealingDealer, TimedOut, seats
    <2>4. CASE UpdateSelectFirstCard
      BY <2>4, FirstCardCards
    <2>5. CASE UpdateWaitPlayer
      <3>1. state = "playing" /\ Cur \in players
        BY <2>5, CurIsPlayer DEF UpdateWaitPlayer, TimedOut
      <3> QED BY <2>5, <3>1, DealCardCards, CardPlayCards DEF UpdateWaitPlayer
    <2> QED BY <1>2, <2>1, <2>2, <2>3, <2>4, <2>5 DEF Tick, game_update
  <1>3. CASE UNCHANGED vars
    BY <1>3, CardsUntouched DEF vars, seats, cards
  <1> QED BY <1>1, <1>2, <1>3 DEF Next, Gone

(* No card is ever lost, doubled or left behind, for any deck, any number  *)
(* of players and any penalty and hand sizes.                              *)
THEOREM CardsAlwaysConserved == Spec => []CardsConserved
  <1>1. Init => CardsConserved
    <2> SUFFICES ASSUME Init PROVE CardsConserved
      OBVIOUS
    <2>1. \A v \in Uid : rest[v] = {}
      BY DEF Init
    <2>2. UNION {rest[v] : v \in Uid} = {}
      BY <2>1, Zenon
    <2> QED BY <2>1, <2>2 DEF Init, CardsConserved
  <1>2. Spec => [](TypeOK /\ SeatsAgree /\ TurnSeated)
    BY TableAlways
  <1>3. Spec => []TableInv
    BY <1>2, PTL DEF TableInv
  <1> QED BY <1>1, <1>3, CardsInductive, PTL DEF Spec
=============================================================================
