---------------------------- MODULE UnoDealProofs ----------------------------
(***************************************************************************)
(* Proof that UnoGame deals evenly, for every number of players, every     *)
(* deck that game_start accepts, every size of the starting hands and both *)
(* directions.                                                             *)
(***************************************************************************)
EXTENDS UnoRoundProofs

(***************************************************************************)
(* How many seats k is away from seat f, going around in direction dir.    *)
(***************************************************************************)
Turns(f, k, dir, n) ==
  IF dir = 1 THEN IF k >= f THEN k - f ELSE k - f + n
  ELSE IF k <= f THEN f - k ELSE f - k + n

(* A seat is fewer than n seats away, only f itself is 0 seats away, and   *)
(* no two seats are equally far away.                                      *)
LEMMA TurnsRange ==
  ASSUME NEW n \in Nat, NEW f \in 0 .. n - 1, NEW k \in 0 .. n - 1,
         NEW dir \in {-1, 1}
  PROVE  /\ Turns(f, k, dir, n) \in 0 .. n - 1
         /\ Turns(f, f, dir, n) = 0
         /\ \A j \in 0 .. n - 1 : Turns(f, j, dir, n) = Turns(f, k, dir, n) => j = k
  BY DEF Turns

(* A step around the table goes one seat further, and at last back to f. *)
LEMMA TurnsStep ==
  ASSUME NEW n \in Nat, n >= 2, NEW f \in 0 .. n - 1, NEW k \in 0 .. n - 1,
         NEW dir \in {-1, 1}
  PROVE  Turns(f, StepSeat(k, dir, n), dir, n)
           = IF Turns(f, k, dir, n) = n - 1 THEN 0 ELSE Turns(f, k, dir, n) + 1
  BY DEF Turns, StepSeat

(* After q rounds and r turns, at most size rounds are complete, and the   *)
(* last one is complete exactly when n * size cards have been dealt.       *)
LEMMA RoundsDealt ==
  ASSUME NEW n \in Nat, NEW size \in Nat, NEW q \in Nat, q < size,
         NEW r \in 0 .. n - 1
  PROVE  /\ q * n + r + 1 <= n * size
         /\ q * n + r + 1 = n * size <=> (r = n - 1 /\ q + 1 = size)
         /\ (q + 1) * n = q * n + n
  <1>1. (q + 1) * n = q * n + n
    OBVIOUS
  <1>2. PICK m \in Nat : size = (q + 1) + m
    <2>1. size - (q + 1) \in Nat /\ size = (q + 1) + (size - (q + 1))
      OBVIOUS
    <2> QED BY <2>1
  <1>3. n * size = q * n + n + m * n
    BY <1>2
  <1>4. m * n \in Nat /\ (m # 0 => m * n >= n)
    BY <1>2
  <1>5. m = 0 => m * n = 0
    BY <1>2
  <1>6. q * n \in Nat
    OBVIOUS
  <1> DEFINE a == q * n
             b == m * n
             t == n * size
  <1>7. a \in Nat /\ b \in Nat /\ t = a + n + b /\ (m # 0 => b >= n) /\ (m = 0 => b = 0)
    BY <1>3, <1>4, <1>5, <1>6
  <1> HIDE DEF a, b, t
  <1>8. a + r + 1 <= t /\ (a + r + 1 = t <=> (r = n - 1 /\ m = 0))
    BY <1>7
  <1>9. m = 0 <=> q + 1 = size
    BY <1>2
  <1> QED BY <1>1, <1>8, <1>9 DEF a, t

(* One card dealt from a heap that has one goes into one hand. *)
LEMMA DealOne ==
  ASSUME TypeOK, CardsConserved, NEW u \in Uid, DealTo(u, 1), heap # {}
  PROVE  /\ Cardinality(heap') = Cardinality(heap) - 1
         /\ Cardinality(rest'[u]) = Cardinality(rest[u]) + 1
         /\ \A v \in Uid \ {u} : rest'[v] = rest[v]
  <1>1. /\ IsFiniteSet(heap) /\ IsFiniteSet(rest[u])
        /\ Cardinality(heap) \in Nat /\ Cardinality(rest[u]) \in Nat
        /\ rest \in [Uid -> SUBSET Deck]
    BY PilesFinite DEF TypeOK, CardTypeOK
  <1>2. Cardinality(heap) # 0
    BY <1>1, FS_EmptySet
  <1>3. PICK s \in SUBSET heap :
          /\ Cardinality(s) = 1 /\ heap' = heap \ s
          /\ rest' = [rest EXCEPT ![u] = @ \cup s]
    <2>1. PICK o \in game_card_heap_deal(heap, history, 1) :
            rest' = [rest EXCEPT ![u] = @ \cup o.got] /\ heap' = o.heap
      BY DEF DealTo
    <2>2. 1 - Cardinality(heap) <= 0
      BY <1>1, <1>2
    <2>3. PICK s \in SUBSET heap :
            Cardinality(s) = 1 /\ o = [got |-> s, heap |-> heap \ s, history |-> history]
      BY <2>2 DEF game_card_heap_deal
    <2> QED BY <2>1, <2>3
  <1>4. IsFiniteSet(s)
    BY <1>1, FS_Subset
  <1>5. PICK d : s = {d}
    BY <1>3, <1>4, FS_Singleton
  <1>6. d \in heap /\ d \notin rest[u]
    BY <1>3, <1>5 DEF CardsConserved
  <1>7. Cardinality(heap \ {d}) = Cardinality(heap) - 1
    BY <1>1, <1>6, FS_RemoveElement
  <1>8. Cardinality(rest[u] \cup {d}) = Cardinality(rest[u]) + 1
    BY <1>1, <1>6, FS_AddElement
  <1> QED BY <1>1, <1>3, <1>5, <1>7, <1>8

-----------------------------------------------------------------------------
(***************************************************************************)
(* The inductive invariant of dealing.  While starting hands are dealt,    *)
(* q full rounds and some turns of the next one are over, counted from the *)
(* dealer's seat f; whoever had a turn in the unfinished round is one card *)
(* ahead.  The heap has lost exactly the cards dealt: this is why it never *)
(* runs out and why the asserts on it hold.                                *)
(***************************************************************************)
HandSize(k) == Cardinality(rest[seq[k + 1]])

DealtSoFar(f, q) ==
  /\ dealer = seq[f + 1]
  /\ q < PLAYER_START_CARD_COUNT
  /\ deal_turn = q * curr_players + Turns(f, cursor, direction, curr_players)
  /\ \A k \in 0 .. curr_players - 1 :
       HandSize(k) = IF Turns(f, k, direction, curr_players)
                          < Turns(f, cursor, direction, curr_players)
                     THEN q + 1 ELSE q

\* Everyone has a starting hand, and the dealer, whose turn it is, has size
\* cards.
StartingHands(size) ==
  /\ Cur = dealer
  /\ \A k \in 0 .. curr_players - 1 :
       HandSize(k) = IF k = cursor THEN size ELSE PLAYER_START_CARD_COUNT

DealInv ==
  ~aborted =>
    /\ game_state = "dealing" =>
         /\ Cardinality(Deck) >= curr_players * PLAYER_START_CARD_COUNT
                                   + DEALER_START_CARD_EXT_COUNT
         /\ Cardinality(heap) = Cardinality(Deck) - deal_turn
         /\ \E f \in 0 .. curr_players - 1, q \in Nat : DealtSoFar(f, q)
    /\ game_state = "dealing_dealer" =>
         /\ deal_turn < DEALER_START_CARD_EXT_COUNT
         /\ Cardinality(heap) >= DEALER_START_CARD_EXT_COUNT - deal_turn
         /\ StartingHands(PLAYER_START_CARD_COUNT + deal_turn)
    /\ game_state = "select_first_card" =>
         StartingHands(PLAYER_START_CARD_COUNT + DEALER_START_CARD_EXT_COUNT)

LEMMA StartDeals ==
  ASSUME TableInv, NEW u \in Uid, start_game_req(u)
  PROVE  DealInv'
  <1>1. /\ players \subseteq Uid /\ players # {} /\ curr_players = Len(seq)
        /\ last_win \in players \cup {NoUid} /\ Len(seq) \in Nat
    BY DEF TableInv, TypeOK, RoomTypeOK, SeatsAgree, start_game_req
  <1>2. /\ dealer' \in players /\ cursor' = SeatOf(dealer')
        /\ direction' = -last_direction /\ heap' = Deck
        /\ game_state' = "dealing" /\ deal_turn' = 0
        /\ rest' = [v \in Uid |-> {}]
        /\ UNCHANGED <<seq, curr_players>>
    BY <1>1 DEF start_game_req, game_start, ClearRound, seats
  <1>3. cursor' \in 0 .. curr_players - 1 /\ seq[cursor' + 1] = dealer'
    BY <1>1, <1>2, SeatOfPlayer DEF TableInv
  <1>4. direction' \in {-1, 1}
    BY <1>2 DEF TableInv, TypeOK, RoomTypeOK
  <1>5. ASSUME ~aborted'
        PROVE  Cardinality(Deck) >= curr_players * PLAYER_START_CARD_COUNT
                                      + DEALER_START_CARD_EXT_COUNT
    <2> DEFINE need == curr_players * PLAYER_START_CARD_COUNT
                         + DEALER_START_CARD_EXT_COUNT
    <2>1. ~(Cardinality(Deck) < need)
      BY <1>5 DEF start_game_req, game_start
    <2>2. Cardinality(Deck) \in Nat
      BY DeckAssumption, FS_CardinalityType
    <2>3. need \in Nat
      BY <1>1, CountAssumption
    <2> HIDE DEF need
    <2>4. Cardinality(Deck) >= need
      BY <2>1, <2>2, <2>3
    <2> QED BY <2>4 DEF need
  <1>6. Cardinality(heap') = Cardinality(Deck) - deal_turn'
    <2>1. Cardinality(Deck) \in Nat
      BY DeckAssumption, FS_CardinalityType
    <2> QED BY <1>2, <2>1
  <1>7. DealtSoFar(cursor, 0)'
    <2>1. /\ Turns(cursor', cursor', direction', curr_players) = 0
          /\ \A k \in 0 .. curr_players - 1 :
               Turns(cursor', k, direction', curr_players) \in 0 .. curr_players - 1
      <3>1. curr_players \in Nat
        BY <1>1
      <3> QED BY <1>3, <1>4, <3>1, TurnsRange
    <2>2. \A k \in 0 .. curr_players - 1 : Cardinality(rest'[seq[k + 1]]) = 0
      <3> TAKE k \in 0 .. curr_players - 1
      <3>1. seq[k + 1] \in Uid
        BY <1>1 DEF TableInv, TypeOK, RoomTypeOK
      <3> QED BY <1>2, <3>1, FS_EmptySet
    <2>3. 0 < PLAYER_START_CARD_COUNT
      BY CountAssumption
    <2>4. deal_turn' = 0 * curr_players + 0
      BY <1>1, <1>2
    <2>5. \A k \in 0 .. curr_players - 1 :
            ~(Turns(cursor', k, direction', curr_players) < 0)
      BY <1>1, <2>1
    <2> QED BY <1>2, <1>3, <2>1, <2>2, <2>3, <2>4, <2>5 DEF DealtSoFar, HandSize
  <1>8. cursor' \in 0 .. curr_players' - 1 /\ 0 \in Nat
    BY <1>2, <1>3
  <1> QED BY <1>2, <1>5, <1>6, <1>7, <1>8 DEF DealInv

(* Dealing a card to the player on turn adds one card to the hand at the   *)
(* cursor's seat and changes no other.                                     *)
LEMMA DealAtCursor ==
  ASSUME TableInv, CardsConserved, state = "playing", heap # {},
         DealTo(Cur, 1), seq' = seq
  PROVE  /\ Cardinality(heap') = Cardinality(heap) - 1
         /\ \A k \in 0 .. curr_players - 1 :
              /\ HandSize(k) \in Nat
              /\ HandSize(k)' = IF k = cursor THEN HandSize(k) + 1 ELSE HandSize(k)
  <1>1. /\ Cur \in Uid /\ Len(seq) \in Nat /\ curr_players = Len(seq)
        /\ cursor \in 0 .. curr_players - 1 /\ TypeOK
    BY CurIsPlayer DEF TableInv
  <1>2. /\ Cardinality(heap') = Cardinality(heap) - 1
        /\ Cardinality(rest'[Cur]) = Cardinality(rest[Cur]) + 1
        /\ \A v \in Uid \ {Cur} : rest'[v] = rest[v]
    BY <1>1, DealOne
  <1>3. ASSUME NEW k \in 0 .. curr_players - 1
        PROVE  seq[k + 1] \in Uid /\ (k # cursor => seq[k + 1] # Cur)
    <2>1. k + 1 \in 1 .. Len(seq) /\ cursor + 1 \in 1 .. Len(seq)
      BY <1>1
    <2> QED BY <1>1, <2>1 DEF Cur, TableInv, TypeOK, RoomTypeOK, SeatsAgree
  <1>4. ASSUME NEW k \in 0 .. curr_players - 1
        PROVE  /\ HandSize(k) \in Nat
               /\ HandSize(k)' = IF k = cursor THEN HandSize(k) + 1 ELSE HandSize(k)
    <2>1. HandSize(k) \in Nat
      BY <1>1, <1>3, PilesFinite DEF HandSize
    <2>2. HandSize(k)' = Cardinality(rest'[seq[k + 1]])
      BY DEF HandSize
    <2>3. CASE k = cursor
      BY <1>2, <2>1, <2>2, <2>3 DEF HandSize, Cur
    <2>4. CASE k # cursor
      BY <1>2, <1>3, <2>1, <2>2, <2>4 DEF HandSize
    <2> QED BY <2>1, <2>3, <2>4
  <1> QED BY <1>2, <1>4

LEMMA DealingDeals ==
  ASSUME TableInv, CardsConserved, DealInv, ~aborted, UpdateDealing
  PROVE  DealInv'
  <1> DEFINE n == curr_players
             full == PLAYER_START_CARD_COUNT
             ext == DEALER_START_CARD_EXT_COUNT
             size == Cardinality(Deck)
  <1>1. /\ state = "playing" /\ game_state = "dealing"
        /\ cursor' = game_cursor_move(cursor, direction, FALSE)
        /\ IF deal_turn + 1 >= n * full
           THEN game_state' = "dealing_dealer" /\ deal_turn' = 0
           ELSE game_state' = "dealing" /\ deal_turn' = deal_turn + 1
        /\ UNCHANGED <<curr_players, seq, direction, dealer, aborted>>
        /\ DealTo(Cur, 1)
    BY DEF UpdateDealing, TimedOut, StartHandsDealt, seats
  <1>2. /\ n \in Nat /\ n >= 2 /\ cursor \in 0 .. n - 1 /\ direction \in {-1, 1}
        /\ deal_turn \in Nat
    BY <1>1, CurIsPlayer DEF TableInv, TurnSeated, TypeOK, TurnTypeOK
  <1>3. PICK f \in 0 .. n - 1, q \in Nat : DealtSoFar(f, q)
    BY <1>1 DEF DealInv
  <1> DEFINE r == Turns(f, cursor, direction, n)
             past(k) == Turns(f, k, direction, n)
  <1>4. /\ full \in Nat /\ ext \in Nat /\ ext > 0 /\ size \in Nat
        /\ size >= n * full + ext
        /\ Cardinality(heap) = size - deal_turn
    BY <1>1, CountAssumption, DeckAssumption, FS_CardinalityType DEF DealInv
  <1>5. /\ dealer = seq[f + 1] /\ q < full /\ deal_turn = q * n + r
        /\ \A k \in 0 .. n - 1 : HandSize(k) = IF past(k) < r THEN q + 1 ELSE q
    BY <1>3 DEF DealtSoFar
  <1>6. /\ r \in 0 .. n - 1
        /\ \A k \in 0 .. n - 1 : past(k) \in 0 .. n - 1 /\ (past(k) = r => k = cursor)
        /\ \A k \in 0 .. n - 1 : past(k) = 0 => k = f
    <2>1. r \in 0 .. n - 1
      BY <1>2, TurnsRange
    <2>2. ASSUME NEW k \in 0 .. n - 1
          PROVE  past(k) \in 0 .. n - 1 /\ (past(k) = r => k = cursor)
                 /\ (past(k) = 0 => k = f)
      <3>1. past(k) \in 0 .. n - 1 /\ past(f) = 0
        BY <1>2, TurnsRange
      <3>2. past(k) = r => k = cursor
        BY <1>2, TurnsRange
      <3>3. past(k) = past(f) => k = f
        BY <1>2, TurnsRange
      <3> QED BY <3>1, <3>2, <3>3
    <2> QED BY <2>1, <2>2
  <1>7. cursor' \in 0 .. n - 1 /\ past(cursor') = IF r = n - 1 THEN 0 ELSE r + 1
    <2>1. cursor' = StepSeat(cursor, direction, n)
      BY <1>1 DEF game_cursor_move
    <2>2. StepSeat(cursor, direction, n) \in 0 .. n - 1
      <3>1. n >= 1
        BY <1>2
      <3> QED BY <1>2, <3>1, StepSeatInRange
    <2>3. past(StepSeat(cursor, direction, n)) = IF r = n - 1 THEN 0 ELSE r + 1
      BY <1>2, TurnsStep
    <2> QED BY <2>1, <2>2, <2>3
  <1> DEFINE dealt == q * n
             whole == n * full
  <1>8. /\ dealt \in Nat /\ whole \in Nat
        /\ dealt + r + 1 <= whole
        /\ dealt + r + 1 = whole <=> (r = n - 1 /\ q + 1 = full)
        /\ (q + 1) * n = dealt + n
    <2>1. q * n \in Nat /\ n * full \in Nat
      BY <1>2, <1>4
    <2>2. n \in Nat /\ full \in Nat /\ q < full /\ r \in 0 .. n - 1
      BY <1>2, <1>4, <1>5, <1>6
    <2> HIDE DEF n, full, r
    <2>3. /\ q * n + r + 1 <= n * full
          /\ q * n + r + 1 = n * full <=> (r = n - 1 /\ q + 1 = full)
          /\ (q + 1) * n = q * n + n
      BY <2>2, RoundsDealt
    <2> QED BY <2>1, <2>3
  <1>9. heap # {}
    <2>1. deal_turn = dealt + r /\ size >= whole + ext
      BY <1>4, <1>5
    <2> HIDE DEF dealt, whole, r, size
    <2>2. Cardinality(heap) # 0
      BY <1>4, <1>6, <1>8, <2>1
    <2> QED BY <2>2, FS_EmptySet
  <1>10. /\ Cardinality(heap') = Cardinality(heap) - 1
         /\ \A k \in 0 .. n - 1 :
              /\ HandSize(k) \in Nat
              /\ HandSize(k)' = IF k = cursor THEN HandSize(k) + 1 ELSE HandSize(k)
    BY <1>1, <1>9, DealAtCursor
  <1>11. /\ \A k \in 0 .. n - 1 :
              HandSize(k)' = IF past(k) < r \/ past(k) = r THEN q + 1 ELSE q
    <2> SUFFICES ASSUME NEW k \in 0 .. n - 1
                 PROVE  HandSize(k)' = IF past(k) < r \/ past(k) = r THEN q + 1 ELSE q
      OBVIOUS
    <2>1. /\ HandSize(k)' = IF k = cursor THEN HandSize(k) + 1 ELSE HandSize(k)
          /\ HandSize(k) = IF past(k) < r THEN q + 1 ELSE q
          /\ past(k) \in 0 .. n - 1 /\ r \in 0 .. n - 1
          /\ past(k) = r <=> k = cursor
      BY <1>5, <1>6, <1>10
    <2> HIDE DEF past, r
    <2> QED BY <2>1
  <1>12. /\ curr_players' = n /\ seq' = seq /\ direction' = direction
         /\ dealer' = dealer /\ deal_turn = dealt + r
         /\ \A k : Turns(f, k, direction', curr_players') = past(k)
    BY <1>1, <1>5
  <1>13. CASE r # n - 1
    <2>1. game_state' = "dealing" /\ deal_turn' = dealt + (r + 1)
      <3>1. ~(deal_turn + 1 >= whole)
        <4> HIDE DEF dealt, whole, r, n
        <4> QED BY <1>6, <1>8, <1>12, <1>13
      <3> QED BY <1>1, <1>6, <1>8, <1>12, <3>1
    <2>2. past(cursor') = r + 1
      BY <1>7, <1>13
    <2>3. \A k \in 0 .. n - 1 :
            HandSize(k)' = IF past(k) < r + 1 THEN q + 1 ELSE q
      <3> HIDE DEF past, r
      <3> QED BY <1>6, <1>11
    <2>4. DealtSoFar(f, q)'
      <3> HIDE DEF past, r, dealt
      <3> QED BY <1>5, <1>12, <2>1, <2>2, <2>3 DEF DealtSoFar, dealt
    <2>5. Cardinality(heap') = size - deal_turn'
      <3> HIDE DEF dealt, r, size
      <3> QED BY <1>4, <1>6, <1>8, <1>10, <1>12, <2>1
    <2> QED BY <1>4, <1>12, <2>1, <2>4, <2>5 DEF DealInv
  <1>14. CASE r = n - 1
    <2>1. past(cursor') = 0 /\ cursor' = f
      BY <1>6, <1>7, <1>14
    <2>2. \A k \in 0 .. n - 1 : HandSize(k)' = q + 1
      <3> HIDE DEF past, r
      <3> QED BY <1>2, <1>6, <1>11, <1>14
    <2>3. CASE q + 1 # full
      <3>1. game_state' = "dealing" /\ deal_turn' = dealt + n
        <4>1. ~(deal_turn + 1 >= whole)
          <5> HIDE DEF dealt, whole, r, n
          <5> QED BY <1>6, <1>8, <1>12, <2>3
        <4> QED BY <1>1, <1>2, <1>6, <1>8, <1>12, <1>14, <4>1
      <3>2. DealtSoFar(f, q + 1)'
        <4>1. deal_turn' = (q + 1) * n + past(cursor') /\ q + 1 < full
          BY <1>2, <1>4, <1>5, <1>8, <2>1, <2>3, <3>1
        <4>2. \A k \in 0 .. n - 1 : ~(past(k) < past(cursor'))
          <5> HIDE DEF past
          <5> QED BY <1>6, <2>1
        <4> HIDE DEF past
        <4> QED BY <1>5, <1>12, <2>2, <4>1, <4>2 DEF DealtSoFar
      <3>3. Cardinality(heap') = size - deal_turn'
        <4> HIDE DEF dealt, r, size
        <4> QED BY <1>2, <1>4, <1>6, <1>8, <1>10, <1>12, <1>14, <3>1
      <3>4. q + 1 \in Nat
        OBVIOUS
      <3> QED BY <1>4, <1>12, <3>1, <3>2, <3>3, <3>4 DEF DealInv
    <2>4. CASE q + 1 = full
      <3>1. game_state' = "dealing_dealer" /\ deal_turn' = 0
        <4>1. deal_turn + 1 >= whole
          <5> HIDE DEF dealt, whole, r, n
          <5> QED BY <1>6, <1>8, <1>12, <1>14, <2>4
        <4> QED BY <1>1, <4>1
      <3>2. Cardinality(heap') >= ext
        <4>1. size >= whole + ext /\ dealt + r + 1 = whole
          BY <1>4, <1>8, <1>14, <2>4
        <4> HIDE DEF dealt, r, size, whole, ext
        <4> QED BY <1>4, <1>6, <1>8, <1>10, <1>12, <4>1
      <3>3. Cur' = dealer'
        BY <1>5, <1>12, <2>1 DEF Cur
      <3>4. StartingHands(full + 0)'
        <4>1. full + 0 = full
          BY <1>4
        <4> QED BY <1>12, <2>2, <2>4, <3>3, <4>1 DEF StartingHands
      <3>5. StartingHands(PLAYER_START_CARD_COUNT + deal_turn)'
        BY <3>1, <3>4 DEF StartingHands
      <3>6. 0 < ext /\ ext - 0 = ext
        BY <1>4
      <3> QED BY <3>1, <3>2, <3>5, <3>6 DEF DealInv
    <2> QED BY <2>3, <2>4
  <1> QED BY <1>13, <1>14

LEMMA DealerDeals ==
  ASSUME TableInv, CardsConserved, DealInv, ~aborted, UpdateDealingDealer
  PROVE  DealInv'
  <1> DEFINE n == curr_players
             full == PLAYER_START_CARD_COUNT
             ext == DEALER_START_CARD_EXT_COUNT
  <1>1. /\ state = "playing" /\ game_state = "dealing_dealer"
        /\ IF deal_turn + 1 >= ext
           THEN game_state' = "select_first_card" /\ deal_turn' = 0
           ELSE game_state' = "dealing_dealer" /\ deal_turn' = deal_turn + 1
        /\ UNCHANGED <<curr_players, seq, cursor, dealer>>
        /\ DealTo(Cur, 1)
    BY DEF UpdateDealingDealer, TimedOut, seats
  <1>2. /\ full \in Nat /\ ext \in Nat /\ deal_turn \in Nat
        /\ Cardinality(heap) \in Nat
    BY CountAssumption, PilesFinite DEF TableInv, TypeOK, TurnTypeOK
  <1>3. /\ deal_turn < ext /\ Cardinality(heap) >= ext - deal_turn
        /\ Cur = dealer
        /\ \A k \in 0 .. n - 1 :
             HandSize(k) = IF k = cursor THEN full + deal_turn ELSE full
    BY <1>1 DEF DealInv, StartingHands
  <1>4. heap # {}
    <2>1. Cardinality(heap) # 0
      BY <1>2, <1>3
    <2> QED BY <2>1, FS_EmptySet
  <1>5. /\ Cardinality(heap') = Cardinality(heap) - 1
        /\ \A k \in 0 .. n - 1 :
             HandSize(k)' = IF k = cursor THEN HandSize(k) + 1 ELSE HandSize(k)
    BY <1>1, <1>4, DealAtCursor
  <1>6. \A k \in 0 .. n - 1 :
          HandSize(k)' = IF k = cursor THEN full + (deal_turn + 1) ELSE full
    BY <1>2, <1>3, <1>5
  <1>7. Cur' = dealer'
    BY <1>1, <1>3 DEF Cur
  <1>8. CASE deal_turn + 1 >= ext
    <2>1. deal_turn + 1 = ext
      BY <1>2, <1>3, <1>8
    <2>2. StartingHands(PLAYER_START_CARD_COUNT + DEALER_START_CARD_EXT_COUNT)'
      BY <1>1, <1>6, <1>7, <2>1 DEF StartingHands
    <2> QED BY <1>1, <1>8, <2>2 DEF DealInv
  <1>9. CASE ~(deal_turn + 1 >= ext)
    <2>1. game_state' = "dealing_dealer" /\ deal_turn' = deal_turn + 1
      BY <1>1, <1>9
    <2>2. deal_turn' < ext /\ Cardinality(heap') >= ext - deal_turn'
      BY <1>2, <1>3, <1>5, <1>9, <2>1
    <2>3. StartingHands(PLAYER_START_CARD_COUNT + deal_turn)'
      BY <1>1, <1>6, <1>7, <2>1 DEF StartingHands
    <2> QED BY <2>1, <2>2, <2>3 DEF DealInv
  <1> QED BY <1>8, <1>9

(* A process that has aborted does nothing more. *)
LEMMA AbortedStops ==
  ASSUME aborted, [Next]_vars
  PROVE  UNCHANGED vars
  BY DEF Next, Tick, Gone

(* Steps that leave the table, the hands and the count alone. *)
LEMMA DealKept ==
  ASSUME DealInv,
         UNCHANGED <<game_state, aborted, curr_players, seq, cursor, direction,
                     dealer, deal_turn, heap, rest>>
  PROVE  DealInv'
  BY DEF DealInv, DealtSoFar, StartingHands, HandSize, Cur

LEMMA DealInductive ==
  TableInv /\ RoundInv /\ CardsConserved /\ DealInv /\ [Next]_vars => DealInv'
  <1> SUFFICES ASSUME TableInv, RoundInv, CardsConserved, DealInv, [Next]_vars
               PROVE  DealInv'
    OBVIOUS
  <1>0. UNCHANGED vars => DealInv'
    BY DealKept DEF vars, seats, turn, cards
  <1>1. CASE aborted
    BY <1>0, <1>1, AbortedStops
  <1>2. CASE game_state' \in {"idle", "wait_player"}
    BY <1>2 DEF DealInv
  <1>3. CASE ~aborted /\ state = "idle" /\ game_state' \notin {"idle", "wait_player"}
    BY <1>3, IdleSteps, StartDeals
  <1>4. CASE ~aborted /\ state = "playing" /\ game_state' \notin {"idle", "wait_player"}
    <2>1. ASSUME NEW u \in players, Plays(u)
          PROVE  FALSE
      BY <1>4, <2>1 DEF Plays, game_player_card_play, game_over
    <2>2. ASSUME NEW u \in players, game_player_leave(u), game_state = "wait_player"
          PROVE  FALSE
      BY <1>4, <2>2 DEF game_player_leave, game_over
    <2>3. ~game_player_deal_card
      BY <1>4 DEF game_player_deal_card
    <2>4. ~game_player_report_no_uno
      BY <1>4 DEF game_player_report_no_uno, RoundInv, BareUntilPlay
    <2>5. CASE CountDown
      BY <2>5, DealKept DEF CountDown, seats, cards
    <2>6. ~UpdateSelectFirstCard
      BY <1>4 DEF UpdateSelectFirstCard
    <2> QED BY <1>0, <1>4, <2>1, <2>2, <2>3, <2>4, <2>5, <2>6, DealingDeals,
               DealerDeals, PlayingSteps
  <1> QED BY <1>1, <1>2, <1>3, <1>4 DEF TableInv, TypeOK, RoomTypeOK

(* What the hands look like, seat by seat, is what DealtEvenly says of the *)
(* players.                                                                *)
LEMMA DealInvIsEven ==
  ASSUME TableInv, DealInv, RoundInv
  PROVE  DealtEvenly
  <1> DEFINE n == curr_players
             full == PLAYER_START_CARD_COUNT
             count(u) == Cardinality(rest[u])
  <1> SUFFICES ASSUME ~aborted
               PROVE  DealtEvenly
    BY DEF DealtEvenly
  <1>1. full \in Nat /\ n \in Nat /\ n = Len(seq)
    BY CountAssumption DEF TableInv, TypeOK, RoomTypeOK, SeatsAgree
  <1>2. ASSUME NEW u \in players
        PROVE  \E k \in 0 .. n - 1 : u = seq[k + 1] /\ count(u) = HandSize(k)
    <2>1. PICK i \in 1 .. n : u = seq[i]
      BY <1>1 DEF TableInv, SeatsAgree
    <2>2. i - 1 \in 0 .. n - 1 /\ (i - 1) + 1 = i
      BY <1>1
    <2> QED BY <2>1, <2>2 DEF HandSize
  <1>3. ASSUME game_state = "dealing", NEW u \in players, NEW v \in players
        PROVE  count(u) <= count(v) + 1 /\ count(u) <= full
    <2>1. PICK f \in 0 .. n - 1, q \in Nat : DealtSoFar(f, q)
      BY <1>3 DEF DealInv
    <2>2. q < full /\ \A k \in 0 .. n - 1 : HandSize(k) \in {q, q + 1}
      BY <2>1 DEF DealtSoFar
    <2>3. count(u) \in {q, q + 1} /\ count(v) \in {q, q + 1}
      BY <1>2, <2>2
    <2> HIDE DEF count
    <2> QED BY <1>1, <2>2, <2>3
  <1>4. ASSUME NEW size, StartingHands(size), state = "playing"
        PROVE  /\ Cur = dealer /\ count(dealer) = size
               /\ \A u \in players \ {dealer} : count(u) = full
    <2>1. cursor \in 0 .. n - 1
      BY <1>4, CurIsPlayer
    <2>2. Cur = dealer /\ \A k \in 0 .. n - 1 :
                            HandSize(k) = IF k = cursor THEN size ELSE full
      BY <1>4 DEF StartingHands
    <2>3. count(dealer) = size
      BY <2>1, <2>2 DEF HandSize, Cur
    <2>4. ASSUME NEW u \in players \ {dealer}
          PROVE  count(u) = full
      <3>1. PICK k \in 0 .. n - 1 : u = seq[k + 1] /\ count(u) = HandSize(k)
        BY <1>2
      <3>2. k # cursor
        BY <2>2, <3>1 DEF Cur
      <3> QED BY <2>2, <3>1, <3>2
    <2> QED BY <2>2, <2>3, <2>4
  <1>5. game_state \in {"dealing_dealer", "select_first_card"} => state = "playing"
    BY DEF RoundInv, PhasesAgree, TableInv, TypeOK, RoomTypeOK
  <1>6. game_state = "dealing_dealer" => StartingHands(full + deal_turn)
    BY DEF DealInv
  <1>7. game_state = "select_first_card" =>
          StartingHands(full + DEALER_START_CARD_EXT_COUNT)
    BY DEF DealInv
  <1> QED BY <1>3, <1>4, <1>5, <1>6, <1>7 DEF DealtEvenly

(* Cards are dealt evenly and the dealing ends at the dealer, whoever      *)
(* deals, however many play and whichever way the round goes: the asserts  *)
(* on the starting hands and on the heap never fail.                       *)
THEOREM AlwaysDealtEvenly == Spec => []DealtEvenly
  <1>1. Init => DealInv
    BY DEF Init, DealInv
  <1>2. TableInv /\ RoundInv /\ DealInv => DealtEvenly
    BY DealInvIsEven
  <1> QED BY <1>1, <1>2, DealInductive, TableAndRound, CardsAlwaysConserved, PTL
          DEF Spec
=============================================================================
