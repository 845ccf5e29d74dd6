------------------------------ MODULE UnoRoom ------------------------------
(***************************************************************************)
(* What one room promises to the sessions: a state machine on the seats of *)
(* UnoSeats.  UnoGame, the room with all its cards, implements it          *)
(* (UnoGame!RoomRefined).                                                  *)
(***************************************************************************)
EXTENDS UnoSeats

CONSTANT PlayerCounts       \* the values of player_count that clients send

VARIABLE room

Create == \E u \in Uid, n \in PlayerCounts :
            ~Exists(room) /\ room' = NewRoom(u, n)

Enter == \E u \in Uid :
           Exists(room) /\ CanEnter(room, u) /\ room' = WithPlayer(room, u)

\* A player leaves, or the owner of an idle room sends one away.
Leave == \E u \in room.players :
           CanLeave(room) /\ room' \in WithoutPlayer(room, u)

Start == \E u \in room.players : CanStart(room, u) /\ room' = Started(room)

Play == Exists(room) /\ room' \in AfterPlay(room)

RoomInit == room = NoRoom

RoomNext == Create \/ Enter \/ Leave \/ Start \/ Play

RoomSpec == RoomInit /\ [][RoomNext]_room
=============================================================================
