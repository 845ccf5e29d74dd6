------------------------------ MODULE UnoSeats ------------------------------
(***************************************************************************)
(* A room reduced to what the rest of the server sees of it: who sits in   *)
(* it, who owns it, how many may enter, and whether a round is under way.  *)
(* Each operator is what one handler of room.cpp does to these four        *)
(* fields.  UnoRoom turns them into the specification of one room, which   *)
(* UnoGame implements; UnoSession applies them to a table of rooms.        *)
(***************************************************************************)
EXTENDS Integers, FiniteSets

CONSTANTS
  Uid,            \* the users
  NoUid           \* -1 in the source: no user

\* "dealing" stands for the three phases of a round in which nobody may
\* leave, "waiting" for the rest of the round.
Phases == {"idle", "dealing", "waiting"}

\* A room without players is not in the table of rooms.
NoRoom == [players |-> {}, owner |-> NoUid, max_players |-> 0, phase |-> "idle"]

NewRoom(u, n) ==
  [players |-> {u}, owner |-> u, max_players |-> n, phase |-> "idle"]

Exists(r) == r.players # {}

CanEnter(r, u) ==
  /\ r.phase = "idle"
  /\ Cardinality(r.players) < r.max_players
  /\ u \notin r.players

WithPlayer(r, u) == [r EXCEPT !.players = @ \cup {u}]

CanLeave(r) == r.phase # "dealing"

\* The rooms that r can be after u has left: somebody else inherits it, a
\* round with one player left is over, and the last player takes it along.
WithoutPlayer(r, u) ==
  LET left  == r.players \ {u}
      heirs == IF r.owner = u THEN left ELSE {r.owner}
      phase == IF Cardinality(left) = 1 THEN "idle" ELSE r.phase
  IN  IF left = {}
      THEN {NoRoom}
      ELSE {[r EXCEPT !.players = left, !.owner = o, !.phase = phase] :
              o \in heirs}

CanStart(r, u) ==
  /\ r.phase = "idle"
  /\ r.owner = u
  /\ Cardinality(r.players) >= 2

Started(r) == [r EXCEPT !.phase = "dealing"]

\* The phases that a card request or an update can lead to from phase p.
AfterPhases(p) ==
  CASE p = "idle"    -> {"idle"}
    [] p = "dealing" -> {"dealing", "waiting", "idle"}
    [] p = "waiting" -> {"waiting", "idle"}

\* The rooms that r can be after a request or an update about the round.
AfterPlay(r) == {[r EXCEPT !.phase = p] : p \in AfterPhases(r.phase)}
=============================================================================
