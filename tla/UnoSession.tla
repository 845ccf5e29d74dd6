----------------------------- MODULE UnoSession -----------------------------
(***************************************************************************)
(* The lobby: sessions (core/session.h), their manager (core/ssmgr),       *)
(* login, roles and their loading and saving (game/lobby.cpp,              *)
(* game/dbagent.h), and the table of rooms as the sessions see it          *)
(* (game/room.cpp).  Handlers run one after another on the event loop;     *)
(* what is asynchronous is the database, whose answers arrive in the order *)
(* of the requests (UnoAsync, implemented by UnoBackground) while sessions *)
(* come, go and are replaced.                                              *)
(*                                                                         *)
(* Abstractions.  A connection, its socket and its Session object are one  *)
(* element of Conn, used again when nothing refers to it any more.  A      *)
(* task's effect on the database happens with its answer: tasks and        *)
(* answers are both in request order, and only answers show the database.  *)
(* Of a role only its existence and the saved room_id are kept; a nickname *)
(* may always be in use by somebody else, and the database may always      *)
(* fail.  Refused requests change nothing and are not steps.               *)
(***************************************************************************)
EXTENDS UnoSeats, Sequences

CONSTANTS
  Conn,           \* connections
  NoConn,         \* a null SessionPtr
  PlayerCounts,   \* the values of player_count that clients send
  INT_MAX,        \* the largest room id
  StartIds,       \* where the clock may let the room ids start
  MaxTasks        \* bound on requests waiting for the database

NoRoomId == -1
RoomId == 0 .. INT_MAX
NoRole == -2      \* no row in uno_game_players

ASSUME SessionAssumption ==
  /\ NoUid \notin Uid /\ NoConn \notin Conn
  /\ PlayerCounts \subseteq Int
  /\ INT_MAX \in Nat \ {0} /\ MaxTasks \in Nat
  /\ StartIds \subseteq RoomId

VARIABLES
  ss,             \* the Session object of each connection
  m_sessions,     \* the connections the manager knows
  m_uid2session,  \* the session of each user
  reading,        \* a closed connection whose last read is still parsed
  tasks,          \* requests to the database, not yet answered
  role,           \* uno_game_players: the saved room_id, or NoRole
  m_rooms, m_next_room_id,
  aborted         \* an assert failed: the process is gone

manager == <<m_sessions, m_uid2session, reading>>
db      == <<tasks, role>>
rooms   == <<m_rooms, m_next_room_id>>
vars    == <<ss, manager, db, rooms, aborted>>

SessionState == {"connected", "authed", "create_role", "create_role_wait",
                 "logged", "gaming"}

\* failed: the last answer to this session's login was a database error.
Session == [state : SessionState, uid : Uid \cup {NoUid},
            room_id : RoomId \cup {NoRoomId}, dirty : BOOLEAN,
            failed : BOOLEAN]

\* by: the session whose data is loaded or saved.  The program does not keep
\* it.
Task == [op : {"load"}, uid : Uid, by : Conn]
   \cup [op : {"create"}, uid : Uid]
   \cup [op : {"save"}, uid : Uid, room_id : RoomId \cup {NoRoomId}, by : Conn]

load_role_req(u, c)    == [op |-> "load", uid |-> u, by |-> c]
create_role_task(u)    == [op |-> "create", uid |-> u]
save_role_req(u, c, r) == [op |-> "save", uid |-> u, room_id |-> r, by |-> c]

Role == RoomId \cup {NoRoomId, NoRole}

TypeOK ==
  /\ ss \in [Conn -> Session]
  /\ m_sessions \subseteq Conn
  /\ m_uid2session \in [Uid -> Conn \cup {NoConn}]
  /\ reading \in Conn \cup {NoConn}
  /\ tasks \in Seq(Task)
  /\ role \in [Uid -> Role]
  /\ m_rooms \in [RoomId -> [players : SUBSET Uid, owner : Uid \cup {NoUid},
                             max_players : PlayerCounts \cup {0},
                             phase : Phases]]
  /\ m_next_room_id \in RoomId
  /\ aborted \in BOOLEAN

NewSession == [state |-> "connected", uid |-> NoUid, room_id |-> NoRoomId,
               dirty |-> FALSE, failed |-> FALSE]

(***************************************************************************)
(* The server starts, perhaps again: the database holds what earlier runs  *)
(* left in it, the ids of rooms that are gone included.  The room id       *)
(* generator starts at the low bits of the clock, shifted.                 *)
(***************************************************************************)
Init ==
  /\ ss = [c \in Conn |-> NewSession]
  /\ m_sessions = {} /\ m_uid2session = [u \in Uid |-> NoConn]
  /\ reading = NoConn
  /\ tasks = <<>>
  /\ role \in [Uid -> Role]
  /\ m_rooms = [r \in RoomId |-> NoRoom] /\ m_next_room_id \in StartIds
  /\ aborted = FALSE

-----------------------------------------------------------------------------
(***************************************************************************)
(* Connections.                                                            *)
(***************************************************************************)
\* A connection nothing refers to.
Unused(c) ==
  /\ c \notin m_sessions /\ c # reading
  /\ \A u \in Uid : m_uid2session[u] # c
  /\ \A i \in 1 .. Len(tasks) : tasks[i].op # "create" => tasks[i].by # c

accept(c) ==
  /\ reading = NoConn
  /\ Unused(c)
  /\ m_sessions' = m_sessions \cup {c}
  /\ ss' = [ss EXCEPT ![c] = NewSession]
  /\ UNCHANGED <<m_uid2session, reading, db, rooms, aborted>>

(***************************************************************************)
(* The event loop gives a frame of c to its handler.  All frames of one    *)
(* read are parsed in one go, and the parser does not ask whether the      *)
(* socket has been closed by a frame before.                               *)
(***************************************************************************)
Serves(c) == IF reading = NoConn THEN c \in m_sessions ELSE c = reading

\* The user's entry goes with the session, if the manager knows the session.
WithoutSession(c) ==
  [u \in Uid |-> IF c \in m_sessions /\ ss[c].uid = u
                 THEN NoConn ELSE m_uid2session[u]]

on_disconnect(c) ==
  /\ m_sessions' = m_sessions \ {c}
  /\ m_uid2session' = WithoutSession(c)

\* The Session objects of C are freed with their sockets.
Released(C) == [c \in Conn |-> IF c \in C THEN NewSession ELSE ss[c]]

\* The socket fails or the peer closes it.  The listeners of "logout" are
\* never called (README, "Presence"): seats and roles stay as they are.
disconnect(c) ==
  /\ reading = NoConn /\ c \in m_sessions
  /\ on_disconnect(c)
  /\ ss' = Released({c})
  /\ UNCHANGED <<reading, db, rooms, aborted>>

\* detach closes the socket, which calls on_disconnect before it returns;
\* on a socket that is closed already it does nothing.  A message that is no
\* array is met with the same close.
logout_req(c) ==
  /\ Serves(c) /\ c \in m_sessions
  /\ on_disconnect(c)
  /\ reading' = c
  /\ UNCHANGED <<ss, db, rooms, aborted>>

EndRead ==
  /\ reading # NoConn
  /\ reading' = NoConn
  /\ ss' = IF \E u \in Uid : m_uid2session[u] = reading THEN ss
           ELSE Released({reading})
  /\ UNCHANGED <<m_sessions, m_uid2session, db, rooms, aborted>>

-----------------------------------------------------------------------------
(***************************************************************************)
(* Login and roles.                                                        *)
(***************************************************************************)
\* Mutant: the earlier session of the user is not closed.
MutNoKickOut(c, u) ==
  /\ Serves(c) /\ ss[c].state = "connected"
  /\ Len(tasks) < MaxTasks
  /\ m_uid2session' = [m_uid2session EXCEPT ![u] = c]
  /\ ss' = [ss EXCEPT ![c].uid = u, ![c].state = "authed"]
  /\ tasks' = Append(tasks, load_role_req(u, c))
  /\ UNCHANGED <<m_sessions, reading, role, rooms, aborted>>

(***************************************************************************)
(* A valid token of u: an earlier session of u is closed, this one takes   *)
(* its place, and the role is asked for.  The process aborts if the entry  *)
(* of the earlier one is still there (on_attach).                          *)
(***************************************************************************)
login_req(c, u) ==
  LET old == m_uid2session[u]
  IN  /\ Serves(c) /\ ss[c].state = "connected"
      /\ Len(tasks) < MaxTasks
      /\ IF old # NoConn /\ old \notin m_sessions
         THEN aborted' = TRUE /\ UNCHANGED <<ss, m_sessions, m_uid2session, tasks>>
         ELSE /\ m_sessions' = m_sessions \ {old}
              /\ m_uid2session' = [m_uid2session EXCEPT ![u] = c]
              /\ ss' = [Released({old}) EXCEPT ![c].uid = u, ![c].state = "authed"]
              /\ tasks' = Append(tasks, load_role_req(u, c))
              /\ UNCHANGED aborted
      /\ UNCHANGED <<reading, role, rooms>>

\* Mutant: the session is not marked as waiting and may ask again.
MutRoleAskedTwice(c) ==
  /\ Serves(c) /\ ss[c].state = "create_role"
  /\ Len(tasks) < MaxTasks
  /\ tasks' = Append(tasks, create_role_task(ss[c].uid))
  /\ UNCHANGED <<ss, manager, role, rooms, aborted>>

create_role_req(c) ==
  /\ Serves(c) /\ ss[c].state = "create_role"
  /\ Len(tasks) < MaxTasks
  /\ tasks' = Append(tasks, create_role_task(ss[c].uid))
  /\ ss' = [ss EXCEPT ![c].state = "create_role_wait"]
  /\ UNCHANGED <<manager, role, rooms, aborted>>

\* The first request is answered.
Answer(op) ==
  /\ tasks # <<>> /\ Head(tasks).op = op
  /\ UNCHANGED <<manager, rooms, aborted>>

\* The answer is applied to the session that the user has now, if any.
ApplyTo(u, session) ==
  LET c == m_uid2session[u]
  IN  ss' = IF c = NoConn THEN ss ELSE [ss EXCEPT ![c] = session]

\* uno_game_players_load_role.
LoadResults(u) == {"db_error", IF role[u] = NoRole THEN "not_exists" ELSE "ok"}

(***************************************************************************)
(* load_role_rsp: the user must create a role, or is logged in with the    *)
(* room_id that was saved, whatever state the session is in; after a       *)
(* database error it stays as it is.                                       *)
(***************************************************************************)
load_role_rsp ==
  LET u == Head(tasks).uid
      s == ss[m_uid2session[u]]
      After(result) ==
        CASE result = "not_exists" ->
               [s EXCEPT !.state = "create_role", !.failed = FALSE]
          [] result = "db_error" -> [s EXCEPT !.failed = TRUE]
          [] result = "ok" ->
               [s EXCEPT !.state = "logged", !.room_id = role[u], !.failed = FALSE]
  IN  /\ Answer("load")
      /\ \E result \in LoadResults(u) : ApplyTo(u, After(result))
      /\ tasks' = Tail(tasks)
      /\ UNCHANGED role

\* The results of the task has_nickname, then create_role: uid is the primary
\* key, and an error may come after the row was inserted.
CreateResults(u) ==
  {[ok |-> FALSE, role |-> role[u]]}
    \cup IF role[u] # NoRole THEN {}
         ELSE {[ok |-> b, role |-> NoRoomId] : b \in BOOLEAN}

\* Mutant: a refused role leaves the session waiting.
MutRefusalIgnored(u, ok) ==
  ApplyTo(u, [ss[m_uid2session[u]] EXCEPT !.state = IF ok THEN "authed" ELSE @])

\* The session of u after the answer.
AfterCreate(u, ok) ==
  ApplyTo(u, [ss[m_uid2session[u]] EXCEPT
                !.state = IF ok THEN "authed" ELSE "create_role"])

\* Mutant: after success the role is not loaded.
MutCreatedNotLoaded(u, ok) == <<>>

\* After success the login is gone through again, for the session there is.
LoadAgain(u, ok) ==
  IF ok /\ m_uid2session[u] # NoConn
  THEN <<load_role_req(u, m_uid2session[u])>> ELSE <<>>

(***************************************************************************)
(* create_role_rsp: a nickname in use and a database error, one for a role *)
(* that exists included, lead back to create_role.                         *)
(***************************************************************************)
create_role_rsp ==
  LET u == Head(tasks).uid
  IN  /\ Answer("create")
      /\ \E result \in CreateResults(u) :
           /\ role' = [role EXCEPT ![u] = result.role]
           /\ AfterCreate(u, result.ok)
           /\ tasks' = Tail(tasks) \o LoadAgain(u, result.ok)

\* uno_game_players_save_role: without a row, or after an error, nothing is
\* updated.
SaveResults(u, r) == {role[u], IF role[u] = NoRole THEN NoRole ELSE r}

\* A save is answered to nobody: the caller names no callback.
SaveDone ==
  LET t == Head(tasks)
  IN  /\ Answer("save")
      /\ tasks' = Tail(tasks)
      /\ \E r \in SaveResults(t.uid, t.room_id) : role' = [role EXCEPT ![t.uid] = r]
      /\ UNCHANGED ss

(***************************************************************************)
(* The periodic save of a changed session.  The time of its first save is  *)
(* compared with time_point::min(), which overflows: it may never be due.  *)
(***************************************************************************)
update_session(c) ==
  /\ reading = NoConn /\ c \in m_sessions
  /\ ss[c].state \in {"logged", "gaming"} /\ ss[c].dirty
  /\ Len(tasks) < MaxTasks
  /\ tasks' = Append(tasks, save_role_req(ss[c].uid, c, ss[c].room_id))
  /\ ss' = [ss EXCEPT ![c].dirty = FALSE]
  /\ UNCHANGED <<manager, role, rooms, aborted>>

-----------------------------------------------------------------------------
(***************************************************************************)
(* Rooms.                                                                  *)
(***************************************************************************)
\* Mutant: the counter is not reset.
MutNextRoomIdOverflows(id) == id + 1

\* m_next_room_id++, and 1 after the largest number.
NextRoomId(id) == IF id = INT_MAX THEN 1 ELSE id + 1

Least(S) == CHOOSE i \in S : \A j \in S : i <= j

\* The first id from m_next_room_id on that is not in use.
FreeRoomId ==
  LET free == {r \in RoomId : ~Exists(m_rooms[r])}
      up   == {r \in free : r >= m_next_room_id}
  IN  IF up # {} THEN Least(up) ELSE Least(free \ {0})

Joined(s, r) == [s EXCEPT !.room_id = r, !.dirty = TRUE, !.state = "gaming"]

Dropped(s) == [s EXCEPT !.room_id = NoRoomId, !.dirty = TRUE]

\* The check for another room looks for a string in room_id and never finds
\* one.
create_room_req(c, n) ==
  LET u == ss[c].uid
      id == FreeRoomId
  IN  /\ Serves(c) /\ ss[c].state = "logged"
      /\ \E r \in RoomId \ {0} : ~Exists(m_rooms[r])
      /\ m_rooms' = [m_rooms EXCEPT ![id] = NewRoom(u, n)]
      /\ m_next_room_id' = NextRoomId(id)
      /\ ss' = [ss EXCEPT ![c] = Joined(@, id)]
      /\ UNCHANGED <<manager, db, aborted>>

\* enter_room_req with re_enter: back to the seat the session remembers, if
\* the room still has it.
ReenterRoom(c, r) ==
  /\ Serves(c) /\ ss[c].state = "logged" /\ ss[c].room_id = r
  /\ ss' = [ss EXCEPT ![c] = IF r \in RoomId /\ @.uid \in m_rooms[r].players
                             THEN [@ EXCEPT !.state = "gaming"] ELSE Dropped(@)]
  /\ UNCHANGED <<manager, db, rooms, aborted>>

\* enter_room_req with re_enter in any other state forgets the room.
ForgetRoom(c, r) ==
  /\ Serves(c) /\ ss[c].state # "logged" /\ ss[c].room_id = r
  /\ ss' = [ss EXCEPT ![c] = Dropped(@)]
  /\ UNCHANGED <<manager, db, rooms, aborted>>

\* enter_room_req for the first time.
EnterRoom(c, r) ==
  /\ Serves(c) /\ ss[c].state = "logged"
  /\ Exists(m_rooms[r]) /\ CanEnter(m_rooms[r], ss[c].uid)
  /\ m_rooms' = [m_rooms EXCEPT ![r] = WithPlayer(@, ss[c].uid)]
  /\ ss' = [ss EXCEPT ![c] = Joined(@, r)]
  /\ UNCHANGED <<manager, db, m_next_room_id, aborted>>

enter_room_req(c) ==
  \/ \E r \in RoomId \cup {NoRoomId} : ReenterRoom(c, r) \/ ForgetRoom(c, r)
  \/ \E r \in RoomId : EnterRoom(c, r)

(***************************************************************************)
(* The requests below are about the room in the session's room_id, r, and  *)
(* come from a session in state gaming.                                    *)
(***************************************************************************)
InRoom(c, r) == Serves(c) /\ ss[c].state = "gaming" /\ ss[c].room_id = r

\* The handlers look the user up among the players and assert the result.
Abort == aborted' = TRUE /\ UNCHANGED <<ss, manager, db, rooms>>

\* The room may be gone; then only the session is put right.
leave_room_req(c, r) ==
  /\ InRoom(c, r)
  /\ IF r = NoRoomId \/ ~Exists(m_rooms[r])
     THEN UNCHANGED m_rooms
     ELSE /\ CanLeave(m_rooms[r]) /\ ss[c].uid \in m_rooms[r].players
          /\ \E left \in WithoutPlayer(m_rooms[r], ss[c].uid) :
               m_rooms' = [m_rooms EXCEPT ![r] = left]
  /\ ss' = [ss EXCEPT ![c] = [Dropped(@) EXCEPT !.state = "logged"]]
  /\ UNCHANGED <<manager, db, m_next_room_id, aborted>>

\* Mutant: the session of the player sent away stays in state gaming.
MutKickKeepsGaming(v) == ss

\* room_id is cleared in a copy of the session's data.
SentAway(v) ==
  IF m_uid2session[v] = NoConn THEN ss
  ELSE [ss EXCEPT ![m_uid2session[v]] =
          [@ EXCEPT !.dirty = TRUE, !.state = "logged"]]

room_kickout_player_req(c, r, v) ==
  /\ InRoom(c, r) /\ r \in RoomId /\ m_rooms[r].phase = "idle"
  /\ ss[c].uid = m_rooms[r].owner /\ v \in m_rooms[r].players
  /\ \E left \in WithoutPlayer(m_rooms[r], v) :
       m_rooms' = [m_rooms EXCEPT ![r] = left]
  /\ ss' = SentAway(v)
  /\ UNCHANGED <<manager, db, m_next_room_id, aborted>>

\* Who is ready is left to UnoGame: an owner of two players may start.
start_game_req(c, r) ==
  /\ InRoom(c, r) /\ r \in RoomId /\ CanStart(m_rooms[r], ss[c].uid)
  /\ m_rooms' = [m_rooms EXCEPT ![r] = Started(@)]
  /\ UNCHANGED <<ss, manager, db, m_next_room_id, aborted>>

\* The three card requests.  get_ready_req, shuffle_room_seats_req and
\* room_use_voice_req change nothing that is kept here.
RoundReq(c, r) ==
  /\ InRoom(c, r) /\ r \in RoomId /\ ss[c].uid \in m_rooms[r].players
  /\ \E next \in AfterPlay(m_rooms[r]) : m_rooms' = [m_rooms EXCEPT ![r] = next]
  /\ UNCHANGED <<ss, manager, db, m_next_room_id, aborted>>

\* Any of the six, for a room that does not seat the user.
NotSeated(c, r) ==
  /\ InRoom(c, r) /\ r \in RoomId
  /\ Exists(m_rooms[r]) /\ ss[c].uid \notin m_rooms[r].players
  /\ Abort

\* The update of a room.
game_update(r) ==
  /\ reading = NoConn
  /\ Exists(m_rooms[r])
  /\ \E next \in AfterPlay(m_rooms[r]) : m_rooms' = [m_rooms EXCEPT ![r] = next]
  /\ UNCHANGED <<ss, manager, db, m_next_room_id, aborted>>

\* An exception in the update of a room: the room is erased, and the players'
\* sessions go back to logged.
game_dismiss(r) ==
  /\ reading = NoConn /\ Exists(m_rooms[r])
  /\ m_rooms' = [m_rooms EXCEPT ![r] = NoRoom]
  /\ ss' = [c \in Conn |->
              IF /\ \E u \in m_rooms[r].players : m_uid2session[u] = c
                 /\ ss[c].state = "gaming" /\ ss[c].room_id = r
              THEN [ss[c] EXCEPT !.dirty = TRUE, !.state = "logged"]
              ELSE ss[c]]
  /\ UNCHANGED <<manager, db, m_next_room_id, aborted>>

-----------------------------------------------------------------------------
Lobby(c) ==
  \/ accept(c) \/ disconnect(c) \/ logout_req(c)
  \/ \E u \in Uid : login_req(c, u)
  \/ create_role_req(c) \/ update_session(c)

RoomRequest(c) ==
  \/ \E n \in PlayerCounts : create_room_req(c, n)
  \/ enter_room_req(c)
  \/ \E r \in RoomId \cup {NoRoomId} :
       \/ leave_room_req(c, r)
       \/ \E v \in Uid : room_kickout_player_req(c, r, v)
       \/ start_game_req(c, r) \/ RoundReq(c, r) \/ NotSeated(c, r)

\* The callbacks of the background thread.
DbAnswer ==
  /\ ~aborted /\ reading = NoConn
  /\ load_role_rsp \/ create_role_rsp \/ SaveDone

ReadEnds == ~aborted /\ EndRead

Gone == aborted /\ UNCHANGED vars

Next ==
  \/ ~aborted /\ \E c \in Conn : Lobby(c) \/ RoomRequest(c)
  \/ ~aborted /\ \E r \in RoomId : game_update(r) \/ game_dismiss(r)
  \/ DbAnswer
  \/ ReadEnds
  \/ Gone

Spec == Init /\ [][Next]_vars

(***************************************************************************)
(* A read ends, and every task is answered (UnoBackground!EveryTaskAnswered*)
(* is about this).  Strong fairness of the answers, because a read is one  *)
(* callback of the event loop: between two of them answers get their turn. *)
(***************************************************************************)
FairSpec == Spec /\ SF_vars(DbAnswer) /\ WF_vars(ReadEnds)

-----------------------------------------------------------------------------
(***************************************************************************)
(* One session per user: every session that the manager knows and that has *)
(* logged in is the one found for its user, and the one found for a user   *)
(* belongs to that user, through kick-outs, logouts and lost connections   *)
(* (ssmgr.cpp:10-30, ssmgr.h:28-39, 132-136, lobby.cpp:62-69).             *)
(***************************************************************************)
SessionIndex ==
  /\ \A c \in m_sessions : ss[c].uid # NoUid => m_uid2session[ss[c].uid] = c
  /\ \A u \in Uid : m_uid2session[u] # NoConn => ss[m_uid2session[u]].uid = u

(***************************************************************************)
(* A session in a game sits in its room: when the room that a gaming       *)
(* session names exists, the user is one of its players.  This is what the *)
(* asserts of the room's handlers rely on (room.cpp:277, 1319, 1374, 1450, *)
(* 1514, 1599, 1678, 1732, 1786), through late database answers, kicks,    *)
(* dismissals, reuse of room ids and reconnections.                        *)
(***************************************************************************)
GamingSeated ==
  \A c \in m_sessions :
    ss[c].state = "gaming" /\ ss[c].room_id \in RoomId
      => \/ ~Exists(m_rooms[ss[c].room_id])
         \/ ss[c].uid \in m_rooms[ss[c].room_id].players

(***************************************************************************)
(* No lost update: a save of a session that has been replaced never waits  *)
(* behind the load of the session that replaced it, so that nobody starts  *)
(* from data that is overwritten afterwards (ssmgr.h:60-74, lobby.cpp:73). *)
(***************************************************************************)
SavesBeforeSuccessorLoads ==
  \A i, j \in 1 .. Len(tasks) :
    /\ i < j
    /\ tasks[i].op = "load" /\ tasks[j].op = "save"
    /\ tasks[i].uid = tasks[j].uid
    /\ tasks[i].by = m_uid2session[tasks[i].uid]
    => tasks[j].by = tasks[i].by

\* The requests about u whose answers change the user's session.
Pending(u) == {i \in 1 .. Len(tasks) : tasks[i].uid = u /\ tasks[i].op # "save"}

\* What session s waits for.
Awaited(s) == CASE s.state = "authed" -> "load"
                [] s.state = "create_role_wait" -> "create"
                [] OTHER -> "nothing"

\* At most one answer for the user is on its way, and c waits for it.
InStep(c) == \A i, j \in Pending(ss[c].uid) : i = j /\ tasks[i].op = Awaited(ss[c])

PastLogin(c) == ss[c].state \in {"logged", "gaming"}

(***************************************************************************)
(* Who sets a session back.  load_role_rsp and create_role_rsp change the  *)
(* session the user has by then, whatever state it is in.  A session in    *)
(* step with the database stays in step and, once logged in, stays logged  *)
(* in; so answers only hurt sessions that met requests of an earlier       *)
(* session of the user, or whose user was sent out of a room while they    *)
(* were logging in (lobby.cpp:120-190, room.cpp:1533-1544).                *)
(***************************************************************************)
InStepUnlessKicked ==
  [][\A c \in m_sessions \cap m_sessions' :
       ss[c].uid # NoUid /\ InStep(c) =>
         /\ PastLogin(c) => PastLogin(c)'
         /\ \/ InStep(c)'
            \/ \E r \in RoomId :
                 ss[c].uid \in m_rooms[r].players \ m_rooms'[r].players]_vars

\* The session is served and waits for the database.
Waits(c) == c \in m_sessions /\ ss[c].state \in {"authed", "create_role_wait"}

(***************************************************************************)
(* Nobody waits for ever: a session that has logged in or asked for a role *)
(* is asked for a role, logged in, or told of a database error, or its     *)
(* connection ends, also when answers meant for an earlier session of the  *)
(* user come first (lobby.cpp:33-113, 120-190).                            *)
(***************************************************************************)
LoginSettles ==
  \A c \in Conn : Waits(c) ~> ~Waits(c) \/ ss[c].failed \/ aborted

(***************************************************************************)
(* A role that exists is found: a session that waits for its login while   *)
(* the user has a role gets to play with it, even if late answers ask for  *)
(* a role or refuse one in between, unless the connection ends or the      *)
(* database fails (lobby.cpp:120-190).                                     *)
(***************************************************************************)
RoleFound ==
  \A c \in Conn :
    c \in m_sessions /\ ss[c].state = "authed" /\ role[ss[c].uid] # NoRole
      ~> \/ ss[c].state \in {"logged", "gaming"}
         \/ c \notin m_sessions \/ ss[c].failed \/ aborted
=============================================================================
