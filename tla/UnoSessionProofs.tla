-------------------------- MODULE UnoSessionProofs --------------------------
(***************************************************************************)
(* Proofs about UnoSession for any number of users, connections, rooms and *)
(* requests under way.                                                     *)
(***************************************************************************)
EXTENDS UnoSession, FiniteSetTheorems, WellFoundedInduction, TLAPS

(***************************************************************************)
(* The inductive invariant.  Beside the properties themselves it says: a   *)
(* session has a user if and only if it has logged in; the connection      *)
(* whose last read is parsed is not in the table any more and no session   *)
(* in the table has its user; a gaming session sits in its room (which     *)
(* therefore exists); and no database request names a connection that has  *)
(* not logged in since it was accepted.                                    *)
(***************************************************************************)
SsType == ss \in [Conn -> Session]

ManagerType ==
  /\ m_sessions \subseteq Conn
  /\ m_uid2session \in [Uid -> Conn \cup {NoConn}]
  /\ reading \in Conn \cup {NoConn}

DbType == tasks \in Seq(Task) /\ role \in [Uid -> Role]

Room == [players : SUBSET Uid, owner : Uid \cup {NoUid},
         max_players : PlayerCounts \cup {0}, phase : Phases]

RoomsType == m_rooms \in [RoomId -> Room] /\ m_next_room_id \in RoomId

Anonymous == \A c \in Conn : ss[c].state = "connected" <=> ss[c].uid = NoUid

LastRead ==
  reading # NoConn =>
    /\ reading \notin m_sessions
    /\ \A d \in m_sessions : ss[d].uid # NoUid => ss[d].uid # ss[reading].uid

SeatKept ==
  \A c \in m_sessions :
    ss[c].state = "gaming" /\ ss[c].room_id \in RoomId
      => ss[c].uid \in m_rooms[ss[c].room_id].players

NoTaskYet ==
  \A c \in Conn :
    (c \in m_sessions \/ c = reading) /\ ss[c].state = "connected"
      => \A i \in 1 .. Len(tasks) : tasks[i].op # "create" => tasks[i].by # c

IndexInv == SessionIndex /\ Anonymous /\ LastRead

TaskInv == NoTaskYet /\ SavesBeforeSuccessorLoads

SessionInv == TypeOK /\ IndexInv /\ SeatKept /\ TaskInv

(* The type invariant by parts. *)
LEMMA TypeParts ==
  TypeOK <=> SsType /\ ManagerType /\ DbType /\ RoomsType /\ aborted \in BOOLEAN
  BY DEF TypeOK, SsType, ManagerType, DbType, RoomsType, Room

LEMMA TypePartsNext ==
  SsType' /\ ManagerType' /\ DbType' /\ RoomsType' /\ aborted' \in BOOLEAN => TypeOK'
  BY DEF TypeOK, SsType, ManagerType, DbType, RoomsType, Room

-----------------------------------------------------------------------------
(***************************************************************************)
(* The operators the actions are built from.                               *)
(***************************************************************************)

(* A set of numbers that is not empty has a least element. *)
LEMMA LeastInSet ==
  ASSUME NEW S, S \subseteq Nat, S # {}
  PROVE  Least(S) \in S
  <1> DEFINE R == OpToRel(<, Nat)
  <1>1. IsWellFoundedOn(R, Nat)
    BY NatLessThanWellFounded
  <1>2. \A x, y \in Nat : <<y, x>> \in R <=> y < x
    BY DEF OpToRel
  <1> HIDE DEF R
  <1>3. PICK x \in S : \A y \in S : ~(<<y, x>> \in R)
    BY <1>1, WFMin
  <1>4. \A y \in S : x <= y
    <2> TAKE y \in S
    <2>1. x \in Nat /\ y \in Nat /\ ~(<<y, x>> \in R)
      BY <1>3
    <2>2. ~(y < x)
      BY <1>2, <2>1
    <2> QED BY <2>1, <2>2
  <1> QED BY <1>3, <1>4 DEF Least

(* The id of a new room is the id of no room. *)
LEMMA FreeRoomIdFree ==
  ASSUME TypeOK, \E r \in RoomId \ {0} : ~Exists(m_rooms[r])
  PROVE  FreeRoomId \in RoomId /\ ~Exists(m_rooms[FreeRoomId])
  <1> DEFINE free == {r \in RoomId : ~Exists(m_rooms[r])}
             up   == {r \in free : r >= m_next_room_id}
  <1>1. free \subseteq Nat /\ up \subseteq free /\ free \ {0} # {}
    BY DEF RoomId
  <1>2. FreeRoomId = IF up # {} THEN Least(up) ELSE Least(free \ {0})
    BY DEF FreeRoomId
  <1>3. \A r \in free : r \in RoomId /\ ~Exists(m_rooms[r])
    OBVIOUS
  <1> HIDE DEF free, up
  <1>4. CASE up # {}
    BY <1>1, <1>2, <1>3, <1>4, LeastInSet
  <1>5. CASE up = {}
    <2>1. Least(free \ {0}) \in free \ {0}
      BY <1>1, LeastInSet
    <2> QED BY <1>2, <1>3, <1>5, <2>1
  <1> QED BY <1>4, <1>5

(* The counter of room ids wraps to 1 and stays a room id. *)
LEMMA NextRoomIdType ==
  ASSUME NEW id \in RoomId
  PROVE  NextRoomId(id) \in RoomId
  BY SessionAssumption DEF NextRoomId, RoomId

(* What a room can become is a room. *)
LEMMA RoomTypes ==
  /\ NoRoom \in Room
  /\ \A u \in Uid, n \in PlayerCounts : NewRoom(u, n) \in Room
  /\ \A r \in Room, u \in Uid : WithPlayer(r, u) \in Room
  /\ \A r \in Room : Started(r) \in Room
  BY DEF Room, NoRoom, NewRoom, WithPlayer, Started, Phases

LEMMA WithoutPlayerTypes ==
  ASSUME NEW r \in Room, NEW u \in Uid, NEW left \in WithoutPlayer(r, u)
  PROVE  left \in Room /\ left.players = r.players \ {u}
  <1> DEFINE others == r.players \ {u}
             phase  == IF Cardinality(others) = 1 THEN "idle" ELSE r.phase
  <1>1. CASE others = {}
    <2>1. left = NoRoom
      BY <1>1 DEF WithoutPlayer
    <2> QED BY <1>1, <2>1, RoomTypes DEF NoRoom
  <1>2. CASE others # {}
    <2>1. PICK o \in IF r.owner = u THEN others ELSE {r.owner} :
            left = [r EXCEPT !.players = others, !.owner = o, !.phase = phase]
      BY <1>2 DEF WithoutPlayer
    <2>2. /\ others \in SUBSET Uid /\ o \in Uid \cup {NoUid}
          /\ phase \in Phases
      BY DEF Room, Phases
    <2> HIDE DEF others, phase
    <2>3. left \in Room /\ left.players = others
      BY <2>1, <2>2 DEF Room
    <2> QED BY <2>3 DEF others
  <1> QED BY <1>1, <1>2

LEMMA AfterPlayTypes ==
  ASSUME NEW r \in Room, NEW next \in AfterPlay(r)
  PROVE  next \in Room /\ next.players = r.players
  <1>1. AfterPhases(r.phase) \subseteq Phases
    BY DEF Room, AfterPhases, Phases
  <1> QED BY <1>1 DEF AfterPlay, Room

-----------------------------------------------------------------------------
(***************************************************************************)
(* What steps of a kind keep.                                              *)
(***************************************************************************)

(* As long as no session changes its user and the tables stay, the index   *)
(* stays right.                                                            *)
LEMMA IndexKept ==
  ASSUME ManagerType, IndexInv, UNCHANGED manager,
         \A c \in Conn :
           /\ ss'[c].uid = ss[c].uid
           /\ ss'[c].state = "connected" <=> ss[c].state = "connected"
  PROVE  IndexInv'
  <1> USE DEF manager, ManagerType, IndexInv
  <1>1. SessionIndex'
    BY SessionAssumption DEF SessionIndex
  <1>2. Anonymous'
    BY DEF Anonymous
  <1>3. LastRead'
    BY DEF LastRead
  <1> QED BY <1>1, <1>2, <1>3

(* A step after which nobody new is waiting to log in and no user has got  *)
(* another session.                                                        *)
NobodyNew ==
  /\ \A c \in Conn :
       (c \in m_sessions' \/ c = reading') /\ ss'[c].state = "connected"
         => (c \in m_sessions \/ c = reading) /\ ss[c].state = "connected"
  /\ \A u \in Uid : m_uid2session'[u] \in {m_uid2session[u], NoConn}

(* A request names its user, and unless it creates a role its session. *)
LEMMA TaskFields ==
  ASSUME NEW t \in Task
  PROVE  t.uid \in Uid /\ (t.op # "create" => t.by \in Conn)
  BY DEF Task

(* The requests that are left, and one more at their end, keep the order   *)
(* of saves and loads: a save comes from the session its user has.         *)
LEMMA TasksLeft ==
  ASSUME DbType, TaskInv, NobodyNew, NEW q \in Seq(Task), NEW k \in {0, 1},
         \A i \in 1 .. Len(q) : i + k \in 1 .. Len(tasks) /\ q[i] = tasks[i + k],
         \/ tasks' = q
         \/ \E t \in Task :
              /\ tasks' = Append(q, t)
              /\ t.op # "create" => ss'[t.by].state # "connected"
              /\ t.op = "save" => t.by = m_uid2session'[t.uid]
  PROVE  TaskInv'
  <1>0. Len(q) \in Nat /\ Len(tasks) \in Nat
    BY DEF DbType
  <1>1. ASSUME NEW i \in 1 .. Len(tasks'), i # Len(q) + 1
        PROVE  i \in 1 .. Len(q) /\ i + k \in 1 .. Len(tasks)
               /\ tasks'[i] = tasks[i + k] /\ tasks'[i] \in Task
    <2>1. i \in 1 .. Len(q) /\ tasks'[i] = q[i]
      BY <1>0, <1>1
    <2> QED BY <2>1
  <1>2. ASSUME NEW i \in 1 .. Len(tasks'), i = Len(q) + 1
        PROVE  /\ tasks'[i] \in Task
               /\ tasks'[i].op # "create" => ss'[tasks'[i].by].state # "connected"
               /\ tasks'[i].op = "save" => tasks'[i].by = m_uid2session'[tasks'[i].uid]
    <2>1. tasks' # q
      BY <1>0, <1>2
    <2>2. PICK t \in Task :
              /\ tasks' = Append(q, t)
              /\ t.op # "create" => ss'[t.by].state # "connected"
              /\ t.op = "save" => t.by = m_uid2session'[t.uid]
      BY <2>1
    <2>3. tasks'[i] = t
      BY <1>2, <2>2
    <2> QED BY <2>2, <2>3
  <1>3. NoTaskYet'
    <2> SUFFICES ASSUME NEW c \in Conn, c \in m_sessions' \/ c = reading',
                        ss'[c].state = "connected",
                        NEW i \in 1 .. Len(tasks'), tasks'[i].op # "create"
                 PROVE  tasks'[i].by # c
      BY DEF NoTaskYet
    <2>1. CASE i = Len(q) + 1
      BY <2>1, <1>2
    <2>2. CASE i # Len(q) + 1
      <3>1. (c \in m_sessions \/ c = reading) /\ ss[c].state = "connected"
        BY DEF NobodyNew
      <3>2. i + k \in 1 .. Len(tasks) /\ tasks'[i] = tasks[i + k]
        BY <1>1, <2>2
      <3> QED BY <3>1, <3>2 DEF TaskInv, NoTaskYet
    <2> QED BY <2>1, <2>2
  <1>4. SavesBeforeSuccessorLoads'
    <2> SUFFICES ASSUME NEW i \in 1 .. Len(tasks'), NEW j \in 1 .. Len(tasks'),
                        i < j,
                        tasks'[i].op = "load", tasks'[j].op = "save",
                        tasks'[i].uid = tasks'[j].uid,
                        tasks'[i].by = m_uid2session'[tasks'[i].uid]
                 PROVE  tasks'[j].by = tasks'[i].by
      BY DEF SavesBeforeSuccessorLoads
    <2>1. CASE j = Len(q) + 1
      BY <2>1, <1>2
    <2>2. CASE j # Len(q) + 1
      <3>1. j \in 1 .. Len(q)
        BY <1>1, <2>2
      <3>2. i # Len(q) + 1
        BY <1>0, <3>1
      <3>3. /\ i + k \in 1 .. Len(tasks) /\ tasks'[i] = tasks[i + k]
            /\ j + k \in 1 .. Len(tasks) /\ tasks'[j] = tasks[j + k]
            /\ tasks'[i] \in Task
        BY <1>1, <2>2, <3>2
      <3>4. tasks'[i].uid \in Uid /\ tasks'[i].by \in Conn
        BY <3>3, TaskFields
      <3>5. tasks'[i].by = m_uid2session[tasks'[i].uid]
        BY <3>4, SessionAssumption DEF NobodyNew
      <3>6. i + k < j + k
        BY <1>0
      <3> QED BY <3>3, <3>5, <3>6 DEF TaskInv, SavesBeforeSuccessorLoads
    <2> QED BY <2>1, <2>2
  <1> QED BY <1>3, <1>4 DEF TaskInv

(* Steps that leave the requests alone. *)
LEMMA TasksUntouched ==
  ASSUME DbType, TaskInv, NobodyNew, tasks' = tasks
  PROVE  TaskInv'
  <1>1. tasks \in Seq(Task) /\ Len(tasks) \in Nat
    BY DEF DbType
  <1>2. \A i \in 1 .. Len(tasks) : i + 0 \in 1 .. Len(tasks) /\ tasks[i] = tasks[i + 0]
    BY <1>1
  <1> QED BY <1>1, <1>2, TasksLeft

(* A request is submitted. *)
LEMMA TaskSubmitted ==
  ASSUME DbType, TaskInv, NobodyNew, NEW t \in Task, tasks' = Append(tasks, t),
         t.op # "create" => ss'[t.by].state # "connected",
         t.op = "save" => t.by = m_uid2session'[t.uid]
  PROVE  TaskInv'
  <1>1. tasks \in Seq(Task) /\ Len(tasks) \in Nat
    BY DEF DbType
  <1>2. \A i \in 1 .. Len(tasks) : i + 0 \in 1 .. Len(tasks) /\ tasks[i] = tasks[i + 0]
    BY <1>1
  <1> QED BY <1>1, <1>2, TasksLeft

(* The first request is answered. *)
LEMMA TaskAnswered ==
  ASSUME DbType, TaskInv, NobodyNew, tasks # <<>>,
         \/ tasks' = Tail(tasks)
         \/ \E t \in Task : /\ tasks' = Append(Tail(tasks), t)
                            /\ t.op = "load" /\ ss'[t.by].state # "connected"
  PROVE  TaskInv' /\ Head(tasks) \in Task /\ tasks' \in Seq(Task)
  <1>1. tasks \in Seq(Task) /\ Len(tasks) \in Nat
    BY DEF DbType
  <1>2. Tail(tasks) \in Seq(Task) /\ Head(tasks) \in Task
    BY <1>1
  <1>3. \A i \in 1 .. Len(Tail(tasks)) :
          i + 1 \in 1 .. Len(tasks) /\ Tail(tasks)[i] = tasks[i + 1]
    BY <1>1
  <1>4. tasks' \in Seq(Task)
    BY <1>2
  <1>5. TaskInv'
    BY <1>2, <1>3, TasksLeft
  <1> QED BY <1>2, <1>4, <1>5

(* One session changes, and keeps its user. *)
LEMMA OneSession ==
  ASSUME SsType, NEW c \in Conn, NEW s \in Session, ss' = [ss EXCEPT ![c] = s],
         s.uid = ss[c].uid, s.state = "connected" <=> ss[c].state = "connected"
  PROVE  /\ SsType' /\ ss'[c] = s
         /\ \A d \in Conn : d # c => ss'[d] = ss[d]
         /\ \A d \in Conn :
              /\ ss'[d].uid = ss[d].uid
              /\ ss'[d].state = "connected" <=> ss[d].state = "connected"
  BY DEF SsType

LEMMA NewSessionType == NewSession \in Session
  BY DEF NewSession, Session, SessionState

(* The invariant after steps on rooms alone that keep everybody's seat. *)
LEMMA RoomsOnly ==
  ASSUME SessionInv, UNCHANGED <<ss, manager, db, aborted>>, RoomsType',
         \A r \in RoomId : m_rooms[r].players \subseteq m_rooms'[r].players
  PROVE  SessionInv'
  <1> USE DEF SessionInv, manager, db
  <1>1. TypeOK'
    BY DEF SsType, ManagerType, DbType, TypeOK, RoomsType, Room
  <1>2. IndexInv'
    BY DEF IndexInv, SessionIndex, Anonymous, LastRead
  <1>3. SeatKept'
    BY DEF SeatKept
  <1>4. TaskInv'
    BY DEF TaskInv, NoTaskYet, SavesBeforeSuccessorLoads
  <1> QED BY <1>1, <1>2, <1>3, <1>4

(* A failed assert changes nothing else. *)
LEMMA AbortKeeps ==
  ASSUME SessionInv, aborted' \in BOOLEAN, UNCHANGED <<ss, manager, db, rooms>>
  PROVE  SessionInv'
  <1> USE DEF SessionInv, manager, db, rooms
  <1>1. TypeOK'
    BY DEF TypeOK
  <1>2. IndexInv'
    BY DEF IndexInv, SessionIndex, Anonymous, LastRead
  <1>3. SeatKept'
    BY DEF SeatKept
  <1>4. TaskInv'
    BY DEF TaskInv, NoTaskYet, SavesBeforeSuccessorLoads
  <1> QED BY <1>1, <1>2, <1>3, <1>4

-----------------------------------------------------------------------------
(***************************************************************************)
(* Connections.                                                            *)
(***************************************************************************)
LEMMA AcceptKeeps ==
  ASSUME SessionInv, NEW c \in Conn, accept(c)
  PROVE  SessionInv'
  <1>1. SsType /\ ManagerType /\ DbType /\ RoomsType /\ aborted \in BOOLEAN
    BY TypeParts DEF SessionInv
  <1>2. /\ ss' = [ss EXCEPT ![c] = NewSession]
        /\ m_sessions' = m_sessions \cup {c}
        /\ UNCHANGED <<m_uid2session, reading, tasks, role, m_rooms,
                       m_next_room_id, aborted>>
        /\ reading = NoConn /\ Unused(c)
    BY DEF accept, db, rooms
  <1>3. /\ ss'[c].state = "connected" /\ ss'[c].uid = NoUid
        /\ \A d \in Conn : d # c => ss'[d] = ss[d]
    BY <1>1, <1>2 DEF SsType, NewSession
  <1>4. TypeOK'
    <2>1. SsType'
      BY <1>1, <1>2, NewSessionType DEF SsType
    <2>2. ManagerType' /\ DbType' /\ RoomsType'
      BY <1>1, <1>2 DEF ManagerType, DbType, RoomsType
    <2> QED BY <1>1, <1>2, <2>1, <2>2, TypePartsNext
  <1>5. IndexInv'
    <2>1. SessionIndex'
      BY <1>1, <1>2, <1>3
         DEF SessionInv, IndexInv, SessionIndex, Unused, ManagerType
    <2>2. Anonymous'
      BY <1>3 DEF SessionInv, IndexInv, Anonymous
    <2>3. LastRead'
      BY <1>2 DEF LastRead
    <2> QED BY <2>1, <2>2, <2>3 DEF IndexInv
  <1>6. SeatKept'
    BY <1>1, <1>2, <1>3 DEF SessionInv, SeatKept, ManagerType
  <1>7. TaskInv'
    <2>1. NoTaskYet'
      BY <1>1, <1>2, <1>3 DEF SessionInv, TaskInv, NoTaskYet, Unused, ManagerType
    <2>2. SavesBeforeSuccessorLoads'
      BY <1>2 DEF SessionInv, TaskInv, SavesBeforeSuccessorLoads
    <2> QED BY <2>1, <2>2 DEF TaskInv
  <1> QED BY <1>4, <1>5, <1>6, <1>7 DEF SessionInv

(* What on_disconnect does to the tables, by the index it finds.  *)
LEMMA DisconnectTables ==
  ASSUME ManagerType, SessionIndex, NEW c \in m_sessions, on_disconnect(c)
  PROVE  /\ m_sessions' = m_sessions \ {c}
         /\ m_uid2session' \in [Uid -> Conn \cup {NoConn}]
         /\ \A u \in Uid :
              m_uid2session'[u] = IF ss[c].uid = u THEN NoConn ELSE m_uid2session[u]
         /\ \A u \in Uid : m_uid2session'[u] # c
  <1>1. /\ m_sessions' = m_sessions \ {c}
        /\ m_uid2session' = [u \in Uid |-> IF ss[c].uid = u THEN NoConn
                                           ELSE m_uid2session[u]]
    BY DEF on_disconnect, WithoutSession
  <1>2. \A u \in Uid : m_uid2session'[u] = IF ss[c].uid = u THEN NoConn
                                           ELSE m_uid2session[u]
    BY <1>1
  <1>3. \A u \in Uid : m_uid2session'[u] # c
    BY <1>2, SessionAssumption DEF SessionIndex, ManagerType
  <1> QED BY <1>1, <1>2, <1>3 DEF ManagerType

LEMMA DisconnectKeeps ==
  ASSUME SessionInv, NEW c \in Conn, disconnect(c)
  PROVE  SessionInv'
  <1>1. SsType /\ ManagerType /\ DbType /\ RoomsType /\ aborted \in BOOLEAN
    BY TypeParts DEF SessionInv
  <1>2. /\ c \in m_sessions /\ reading = NoConn
        /\ ss' = [d \in Conn |-> IF d \in {c} THEN NewSession ELSE ss[d]]
        /\ UNCHANGED <<reading, tasks, role, m_rooms, m_next_room_id, aborted>>
    BY DEF disconnect, Released, db, rooms
  <1>3. /\ m_sessions' = m_sessions \ {c}
        /\ m_uid2session' \in [Uid -> Conn \cup {NoConn}]
        /\ \A u \in Uid :
             m_uid2session'[u] = IF ss[c].uid = u THEN NoConn ELSE m_uid2session[u]
        /\ \A u \in Uid : m_uid2session'[u] # c
    BY <1>1, <1>2, DisconnectTables DEF disconnect, SessionInv, IndexInv
  <1>4. /\ ss'[c].state = "connected" /\ ss'[c].uid = NoUid
        /\ \A d \in Conn : d # c => ss'[d] = ss[d]
    BY <1>1, <1>2 DEF NewSession
  <1>5. TypeOK'
    <2>1. SsType'
      BY <1>1, <1>2, NewSessionType DEF SsType
    <2>2. ManagerType' /\ DbType' /\ RoomsType'
      BY <1>1, <1>2, <1>3 DEF ManagerType, DbType, RoomsType
    <2> QED BY <1>1, <1>2, <2>1, <2>2, TypePartsNext
  <1>6. IndexInv'
    <2>1. \A d \in m_sessions' : ss'[d].uid # NoUid => m_uid2session'[ss'[d].uid] = d
      <3> SUFFICES ASSUME NEW d \in m_sessions', ss'[d].uid # NoUid
                   PROVE  m_uid2session'[ss'[d].uid] = d
        OBVIOUS
      <3>1. d \in Conn /\ d # c /\ d \in m_sessions /\ ss'[d] = ss[d]
        BY <1>1, <1>3, <1>4 DEF ManagerType
      <3>2. ss[d].uid \in Uid
        BY <1>1, <3>1 DEF SsType, Session
      <3>3. m_uid2session[ss[d].uid] = d /\ ss[d].uid # ss[c].uid
        BY <1>2, <3>1 DEF SessionInv, IndexInv, SessionIndex
      <3> QED BY <1>3, <3>1, <3>2, <3>3
    <2>2. \A u \in Uid : m_uid2session'[u] # NoConn => ss'[m_uid2session'[u]].uid = u
      BY <1>1, <1>3, <1>4 DEF SessionInv, IndexInv, SessionIndex, ManagerType
    <2>3. Anonymous'
      BY <1>4 DEF SessionInv, IndexInv, Anonymous
    <2>4. LastRead'
      BY <1>2 DEF LastRead
    <2> QED BY <2>1, <2>2, <2>3, <2>4 DEF IndexInv, SessionIndex
  <1>7. SeatKept'
    BY <1>1, <1>2, <1>3, <1>4 DEF SessionInv, SeatKept, ManagerType
  <1>8. TaskInv'
    <2>1. NobodyNew
      BY <1>1, <1>2, <1>3, <1>4, SessionAssumption DEF NobodyNew
    <2> QED BY <1>1, <1>2, <2>1, TasksUntouched DEF SessionInv
  <1> QED BY <1>5, <1>6, <1>7, <1>8 DEF SessionInv

LEMMA LogoutKeeps ==
  ASSUME SessionInv, NEW c \in Conn, logout_req(c)
  PROVE  SessionInv'
  <1>1. SsType /\ ManagerType /\ DbType /\ RoomsType /\ aborted \in BOOLEAN
    BY TypeParts DEF SessionInv
  <1>2. /\ c \in m_sessions /\ reading' = c
        /\ UNCHANGED <<ss, tasks, role, m_rooms, m_next_room_id, aborted>>
    BY DEF logout_req, db, rooms
  <1>3. /\ m_sessions' = m_sessions \ {c}
        /\ m_uid2session' \in [Uid -> Conn \cup {NoConn}]
        /\ \A u \in Uid :
             m_uid2session'[u] = IF ss[c].uid = u THEN NoConn ELSE m_uid2session[u]
        /\ \A u \in Uid : m_uid2session'[u] # c
    BY <1>1, <1>2, DisconnectTables DEF logout_req, SessionInv, IndexInv
  <1>4. ASSUME NEW d \in m_sessions', ss[d].uid # NoUid
        PROVE  /\ d \in m_sessions /\ ss[d].uid \in Uid
               /\ m_uid2session[ss[d].uid] = d /\ ss[d].uid # ss[c].uid
    <2>1. d \in Conn /\ d # c /\ d \in m_sessions
      BY <1>1, <1>3 DEF ManagerType
    <2>2. ss[d].uid \in Uid
      BY <1>1, <1>4, <2>1 DEF SsType, Session
    <2> QED BY <1>2, <1>4, <2>1, <2>2 DEF SessionInv, IndexInv, SessionIndex
  <1>5. TypeOK'
    <2>1. SsType' /\ ManagerType' /\ DbType' /\ RoomsType'
      BY <1>1, <1>2, <1>3 DEF SsType, ManagerType, DbType, RoomsType
    <2> QED BY <1>1, <1>2, <2>1, TypePartsNext
  <1>6. IndexInv'
    <2>1. \A d \in m_sessions' : ss'[d].uid # NoUid => m_uid2session'[ss'[d].uid] = d
      BY <1>2, <1>3, <1>4
    <2>2. \A u \in Uid : m_uid2session'[u] # NoConn => ss'[m_uid2session'[u]].uid = u
      BY <1>2, <1>3 DEF SessionInv, IndexInv, SessionIndex
    <2>3. Anonymous'
      BY <1>2 DEF SessionInv, IndexInv, Anonymous
    <2>4. LastRead'
      BY <1>2, <1>3, <1>4 DEF LastRead
    <2> QED BY <2>1, <2>2, <2>3, <2>4 DEF IndexInv, SessionIndex
  <1>7. SeatKept'
    BY <1>2, <1>3 DEF SessionInv, SeatKept
  <1>8. TaskInv'
    <2>1. NobodyNew
      BY <1>1, <1>2, <1>3 DEF NobodyNew
    <2> QED BY <1>1, <1>2, <2>1, TasksUntouched DEF SessionInv
  <1> QED BY <1>5, <1>6, <1>7, <1>8 DEF SessionInv

LEMMA EndReadKeeps ==
  ASSUME SessionInv, EndRead
  PROVE  SessionInv'
  <1>1. SsType /\ ManagerType /\ DbType /\ RoomsType /\ aborted \in BOOLEAN
    BY TypeParts DEF SessionInv
  <1>2. /\ reading \in Conn /\ reading \notin m_sessions /\ reading' = NoConn
        /\ UNCHANGED <<m_sessions, m_uid2session, tasks, role, m_rooms,
                       m_next_room_id, aborted>>
    BY <1>1 DEF EndRead, db, rooms, ManagerType, SessionInv, IndexInv, LastRead
  <1>3. /\ SsType'
        /\ \A d \in Conn : d # reading => ss'[d] = ss[d]
        /\ \/ ss'[reading] = ss[reading]
           \/ /\ \A u \in Uid : m_uid2session[u] # reading
              /\ ss'[reading].state = "connected" /\ ss'[reading].uid = NoUid
    <2>1. CASE \E u \in Uid : m_uid2session[u] = reading
      BY <1>1, <2>1 DEF EndRead, SsType
    <2>2. CASE ~\E u \in Uid : m_uid2session[u] = reading
      <3>1. ss' = [d \in Conn |-> IF d \in {reading} THEN NewSession ELSE ss[d]]
        BY <2>2 DEF EndRead, Released
      <3> QED BY <1>1, <1>2, <2>2, <3>1, NewSessionType DEF SsType, NewSession
    <2> QED BY <2>1, <2>2
  <1>4. TypeOK'
    <2>1. ManagerType' /\ DbType' /\ RoomsType'
      BY <1>1, <1>2 DEF ManagerType, DbType, RoomsType
    <2> QED BY <1>1, <1>2, <1>3, <2>1, TypePartsNext
  <1>5. IndexInv'
    <2>1. SessionIndex'
      BY <1>1, <1>2, <1>3 DEF SessionInv, IndexInv, SessionIndex, ManagerType
    <2>2. Anonymous'
      BY <1>3 DEF SessionInv, IndexInv, Anonymous
    <2>3. LastRead'
      BY <1>2 DEF LastRead
    <2> QED BY <2>1, <2>2, <2>3 DEF IndexInv
  <1>6. SeatKept'
    BY <1>1, <1>2, <1>3 DEF SessionInv, SeatKept, ManagerType
  <1>7. TaskInv'
    <2>1. NobodyNew
      BY <1>1, <1>2, <1>3, SessionAssumption DEF NobodyNew, ManagerType
    <2> QED BY <1>1, <1>2, <2>1, TasksUntouched DEF SessionInv
  <1> QED BY <1>4, <1>5, <1>6, <1>7 DEF SessionInv

-----------------------------------------------------------------------------
(***************************************************************************)
(* Login and roles.                                                        *)
(***************************************************************************)

(* A login that is not the last thing the process does: the earlier        *)
(* session of the user, if there is one, is in the table and is not the    *)
(* one that logs in.                                                       *)
LEMMA LoginTables ==
  ASSUME SessionInv, NEW c \in Conn, NEW u \in Uid, login_req(c, u), NEW old,
         old = m_uid2session[u], old = NoConn \/ old \in m_sessions
  PROVE  /\ c # old /\ (reading # NoConn => c = reading)
         /\ c \in m_sessions \/ c = reading
         /\ ss[c].state = "connected" /\ ss[c].uid = NoUid
         /\ old # NoConn => ss[old].uid = u
         /\ m_sessions' = m_sessions \ {old}
         /\ m_uid2session' = [m_uid2session EXCEPT ![u] = c]
         /\ ss' \in [Conn -> Session]
         /\ ss'[c].uid = u /\ ss'[c].state = "authed"
         /\ \A d \in Conn : d # c /\ d # old => ss'[d] = ss[d]
         /\ old # NoConn => ss'[old].state = "connected" /\ ss'[old].uid = NoUid
         /\ tasks' = Append(tasks, load_role_req(u, c))
         /\ UNCHANGED <<reading, role, m_rooms, m_next_room_id, aborted>>
  <1>1. SsType /\ ManagerType
    BY TypeParts DEF SessionInv
  <1>2. /\ Serves(c) /\ ss[c].state = "connected"
        /\ m_sessions' = m_sessions \ {old}
        /\ m_uid2session' = [m_uid2session EXCEPT ![u] = c]
        /\ ss' = [Released({old}) EXCEPT ![c].uid = u, ![c].state = "authed"]
        /\ tasks' = Append(tasks, load_role_req(u, c))
        /\ UNCHANGED <<reading, role, m_rooms, m_next_room_id, aborted>>
    BY DEF login_req, rooms
  <1>3. /\ ss[c].uid = NoUid /\ (old # NoConn => ss[old].uid = u)
        /\ old \in Conn \cup {NoConn}
    BY <1>1, <1>2 DEF SessionInv, IndexInv, Anonymous, SessionIndex, ManagerType
  <1>4. c # old
    BY <1>3, SessionAssumption
  <1>5. /\ c \in m_sessions \/ c = reading
        /\ reading # NoConn => c = reading
    BY <1>2 DEF Serves
  <1> DEFINE rel == Released({old})
  <1>6. /\ rel \in [Conn -> Session]
        /\ \A d \in Conn : d # old => rel[d] = ss[d]
        /\ old # NoConn => rel[old] = NewSession
    BY <1>1, <1>3, NewSessionType DEF Released, SsType
  <1>7. ss' = [rel EXCEPT ![c] = [rel[c] EXCEPT !.uid = u, !.state = "authed"]]
    BY <1>2, <1>6
  <1> HIDE DEF rel
  <1>8. [rel[c] EXCEPT !.uid = u, !.state = "authed"] \in Session
    BY <1>6 DEF Session, SessionState
  <1>9. /\ ss' \in [Conn -> Session]
        /\ ss'[c] = [rel[c] EXCEPT !.uid = u, !.state = "authed"]
        /\ \A d \in Conn : d # c => ss'[d] = rel[d]
    BY <1>6, <1>7, <1>8
  <1>10. ss'[c].uid = u /\ ss'[c].state = "authed"
    BY <1>6, <1>9 DEF Session
  <1>11. old # NoConn => ss'[old].state = "connected" /\ ss'[old].uid = NoUid
    BY <1>3, <1>4, <1>6, <1>9 DEF NewSession
  <1> QED BY <1>2, <1>3, <1>4, <1>5, <1>6, <1>9, <1>10, <1>11

LEMMA LoginKeeps ==
  ASSUME SessionInv, NEW c \in Conn, NEW u \in Uid, login_req(c, u)
  PROVE  SessionInv'
  <1>1. SsType /\ ManagerType /\ DbType /\ RoomsType /\ aborted \in BOOLEAN
    BY TypeParts DEF SessionInv
  <1> DEFINE old == m_uid2session[u]
  <1>2. CASE old # NoConn /\ old \notin m_sessions
    <2>1. aborted' = TRUE /\ UNCHANGED <<ss, manager, db, rooms>>
      BY <1>2 DEF login_req, manager, db, rooms
    <2> QED BY <2>1, AbortKeeps
  <1>3. CASE old = NoConn \/ old \in m_sessions
    <2>1. /\ c # old /\ (reading # NoConn => c = reading)
          /\ c \in m_sessions \/ c = reading
          /\ ss[c].state = "connected" /\ ss[c].uid = NoUid
          /\ old # NoConn => ss[old].uid = u
          /\ m_sessions' = m_sessions \ {old}
          /\ m_uid2session' = [m_uid2session EXCEPT ![u] = c]
          /\ ss' \in [Conn -> Session]
          /\ ss'[c].uid = u /\ ss'[c].state = "authed"
          /\ \A d \in Conn : d # c /\ d # old => ss'[d] = ss[d]
          /\ old # NoConn => ss'[old].state = "connected" /\ ss'[old].uid = NoUid
          /\ tasks' = Append(tasks, load_role_req(u, c))
          /\ UNCHANGED <<reading, role, m_rooms, m_next_room_id, aborted>>
      BY <1>3, LoginTables
    <2> HIDE DEF old
    <2>2. old \in Conn \cup {NoConn} /\ old = m_uid2session[u]
      BY <1>1 DEF old, ManagerType
    <2>3. load_role_req(u, c) \in Task
      BY DEF load_role_req, Task
    <2>4. TypeOK'
      <3>1. SsType' /\ DbType' /\ RoomsType'
        BY <1>1, <2>1, <2>3 DEF SsType, DbType, RoomsType
      <3>2. ManagerType'
        BY <1>1, <2>1 DEF ManagerType
      <3> QED BY <1>1, <2>1, <3>1, <3>2, TypePartsNext
    <2>5. ASSUME NEW d \in m_sessions', d # c, ss'[d].uid # NoUid
          PROVE  /\ ss'[d] = ss[d] /\ ss[d].uid \in Uid /\ ss[d].uid # u
                 /\ m_uid2session[ss[d].uid] = d
      <3>1. d \in Conn /\ d \in m_sessions /\ ss'[d] = ss[d] /\ d # old
        BY <1>1, <2>1, <2>5 DEF ManagerType
      <3>2. ss[d].uid \in Uid
        BY <1>1, <2>5, <3>1 DEF SsType, Session
      <3>3. m_uid2session[ss[d].uid] = d
        BY <2>5, <3>1 DEF SessionInv, IndexInv, SessionIndex
      <3> QED BY <2>2, <3>1, <3>2, <3>3
    <2>6. IndexInv'
      <3>1. \A d \in m_sessions' : ss'[d].uid # NoUid => m_uid2session'[ss'[d].uid] = d
        BY <1>1, <2>1, <2>5 DEF ManagerType
      <3>2. ASSUME NEW w \in Uid, m_uid2session'[w] # NoConn
            PROVE  ss'[m_uid2session'[w]].uid = w
        <4>1. CASE w = u
          BY <1>1, <2>1, <4>1 DEF ManagerType
        <4>2. CASE w # u
          <5>1. m_uid2session'[w] = m_uid2session[w] /\ m_uid2session[w] \in Conn
            BY <1>1, <2>1, <3>2, <4>2 DEF ManagerType
          <5>2. ss[m_uid2session[w]].uid = w
            BY <3>2, <5>1 DEF SessionInv, IndexInv, SessionIndex
          <5> QED BY <2>1, <2>2, <4>2, <5>1, <5>2, SessionAssumption
        <4> QED BY <4>1, <4>2
      <3>3. Anonymous'
        <4> SUFFICES ASSUME NEW d \in Conn
                     PROVE  ss'[d].state = "connected" <=> ss'[d].uid = NoUid
          BY DEF Anonymous
        <4>1. CASE d = c \/ d = old
          BY <2>1, <2>2, <4>1, SessionAssumption
        <4>2. CASE d # c /\ d # old
          BY <2>1, <4>2 DEF SessionInv, IndexInv, Anonymous
        <4> QED BY <4>1, <4>2
      <3>4. LastRead'
        <4> SUFFICES ASSUME reading # NoConn
                     PROVE  /\ c \notin m_sessions'
                            /\ \A d \in m_sessions' :
                                 ss'[d].uid # NoUid => ss'[d].uid # u
          BY <2>1 DEF LastRead
        <4>1. c \notin m_sessions'
          BY <2>1 DEF SessionInv, IndexInv, LastRead
        <4> QED BY <2>5, <4>1
      <3> QED BY <3>1, <3>2, <3>3, <3>4 DEF IndexInv, SessionIndex
    <2>7. SeatKept'
      BY <1>1, <2>1 DEF SessionInv, SeatKept, ManagerType
    <2>8. ASSUME NEW i \in 1 .. Len(tasks'), i # Len(tasks) + 1
          PROVE  /\ i \in 1 .. Len(tasks) /\ tasks'[i] = tasks[i]
                 /\ tasks'[i].op # "create" => tasks'[i].by # c
      <3>1. i \in 1 .. Len(tasks) /\ tasks'[i] = tasks[i]
        BY <1>1, <2>1, <2>8 DEF DbType
      <3> QED BY <2>1, <3>1 DEF SessionInv, TaskInv, NoTaskYet
    <2>9. Len(tasks) \in Nat /\ Len(tasks') = Len(tasks) + 1
          /\ tasks'[Len(tasks) + 1] = load_role_req(u, c)
      BY <1>1, <2>1 DEF DbType
    <2>10. NoTaskYet'
      <3> SUFFICES ASSUME NEW d \in Conn, d \in m_sessions' \/ d = reading',
                          ss'[d].state = "connected",
                          NEW i \in 1 .. Len(tasks'), tasks'[i].op # "create"
                   PROVE  tasks'[i].by # d
        BY DEF NoTaskYet
      <3>1. d # c /\ d # old
        BY <2>1, SessionAssumption
      <3>2. CASE i = Len(tasks) + 1
        BY <2>9, <3>1, <3>2 DEF load_role_req
      <3>3. CASE i # Len(tasks) + 1
        <4>1. (d \in m_sessions \/ d = reading) /\ ss[d].state = "connected"
          BY <2>1, <3>1
        <4> QED BY <2>8, <3>3, <4>1 DEF SessionInv, TaskInv, NoTaskYet
      <3> QED BY <3>2, <3>3
    <2>11. SavesBeforeSuccessorLoads'
      <3> SUFFICES ASSUME NEW i \in 1 .. Len(tasks'), NEW j \in 1 .. Len(tasks'),
                          i < j,
                          tasks'[i].op = "load", tasks'[j].op = "save",
                          tasks'[i].uid = tasks'[j].uid,
                          tasks'[i].by = m_uid2session'[tasks'[i].uid]
                   PROVE  tasks'[j].by = tasks'[i].by
        BY DEF SavesBeforeSuccessorLoads
      <3>1. j # Len(tasks) + 1 /\ i # Len(tasks) + 1
        BY <2>9 DEF load_role_req
      <3>2. /\ i \in 1 .. Len(tasks) /\ tasks'[i] = tasks[i] /\ tasks[i].by # c
            /\ j \in 1 .. Len(tasks) /\ tasks'[j] = tasks[j]
        BY <2>8, <3>1
      <3>3. tasks[i] \in Task
        BY <1>1, <3>2 DEF DbType
      <3>4. tasks[i].uid \in Uid
        BY <3>3, TaskFields
      <3>5. tasks[i].by = m_uid2session[tasks[i].uid]
        BY <1>1, <2>1, <3>2, <3>4 DEF ManagerType
      <3> QED BY <3>2, <3>5 DEF SessionInv, TaskInv, SavesBeforeSuccessorLoads
    <2>12. TaskInv'
      BY <2>10, <2>11 DEF TaskInv
    <2> QED BY <2>4, <2>6, <2>7, <2>12 DEF SessionInv
  <1> QED BY <1>2, <1>3

(* Steps that leave the table of sessions alone and log nobody in or out. *)
Settled ==
  /\ UNCHANGED manager
  /\ \A c \in Conn :
       /\ ss'[c].uid = ss[c].uid
       /\ ss'[c].state = "connected" <=> ss[c].state = "connected"

LEMMA SettledNobodyNew ==
  ASSUME ManagerType, Settled
  PROVE  NobodyNew
  BY DEF ManagerType, Settled, NobodyNew, manager

LEMMA SettledKeeps ==
  ASSUME SessionInv, Settled, UNCHANGED aborted,
         SsType', DbType', RoomsType', SeatKept', tasks' = tasks \/ TaskInv'
  PROVE  SessionInv'
  <1>1. SsType /\ ManagerType /\ DbType /\ RoomsType /\ aborted \in BOOLEAN
    BY TypeParts DEF SessionInv
  <1>2. ManagerType'
    BY <1>1 DEF ManagerType, Settled, manager
  <1>3. TypeOK'
    BY <1>1, <1>2, TypePartsNext
  <1>4. IndexInv'
    BY <1>1, IndexKept DEF Settled, SessionInv
  <1>5. TaskInv'
    BY <1>1, SettledNobodyNew, TasksUntouched DEF SessionInv
  <1> QED BY <1>3, <1>4, <1>5 DEF SessionInv

(* A session found for a user, and one in the table, has logged in. *)
LEMMA FoundSession ==
  ASSUME SessionInv, NEW u \in Uid, m_uid2session[u] # NoConn
  PROVE  /\ m_uid2session[u] \in Conn /\ ss[m_uid2session[u]] \in Session
         /\ ss[m_uid2session[u]].uid = u
         /\ ss[m_uid2session[u]].state # "connected"
  <1>1. m_uid2session[u] \in Conn /\ ss[m_uid2session[u]] \in Session
    BY TypeParts DEF SessionInv, ManagerType, SsType
  <1>2. ss[m_uid2session[u]].uid = u
    BY DEF SessionInv, IndexInv, SessionIndex
  <1> QED BY <1>1, <1>2, SessionAssumption DEF SessionInv, IndexInv, Anonymous

LEMMA LoggedIn ==
  ASSUME SessionInv, NEW c \in Conn, ss[c].state # "connected"
  PROVE  /\ ss[c] \in Session /\ ss[c].uid \in Uid
         /\ c \in m_sessions => m_uid2session[ss[c].uid] = c
  <1>1. ss[c] \in Session
    BY TypeParts DEF SessionInv, SsType
  <1>2. ss[c].uid # NoUid
    BY DEF SessionInv, IndexInv, Anonymous
  <1> QED BY <1>1, <1>2 DEF Session, SessionInv, IndexInv, SessionIndex

(* Sessions change without taking part in a game, and rooms stay. *)
LEMMA SeatsKept ==
  ASSUME SessionInv, m_sessions' = m_sessions, m_rooms' = m_rooms,
         \A d \in Conn : ss'[d] = ss[d] \/ ss'[d].state # "gaming"
                         \/ ss'[d].room_id \notin RoomId
  PROVE  SeatKept'
  <1>1. m_sessions \subseteq Conn
    BY TypeParts DEF SessionInv, ManagerType
  <1> QED BY <1>1 DEF SessionInv, SeatKept

LEMMA CreateRoleKeeps ==
  ASSUME SessionInv, NEW c \in Conn, create_role_req(c)
  PROVE  SessionInv'
  <1>1. SsType /\ ManagerType /\ DbType /\ RoomsType
    BY TypeParts DEF SessionInv
  <1>2. ss[c] \in Session /\ ss[c].state = "create_role" /\ ss[c].uid \in Uid
    BY LoggedIn DEF create_role_req
  <1> DEFINE s == [ss[c] EXCEPT !.state = "create_role_wait"]
             t == create_role_task(ss[c].uid)
  <1>3. s \in Session /\ s.uid = ss[c].uid /\ s.state = "create_role_wait"
    BY <1>2 DEF Session, SessionState
  <1>4. t \in Task /\ t.op = "create"
    BY <1>2 DEF create_role_task, Task
  <1>5. /\ ss' = [ss EXCEPT ![c] = s] /\ tasks' = Append(tasks, t)
        /\ UNCHANGED <<manager, role, m_rooms, m_next_room_id, aborted>>
    BY DEF create_role_req, rooms
  <1> HIDE DEF s, t
  <1>6. /\ SsType' /\ Settled
        /\ \A d \in Conn : ss'[d] = ss[d] \/ ss'[d].state # "gaming"
    BY <1>1, <1>2, <1>3, <1>5, OneSession DEF Settled
  <1>7. DbType' /\ RoomsType'
    BY <1>1, <1>4, <1>5 DEF DbType, RoomsType
  <1>8. TaskInv'
    BY <1>1, <1>4, <1>5, <1>6, SettledNobodyNew, TaskSubmitted DEF SessionInv
  <1>9. SeatKept'
    BY <1>5, <1>6, SeatsKept DEF manager
  <1> QED BY <1>5, <1>6, <1>7, <1>8, <1>9, SettledKeeps

LEMMA UpdateSessionKeeps ==
  ASSUME SessionInv, NEW c \in Conn, update_session(c)
  PROVE  SessionInv'
  <1>1. SsType /\ ManagerType /\ DbType /\ RoomsType
    BY TypeParts DEF SessionInv
  <1>2. /\ c \in m_sessions /\ ss[c] \in Session /\ ss[c].state # "connected"
        /\ ss[c].uid \in Uid /\ m_uid2session[ss[c].uid] = c
    BY LoggedIn DEF update_session
  <1> DEFINE s == [ss[c] EXCEPT !.dirty = FALSE]
             t == save_role_req(ss[c].uid, c, ss[c].room_id)
  <1>3. s \in Session /\ s.uid = ss[c].uid /\ s.state = ss[c].state
        /\ s.room_id = ss[c].room_id
    BY <1>2 DEF Session
  <1>4. /\ t \in Task /\ t.op = "save" /\ t.by = c /\ t.uid = ss[c].uid
    BY <1>2 DEF save_role_req, Task, Session
  <1>5. /\ ss' = [ss EXCEPT ![c] = s] /\ tasks' = Append(tasks, t)
        /\ UNCHANGED <<manager, role, m_rooms, m_next_room_id, aborted>>
    BY DEF update_session, rooms
  <1> HIDE DEF s, t
  <1>6. /\ SsType' /\ Settled /\ ss'[c] = s
        /\ \A d \in Conn : d # c => ss'[d] = ss[d]
    BY <1>1, <1>2, <1>3, <1>5, OneSession DEF Settled
  <1>7. DbType' /\ RoomsType'
    BY <1>1, <1>4, <1>5 DEF DbType, RoomsType
  <1>8. TaskInv'
    <2>1. m_uid2session' = m_uid2session
      BY <1>5 DEF manager
    <2> QED BY <1>1, <1>2, <1>3, <1>4, <1>5, <1>6, <2>1,
               SettledNobodyNew, TaskSubmitted DEF SessionInv
  <1>9. SeatKept'
    <2>1. m_sessions' = m_sessions /\ m_sessions \subseteq Conn
      BY <1>1, <1>5 DEF manager, ManagerType
    <2> QED BY <1>3, <1>5, <1>6, <2>1 DEF SessionInv, SeatKept
  <1> QED BY <1>5, <1>6, <1>7, <1>8, <1>9, SettledKeeps

(* An answer about u is applied to the session u has, which stays u's and  *)
(* logged in and does not enter a game; perhaps its role is asked for.     *)
LEMMA AnswerKeeps ==
  ASSUME SessionInv, NEW u \in Uid, NEW s, NEW c, c = m_uid2session[u],
         ApplyTo(u, s), UNCHANGED <<manager, rooms, aborted>>,
         role' \in [Uid -> Role], tasks # <<>>,
         c # NoConn => /\ s \in Session /\ s.uid = u /\ s.state # "connected"
                       /\ \/ s.state # "gaming"
                          \/ s.state = ss[c].state /\ s.room_id = ss[c].room_id,
         \/ tasks' = Tail(tasks)
         \/ c # NoConn /\ tasks' = Append(Tail(tasks), load_role_req(u, c))
  PROVE  SessionInv'
  <1>1. SsType /\ ManagerType /\ DbType /\ RoomsType
    BY TypeParts DEF SessionInv
  <1>2. /\ SsType' /\ Settled
        /\ \A d \in Conn :
             \/ ss'[d].state # "gaming"
             \/ ss'[d].state = ss[d].state /\ ss'[d].room_id = ss[d].room_id
                /\ ss'[d].uid = ss[d].uid
        /\ c # NoConn => c \in Conn /\ ss'[c].state # "connected"
    <2>1. CASE c = NoConn
      BY <1>1, <2>1 DEF ApplyTo, SsType, Settled
    <2>2. CASE c # NoConn
      <3>1. c \in Conn /\ ss[c].uid = u /\ ss[c].state # "connected"
        BY <2>2, FoundSession
      <3>2. ss' = [ss EXCEPT ![c] = s]
        BY <2>2 DEF ApplyTo
      <3>3. /\ SsType' /\ ss'[c] = s
            /\ \A d \in Conn : d # c => ss'[d] = ss[d]
            /\ \A d \in Conn :
                 /\ ss'[d].uid = ss[d].uid
                 /\ ss'[d].state = "connected" <=> ss[d].state = "connected"
        BY <1>1, <2>2, <3>1, <3>2, OneSession
      <3> QED BY <2>2, <3>1, <3>3 DEF Settled
    <2> QED BY <2>1, <2>2
  <1>3. TaskInv' /\ tasks' \in Seq(Task)
    <2>1. ASSUME c # NoConn
          PROVE  /\ load_role_req(u, c) \in Task /\ load_role_req(u, c).op = "load"
                 /\ ss'[load_role_req(u, c).by].state # "connected"
      BY <1>2, <2>1 DEF load_role_req, Task
    <2> QED BY <1>1, <1>2, <2>1, SettledNobodyNew, TaskAnswered DEF SessionInv
  <1>4. DbType' /\ RoomsType'
    BY <1>1, <1>3 DEF DbType, RoomsType, rooms
  <1>5. SeatKept'
    BY <1>1, <1>2 DEF SessionInv, SeatKept, ManagerType, manager, rooms
  <1> QED BY <1>2, <1>3, <1>4, <1>5, SettledKeeps

LEMMA LoadRspKeeps ==
  ASSUME SessionInv, load_role_rsp
  PROVE  SessionInv'
  <1>1. SsType /\ ManagerType /\ DbType /\ RoomsType
    BY TypeParts DEF SessionInv
  <1> DEFINE u == Head(tasks).uid
             c == m_uid2session[u]
             s == ss[c]
             After(result) ==
               CASE result = "not_exists" ->
                      [s EXCEPT !.state = "create_role", !.failed = FALSE]
                 [] result = "db_error" -> [s EXCEPT !.failed = TRUE]
                 [] result = "ok" ->
                      [s EXCEPT !.state = "logged", !.room_id = role[u],
                                !.failed = FALSE]
  <1>2. PICK result \in LoadResults(u) : ApplyTo(u, After(result))
    BY DEF load_role_rsp
  <1>3. /\ tasks # <<>> /\ tasks' = Tail(tasks)
        /\ UNCHANGED <<manager, rooms, aborted, role>>
    BY DEF load_role_rsp, Answer
  <1>4. u \in Uid
    <2>1. Head(tasks) \in Task
      BY <1>1, <1>3 DEF DbType
    <2> QED BY <2>1, TaskFields
  <1>5. c # NoConn => s \in Session /\ s.uid = u /\ s.state # "connected"
    BY <1>4, FoundSession
  <1>6. role[u] \in Role /\ (result = "ok" => role[u] # NoRole)
        /\ result \in {"db_error", "not_exists", "ok"}
    BY <1>1, <1>4 DEF DbType, LoadResults
  <1> DEFINE a == After(result)
  <1>7. ASSUME c # NoConn
        PROVE  /\ a \in Session /\ a.uid = u
               /\ a.state # "connected"
               /\ \/ a.state # "gaming"
                  \/ /\ a.state = ss[c].state
                     /\ a.room_id = ss[c].room_id
    <2>1. s \in Session /\ s.uid = u /\ s.state # "connected" /\ s = ss[c]
      BY <1>5, <1>7
    <2> HIDE DEF s, u, c
    <2>2. CASE result = "not_exists"
      <3>1. a = [s EXCEPT !.state = "create_role", !.failed = FALSE]
        BY <2>2
      <3> HIDE DEF a
      <3> QED BY <2>1, <3>1 DEF Session, SessionState
    <2>3. CASE result = "db_error"
      <3>1. a = [s EXCEPT !.failed = TRUE]
        BY <2>3
      <3> HIDE DEF a
      <3> QED BY <2>1, <3>1 DEF Session
    <2>4. CASE result = "ok"
      <3>1. a = [s EXCEPT !.state = "logged", !.room_id = role[u],
                                      !.failed = FALSE]
        BY <2>4
      <3>2. role[u] \in RoomId \cup {NoRoomId}
        BY <1>6, <2>4 DEF Role
      <3> HIDE DEF a
      <3> QED BY <2>1, <3>1, <3>2 DEF Session, SessionState
    <2> QED BY <1>6, <2>2, <2>3, <2>4
  <1>8. ApplyTo(u, a) /\ role' \in [Uid -> Role]
    BY <1>1, <1>2, <1>3 DEF DbType
  <1> HIDE DEF a
  <1> QED BY <1>3, <1>4, <1>7, <1>8, AnswerKeeps

LEMMA CreateRspKeeps ==
  ASSUME SessionInv, create_role_rsp
  PROVE  SessionInv'
  <1>1. SsType /\ ManagerType /\ DbType /\ RoomsType
    BY TypeParts DEF SessionInv
  <1> DEFINE u == Head(tasks).uid
             c == m_uid2session[u]
  <1>2. PICK result \in CreateResults(u) :
           /\ role' = [role EXCEPT ![u] = result.role]
           /\ AfterCreate(u, result.ok)
           /\ tasks' = Tail(tasks) \o LoadAgain(u, result.ok)
    BY DEF create_role_rsp
  <1>3. tasks # <<>> /\ UNCHANGED <<manager, rooms, aborted>>
    BY DEF create_role_rsp, Answer
  <1>4. u \in Uid /\ Tail(tasks) \in Seq(Task)
    <2>1. Head(tasks) \in Task /\ Tail(tasks) \in Seq(Task)
      BY <1>1, <1>3 DEF DbType
    <2> QED BY <2>1, TaskFields
  <1>5. role' \in [Uid -> Role]
    <2>1. result.role \in Role
      BY <1>1, <1>4 DEF DbType, CreateResults, Role
    <2> QED BY <1>1, <1>2, <1>4, <2>1 DEF DbType
  <1> DEFINE s == [ss[c] EXCEPT !.state = IF result.ok THEN "authed"
                                          ELSE "create_role"]
  <1>6. ApplyTo(u, s)
    BY <1>2 DEF AfterCreate
  <1>7. c # NoConn => /\ s \in Session /\ s.uid = u
                      /\ s.state # "connected" /\ s.state # "gaming"
    <2>1. c # NoConn => ss[c] \in Session /\ ss[c].uid = u
      BY <1>4, FoundSession
    <2> HIDE DEF c, u
    <2> QED BY <2>1 DEF Session, SessionState
  <1>8. \/ tasks' = Tail(tasks)
        \/ c # NoConn /\ tasks' = Append(Tail(tasks), load_role_req(u, c))
    <2>1. CASE result.ok /\ c # NoConn
      <3>1. tasks' = Tail(tasks) \o <<load_role_req(u, c)>>
        BY <1>2, <2>1 DEF LoadAgain
      <3> HIDE DEF u, c
      <3> QED BY <1>4, <2>1, <3>1
    <2>2. CASE ~(result.ok /\ c # NoConn)
      <3>1. tasks' = Tail(tasks) \o <<>>
        BY <1>2, <2>2 DEF LoadAgain
      <3> QED BY <1>4, <3>1
    <2> QED BY <2>1, <2>2
  <1> HIDE DEF s
  <1> QED BY <1>3, <1>4, <1>5, <1>6, <1>7, <1>8, AnswerKeeps

LEMMA SaveDoneKeeps ==
  ASSUME SessionInv, SaveDone
  PROVE  SessionInv'
  <1>1. SsType /\ ManagerType /\ DbType /\ RoomsType
    BY TypeParts DEF SessionInv
  <1> DEFINE t == Head(tasks)
  <1>2. /\ tasks # <<>> /\ t.op = "save" /\ tasks' = Tail(tasks)
        /\ UNCHANGED <<manager, rooms, aborted, ss>>
    BY DEF SaveDone, Answer
  <1>3. PICK r \in SaveResults(t.uid, t.room_id) : role' = [role EXCEPT ![t.uid] = r]
    BY DEF SaveDone
  <1>4. t \in Task
    BY <1>1, <1>2 DEF DbType
  <1>5. t.uid \in Uid /\ t.room_id \in RoomId \cup {NoRoomId}
    BY <1>2, <1>4 DEF Task
  <1>6. Settled /\ SsType'
    BY <1>1, <1>2 DEF Settled, SsType
  <1>7. TaskInv' /\ tasks' \in Seq(Task)
    BY <1>1, <1>2, <1>6, SettledNobodyNew, TaskAnswered DEF SessionInv
  <1>8. DbType' /\ RoomsType'
    <2>1. r \in Role
      BY <1>1, <1>5 DEF DbType, SaveResults, Role
    <2> QED BY <1>1, <1>2, <1>3, <1>5, <1>7, <2>1 DEF DbType, RoomsType, rooms
  <1>9. SeatKept'
    BY <1>2, SeatsKept DEF manager, rooms
  <1> QED BY <1>2, <1>6, <1>7, <1>8, <1>9, SettledKeeps

-----------------------------------------------------------------------------
(***************************************************************************)
(* Rooms.                                                                  *)
(***************************************************************************)

(* A request changes the session that is served, which stays logged in. *)
LEMMA ServedChanges ==
  ASSUME SessionInv, NEW c \in Conn, ss[c].state # "connected",
         NEW s \in Session, s.uid = ss[c].uid, s.state # "connected",
         ss' = [ss EXCEPT ![c] = s], UNCHANGED manager
  PROVE  /\ SsType' /\ Settled /\ ss'[c] = s
         /\ \A d \in Conn : d # c => ss'[d] = ss[d]
         /\ m_sessions' = m_sessions /\ m_sessions \subseteq Conn
  <1>1. SsType /\ ManagerType
    BY TypeParts DEF SessionInv
  <1> QED BY <1>1, OneSession DEF Settled, manager, ManagerType

(* Nobody else in the table is the user of the session that is served. *)
LEMMA OtherUser ==
  ASSUME SessionInv, NEW c \in Conn, Serves(c), ss[c].state # "connected",
         NEW d \in m_sessions, d # c, ss[d].state # "connected"
  PROVE  ss[d].uid # ss[c].uid
  <1>1. d \in Conn
    BY TypeParts DEF SessionInv, ManagerType
  <1>2. ss[d].uid \in Uid /\ m_uid2session[ss[d].uid] = d
    BY <1>1, LoggedIn
  <1>3. CASE reading = NoConn
    BY <1>2, <1>3, LoggedIn DEF Serves
  <1>4. CASE reading # NoConn
    BY <1>2, <1>4, SessionAssumption DEF Serves, SessionInv, IndexInv, LastRead
  <1> QED BY <1>3, <1>4

(* One room changes. *)
LEMMA OneRoom ==
  ASSUME SessionInv, NEW r \in RoomId, NEW room \in Room,
         m_rooms' = [m_rooms EXCEPT ![r] = room], m_next_room_id' \in RoomId
  PROVE  /\ RoomsType' /\ m_rooms'[r] = room /\ m_rooms[r] \in Room
         /\ \A q \in RoomId : q # r => m_rooms'[q] = m_rooms[q]
  BY TypeParts DEF SessionInv, RoomsType

LEMMA RoomsTyped ==
  ASSUME SessionInv
  PROVE  /\ m_rooms \in [RoomId -> Room] /\ m_next_room_id \in RoomId /\ DbType
  BY TypeParts DEF SessionInv, RoomsType

(* What the requests do to a session. *)
LEMMA SessionTypes ==
  ASSUME NEW s \in Session
  PROVE  /\ \A r \in RoomId :
              /\ Joined(s, r) \in Session /\ Joined(s, r).uid = s.uid
              /\ Joined(s, r).state = "gaming" /\ Joined(s, r).room_id = r
         /\ Dropped(s) \in Session /\ Dropped(s).uid = s.uid
         /\ Dropped(s).state = s.state /\ Dropped(s).room_id = NoRoomId
         /\ [Dropped(s) EXCEPT !.state = "logged"] \in Session
         /\ [Dropped(s) EXCEPT !.state = "logged"].uid = s.uid
         /\ [Dropped(s) EXCEPT !.state = "logged"].state = "logged"
  BY DEF Joined, Dropped, Session, SessionState

LEMMA CreateRoomKeeps ==
  ASSUME SessionInv, NEW c \in Conn, NEW n \in PlayerCounts, create_room_req(c, n)
  PROVE  SessionInv'
  <1> DEFINE u == ss[c].uid
             id == FreeRoomId
             s == Joined(ss[c], id)
  <1>1. /\ ss[c].state = "logged" /\ m_rooms' = [m_rooms EXCEPT ![id] = NewRoom(u, n)]
        /\ m_next_room_id' = NextRoomId(id) /\ ss' = [ss EXCEPT ![c] = s]
        /\ UNCHANGED <<manager, tasks, role, aborted>>
    BY DEF create_room_req, db
  <1>2. id \in RoomId /\ m_rooms[id].players = {}
    BY FreeRoomIdFree DEF SessionInv, create_room_req, Exists
  <1>3. ss[c] \in Session /\ u \in Uid
    BY <1>1, LoggedIn
  <1>4. s \in Session /\ s.uid = u /\ s.state = "gaming" /\ s.room_id = id
    BY <1>2, <1>3, SessionTypes
  <1> HIDE DEF u, id, s
  <1>5. u = ss[c].uid
    BY DEF u
  <1>6. /\ SsType' /\ Settled /\ ss'[c] = s
        /\ \A d \in Conn : d # c => ss'[d] = ss[d]
        /\ m_sessions' = m_sessions /\ m_sessions \subseteq Conn
    BY <1>1, <1>4, <1>5, ServedChanges
  <1>7. NewRoom(u, n) \in Room /\ u \in NewRoom(u, n).players
    BY <1>3, RoomTypes DEF NewRoom
  <1>8. /\ RoomsType' /\ m_rooms'[id] = NewRoom(u, n)
        /\ \A q \in RoomId : q # id => m_rooms'[q] = m_rooms[q]
    BY <1>1, <1>2, <1>7, NextRoomIdType, OneRoom
  <1>9. DbType'
    BY <1>1, RoomsTyped DEF DbType
  <1>10. SeatKept'
    <2> SUFFICES ASSUME NEW d \in m_sessions, ss'[d].state = "gaming",
                        ss'[d].room_id \in RoomId
                 PROVE  ss'[d].uid \in m_rooms'[ss'[d].room_id].players
      BY <1>6 DEF SeatKept
    <2>1. CASE d = c
      BY <1>4, <1>6, <1>7, <1>8, <2>1
    <2>2. CASE d # c
      <3>1. ss'[d] = ss[d] /\ ss[d].uid \in m_rooms[ss[d].room_id].players
        BY <1>6, <2>2 DEF SessionInv, SeatKept
      <3> QED BY <1>2, <1>8, <3>1
    <2> QED BY <2>1, <2>2
  <1> QED BY <1>1, <1>6, <1>8, <1>9, <1>10, SettledKeeps

LEMMA ReenterKeeps ==
  ASSUME SessionInv, NEW c \in Conn, NEW r, ReenterRoom(c, r)
  PROVE  SessionInv'
  <1> DEFINE s == IF r \in RoomId /\ ss[c].uid \in m_rooms[r].players
                  THEN [ss[c] EXCEPT !.state = "gaming"] ELSE Dropped(ss[c])
  <1>1. /\ ss[c].state = "logged" /\ ss[c].room_id = r /\ ss' = [ss EXCEPT ![c] = s]
        /\ UNCHANGED <<manager, tasks, role, m_rooms, m_next_room_id, aborted>>
    BY DEF ReenterRoom, db, rooms
  <1>2. ss[c] \in Session /\ ss[c].uid \in Uid
    BY <1>1, LoggedIn
  <1>3. /\ s \in Session /\ s.uid = ss[c].uid /\ s.state # "connected"
        /\ s.state = "gaming" /\ s.room_id \in RoomId
             => s.uid \in m_rooms[s.room_id].players
    <2>1. CASE r \in RoomId /\ ss[c].uid \in m_rooms[r].players
      <3>1. s = [ss[c] EXCEPT !.state = "gaming"]
        BY <2>1
      <3> HIDE DEF s
      <3> QED BY <1>1, <1>2, <2>1, <3>1 DEF Session, SessionState
    <2>2. CASE ~(r \in RoomId /\ ss[c].uid \in m_rooms[r].players)
      <3>1. s = Dropped(ss[c])
        BY <2>2
      <3> HIDE DEF s
      <3> QED BY <1>1, <1>2, <3>1, SessionTypes
    <2> QED BY <2>1, <2>2
  <1> HIDE DEF s
  <1>4. /\ SsType' /\ Settled /\ ss'[c] = s
        /\ \A d \in Conn : d # c => ss'[d] = ss[d]
        /\ m_sessions' = m_sessions /\ m_sessions \subseteq Conn
    BY <1>1, <1>3, ServedChanges
  <1>5. DbType' /\ RoomsType'
    BY <1>1, RoomsTyped DEF DbType, RoomsType
  <1>6. SeatKept'
    BY <1>1, <1>3, <1>4 DEF SessionInv, SeatKept
  <1> QED BY <1>1, <1>4, <1>5, <1>6, SettledKeeps

(* A session that has not logged in forgets the room too, and stays as new *)
(* otherwise.                                                              *)
LEMMA ForgetKeeps ==
  ASSUME SessionInv, NEW c \in Conn, NEW r, ForgetRoom(c, r)
  PROVE  SessionInv'
  <1> DEFINE s == Dropped(ss[c])
  <1>1. /\ ss' = [ss EXCEPT ![c] = s]
        /\ UNCHANGED <<manager, tasks, role, m_rooms, m_next_room_id, aborted>>
    BY DEF ForgetRoom, db, rooms
  <1>2. SsType /\ ManagerType
    BY TypeParts DEF SessionInv
  <1>3. /\ s \in Session /\ s.uid = ss[c].uid /\ s.state = ss[c].state
        /\ s.room_id = NoRoomId
    BY <1>2, SessionTypes DEF SsType
  <1> HIDE DEF s
  <1>4. /\ SsType' /\ Settled /\ ss'[c] = s
        /\ \A d \in Conn : d # c => ss'[d] = ss[d]
    BY <1>1, <1>2, <1>3, OneSession DEF Settled
  <1>5. DbType' /\ RoomsType'
    BY <1>1, RoomsTyped DEF DbType, RoomsType
  <1>6. SeatKept'
    <2>1. NoRoomId \notin RoomId
      BY SessionAssumption DEF NoRoomId, RoomId
    <2> QED BY <1>1, <1>3, <1>4, <2>1, SeatsKept DEF manager
  <1> QED BY <1>1, <1>4, <1>5, <1>6, SettledKeeps

LEMMA EnterKeeps ==
  ASSUME SessionInv, NEW c \in Conn, NEW r \in RoomId, EnterRoom(c, r)
  PROVE  SessionInv'
  <1> DEFINE u == ss[c].uid
             s == Joined(ss[c], r)
             room == WithPlayer(m_rooms[r], u)
  <1>1. /\ ss[c].state = "logged" /\ ss' = [ss EXCEPT ![c] = s]
        /\ m_rooms' = [m_rooms EXCEPT ![r] = room]
        /\ UNCHANGED <<manager, tasks, role, m_next_room_id, aborted>>
    BY DEF EnterRoom, db
  <1>2. ss[c] \in Session /\ u \in Uid
    BY <1>1, LoggedIn
  <1>3. s \in Session /\ s.uid = u /\ s.state = "gaming" /\ s.room_id = r
    BY <1>2, SessionTypes
  <1>4. room \in Room /\ room.players = m_rooms[r].players \cup {u}
    <2>1. m_rooms[r] \in Room
      BY RoomsTyped
    <2> QED BY <1>2, <2>1, RoomTypes DEF WithPlayer, Room
  <1> HIDE DEF s, room
  <1>5. /\ SsType' /\ Settled /\ ss'[c] = s
        /\ \A d \in Conn : d # c => ss'[d] = ss[d]
        /\ m_sessions' = m_sessions /\ m_sessions \subseteq Conn
    BY <1>1, <1>3, ServedChanges
  <1>6. /\ RoomsType' /\ m_rooms'[r] = room
        /\ \A q \in RoomId : q # r => m_rooms'[q] = m_rooms[q]
    BY <1>1, <1>4, RoomsTyped, OneRoom
  <1>7. DbType'
    BY <1>1, RoomsTyped DEF DbType
  <1>8. SeatKept'
    BY <1>3, <1>4, <1>5, <1>6 DEF SessionInv, SeatKept
  <1> QED BY <1>1, <1>5, <1>6, <1>7, <1>8, SettledKeeps

(* A player leaves: no other session in the table is that user's, so       *)
(* nobody else loses a seat.                                               *)
LEMMA LeaveKeeps ==
  ASSUME SessionInv, NEW c \in Conn, NEW r \in RoomId \cup {NoRoomId},
         leave_room_req(c, r)
  PROVE  SessionInv'
  <1> DEFINE u == ss[c].uid
             s == [Dropped(ss[c]) EXCEPT !.state = "logged"]
  <1>1. /\ Serves(c) /\ ss[c].state = "gaming" /\ ss' = [ss EXCEPT ![c] = s]
        /\ UNCHANGED <<manager, tasks, role, m_next_room_id, aborted>>
    BY DEF leave_room_req, InRoom, db
  <1>2. ss[c] \in Session /\ u \in Uid
    BY <1>1, LoggedIn
  <1>3. s \in Session /\ s.uid = u /\ s.state = "logged"
    BY <1>2, SessionTypes
  <1> HIDE DEF s
  <1>4. /\ SsType' /\ Settled /\ ss'[c] = s
        /\ \A d \in Conn : d # c => ss'[d] = ss[d]
        /\ m_sessions' = m_sessions /\ m_sessions \subseteq Conn
    BY <1>1, <1>3, ServedChanges
  <1>5. DbType'
    BY <1>1, RoomsTyped DEF DbType
  <1>6. /\ RoomsType'
        /\ \A q \in RoomId : m_rooms[q].players \ {u} \subseteq m_rooms'[q].players
    <2>1. CASE r = NoRoomId \/ ~Exists(m_rooms[r])
      BY <1>1, <2>1, RoomsTyped DEF leave_room_req, RoomsType
    <2>2. CASE r # NoRoomId /\ Exists(m_rooms[r])
      <3>1. PICK left \in WithoutPlayer(m_rooms[r], u) :
              m_rooms' = [m_rooms EXCEPT ![r] = left]
        BY <2>2 DEF leave_room_req
      <3>2. r \in RoomId /\ m_rooms[r] \in Room
        BY <2>2, RoomsTyped
      <3>3. left \in Room /\ left.players = m_rooms[r].players \ {u}
        BY <1>2, <3>2, WithoutPlayerTypes
      <3>4. /\ RoomsType' /\ m_rooms'[r] = left
            /\ \A q \in RoomId : q # r => m_rooms'[q] = m_rooms[q]
        BY <1>1, <3>1, <3>2, <3>3, RoomsTyped, OneRoom
      <3> QED BY <3>3, <3>4
    <2> QED BY <2>1, <2>2
  <1>7. SeatKept'
    <2> SUFFICES ASSUME NEW d \in m_sessions, ss'[d].state = "gaming",
                        ss'[d].room_id \in RoomId
                 PROVE  ss'[d].uid \in m_rooms'[ss'[d].room_id].players
      BY <1>4 DEF SeatKept
    <2>1. d # c /\ ss'[d] = ss[d]
      BY <1>3, <1>4
    <2>2. ss[d].uid # u
      BY <1>1, <2>1, OtherUser
    <2>3. ss[d].uid \in m_rooms[ss[d].room_id].players
      BY <2>1 DEF SessionInv, SeatKept
    <2> QED BY <1>6, <2>1, <2>2, <2>3
  <1> QED BY <1>1, <1>4, <1>5, <1>6, <1>7, SettledKeeps

(* A player is sent away: the session found for the user is put back to    *)
(* logged, and it is the only one in the table that could hold the seat.   *)
LEMMA KickoutKeeps ==
  ASSUME SessionInv, NEW c \in Conn, NEW r, NEW v \in Uid,
         room_kickout_player_req(c, r, v)
  PROVE  SessionInv'
  <1>1. /\ r \in RoomId /\ ss' = SentAway(v)
        /\ UNCHANGED <<manager, tasks, role, m_next_room_id, aborted>>
    BY DEF room_kickout_player_req, db
  <1>2. PICK left \in WithoutPlayer(m_rooms[r], v) :
          m_rooms' = [m_rooms EXCEPT ![r] = left]
    BY DEF room_kickout_player_req
  <1>3. left \in Room /\ left.players = m_rooms[r].players \ {v}
    BY <1>1, RoomsTyped, WithoutPlayerTypes
  <1>4. /\ RoomsType' /\ m_rooms'[r] = left
        /\ \A q \in RoomId : q # r => m_rooms'[q] = m_rooms[q]
    BY <1>1, <1>2, <1>3, RoomsTyped, OneRoom
  <1>5. DbType'
    BY <1>1, RoomsTyped DEF DbType
  <1>6. /\ SsType' /\ Settled
        /\ \A d \in Conn : d # m_uid2session[v] => ss'[d] = ss[d]
        /\ m_uid2session[v] # NoConn => ss'[m_uid2session[v]].state = "logged"
    <2>1. SsType /\ ManagerType
      BY TypeParts DEF SessionInv
    <2>2. CASE m_uid2session[v] = NoConn
      BY <1>1, <2>1, <2>2 DEF SentAway, Settled, SsType
    <2>3. CASE m_uid2session[v] # NoConn
      <3> DEFINE e == m_uid2session[v]
                 s == [ss[e] EXCEPT !.dirty = TRUE, !.state = "logged"]
      <3>1. e \in Conn /\ ss[e] \in Session /\ ss[e].state # "connected"
        BY <2>3, FoundSession
      <3>2. ss' = [ss EXCEPT ![e] = s]
        BY <1>1, <2>3 DEF SentAway
      <3> HIDE DEF e
      <3>3. s \in Session /\ s.uid = ss[e].uid /\ s.state = "logged"
        BY <3>1 DEF Session, SessionState
      <3> HIDE DEF s
      <3>4. /\ SsType' /\ Settled /\ ss'[e] = s
            /\ \A d \in Conn : d # e => ss'[d] = ss[d]
        BY <1>1, <3>1, <3>2, <3>3, ServedChanges
      <3> QED BY <3>3, <3>4 DEF e
    <2> QED BY <2>2, <2>3
  <1>7. SeatKept'
    <2> SUFFICES ASSUME NEW d \in m_sessions', ss'[d].state = "gaming",
                        ss'[d].room_id \in RoomId
                 PROVE  ss'[d].uid \in m_rooms'[ss'[d].room_id].players
      BY DEF SeatKept
    <2>1. d \in m_sessions /\ d \in Conn
      BY <1>1, TypeParts DEF SessionInv, ManagerType, manager
    <2>2. d # m_uid2session[v] /\ ss'[d] = ss[d]
      BY <1>6, <2>1, TypeParts, SessionAssumption DEF SessionInv, ManagerType
    <2>3. ss[d].uid # v
      BY <2>1, <2>2, LoggedIn
    <2>4. ss[d].uid \in m_rooms[ss[d].room_id].players
      BY <2>1, <2>2 DEF SessionInv, SeatKept
    <2> QED BY <1>3, <1>4, <2>2, <2>3, <2>4
  <1> QED BY <1>1, <1>4, <1>5, <1>6, <1>7, SettledKeeps

(* A room goes on with the players it has. *)
LEMMA RoomPlayed ==
  ASSUME SessionInv, NEW r \in RoomId, NEW room \in Room,
         room.players = m_rooms[r].players, m_rooms' = [m_rooms EXCEPT ![r] = room],
         UNCHANGED <<ss, manager, db, m_next_room_id, aborted>>
  PROVE  SessionInv'
  <1>1. /\ RoomsType' /\ m_rooms'[r] = room
        /\ \A q \in RoomId : q # r => m_rooms'[q] = m_rooms[q]
    BY RoomsTyped, OneRoom
  <1> QED BY <1>1, RoomsOnly

LEMMA StartKeeps ==
  ASSUME SessionInv, NEW c \in Conn, NEW r, start_game_req(c, r)
  PROVE  SessionInv'
  <1>1. /\ r \in RoomId /\ m_rooms' = [m_rooms EXCEPT ![r] = Started(m_rooms[r])]
        /\ UNCHANGED <<ss, manager, db, m_next_room_id, aborted>>
    BY DEF start_game_req
  <1>2. m_rooms[r] \in Room
    BY <1>1, RoomsTyped
  <1>3. Started(m_rooms[r]) \in Room /\ Started(m_rooms[r]).players = m_rooms[r].players
    BY <1>2, RoomTypes DEF Started, Room
  <1> QED BY <1>1, <1>3, RoomPlayed

LEMMA PlayKeeps ==
  ASSUME SessionInv, NEW r \in RoomId,
         \E next \in AfterPlay(m_rooms[r]) : m_rooms' = [m_rooms EXCEPT ![r] = next],
         UNCHANGED <<ss, manager, db, m_next_room_id, aborted>>
  PROVE  SessionInv'
  <1>1. PICK next \in AfterPlay(m_rooms[r]) : m_rooms' = [m_rooms EXCEPT ![r] = next]
    OBVIOUS
  <1>2. m_rooms[r] \in Room
    BY RoomsTyped
  <1>3. next \in Room /\ next.players = m_rooms[r].players
    BY <1>2, AfterPlayTypes
  <1> QED BY <1>1, <1>3, RoomPlayed

(* A room is dismissed: every session in the table that sat in it is the   *)
(* one found for one of its players, and goes back to logged.              *)
LEMMA DismissKeeps ==
  ASSUME SessionInv, NEW r \in RoomId, game_dismiss(r)
  PROVE  SessionInv'
  <1> DEFINE sat(c) == /\ \E u \in m_rooms[r].players : m_uid2session[u] = c
                       /\ ss[c].state = "gaming" /\ ss[c].room_id = r
             s(c) == [ss[c] EXCEPT !.dirty = TRUE, !.state = "logged"]
  <1>1. /\ m_rooms' = [m_rooms EXCEPT ![r] = NoRoom]
        /\ ss' = [c \in Conn |-> IF sat(c) THEN s(c) ELSE ss[c]]
        /\ UNCHANGED <<manager, tasks, role, m_next_room_id, aborted>>
    BY DEF game_dismiss, db
  <1>2. SsType /\ ManagerType
    BY TypeParts DEF SessionInv
  <1>3. \A c \in Conn : sat(c) => /\ s(c) \in Session /\ s(c).uid = ss[c].uid
                                  /\ s(c).state = "logged"
                                  /\ ss[c].state = "gaming"
    BY <1>2 DEF SsType, Session, SessionState
  <1>4. \A c \in Conn : sat(c) <=>
          /\ \E u \in m_rooms[r].players : m_uid2session[u] = c
          /\ ss[c].state = "gaming" /\ ss[c].room_id = r
    OBVIOUS
  <1> HIDE DEF sat, s
  <1>5. \A c \in Conn : IF sat(c) THEN ss'[c] = s(c) ELSE ss'[c] = ss[c]
    BY <1>1
  <1>6. SsType' /\ Settled
    BY <1>1, <1>2, <1>3, <1>5 DEF SsType, Settled
  <1>7. /\ RoomsType' /\ \A q \in RoomId : q # r => m_rooms'[q] = m_rooms[q]
    BY <1>1, RoomTypes, RoomsTyped, OneRoom
  <1>8. DbType'
    BY <1>1, RoomsTyped DEF DbType
  <1>9. SeatKept'
    <2> SUFFICES ASSUME NEW d \in m_sessions', ss'[d].state = "gaming",
                        ss'[d].room_id \in RoomId
                 PROVE  ss'[d].uid \in m_rooms'[ss'[d].room_id].players
      BY DEF SeatKept
    <2>1. d \in m_sessions /\ d \in Conn
      BY <1>1, <1>2 DEF ManagerType, manager
    <2>2. ~sat(d) /\ ss'[d] = ss[d]
      BY <1>3, <1>5, <2>1
    <2>3. ss[d].uid \in m_rooms[ss[d].room_id].players
      BY <2>1, <2>2 DEF SessionInv, SeatKept
    <2>4. m_uid2session[ss[d].uid] = d
      BY <2>1, <2>2, LoggedIn
    <2>5. ss[d].room_id # r
      BY <1>4, <2>1, <2>2, <2>3, <2>4
    <2> QED BY <1>7, <2>2, <2>3, <2>5
  <1> QED BY <1>1, <1>6, <1>7, <1>8, <1>9, SettledKeeps

-----------------------------------------------------------------------------
LEMMA LobbyKeeps ==
  ASSUME SessionInv, NEW c \in Conn, Lobby(c)
  PROVE  SessionInv'
  BY AcceptKeeps, DisconnectKeeps, LogoutKeeps, LoginKeeps, CreateRoleKeeps,
     UpdateSessionKeeps DEF Lobby

LEMMA RoomRequestKeeps ==
  ASSUME SessionInv, NEW c \in Conn, RoomRequest(c)
  PROVE  SessionInv'
  <1>1. ASSUME NEW n \in PlayerCounts, create_room_req(c, n)
        PROVE  SessionInv'
    BY <1>1, CreateRoomKeeps
  <1>2. ASSUME enter_room_req(c)
        PROVE  SessionInv'
    BY <1>2, ReenterKeeps, ForgetKeeps, EnterKeeps DEF enter_room_req
  <1>3. ASSUME NEW r \in RoomId \cup {NoRoomId}, leave_room_req(c, r)
        PROVE  SessionInv'
    BY <1>3, LeaveKeeps
  <1>4. ASSUME NEW r \in RoomId \cup {NoRoomId}, NEW v \in Uid,
               room_kickout_player_req(c, r, v)
        PROVE  SessionInv'
    BY <1>4, KickoutKeeps
  <1>5. ASSUME NEW r \in RoomId \cup {NoRoomId}, start_game_req(c, r)
        PROVE  SessionInv'
    BY <1>5, StartKeeps
  <1>6. ASSUME NEW r \in RoomId \cup {NoRoomId}, RoundReq(c, r)
        PROVE  SessionInv'
    BY <1>6, PlayKeeps DEF RoundReq
  <1>7. ASSUME NEW r \in RoomId \cup {NoRoomId}, NotSeated(c, r)
        PROVE  SessionInv'
    BY <1>7, AbortKeeps DEF NotSeated, Abort
  <1> QED BY <1>1, <1>2, <1>3, <1>4, <1>5, <1>6, <1>7 DEF RoomRequest

(* Every step of the lobby keeps the invariant. *)
LEMMA SessionInductive == SessionInv /\ [Next]_vars => SessionInv'
  <1> SUFFICES ASSUME SessionInv, [Next]_vars
               PROVE  SessionInv'
    OBVIOUS
  <1>1. CASE UNCHANGED vars
    <2>1. aborted \in BOOLEAN
      BY TypeParts DEF SessionInv
    <2> QED BY <1>1, <2>1, AbortKeeps DEF vars
  <1>2. ASSUME NEW c \in Conn, Lobby(c) \/ RoomRequest(c)
        PROVE  SessionInv'
    BY <1>2, LobbyKeeps, RoomRequestKeeps
  <1>3. ASSUME NEW r \in RoomId, game_update(r) \/ game_dismiss(r)
        PROVE  SessionInv'
    BY <1>3, PlayKeeps, DismissKeeps DEF game_update
  <1>4. CASE DbAnswer
    BY <1>4, LoadRspKeeps, CreateRspKeeps, SaveDoneKeeps DEF DbAnswer
  <1>5. CASE ReadEnds
    BY <1>5, EndReadKeeps DEF ReadEnds
  <1> QED BY <1>1, <1>2, <1>3, <1>4, <1>5 DEF Next, Gone

LEMMA SessionInitially == Init => SessionInv
  <1> SUFFICES ASSUME Init
               PROVE  SessionInv
    OBVIOUS
  <1>1. TypeOK
    <2>1. SsType /\ ManagerType /\ aborted \in BOOLEAN
      BY NewSessionType DEF Init, SsType, ManagerType
    <2>2. DbType
      BY DEF Init, DbType
    <2>3. RoomsType
      BY RoomTypes, SessionAssumption DEF Init, RoomsType
    <2> QED BY <2>1, <2>2, <2>3, TypeParts
  <1>2. IndexInv
    BY DEF Init, IndexInv, SessionIndex, Anonymous, LastRead, NewSession
  <1>3. SeatKept
    BY DEF Init, SeatKept
  <1>4. TaskInv
    BY DEF Init, TaskInv, NoTaskYet, SavesBeforeSuccessorLoads
  <1> QED BY <1>1, <1>2, <1>3, <1>4 DEF SessionInv

LEMMA SessionAlways == Spec => []SessionInv
  BY SessionInitially, SessionInductive, PTL DEF Spec

(***************************************************************************)
(* Type correctness: among it that the counter of room ids stays a room    *)
(* id when it wraps (room.cpp:1052-1060), and that what a late answer      *)
(* makes of a session is a session.                                        *)
(***************************************************************************)
THEOREM SessionTypeOK == Spec => []TypeOK
  <1>1. SessionInv => TypeOK
    BY DEF SessionInv
  <1> QED BY <1>1, SessionAlways, PTL

(***************************************************************************)
(* One session per user, through kick-outs, logouts, lost connections and  *)
(* frames of a closed connection that are still parsed (ssmgr.cpp:10-30,   *)
(* ssmgr.h:28-39, lobby.cpp:62-69).                                        *)
(***************************************************************************)
THEOREM OneSessionPerUser == Spec => []SessionIndex
  <1>1. SessionInv => SessionIndex
    BY DEF SessionInv, IndexInv
  <1> QED BY <1>1, SessionAlways, PTL

(***************************************************************************)
(* A gaming session of the table sits in its room, whatever answers,       *)
(* kicks, dismissals and reused room ids come in between: for these        *)
(* sessions the asserts of the room's handlers hold (room.cpp:277, 1319,   *)
(* 1374, 1450, 1514, 1599, 1678, 1732, 1786).                              *)
(***************************************************************************)
THEOREM GamingAlwaysSeated == Spec => []GamingSeated
  <1>1. SessionInv => GamingSeated
    BY DEF SessionInv, SeatKept, GamingSeated
  <1> QED BY <1>1, SessionAlways, PTL

(***************************************************************************)
(* No save of a replaced session waits behind the load of the session that *)
(* replaced it (ssmgr.h:60-74, lobby.cpp:73).                              *)
(***************************************************************************)
THEOREM NoLostUpdate == Spec => []SavesBeforeSuccessorLoads
  <1>1. SessionInv => SavesBeforeSuccessorLoads
    BY DEF SessionInv, TaskInv
  <1> QED BY <1>1, SessionAlways, PTL
-----------------------------------------------------------------------------
(***************************************************************************)
(* Sessions in step with the database.  What the property says of one      *)
(* session, and the sessions it is about.                                  *)
(***************************************************************************)
Met(c) == c \in m_sessions /\ c \in m_sessions' /\ ss[c].uid # NoUid /\ InStep(c)

LostSeat(c) ==
  \E r \in RoomId : ss[c].uid \in m_rooms[r].players \ m_rooms'[r].players

StaysInStep(c) == (PastLogin(c) => PastLogin(c)') /\ (InStep(c)' \/ LostSeat(c))

\* The session of c goes on waiting, or goes on not waiting.
GoesOn(c) ==
  /\ ss'[c].uid = ss[c].uid
  /\ \/ ss'[c].state = ss[c].state
     \/ PastLogin(c) /\ ss'[c].state \in {"logged", "gaming"}

(* A session that has been met has logged in and is the one of its user. *)
LEMMA MetSession ==
  ASSUME SessionInv, NEW c, Met(c)
  PROVE  /\ c \in Conn /\ ss[c] \in Session /\ ss[c].uid \in Uid
         /\ m_uid2session[ss[c].uid] = c /\ ss[c].state # "connected"
         /\ c # reading /\ c # NoConn
  <1>1. c \in Conn
    BY TypeParts DEF SessionInv, ManagerType, Met
  <1>2. ss[c].state # "connected"
    BY <1>1 DEF SessionInv, IndexInv, Anonymous, Met
  <1>3. c # reading
    BY <1>1, SessionAssumption DEF SessionInv, IndexInv, LastRead, Met
  <1> QED BY <1>1, <1>2, <1>3, LoggedIn, SessionAssumption DEF Met

(* Every request about the user was there before, perhaps one place later. *)
LEMMA InStepMoved ==
  ASSUME NEW c, NEW k \in {0, 1}, InStep(c), GoesOn(c),
         \A i \in Pending(ss[c].uid)' :
           i + k \in Pending(ss[c].uid) /\ tasks'[i].op = tasks[i + k].op
  PROVE  StaysInStep(c)
  <1>1. Awaited(ss[c])' = Awaited(ss[c])
    BY DEF GoesOn, PastLogin, Awaited
  <1>2. \A i \in Pending(ss[c].uid)' : i \in Int
    BY DEF Pending
  <1>3. InStep(c)'
    <2> SUFFICES ASSUME NEW i \in Pending(ss[c].uid)', NEW j \in Pending(ss[c].uid)'
                 PROVE  i = j /\ tasks'[i].op = Awaited(ss[c])'
      BY DEF InStep
    <2>1. i + k = j + k /\ tasks[i + k].op = Awaited(ss[c])
      BY DEF InStep
    <2>2. i \in Int /\ j \in Int
      BY <1>2
    <2>3. i = j
      BY <2>1, <2>2
    <2>4. tasks'[i].op = tasks[i + k].op
      OBVIOUS
    <2> QED BY <1>1, <2>1, <2>3, <2>4
  <1>4. PastLogin(c) => PastLogin(c)'
    BY DEF GoesOn, PastLogin
  <1> QED BY <1>3, <1>4 DEF StaysInStep

(* No request is made or answered. *)
LEMMA InStepQuiet ==
  ASSUME NEW c, InStep(c), GoesOn(c), tasks' = tasks
  PROVE  StaysInStep(c)
  <1>1. \A i \in Pending(ss[c].uid)' :
          i + 0 \in Pending(ss[c].uid) /\ tasks'[i].op = tasks[i + 0].op
    BY DEF Pending, GoesOn
  <1> QED BY <1>1, InStepMoved

(* A request is made that says nothing to the user's session. *)
LEMMA InStepSubmitted ==
  ASSUME DbType, NEW c, InStep(c), GoesOn(c), NEW t \in Task,
         tasks' = Append(tasks, t), t.uid # ss[c].uid \/ t.op = "save"
  PROVE  StaysInStep(c)
  <1>1. \A i \in Pending(ss[c].uid)' :
          i + 0 \in Pending(ss[c].uid) /\ tasks'[i].op = tasks[i + 0].op
    BY DEF Pending, GoesOn, DbType
  <1> QED BY <1>1, InStepMoved

(* A request is answered that says nothing to the user's session, and      *)
(* perhaps another one of the kind is made.                                *)
LEMMA InStepAnswered ==
  ASSUME DbType, NEW c, InStep(c), GoesOn(c), tasks # <<>>,
         Head(tasks).uid # ss[c].uid \/ Head(tasks).op = "save",
         \/ tasks' = Tail(tasks)
         \/ \E t \in Task : tasks' = Append(Tail(tasks), t) /\ t.uid # ss[c].uid
  PROVE  StaysInStep(c)
  <1>1. \A i \in Pending(ss[c].uid)' :
          i + 1 \in Pending(ss[c].uid) /\ tasks'[i].op = tasks[i + 1].op
    BY DEF Pending, GoesOn, DbType
  <1> QED BY <1>1, InStepMoved

(* The answer that the session waits for.  Nothing else was on its way. *)
LEMMA AwaitedAnswer ==
  ASSUME DbType, NEW c, InStep(c), tasks # <<>>,
         Head(tasks).uid = ss[c].uid, Head(tasks).op # "save"
  PROVE  /\ Head(tasks).op = Awaited(ss[c])
         /\ Tail(tasks) \in Seq(Task) /\ Len(Tail(tasks)) = Len(tasks) - 1
         /\ \A i \in 1 .. Len(Tail(tasks)) :
              Tail(tasks)[i].uid # ss[c].uid \/ Tail(tasks)[i].op = "save"
  <1>1. Head(tasks) = tasks[1] /\ 1 \in Pending(ss[c].uid)
    BY DEF DbType, Pending
  <1>2. Head(tasks).op = Awaited(ss[c])
    BY <1>1 DEF InStep
  <1>3. /\ Tail(tasks) \in Seq(Task) /\ Len(Tail(tasks)) = Len(tasks) - 1
        /\ \A i \in 1 .. Len(Tail(tasks)) :
             i + 1 \in 1 .. Len(tasks) /\ Tail(tasks)[i] = tasks[i + 1]
    BY DEF DbType
  <1>4. ASSUME NEW i \in 1 .. Len(Tail(tasks)), tasks[i + 1].uid = ss[c].uid,
               tasks[i + 1].op # "save"
        PROVE  FALSE
    <2>1. i + 1 \in Pending(ss[c].uid)
      BY <1>3, <1>4 DEF Pending
    <2>2. 1 = i + 1
      BY <1>1, <2>1 DEF InStep
    <2> QED BY <2>2
  <1> QED BY <1>2, <1>3, <1>4

(* A request changes the session of c alone. *)
LEMMA InStepServed ==
  ASSUME SessionInv, NEW c \in Conn, NEW s, ss' = [ss EXCEPT ![c] = s],
         s.uid = ss[c].uid,
         \/ s.state = ss[c].state
         \/ PastLogin(c) /\ s.state \in {"logged", "gaming"},
         NEW d, Met(d), tasks' = tasks
  PROVE  StaysInStep(d)
  <1>1. d \in Conn
    BY MetSession
  <1>2. SsType
    BY TypeParts DEF SessionInv
  <1>3. GoesOn(d)
    BY <1>1, <1>2 DEF GoesOn, PastLogin, SsType
  <1> QED BY <1>3, InStepQuiet DEF Met

(* The session of d is not touched. *)
LEMMA InStepUntouched ==
  ASSUME NEW d, Met(d), ss'[d] = ss[d], tasks' = tasks
  PROVE  StaysInStep(d)
  BY InStepQuiet DEF Met, GoesOn

(* Connections come and go. *)
LEMMA ConnectionsInStep ==
  ASSUME SessionInv, NEW c \in Conn,
         accept(c) \/ disconnect(c) \/ logout_req(c) \/ EndRead, NEW d, Met(d)
  PROVE  StaysInStep(d)
  <1>1. d \in Conn /\ d # reading /\ SsType
    BY MetSession, TypeParts DEF SessionInv
  <1>2. tasks' = tasks
    BY DEF accept, disconnect, logout_req, EndRead, db
  <1>3. ss'[d] = ss[d]
    <2>1. CASE accept(c)
      BY <1>1, <2>1 DEF accept, Unused, Met, SsType
    <2>2. CASE disconnect(c)
      BY <1>1, <2>2 DEF disconnect, on_disconnect, Released, Met
    <2>3. CASE logout_req(c)
      BY <2>3 DEF logout_req
    <2>4. CASE EndRead
      BY <1>1, <2>4 DEF EndRead, Released
    <2> QED BY <2>1, <2>2, <2>3, <2>4
  <1> QED BY <1>2, <1>3, InStepUntouched

(* A login asks for the role of a user whose session, if there is one,     *)
(* leaves the table.                                                       *)
LEMMA LoginInStep ==
  ASSUME SessionInv, NEW c \in Conn, NEW u \in Uid, login_req(c, u), NEW d, Met(d)
  PROVE  StaysInStep(d)
  <1> DEFINE old == m_uid2session[u]
  <1>1. /\ d \in Conn /\ m_uid2session[ss[d].uid] = d /\ ss[d].state # "connected"
        /\ d # NoConn
    BY MetSession
  <1>2. SsType /\ DbType
    BY TypeParts DEF SessionInv
  <1>3. CASE old # NoConn /\ old \notin m_sessions
    BY <1>3, InStepUntouched DEF login_req
  <1>4. CASE ~(old # NoConn /\ old \notin m_sessions)
    <2>1. /\ m_sessions' = m_sessions \ {old} /\ ss[c].state = "connected"
          /\ ss' = [Released({old}) EXCEPT ![c].uid = u, ![c].state = "authed"]
          /\ tasks' = Append(tasks, load_role_req(u, c))
      BY <1>4 DEF login_req
    <2>2. d # old /\ d # c
      BY <1>1, <2>1 DEF Met
    <2>3. ss[d].uid # u
      BY <1>1, <2>2
    <2>4. GoesOn(d)
      BY <1>1, <2>1, <2>2 DEF Released, GoesOn
    <2>5. load_role_req(u, c) \in Task /\ load_role_req(u, c).uid = u
      BY DEF load_role_req, Task
    <2> QED BY <1>2, <2>1, <2>3, <2>4, <2>5, InStepSubmitted DEF Met
  <1> QED BY <1>3, <1>4

(* A session asks for a role only when it waits for nothing, and waits for *)
(* the answer from then on.                                                *)
LEMMA CreateRoleInStep ==
  ASSUME SessionInv, NEW c \in Conn, create_role_req(c), NEW d, Met(d)
  PROVE  StaysInStep(d)
  <1> DEFINE u == ss[c].uid
             t == create_role_task(u)
  <1>1. SsType /\ DbType
    BY TypeParts DEF SessionInv
  <1>2. d \in Conn /\ ss[d].state # "connected" /\ d \in m_sessions /\ InStep(d)
    BY MetSession DEF Met
  <1>3. /\ Serves(c) /\ ss[c].state = "create_role"
        /\ ss' = [ss EXCEPT ![c].state = "create_role_wait"]
        /\ tasks' = Append(tasks, t)
    BY DEF create_role_req
  <1>4. u \in Uid /\ ss[c] \in Session
    BY <1>3, LoggedIn
  <1>5. t \in Task /\ t.uid = u /\ t.op = "create"
    BY <1>4 DEF create_role_task, Task
  <1>6. CASE d # c
    <2>1. ss[d].uid # u
      BY <1>2, <1>3, <1>6, OtherUser
    <2>2. GoesOn(d)
      BY <1>1, <1>2, <1>3, <1>6 DEF GoesOn, SsType
    <2> HIDE DEF t
    <2> QED BY <1>1, <1>2, <1>3, <1>5, <2>1, <2>2, InStepSubmitted
  <1>7. CASE d = c
    <2>1. ss'[c].uid = u /\ ss'[c].state = "create_role_wait"
      BY <1>1, <1>3, <1>4 DEF SsType, Session
    <2>2. Awaited(ss[c]) = "nothing" /\ Awaited(ss[c])' = "create"
      BY <1>3, <2>1 DEF Awaited
    <2>3. ASSUME NEW i \in Pending(u)
          PROVE  FALSE
      <3>1. tasks[i].op = "nothing"
        BY <1>2, <1>7, <2>2 DEF InStep
      <3>2. tasks[i] \in Task
        BY <1>1 DEF DbType, Pending
      <3> QED BY <3>1, <3>2 DEF Task
    <2> HIDE DEF t, u
    <2>4. \A i \in Pending(ss[c].uid)' : i = Len(tasks) + 1 /\ tasks'[i].op = "create"
      BY <1>1, <1>3, <1>5, <2>1, <2>3 DEF Pending, DbType
    <2>5. InStep(d)'
      BY <1>7, <2>2, <2>4 DEF InStep
    <2> QED BY <1>3, <1>7, <2>5 DEF StaysInStep, PastLogin
  <1> QED BY <1>6, <1>7

LEMMA UpdateInStep ==
  ASSUME SessionInv, NEW c \in Conn, update_session(c), NEW d, Met(d)
  PROVE  StaysInStep(d)
  <1> DEFINE t == save_role_req(ss[c].uid, c, ss[c].room_id)
  <1>1. SsType /\ DbType
    BY TypeParts DEF SessionInv
  <1>2. /\ ss' = [ss EXCEPT ![c].dirty = FALSE] /\ tasks' = Append(tasks, t)
        /\ ss[c].state \in {"logged", "gaming"}
    BY DEF update_session
  <1>3. ss[c] \in Session /\ ss[c].uid \in Uid
    BY <1>2, LoggedIn
  <1>4. t \in Task /\ t.op = "save"
    BY <1>3 DEF save_role_req, Task, Session
  <1>5. GoesOn(d)
    BY <1>1, <1>2, <1>3, MetSession DEF GoesOn, SsType, Session
  <1> HIDE DEF t
  <1> QED BY <1>1, <1>2, <1>4, <1>5, InStepSubmitted DEF Met

(* An answer about u that is for the session u has, and for no other one.  *)
(* If that session is in step, it was waiting for this very answer: after  *)
(* it nothing is on its way, or the load that the session waits for.       *)
LEMMA AnswerInStep ==
  ASSUME SessionInv, NEW u \in Uid, NEW s, NEW c, c = m_uid2session[u],
         ApplyTo(u, s), tasks # <<>>, Head(tasks).uid = u, Head(tasks).op # "save",
         c # NoConn => s.uid = u,
         \/ tasks' = Tail(tasks)
         \/ /\ c # NoConn /\ s.state = "authed"
            /\ tasks' = Append(Tail(tasks), load_role_req(u, c)),
         NEW d, Met(d)
  PROVE  StaysInStep(d)
  <1> DEFINE t == load_role_req(u, c)
  <1>1. SsType /\ DbType
    BY TypeParts DEF SessionInv
  <1>2. d \in Conn /\ d # NoConn /\ m_uid2session[ss[d].uid] = d /\ InStep(d)
    BY MetSession DEF Met
  <1>3. c # NoConn => t \in Task /\ t.uid = u /\ t.op = "load"
    BY FoundSession DEF load_role_req, Task
  <1> HIDE DEF t
  <1>4. CASE d # c
    <2>1. ss[d].uid # u
      BY <1>2, <1>4
    <2>2. ss'[d] = ss[d]
      BY <1>1, <1>2, <1>4 DEF ApplyTo, SsType
    <2>3. GoesOn(d)
      BY <2>2 DEF GoesOn
    <2>4. \/ tasks' = Tail(tasks)
          \/ \E w \in Task : tasks' = Append(Tail(tasks), w) /\ w.uid # ss[d].uid
      BY <1>3, <2>1 DEF t
    <2> QED BY <1>1, <1>2, <2>1, <2>3, <2>4, InStepAnswered
  <1>5. CASE d = c
    <2>1. ss[d].uid = u /\ ss'[d] = s /\ s.uid = u
      <3>1. c # NoConn
        BY <1>2, <1>5
      <3>2. ss[d].uid = u
        BY <1>5, <3>1, FoundSession
      <3>3. ss' = [ss EXCEPT ![c] = s]
        BY <3>1 DEF ApplyTo
      <3> QED BY <1>1, <1>2, <1>5, <3>1, <3>2, <3>3 DEF SsType
    <2>2. /\ Head(tasks).op = Awaited(ss[d])
          /\ Tail(tasks) \in Seq(Task) /\ Len(Tail(tasks)) = Len(tasks) - 1
          /\ \A i \in 1 .. Len(Tail(tasks)) :
               Tail(tasks)[i].uid # u \/ Tail(tasks)[i].op = "save"
      BY <1>1, <1>2, <2>1, AwaitedAnswer
    <2>3. ~PastLogin(d)
      <3>1. Head(tasks) \in Task
        BY <1>1 DEF DbType
      <3>2. Awaited(ss[d]) # "nothing"
        BY <2>2, <3>1 DEF Task
      <3> QED BY <3>2 DEF PastLogin, Awaited
    <2>4. InStep(d)'
      <3>1. CASE tasks' = Tail(tasks)
        <4>1. Pending(ss[d].uid)' = {}
          BY <2>1, <2>2, <3>1 DEF Pending
        <4> QED BY <4>1 DEF InStep
      <3>2. CASE s.state = "authed" /\ tasks' = Append(Tail(tasks), t) /\ c # NoConn
        <4>1. \A i \in Pending(ss[d].uid)' : i = Len(tasks) /\ tasks'[i].op = "load"
          <5> SUFFICES ASSUME NEW i \in 1 .. Len(tasks'), tasks'[i].uid = u,
                              tasks'[i].op # "save"
                       PROVE  i = Len(tasks) /\ tasks'[i].op = "load"
            BY <2>1 DEF Pending
          <5> DEFINE rest == Tail(tasks)
          <5>1. rest \in Seq(Task) /\ tasks' = Append(rest, t)
            BY <2>2, <3>2
          <5> HIDE DEF rest
          <5>2. CASE i \in 1 .. Len(rest)
            <6>1. tasks'[i] = rest[i]
              BY <5>1, <5>2
            <6> QED BY <2>2, <5>2, <6>1 DEF rest
          <5>3. CASE i \notin 1 .. Len(rest)
            <6>1. i = Len(rest) + 1 /\ tasks'[i] = t
              BY <5>1, <5>3
            <6>2. Len(tasks) \in Nat /\ Len(rest) = Len(tasks) - 1
              BY <1>1, <2>2 DEF DbType, rest
            <6> QED BY <1>3, <3>2, <6>1, <6>2
          <5> QED BY <5>2, <5>3
        <4>2. Awaited(ss[d])' = "load"
          BY <2>1, <3>2 DEF Awaited
        <4> QED BY <4>1, <4>2 DEF InStep
      <3> QED BY <3>1, <3>2 DEF t
    <2> QED BY <2>3, <2>4 DEF StaysInStep
  <1> QED BY <1>4, <1>5

LEMMA LoadRspInStep ==
  ASSUME SessionInv, load_role_rsp, NEW d, Met(d)
  PROVE  StaysInStep(d)
  <1> DEFINE u == Head(tasks).uid
             s == ss[m_uid2session[u]]
  <1>1. DbType
    BY TypeParts DEF SessionInv
  <1>2. tasks # <<>> /\ tasks' = Tail(tasks) /\ Head(tasks).op = "load"
    BY DEF load_role_rsp, Answer
  <1>3. u \in Uid
    <2>1. Head(tasks) \in Task
      BY <1>1, <1>2 DEF DbType
    <2> QED BY <2>1, TaskFields
  <1>4. PICK a : /\ ApplyTo(u, a)
                 /\ \/ a = [s EXCEPT !.state = "create_role", !.failed = FALSE]
                    \/ a = [s EXCEPT !.failed = TRUE]
                    \/ a = [s EXCEPT !.state = "logged", !.room_id = role[u],
                                     !.failed = FALSE]
    BY DEF load_role_rsp, LoadResults
  <1>5. m_uid2session[u] # NoConn => s \in Session /\ s.uid = u
    BY <1>3, FoundSession
  <1>6. m_uid2session[u] # NoConn => a.uid = u
    <2> HIDE DEF s, u
    <2> QED BY <1>4, <1>5 DEF Session
  <1> QED BY <1>2, <1>3, <1>4, <1>6, AnswerInStep

LEMMA CreateRspInStep ==
  ASSUME SessionInv, create_role_rsp, NEW d, Met(d)
  PROVE  StaysInStep(d)
  <1> DEFINE u == Head(tasks).uid
             c == m_uid2session[u]
  <1>1. DbType
    BY TypeParts DEF SessionInv
  <1>2. tasks # <<>> /\ Head(tasks).op = "create"
    BY DEF create_role_rsp, Answer
  <1>3. u \in Uid /\ Tail(tasks) \in Seq(Task)
    <2>1. Head(tasks) \in Task /\ Tail(tasks) \in Seq(Task)
      BY <1>1, <1>2 DEF DbType
    <2> QED BY <2>1, TaskFields
  <1>4. PICK result \in CreateResults(u) :
          AfterCreate(u, result.ok) /\ tasks' = Tail(tasks) \o LoadAgain(u, result.ok)
    BY DEF create_role_rsp
  <1> DEFINE s == [ss[c] EXCEPT !.state = IF result.ok THEN "authed"
                                          ELSE "create_role"]
  <1>5. ApplyTo(u, s)
    BY <1>4 DEF AfterCreate
  <1>6. c # NoConn => s.uid = u /\ (result.ok => s.state = "authed")
    <2>1. c # NoConn => ss[c] \in Session /\ ss[c].uid = u
      BY <1>3, FoundSession
    <2> HIDE DEF c, u
    <2> QED BY <2>1 DEF Session
  <1>7. \/ tasks' = Tail(tasks)
        \/ /\ c # NoConn /\ s.state = "authed"
           /\ tasks' = Append(Tail(tasks), load_role_req(u, c))
    <2> HIDE DEF s
    <2>1. CASE result.ok /\ c # NoConn
      <3>1. tasks' = Tail(tasks) \o <<load_role_req(u, c)>>
        BY <1>4, <2>1 DEF LoadAgain
      <3> HIDE DEF u, c
      <3> QED BY <1>3, <1>6, <2>1, <3>1
    <2>2. CASE ~(result.ok /\ c # NoConn)
      <3>1. tasks' = Tail(tasks) \o <<>>
        BY <1>4, <2>2 DEF LoadAgain
      <3> QED BY <1>3, <3>1
    <2> QED BY <2>1, <2>2
  <1> HIDE DEF s
  <1> QED BY <1>2, <1>3, <1>5, <1>6, <1>7, AnswerInStep

LEMMA SaveDoneInStep ==
  ASSUME SessionInv, SaveDone, NEW d, Met(d)
  PROVE  StaysInStep(d)
  <1>1. DbType
    BY TypeParts DEF SessionInv
  <1>2. tasks # <<>> /\ Head(tasks).op = "save" /\ tasks' = Tail(tasks) /\ ss' = ss
    BY DEF SaveDone, Answer
  <1> QED BY <1>1, <1>2, InStepAnswered DEF Met, GoesOn

(* A player sent away has lost the seat, and any session of the player is  *)
(* logged in from then on.                                                 *)
LEMMA KickoutInStep ==
  ASSUME SessionInv, NEW c \in Conn, NEW r, NEW v \in Uid,
         room_kickout_player_req(c, r, v), NEW d, Met(d)
  PROVE  StaysInStep(d)
  <1>1. /\ r \in RoomId /\ ss' = SentAway(v) /\ tasks' = tasks
        /\ v \in m_rooms[r].players
    BY DEF room_kickout_player_req, db
  <1>2. PICK left \in WithoutPlayer(m_rooms[r], v) :
          m_rooms' = [m_rooms EXCEPT ![r] = left]
    BY DEF room_kickout_player_req
  <1>3. m_rooms'[r].players = m_rooms[r].players \ {v}
    BY <1>1, <1>2, RoomsTyped, WithoutPlayerTypes
  <1>4. d \in Conn /\ d # NoConn /\ SsType
    BY MetSession, TypeParts DEF SessionInv
  <1>5. CASE d # m_uid2session[v]
    <2>1. ss'[d] = ss[d]
      BY <1>1, <1>4, <1>5 DEF SentAway, SsType
    <2> QED BY <1>1, <2>1, InStepUntouched
  <1>6. CASE d = m_uid2session[v]
    <2>1. ss[d].uid = v /\ ss[d] \in Session
      BY <1>4, <1>6, FoundSession
    <2>2. LostSeat(d)
      BY <1>1, <1>3, <2>1 DEF LostSeat
    <2>3. ss'[d].state = "logged"
      BY <1>1, <1>4, <1>6, <2>1 DEF SentAway, SsType, Session
    <2> QED BY <2>2, <2>3 DEF StaysInStep, PastLogin
  <1> QED BY <1>5, <1>6

LEMMA DismissInStep ==
  ASSUME SessionInv, NEW r \in RoomId, game_dismiss(r), NEW d, Met(d)
  PROVE  StaysInStep(d)
  <1>1. d \in Conn /\ ss[d] \in Session
    BY MetSession
  <1>2. tasks' = tasks
    BY DEF game_dismiss, db
  <1>3. \/ ss'[d] = ss[d]
        \/ /\ ss'[d] = [ss[d] EXCEPT !.dirty = TRUE, !.state = "logged"]
           /\ ss[d].state = "gaming"
    BY <1>1 DEF game_dismiss
  <1>4. GoesOn(d)
    BY <1>1, <1>3 DEF GoesOn, PastLogin, Session
  <1> QED BY <1>2, <1>4, InStepQuiet DEF Met

LEMMA RoomRequestInStep ==
  ASSUME SessionInv, NEW c \in Conn, RoomRequest(c), NEW d, Met(d)
  PROVE  StaysInStep(d)
  <1>1. ASSUME NEW n \in PlayerCounts, create_room_req(c, n)
        PROVE  StaysInStep(d)
    <2> DEFINE s == Joined(ss[c], FreeRoomId)
    <2>1. /\ ss[c].state = "logged" /\ ss' = [ss EXCEPT ![c] = s] /\ tasks' = tasks
      BY <1>1 DEF create_room_req, db
    <2>2. ss[c] \in Session
      BY <2>1, LoggedIn
    <2>3. s.uid = ss[c].uid /\ s.state = "gaming"
      BY <2>2 DEF Joined, Session
    <2> HIDE DEF s
    <2> QED BY <2>1, <2>3, InStepServed DEF PastLogin
  <1>2. ASSUME NEW r \in RoomId \cup {NoRoomId}, ReenterRoom(c, r)
        PROVE  StaysInStep(d)
    <2>1. PICK s \in {[ss[c] EXCEPT !.state = "gaming"], Dropped(ss[c])} :
            ss' = [ss EXCEPT ![c] = s]
      BY <1>2 DEF ReenterRoom
    <2>2. ss[c].state = "logged" /\ tasks' = tasks
      BY <1>2 DEF ReenterRoom, db
    <2>3. ss[c] \in Session
      BY <2>2, LoggedIn
    <2>4. s.uid = ss[c].uid /\ s.state \in {"logged", "gaming"}
      BY <2>2, <2>3 DEF Dropped, Session
    <2> QED BY <2>1, <2>2, <2>4, InStepServed DEF PastLogin
  <1>3. ASSUME NEW r \in RoomId \cup {NoRoomId}, ForgetRoom(c, r)
        PROVE  StaysInStep(d)
    <2> DEFINE s == Dropped(ss[c])
    <2>1. ss' = [ss EXCEPT ![c] = s] /\ tasks' = tasks
      BY <1>3 DEF ForgetRoom, db
    <2>2. ss[c] \in Session
      BY TypeParts DEF SessionInv, SsType
    <2>3. s.uid = ss[c].uid /\ s.state = ss[c].state
      BY <2>2, SessionTypes
    <2> HIDE DEF s
    <2> QED BY <2>1, <2>3, InStepServed
  <1>4. ASSUME NEW r \in RoomId, EnterRoom(c, r)
        PROVE  StaysInStep(d)
    <2> DEFINE s == Joined(ss[c], r)
    <2>1. /\ ss[c].state = "logged" /\ ss' = [ss EXCEPT ![c] = s] /\ tasks' = tasks
      BY <1>4 DEF EnterRoom, db
    <2>2. ss[c] \in Session
      BY <2>1, LoggedIn
    <2>3. s.uid = ss[c].uid /\ s.state = "gaming"
      BY <2>2, SessionTypes
    <2> HIDE DEF s
    <2> QED BY <2>1, <2>3, InStepServed DEF PastLogin
  <1>5. ASSUME NEW r \in RoomId \cup {NoRoomId}, leave_room_req(c, r)
        PROVE  StaysInStep(d)
    <2> DEFINE s == [Dropped(ss[c]) EXCEPT !.state = "logged"]
    <2>1. /\ ss[c].state = "gaming" /\ ss' = [ss EXCEPT ![c] = s] /\ tasks' = tasks
      BY <1>5 DEF leave_room_req, InRoom, db
    <2>2. ss[c] \in Session
      BY <2>1, LoggedIn
    <2>3. s.uid = ss[c].uid /\ s.state = "logged"
      BY <2>2, SessionTypes
    <2> HIDE DEF s
    <2> QED BY <2>1, <2>3, InStepServed DEF PastLogin
  <1>6. ASSUME NEW r \in RoomId \cup {NoRoomId}, NEW v \in Uid,
               room_kickout_player_req(c, r, v)
        PROVE  StaysInStep(d)
    BY <1>6, KickoutInStep
  <1>7. ASSUME NEW r \in RoomId \cup {NoRoomId},
               start_game_req(c, r) \/ RoundReq(c, r) \/ NotSeated(c, r)
        PROVE  StaysInStep(d)
    BY <1>7, InStepUntouched DEF start_game_req, RoundReq, NotSeated, Abort, db
  <1> QED BY <1>1, <1>2, <1>3, <1>4, <1>5, <1>6, <1>7 DEF RoomRequest, enter_room_req

(* Every step of the lobby leaves a session in step that is in step. *)
LEMMA NextInStep ==
  ASSUME SessionInv, Next, NEW d, Met(d)
  PROVE  StaysInStep(d)
  <1>1. ASSUME NEW c \in Conn, Lobby(c)
        PROVE  StaysInStep(d)
    BY <1>1, ConnectionsInStep, LoginInStep, CreateRoleInStep, UpdateInStep DEF Lobby
  <1>2. ASSUME NEW c \in Conn, RoomRequest(c)
        PROVE  StaysInStep(d)
    BY <1>2, RoomRequestInStep
  <1>3. ASSUME NEW r \in RoomId, game_update(r) \/ game_dismiss(r)
        PROVE  StaysInStep(d)
    BY <1>3, DismissInStep, InStepUntouched DEF game_update, db
  <1>4. CASE DbAnswer
    BY <1>4, LoadRspInStep, CreateRspInStep, SaveDoneInStep DEF DbAnswer
  <1>5. CASE ReadEnds
    <2>1. d \in Conn
      BY MetSession
    <2> QED BY <1>5, <2>1, ConnectionsInStep DEF ReadEnds
  <1>6. CASE Gone
    BY <1>6, InStepUntouched DEF Gone, vars, db
  <1> QED BY <1>1, <1>2, <1>3, <1>4, <1>5, <1>6 DEF Next

(***************************************************************************)
(* Only requests of an earlier session of the user that are still under    *)
(* way, and a kick in the middle of a login, put a session out of step     *)
(* with the database, for any number of connections and requests: a        *)
(* session in step is never set back by an answer (lobby.cpp:120-190,      *)
(* room.cpp:1533-1544).                                                    *)
(***************************************************************************)
THEOREM InStepAlwaysUnlessKicked == Spec => InStepUnlessKicked
  <1> DEFINE Step == \A c \in m_sessions \cap m_sessions' :
                       ss[c].uid # NoUid /\ InStep(c) =>
                         /\ PastLogin(c) => PastLogin(c)'
                         /\ \/ InStep(c)'
                            \/ \E r \in RoomId :
                                 ss[c].uid \in m_rooms[r].players \ m_rooms'[r].players
  <1>1. SessionInv /\ [Next]_vars => [Step]_vars
    <2> SUFFICES ASSUME SessionInv, Next
                 PROVE  Step
      OBVIOUS
    <2> SUFFICES ASSUME NEW c \in m_sessions \cap m_sessions', ss[c].uid # NoUid,
                        InStep(c)
                 PROVE  StaysInStep(c)
      BY DEF StaysInStep, LostSeat
    <2>1. Met(c)
      BY DEF Met
    <2> QED BY <2>1, NextInStep
  <1> QED BY <1>1, SessionAlways, PTL DEF Spec, InStepUnlessKicked
=============================================================================
