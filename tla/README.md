# UNO server: a TLA+ model of rooms, sessions, accounts and the background thread

The program is a C++ game server. Clients connect by web socket, log in, sit
down in rooms and play UNO; accounts and roles live in MySQL. This directory
holds the specifications kept beside that code, the TLC configurations that
check them on small instances, and proofs of the central invariants.

Paths below are relative to the repository. `room.cpp` means
`src/game/room.cpp`, and so on.

## 1. Inventory

One thread, the libuv event loop, runs all request handlers, the 100 ms update
and the answers of the database. A second thread executes database calls.
Nothing in a room is therefore concurrent at the level of threads; what is hard
is the order in which requests of several players, timeouts and leaving players
meet, the hand-over between the two threads, and the answers of the database
that meet sessions and accounts which have changed since the question.

| Component | State | Operations | What makes it correct |
|---|---|---|---|
| Cards (`card.h`), rule (`game_can_play_card`) | none | encode, may this card follow | penalties cannot be dodged, `assert(false)` unreachable |
| Room and game (`room.h`, `room.cpp`) | seats, owner, hands, heap, discard pile, cursor, direction, phase, timer, penalty, marks | 12 requests, 5 phases of the update, start, end, leave | cards conserved, seats and turn consistent, turns end, no assert fails |
| Background thread (`background.*`, `ThreadQue.h`, `server.h`) | two queues, flags, condition variable, async handle | submit, pop, publish, drain, stop | no wake-up lost, answers in order, stop returns |
| Server (`server.cpp`) | timers, HTTP handlers | start-up, update, five pages | the update runs for ever; every request is answered once |
| Sessions (`session.h`, `ssmgr.*`) | state, uid, data with `room_id`, dirty flag | accept, attach, detach, disconnect, auto-save | one session per user, `room_id` agrees with the room |
| Lobby and roles (`lobby.*`, `dbagent.h`) | none of their own | login, create role, the database's answers | only requests of an earlier session still under way, or a kick, set a session back |
| Statistics (`stater.*`) | counters per round | five events | counts add up |
| Event emitter, router | listeners, handlers | register, dispatch | a message reaches its handler |
| Database (`mysql.cpp`) | tables `users`, `uno_game_players` | one statement per call | the password last acknowledged counts; nobody reads data that an older session overwrites |
| Configuration, TLS/JWT | none | file, OpenSSL calls | outside the model |

Interaction: the router calls one handler per message with the sender's
session. Handlers call into `RoomManager`, broadcast to the sessions of a room,
and submit tasks to the background thread; the task's callback runs on the loop
later, by way of the callback queue and a libuv async handle. The update timer
calls `RoomManager::update`, then `Ssmgr::update`.

`PROJECT.json` lists the components with their status, and under `hazards` what
is hard to test, with the property that covers it.

### Presence

Logging in and out is meant to mark players as online and offline through the
event emitter. `EventEmitter::emit` looks for a listener whose `std::function`
type is exactly the type of the emitted arguments, references included. The
program emits `emit("login", ss)` (`lobby.cpp:152`) and `emit("logout",
session, reason)` (`ssmgr.cpp:26`) with lvalues, so the types carry references,
while the listeners (`room.h:269`, `room.h:305`, `lobby.cpp:238`) take values.
None of the listeners is ever called. Hence `Player::offline` stays false, the
offline kick and the shortened thinking time at the head and in the last phase
of `game_update` never happen, and they are absent from the model.

## 2. Modules

| Module | Models | Uses |
|---|---|---|
| `UnoCard` | `card.h`, the rule of play | |
| `UnoPile` | abstract: what a room promises about the discard pile | `UnoCard` |
| `UnoGame` | one room: seats, requests, update | `UnoCard`; implements `UnoPile` and `UnoRoom` |
| `UnoSeats` | what each room handler does to players, owner, size and phase | |
| `UnoRoom` | abstract: what one room promises to the sessions | `UnoSeats` |
| `UnoSession` | sessions, lobby, roles, the table of rooms | `UnoSeats`; tasks as in `UnoAsync` |
| `UnoAccounts` | the four HTTP pages and the table of accounts | tasks as in `UnoAsync` |
| `UnoAsync` | abstract: one FIFO queue of tasks and their answers | |
| `UnoBackground` | both threads, both queues, the wake-ups | implements `UnoAsync` |
| `MCUnoPile`, `MCUnoGame`, `MCUnoSession`, `MCUnoAccounts` | instances for TLC | |
| `UnoGameProofs`, `UnoRoundProofs`, `UnoDealProofs` | theorems about a room | each extends the one before |
| `UnoRefinementProofs` | `UnoGame` implements `UnoPile` and `UnoRoom` | `UnoRoundProofs`, `UnoPileProofs` |
| `UnoPileProofs`, `UnoBackgroundProofs`, `UnoSessionProofs`, `UnoAccountsProofs` | theorems about these modules | |

### UnoGame

Variables carry the names of the fields of `Room`. Three things differ.
`rest`, a field of each player, is a function from users to hands. `ready` is
the set of players whose flag is set. Heap, discard pile and hands are sets of
physical cards, `face` giving the value printed on each: the code shuffles the
heap before use and no rule looks at an order. `announced` is not a field: it
is the player named by the last `thinking` broadcast, that is, what clients
believe. `aborted` says that an `assert` failed; the process ends there, and
nothing happens afterwards. The build files set neither a build type nor
`NDEBUG`, so asserts are in force.

Each request handler is one action of the same name, and each phase of
`game_update` one action `Update...`. A request that the code refuses changes
nothing and is no step. Choices that the code makes at random (dealer, cards
drawn, seats, the card and the cry of the automatic player) are
nondeterministic. Undefined behaviour is a choice among outcomes: a read of
`seq` out of bounds yields `Garbage`, and the cooldown of the seat shuffle,
whose first subtraction overflows, may grant or refuse. Two ranges are cut,
both without loss: the penalty counter saturates at `MaxDraw` (a penalty deals
no more than the cards that exist), and a negative cursor of an idle room is
kept at -2, because the code compares it unsigned and sets it anew in
`game_start`.

A room that does not exist is a room without players; erasing it restores the
fields of a new `Room`, so a later room may be created in its place.

Not modelled: `room_use_voice_req` (a cooldown stamp and a broadcast),
`get_room_list_req` (reads only), snapshots and broadcasts other than
`thinking`. `game_dismiss`, which runs only when an update throws, is an action
of `UnoSession`.

### UnoSession, and how it is put together with UnoGame

A session needs little of a room: who is seated, who owns it, how many may
enter, and whether a round is under way. `UnoSeats` says what each handler of
`room.cpp` does to these four fields. `UnoRoom` makes a state machine of one
room out of them, and `UnoGame!RoomRefined` says that the room with all its
cards, timers and marks implements it, under the mapping that reads the four
fields off `UnoGame` (the three phases before `wait_player`, in which nobody may
leave, are one phase "dealing"). `UnoSession` applies the same operators to the
table `m_rooms`, so it relies on nothing about rooms but what `UnoGame` has been
shown to do. Who is ready is the one thing it leaves open: any owner of two
players may start.

`ss` is the Session object of each connection: state, uid, `room_id` and the
dirty flag. `failed` and a task's `by` are not in the program; they remember an
error answer to a login, and whose data a task loads or saves, for the
properties. `m_sessions` and `m_uid2session` are the manager's. `tasks` are the
requests to the database: the background thread executes and answers in order
(`UnoBackground!AnswersInOrder`), and only answers show the database, so a
task's effect is put at its answer. Every statement may fail, and an insertion
may fail after its effect. `role` is the table of roles, reduced to the saved
`room_id`; it starts with any content, which is a restart after any earlier run.

Two facts of the web socket library matter. `close` calls the close callback
before it returns, so a kick-out has erased the old session when the new one
attaches. And all frames of one read are served even if one of them closes the
socket: `reading` is a connection in that state, and until `EndRead` only its
frames are served, by a session the manager no longer knows.

Undefined behaviour: the first `now - last_save_time` overflows
(`session.h:32`), so a due save may happen or never happen; `update_session`
has no fairness. The increment of the largest room id wraps, as the code
expects it to.

### UnoAccounts

Each page is an action; so are the execution of the first task (`Execute`) and
the callback of the first executed one (`Answer`), because what a client knows
depends on the callback and what the table holds on the execution. The table
`users` keeps of a row the password only. `trim_and_lower` is a constant
function from names as written to accounts. `requests` remembers what was asked
and replied; `held` is the set of passwords the account has had while the
request was under way. Tokens are never revoked, by the code either. Reading a
member of what is no JSON object, which the code expects to throw, asserts
(`JsonAssert`). Two things lead there: a body that cannot be read, on any of the
four pages (`Unreadable`), and a bad token, which is answered and then read all
the same (`BadToken`).

### UnoBackground

`loop` and `bg` are the program counters of the two threads. A step is what
happens between two accesses to shared state; a critical section is one step,
except the one of `ThreadQue::pop`, which is cut at the point that matters:
`bg = "commit"` means that the thread has found its condition false and holds
the mutex, but does not wait yet. `submit` needs the mutex and cannot run then;
`ThreadQue::stop` does not take it and can. Spurious wake-ups are allowed. The
async handle is a flag: sends coalesce, and libuv, vendored under `third-party`,
clears the flag before it calls the handler (`AsyncFires`, `uv__async_io`).
A callback may submit further tasks.

## 3. Runs

| Run | Instance | Checks |
|---|---|---|
| `pile` | all 58 faces, penalty up to 12 | `PenaltyHasItsCard`, `PenaltyOnlyEscalates`; the set has 116 cards |
| `game_pile` | 2 players, 5 cards: a pair of red ones, red +2, wild +4, wild | `TypeOK`, `CardsConserved`, `ReportableHoldsOneCard`, `NoWinOnFunctionCard`, `HandsLoseOnlyPlayedCards`, `PileRefined` |
| `game_table` | 3 players, 5 cards: a pair of red ones, skip, reverse, +2 | `SeatsAgree`, `TurnSeated`, `TurnAnnounced`, `TurnSurvivesLeave`, `DealtEvenly`, `RoomRefined` |
| `game_clock` | 2 players, 4 cards, timers of 2 and 3 ticks, `FairSpec` | `TurnsKeepComing` |
| `background` | up to 4 tasks, `FairSpec` | `TypeOK`, `CallbackSeen`, `NeverBlocksOnWork`, `AnswersInOrder`, `EveryTaskAnswered` |
| `sessions` | 2 users, 2 connections, room id 1 only, 2 tasks waiting | `TypeOK`, `SessionIndex`, `GamingSeated`, `SavesBeforeSuccessorLoads`, `InStepUnlessKicked` |
| `logins` | 1 user, 2 connections, 3 tasks waiting, `FairSpec` | `LoginSettles`, `RoleFound` |
| `accounts` | 2 spellings of one account, 2 passwords, 3 requests, `FairSpec` | `TypeOK`, `VerdictTrueOfSomeMoment`, `LastChangeWins`, `EveryRequestAnswered` |
| `report_target_left` | 3 players | refutes `ReportTargetSeated` |
| `idle_leave_reads_garbage` | 3 players | refutes `NoGarbageAnnounced` |
| `play_before_dealt` | 2 players | refutes `EveryHandDealt` |
| `stop_loses_wakeup` | 1 task, `FairSpec` | refutes `StopReturns` |

Bounds. The decks are as small as a deck can be in which a card can be played
ahead of turn (this needs two equal cards), a penalty can be raised and taken,
the heap runs empty in the middle of a penalty, and the dealer's extra cards
exist. With two players a skip returns the turn to the one who played it; with
three the direction matters, in the deal too, and a player can leave without
ending the round.
Starting hands have one card and timers one tick except where the property is
about them; `game_clock` has longer timers. The state spaces are finite without
constraints: rooms are created, played and erased for ever. Users, and cards
with equal faces, are symmetric; symmetry is not used in the runs that check
liveness.

In `sessions` two users share a room, one sends the other away, and both replace
their connections while loads, creations and saves of either are under way. Room
ids start at the largest one, so the counter wraps at once and every room has
the id of the one before it, the case in which a session that remembers an old
room would do harm. Two rooms at a time multiply the states by about thirty and
are out of reach there. `logins` needs one user: answers are found by uid, so
what disturbs a login are requests of the same user's earlier sessions, and
three tasks hold a load, a creation and the load of a successor. These two runs
and `accounts` do not check deadlock: without clients the server rightly rests,
and in `accounts` the requests come to an end. In `accounts` one account is
enough, as rows do not meet; with three requests two changes and a login, or
two registrations and a login, overlap in every order, from every table.

Fairness. `WF_vars(Tick)`: the update is a repeating libuv timer
(`server.cpp:124`) that nothing stops. No fairness is assumed of requests: a
client may never send one. In `UnoBackground`, each thread makes progress when
it can (`LoopWork`, `LoopStop`, `BgStep`); nobody is obliged to submit a task,
to stop the server, or to wake up spuriously. `UnoAccounts` has weak fairness of
`Background` and of `Callback`, which is what `UnoBackground!EveryTaskAnswered`
gives. `UnoSession` has strong fairness of `DbAnswer` and weak fairness of
`ReadEnds`: answers are not served while a read is being parsed, so clients that
keep sending disable them again and again; but a read is one callback of the
event loop, and the async handle gets its turn between two callbacks. Nothing is
assumed of clients, of the periodic save, or of the database's success.

What the passing runs say about sessions and accounts:

* `SessionIndex`: the manager's two tables agree. It holds although a session
  may be attached after the manager has forgotten it (a logout and a login in
  one read); that user's next login then aborts the process, which is a finding.
* `GamingSeated`: a session that may act on a room sits in it, so the asserts on
  `players` hold. It is not obvious: `room_id` is stale after a kick and after a
  dismissal, and loads overwrite it; what saves it is that each of these also
  takes the session out of `gaming`. Only a session the manager has forgotten
  can still meet such an assert (`NotSeated`), behind a logout in one read.
* `SavesBeforeSuccessorLoads`: no lost update between the sessions of a user. It
  rests on the kick-out being finished before the load is submitted. That saves
  happen at all is an over-approximation: the overflow described above keeps them
  from being due where signed numbers wrap.
* `InStepUnlessKicked`: the two callbacks of the lobby look the session up by uid
  and set its state without asking for it. A session is in step when at most one
  answer that changes it is under way and it waits for that one. A session in step
  stays so, and an answer never sets it back once it is logged in. So what can be
  set back by a late answer is a session that was out of step from its login on,
  because requests of an earlier session of the user were still under way, or one
  that a kick has put out of step: `room_kickout_player_req` sets whatever session
  the player has to `logged`, also one whose role is still being loaded. Both
  cases happen and are findings; without the exception for kicks TLC refutes the
  property.
* `LoginSettles`, `RoleFound`: late answers may ask a user who has a role to
  create one, or throw a logged session back; the user's own load still comes
  last. That a user can be thrown back after that, by a refused second creation,
  is a finding.
* `VerdictTrueOfSomeMoment`, `LastChangeWins`: with answers that arrive long
  after their execution, requests still look as if executed at one moment
  between question and answer.

What the four violation runs show:

* `report_target_left`: a player goes down to one card without crying UNO and
  leaves. The mark stays, and the next report fails the assert at
  `room.cpp:667`.
* `idle_leave_reads_garbage`: `game_over` sets the cursor to -1. When one of the
  players then leaves the idle room, `game_player_leave` still broadcasts
  `thinking` with `seq[cursor]`.
* `play_before_dealt`: the card requests ask for a playing room and not for the
  phase. Drawing a card while hands are dealt switches to `wait_player`, and the
  players who were still to be served have no cards.
* `stop_loses_wakeup`: `ThreadQue::stop` sets `m_done` and notifies while the
  background thread is between its test and its wait. Nobody notifies again,
  and `Background::stop` hangs in `join`.

Divergences between comments and code that need no run are listed under
`findings` in `PROJECT.json`.

Every property has a mutant: an operator named `Mut...` just above the
definition it replaces, a plausible slip in that piece of code under which TLC
finds the property violated.

## 4. Proofs

Every safety property that a passing run checks, invariant, action property or
refinement, is also a theorem about the same specification, for all values of
the constants that satisfy the assumptions named in the modules:

* `UidAssumption`, `DeckAssumption`, `CountAssumption` (`UnoGame`): users are
  distinct from the markers for no user and garbage, the deck is finite and its
  faces are valid cards, counts and timers are positive;
* `FaceAssumption`, `MaxDrawAssumption` (`UnoPile`): faces are valid cards, and
  the bound on a penalty is at least 4;
* `MaxTasksAssumption` (`UnoBackground`): the number of tasks is any natural
  number;
* `SessionAssumption` (`UnoSession`): markers are distinct from users and
  connections, `INT_MAX` is a positive number, the generator starts at an id;
* `AccountsAssumption` (`UnoAccounts`): `trim_and_lower` maps names to names and
  does nothing to its own results.

The real values (three sets of cards, seven cards, 200 ticks, `INT_MAX`) satisfy
them. Each inductive invariant below was an invariant of a TLC run before it was
proved.

### A room

| Theorem | States | Rests on |
|---|---|---|
| `UnoGameProofs!TableAlways`, `GameTypeOK`, `TurnAlwaysSeated` | `TypeOK`, `SeatsAgree`, `TurnSeated` | `TableInv` |
| `UnoGameProofs!CardsAlwaysConserved` | `CardsConserved` | `TableInv` |
| `UnoRoundProofs!TurnAlwaysAnnounced` | `TurnAnnounced` | `RoundInv` |
| `UnoRoundProofs!TurnAlwaysSurvivesLeave` | `TurnSurvivesLeave` | `TableInv`, `RoundInv` |
| `UnoRoundProofs!HandsAlwaysPrivate` | `HandsLoseOnlyPlayedCards` | `TableInv`, `CardsConserved` |
| `UnoRoundProofs!ReportableAlwaysHoldsOneCard` | `ReportableHoldsOneCard` | the three |
| `UnoRoundProofs!NeverWonOnFunctionCard` | `NoWinOnFunctionCard` | the three |
| `UnoDealProofs!AlwaysDealtEvenly` | `DealtEvenly` | the three and `DealInv` |

* `TableInv` is `TypeOK /\ SeatsAgree /\ TurnSeated`. The parts need each other:
  that the cursor stays in the table when a player leaves needs
  `curr_players = Len(seq)` and two players in a round; that the hand of the
  current player exists needs the cursor; that the next dealer is seated needs
  `last_win` among the players. Lemmas state what `StepSeat`, `RemoveSeat`,
  `CursorAfterLeave` and dealing do; there is one lemma per action.
* `CardsConserved` is inductive together with `TableInv`. The core is
  `DealSplits`: every outcome of dealing splits heap and discard pile into the
  cards dealt and the new two.
* `RoundInv` adds that room and round agree on whether one is going on, that
  nothing has been played, named, discarded or marked before the room waits for
  the first player, and `TurnAnnounced`. The middle part is what makes the first
  turn a special case of every other. `PlayingSteps` and `IdleSteps` then list
  what can happen during and between rounds, so that each property is argued
  once per kind of step.
* That nobody wins on a function card needs `CardsConserved`: the penalty deals
  from heap and discard pile, and the card just played is in the pile, so there
  is always one to deal.
* `DealInv` counts. While starting hands are dealt there is a seat `f`, the
  dealer's, and a number `q` of full rounds such that
  `deal_turn = q * curr_players + r`, where `r` is how far the cursor is from `f`
  in the direction of play; seats nearer than `r` hold `q + 1` cards and the
  others `q`, and the heap has lost exactly `deal_turn` cards. `DealtEvenly`
  alone is not inductive: it does not say which hands are ahead, nor that the
  heap still has the cards that `game_start` found to be enough.

### The abstract specifications

* `UnoPileProofs`: `PenaltyAlwaysHasItsCard` and `PenaltyNeverDeescalates`.
  `PileInv` types the pile and says that a pending
  penalty has its card on top; that a +4 is answered by nothing less follows from
  it and from the rule of play.
* `UnoRefinementProofs!GameImplementsPile` and `GameImplementsRoom`: every step
  of the room is, seen through the mapping, a step of `UnoPile` and of `UnoRoom`,
  or leaves them alone. Needed are `TableInv` (whose turn, who owns the room) and
  `RoundInv` (the pile is bare when a round begins).
* `UnoRefinementProofs!PileTheoremsInGame`: the two theorems about the pile
  hold of the room, by the refinement and nothing else.
* `UnoBackgroundProofs!BackgroundImplementsAsync`: the two queues and the task
  between them are the one queue of `UnoAsync`. `OrderInv` adds to `WakeInv` that
  every submitted task is in one of the queues, in progress, or answered; an
  abstract submission takes its number from the length of the queue, the code
  from a counter, and `OrderInv` is why they are the same.

### The other components

* `UnoBackgroundProofs!NoWakeupLost`, `BackgroundTypeOK` and
  `WorkerNeverBlocked`: `TypeOK`, `NeverBlocksOnWork` and `CallbackSeen` for any
  number of tasks. `WakeInv` adds that a thread that runs or publishes has a task,
  and that before the start there is no thread and no callback.
* `UnoSessionProofs`: `SessionTypeOK`, `OneSessionPerUser` (`SessionIndex`),
  `GamingAlwaysSeated` (`GamingSeated`), `NoLostUpdate`
  (`SavesBeforeSuccessorLoads`) and `InStepAlwaysUnlessKicked`
  (`InStepUnlessKicked`) from
  `SessionInv == TypeOK /\ IndexInv /\ SeatKept /\ TaskInv`. Beside the properties
  it says that a session has a user exactly when it has logged in (`Anonymous`);
  that the closed connection whose last read is still parsed is out of the table
  and shares its user with nobody in it (`LastRead`), without which a frame behind
  a logout could break the index; that a gaming session's room has the user among
  its players (`SeatKept`); and that no request to the database names a connection
  that has not logged in (`NoTaskYet`), without which the load of a new session
  could be overtaken by a save in its own name. `InStepUnlessKicked` relates two
  states and follows from the same invariant, one lemma per kind of step: a login
  takes the user's earlier session out of the table, so the load it asks for
  concerns no session that is met before and after; a role is asked for only by a
  session that waits for nothing; an answer about a session in step is the one it
  waits for, so that nothing is under way behind it; and whoever is kicked loses
  a seat.
* `UnoAccountsProofs`: `AccountsTypeOK`, `VerdictsTrue`
  (`VerdictTrueOfSomeMoment`) and `LastChangeAlwaysWins` (`LastChangeWins`) from
  `AccountsInv == TypeOK /\ VerdictInv /\ LatestInv`. `VerdictInv` carries the
  truth of a verdict from the moment the task runs to the moment its callback
  answers: a task and an answer belong to a request of their page, an answer under
  way is honest already, and the password an account has is among those an
  outstanding request has seen. `LatestInv` says that nothing that changes the
  account waits behind its latest change, and that once that change has succeeded
  nothing waits at all and the account has its password.

### Only model-checked

The liveness properties `TurnsKeepComing`, `EveryTaskAnswered`, `LoginSettles`,
`RoleFound` and `EveryRequestAnswered`: reasoning about fairness and `ENABLED` is
out of the prover's reach. The assumption `SetSize` of `MCUnoPile` (one set has
116 cards) is a computation TLC does. The properties of the runs that end in a
violation are false of the code and are no theorems.

## 5. Plan

1. Done: cards, pile, room, background thread, sessions, lobby, roles, accounts,
   and the theorems above.
2. Next, proofs: what holds instead of the statements the violation runs refute,
   as theorems with the hypothesis that the code lacks; the rooms of `UnoSession`
   against `UnoRoom`; lemmas shared by `UnoSessionProofs` and `UnoAccountsProofs`
   about queues.

## 6. Not modelled, and why

* Statistics: as built two of the five events arrive, and the counters are sent
  to clients and read by nothing else.
* Event emitter and router: tables fixed at start-up; what the emitter's types
  do to the program is under Presence.
* The libraries under `third-party` (web socket and HTTP server, leptjson, libuv),
  except the facts named above. The
  life of an HTTP connection belongs to them: a reply is an entry of `replies`
  whether or not anybody still listens.
* SQL text, column conversion, configuration, TLS/JWT calls, `pageStatic`: no
  state that a property could depend on. Some functions of `mysql.cpp`
  (`users_has_uid`, `users_find_uid_by_name`, `uno_game_players_has_role`,
  `uno_game_players_load_summary`) have no caller.
* Wording and layout of messages, throughout.
