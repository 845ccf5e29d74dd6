---------------------------- MODULE UnoAccounts ----------------------------
(***************************************************************************)
(* Accounts: the four HTTP pages of core/server.cpp (register, login,      *)
(* update_email, update_password) over the table users of sql/mysql.cpp.   *)
(* A page checks its arguments on the event loop and submits a task; the   *)
(* background thread executes the tasks one by one; the loop runs the      *)
(* callback of an executed task later (UnoAsync, which UnoBackground       *)
(* implements).  A registration is two tasks, the second one submitted by  *)
(* the callback of the first.                                              *)
(*                                                                         *)
(* Abstractions.  A row is its password, which its salted hash stands for; *)
(* the email is not kept, nothing depends on it.  uid and account name the *)
(* same row.  The database may fail at any statement, before or after its  *)
(* effect.  A request that is refused at once (an argument too long, too   *)
(* short or malformed) changes nothing and is not a step.  Requests are    *)
(* numbered in the order in which their pages run.                         *)
(***************************************************************************)
EXTENDS Integers, Sequences

CONSTANTS
  Name,           \* user names as clients write them
  trim_and_lower, \* the account each of them means
  Password,
  NoUser,         \* no row in users
  MaxRequests     \* bound on the number of HTTP requests

Account == {trim_and_lower[n] : n \in Name}

ASSUME AccountsAssumption ==
  /\ trim_and_lower \in [Name -> Name]
  /\ \A a \in Account : trim_and_lower[a] = a
  /\ NoUser \notin Password /\ MaxRequests \in Nat

Request == 1 .. MaxRequests

VARIABLES
  users,          \* the password of each account
  requests,       \* what was asked and answered
  tasks,          \* submitted to the background thread
  answers,        \* executed, their callbacks not yet run
  tokens,         \* the accounts somebody has a token of
  latest,         \* the last request to change a password, or 0
  aborted         \* an assert failed: the process is gone

vars == <<users, requests, tasks, answers, tokens, latest, aborted>>

Page == {"register", "login", "update_email", "update_password"}
Op   == {"create_user", "login", "update_email", "update_password"}
Result == {"created", "existed", "token", "mismatch", "updated", "error"}
Code == {"ok", "db_exists", "bad_password", "internal_error", "db_error",
         "email_error"}

\* held: the passwords the account has had since the request was submitted.
Asked == [page : Page, account : Account, password : Password \cup {NoUser},
          replies : Seq(Code), held : SUBSET (Password \cup {NoUser})]

TypeOK ==
  /\ users \in [Account -> Password \cup {NoUser}]
  /\ requests \in Seq(Asked) /\ Len(requests) <= MaxRequests
  /\ tasks \in Seq([op : Op, r : Request])
  /\ answers \in Seq([op : Op, r : Request, result : Result])
  /\ tokens \subseteq {a \in Account : users[a] # NoUser}
  /\ latest \in [Account -> Request \cup {0}]
  /\ aborted \in BOOLEAN

\* The server starts with the table there is; tokens outlive a server.
Init ==
  /\ users \in [Account -> Password \cup {NoUser}]
  /\ requests = <<>> /\ tasks = <<>> /\ answers = <<>>
  /\ tokens \in SUBSET {a \in Account : users[a] # NoUser}
  /\ latest = [a \in Account |-> 0]
  /\ aborted = FALSE

-----------------------------------------------------------------------------
(***************************************************************************)
(* The pages.                                                              *)
(***************************************************************************)
\* Mutant: a stack of tasks.
MutPushedFirst(op, r) == <<[op |-> op, r |-> r]>> \o tasks

Submitted(op, r) == Append(tasks, [op |-> op, r |-> r])

\* A request is received and its task submitted, perhaps after a reply.
Submit(op, page, a, p, replies) ==
  /\ Len(requests) < MaxRequests
  /\ requests' = Append(requests, [page |-> page, account |-> a, password |-> p,
                                   replies |-> replies, held |-> {users[a]}])
  /\ tasks' = Submitted(op, Len(requests) + 1)
  /\ UNCHANGED <<users, answers, tokens, aborted>>

pageRegister(n, p) ==
  /\ Submit("create_user", "register", trim_and_lower[n], p, <<>>)
  /\ UNCHANGED latest

pageLogin(n, p) ==
  /\ Submit("login", "login", trim_and_lower[n], p, <<>>)
  /\ UNCHANGED latest

\* A valid email of more than 100 characters is answered and then used.
pageUpdateEmail(a) ==
  /\ a \in tokens
  /\ \E replies \in {<<>>, <<"email_error">>} :
       Submit("update_email", "update_email", a, NoUser, replies)
  /\ UNCHANGED latest

pageUpdatePassword(a, p) ==
  /\ a \in tokens
  /\ Submit("update_password", "update_password", a, p, <<>>)
  /\ latest' = [latest EXCEPT ![a] = Len(requests) + 1]

\* The JSON library asserts when a member is read of what is no object.
JsonAssert ==
  /\ Len(requests) < MaxRequests
  /\ aborted' = TRUE
  /\ UNCHANGED <<users, requests, tasks, answers, tokens, latest>>

\* A body that is no object or lacks a member, on any of the four pages
\* (server.cpp:250-255, 421-424, 480-484, 558-562).
Unreadable == JsonAssert

\* A bad token: it is answered, and then its empty payload is read
\* (server.cpp:516-532, 593-607).
BadToken == JsonAssert

-----------------------------------------------------------------------------
(***************************************************************************)
(* The background thread.  What a task can lead to is a set of pairs: the  *)
(* password of the account afterwards, and the result for the callback.    *)
(***************************************************************************)
Outcome(row, result) == [row |-> row, result |-> result]

\* A statement that writes row: it may fail before or after its effect.
Writes(old, row, result) ==
  {Outcome(row, result), Outcome(row, "error"), Outcome(old, "error")}

\* A query may fail.
Reads(old, result) == {Outcome(old, result), Outcome(old, "error")}

users_has_username(old) == old # NoUser
users_create_user(old, p) == Writes(old, p, "created")
users_validate_password(old, p) == old = p
users_update_email(old) == Writes(old, old, "updated")
users_update_password(old, p) == Writes(old, p, "updated")

\* The first task of a registration.
create_user_task(old, p) ==
  IF users_has_username(old) THEN Reads(old, "existed")
  ELSE users_create_user(old, p)

\* Mutant: the password is not compared.
MutAnyPassword(old, p) ==
  Reads(old, IF users_has_username(old) THEN "token" ELSE "mismatch")

\* Mutant: an account that does not exist is not refused.
MutNobodyLogsIn(old, p) ==
  Reads(old, IF users_has_username(old) => users_validate_password(old, p)
             THEN "token" ELSE "mismatch")

\* The task of a login, and the second one of a registration.  The columns
\* about the last login, which it writes, are not kept.
internalLogin(old, p) ==
  Reads(old, IF users_has_username(old) /\ users_validate_password(old, p)
             THEN "token" ELSE "mismatch")

Outcomes(op, old, p) ==
  CASE op = "create_user"     -> create_user_task(old, p)
    [] op = "login"           -> internalLogin(old, p)
    [] op = "update_email"    -> users_update_email(old)
    [] op = "update_password" -> users_update_password(old, p)

\* r has a task that is not executed or not answered.
Outstanding(r) ==
  \E q \in {tasks, answers} : \E i \in 1 .. Len(q) : q[i].r = r

Execute ==
  LET t == Head(tasks)
      a == requests[t.r].account
  IN  /\ tasks # <<>>
      /\ \E o \in Outcomes(t.op, users[a], requests[t.r].password) :
           /\ users' = [users EXCEPT ![a] = o.row]
           /\ answers' = Append(answers, [op |-> t.op, r |-> t.r, result |-> o.result])
           /\ requests' = [q \in DOMAIN requests |->
                IF Outstanding(q) /\ requests[q].account = a
                THEN [requests[q] EXCEPT !.held = @ \cup {o.row}] ELSE requests[q]]
      /\ tasks' = Tail(tasks)
      /\ UNCHANGED <<tokens, latest, aborted>>

-----------------------------------------------------------------------------
(***************************************************************************)
(* The callbacks.                                                          *)
(***************************************************************************)
\* What the callback of a login sends; a registration's login is expected to
\* succeed.
LoginReply(page, result) ==
  CASE result = "token" -> "ok"
    [] result = "error" -> "db_error"
    [] OTHER -> IF page = "register" THEN "internal_error" ELSE "bad_password"

\* Every op and result but a user created is replied to.
Replies(op, page, result) ==
  CASE op = "login"         -> <<LoginReply(page, result)>>
    [] result = "created"   -> <<>>
    [] result = "existed"   -> <<"db_exists">>
    [] result = "error"     -> <<"db_error">>
    [] result = "updated"   -> <<"ok">>

\* Mutant: a new user is not logged in.
MutNotLoggedIn(op, result) == FALSE

\* A registration goes on to log in, also after a database error: the branch
\* that answers it does not return.
LogsIn(op, result) == op = "create_user" /\ result # "existed"

Answer ==
  LET t == Head(answers)
      q == requests[t.r]
  IN  /\ answers # <<>>
      /\ answers' = Tail(answers)
      /\ requests' = [requests EXCEPT ![t.r].replies =
                        @ \o Replies(t.op, q.page, t.result)]
      /\ tasks' = IF LogsIn(t.op, t.result) THEN Submitted("login", t.r) ELSE tasks
      /\ tokens' = IF t.result = "token" THEN tokens \cup {q.account} ELSE tokens
      /\ UNCHANGED <<users, latest, aborted>>

-----------------------------------------------------------------------------
Receive ==
  \/ \E n \in Name, p \in Password : pageRegister(n, p) \/ pageLogin(n, p)
  \/ \E a \in Account : pageUpdateEmail(a)
  \/ \E a \in Account, p \in Password : pageUpdatePassword(a, p)
  \/ Unreadable \/ BadToken

Background == ~aborted /\ Execute
Callback   == ~aborted /\ Answer

Next ==
  \/ ~aborted /\ Receive
  \/ Background
  \/ Callback

Spec == Init /\ [][Next]_vars

\* The background thread takes tasks while there are any, and the event loop
\* runs the callbacks (UnoBackground!EveryTaskAnswered).
FairSpec == Spec /\ WF_vars(Background) /\ WF_vars(Callback)

-----------------------------------------------------------------------------
Replied(r, code) ==
  \E i \in 1 .. Len(requests[r].replies) : requests[r].replies[i] = code

(***************************************************************************)
(* A verdict on a password is true of some moment while the request was    *)
(* under way: a token is given only for a password that the account had    *)
(* then, and only a password it did not always have is called bad, with    *)
(* changes and registrations of the same account under way, and also when  *)
(* a registration goes on after an error (server.cpp:55-90, 346-404,       *)
(* 434-470).                                                               *)
(***************************************************************************)
VerdictTrueOfSomeMoment ==
  \A r \in DOMAIN requests :
    requests[r].page \in {"register", "login"} =>
      /\ Replied(r, "ok") => requests[r].password \in requests[r].held
      /\ Replied(r, "bad_password") => requests[r].held # {requests[r].password}

(***************************************************************************)
(* The last change wins: when the change of a password submitted last has  *)
(* been acknowledged, the account has that password, however many changes  *)
(* were under way together and whichever of them failed                    *)
(* (server.cpp:608-624, mysql.cpp:545-573).                                *)
(***************************************************************************)
LastChangeWins ==
  \A a \in Account :
    latest[a] # 0 /\ Replied(latest[a], "ok")
      => users[a] = requests[latest[a]].password

(***************************************************************************)
(* Every request is answered, a registration after its second task         *)
(* (server.cpp:346-404).                                                   *)
(***************************************************************************)
EveryRequestAnswered ==
  \A r \in Request :
    r \in DOMAIN requests
      ~> aborted \/ (r \in DOMAIN requests /\ requests[r].replies # <<>>)
=============================================================================
