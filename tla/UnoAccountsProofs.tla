------------------------- MODULE UnoAccountsProofs -------------------------
(***************************************************************************)
(* Proofs about UnoAccounts for any number of users, passwords and         *)
(* requests under way.                                                     *)
(***************************************************************************)
EXTENDS UnoAccounts, SequenceTheorems, TLAPS

(***************************************************************************)
(* The inductive invariant.  A task belongs to a request of its page, an   *)
(* answer has a result its task can have, and a verdict that is under way  *)
(* to its callback is true already: while a request is outstanding, the    *)
(* password its account has is among those it had.                         *)
(***************************************************************************)
PasswordGiven ==
  \A r \in DOMAIN requests :
    requests[r].page # "update_email" => requests[r].password \in Password

\* t is a task, or the answer to one, and q the request it belongs to.
Fits(t, q) ==
  /\ t.op = "create_user" => q.page = "register"
  /\ t.op = "login" => q.page \in {"register", "login"}
  /\ t.op \in {"update_email", "update_password"} => q.page = t.op

ResultsOf(op) ==
  CASE op = "create_user" -> {"created", "existed", "error"}
    [] op = "login"       -> {"token", "mismatch", "error"}
    [] OTHER              -> {"updated", "error"}

\* The result of t is one of its task and true of q.
Honest(t, q) ==
  /\ t.result \in ResultsOf(t.op)
  /\ t.result = "token" => q.password \in q.held
  /\ t.result = "mismatch" => \E x \in q.held : x # q.password

TasksFit ==
  \A i \in 1 .. Len(tasks) :
    tasks[i].r \in DOMAIN requests /\ Fits(tasks[i], requests[tasks[i].r])

AnswersFit ==
  \A i \in 1 .. Len(answers) :
    /\ answers[i].r \in DOMAIN requests
    /\ Fits(answers[i], requests[answers[i].r])
    /\ Honest(answers[i], requests[answers[i].r])
    /\ answers[i].result = "token" => users[requests[answers[i].r].account] # NoUser

\* What q was told about its password is true.
Truthful(q) ==
  q.page \in {"register", "login"} =>
    /\ (\E i \in 1 .. Len(q.replies) : q.replies[i] = "ok") => q.password \in q.held
    /\ (\E i \in 1 .. Len(q.replies) : q.replies[i] = "bad_password")
         => \E x \in q.held : x # q.password

RepliesTrue == \A r \in DOMAIN requests : Truthful(requests[r])

HeldNow ==
  \A r \in DOMAIN requests :
    Outstanding(r) => users[requests[r].account] \in requests[r].held

(***************************************************************************)
(* The last change of a password: nothing that changes the account's       *)
(* password waits behind it, and once it has succeeded nothing does.       *)
(***************************************************************************)
Changes(t, asked, a) == t.op = "update_password" /\ asked[t.r].account = a

LatestKnown ==
  \A a \in Account : latest[a] # 0 =>
    /\ latest[a] \in DOMAIN requests /\ users[a] # NoUser
    /\ requests[latest[a]].page = "update_password"
    /\ requests[latest[a]].account = a

LatestIsLast ==
  \A a \in Account : \A i, j \in 1 .. Len(tasks) :
    tasks[i].op = "update_password" /\ tasks[i].r = latest[a] /\ i < j
      => ~Changes(tasks[j], requests, a)

\* Request r has been acknowledged, or will be.
Succeeded(r, asked, done) ==
  \/ \E i \in 1 .. Len(asked[r].replies) : asked[r].replies[i] = "ok"
  \/ \E i \in 1 .. Len(done) : done[i].r = r /\ done[i].result = "updated"

LatestStays ==
  \A a \in Account : latest[a] # 0 /\ Succeeded(latest[a], requests, answers) =>
    /\ users[a] = requests[latest[a]].password
    /\ \A i \in 1 .. Len(tasks) : ~Changes(tasks[i], requests, a)

VerdictInv == PasswordGiven /\ TasksFit /\ AnswersFit /\ HeldNow /\ RepliesTrue

LatestInv == LatestKnown /\ LatestIsLast /\ LatestStays

AccountsInv == TypeOK /\ VerdictInv /\ LatestInv

TaskRecord == [op : Op, r : Request]
AnswerRecord == [op : Op, r : Request, result : Result]

-----------------------------------------------------------------------------
(***************************************************************************)
(* The operators the actions are built from.                               *)
(***************************************************************************)

(* A sequence and one more element. *)
LEMMA AppendParts ==
  ASSUME NEW S, NEW s \in Seq(S), NEW x \in S
  PROVE  /\ Append(s, x) \in Seq(S) /\ Len(Append(s, x)) = Len(s) + 1
         /\ Len(s) \in Nat
         /\ \A i \in 1 .. Len(s) : Append(s, x)[i] = s[i]
         /\ Append(s, x)[Len(s) + 1] = x
  OBVIOUS

(* A sequence without its first element. *)
LEMMA TailParts ==
  ASSUME NEW S, NEW s \in Seq(S), s # <<>>
  PROVE  /\ Tail(s) \in Seq(S) /\ Head(s) \in S /\ Head(s) = s[1]
         /\ 1 \in 1 .. Len(s)
         /\ \A i \in 1 .. Len(Tail(s)) : i + 1 \in 1 .. Len(s) /\ Tail(s)[i] = s[i + 1]
  OBVIOUS

LEMMA RequestParts ==
  ASSUME TypeOK
  PROVE  /\ requests \in Seq(Asked) /\ Len(requests) \in Nat
         /\ DOMAIN requests = 1 .. Len(requests)
         /\ \A r \in DOMAIN requests :
              /\ requests[r] \in Asked /\ r \in Request
              /\ requests[r].account \in Account
         /\ tasks \in Seq(TaskRecord) /\ answers \in Seq(AnswerRecord)
  <1>1. /\ requests \in Seq(Asked) /\ Len(requests) <= MaxRequests
        /\ tasks \in Seq(TaskRecord) /\ answers \in Seq(AnswerRecord)
    BY DEF TypeOK, TaskRecord, AnswerRecord
  <1>2. DOMAIN requests = 1 .. Len(requests) /\ Len(requests) \in Nat
    BY <1>1
  <1>3. \A r \in DOMAIN requests : requests[r] \in Asked /\ r \in Request
    BY <1>1, <1>2, AccountsAssumption DEF Request
  <1> QED BY <1>1, <1>2, <1>3 DEF Asked

(* What a task can lead to: a password once set is never taken away, only  *)
(* registrations of a new user and changes set one, and a login is told    *)
(* the truth.                                                              *)
LEMMA OutcomeFacts ==
  ASSUME NEW op \in Op, NEW old \in Password \cup {NoUser},
         NEW p \in Password \cup {NoUser}, op # "update_email" => p \in Password,
         NEW o \in Outcomes(op, old, p)
  PROVE  /\ o.row \in Password \cup {NoUser} /\ o.result \in ResultsOf(op)
         /\ o.result \in Result
         /\ old # NoUser => o.row # NoUser
         /\ op # "update_password" /\ old # NoUser => o.row = old
         /\ op = "update_password" /\ o.result = "updated" => o.row = p
         /\ o.result = "token" => old = p /\ old # NoUser
         /\ o.result = "mismatch" => old # p
  <1> USE DEF Outcomes, Reads, Writes, Outcome, ResultsOf, Result
  <1>1. CASE op = "create_user"
    BY <1>1, AccountsAssumption
       DEF create_user_task, users_has_username, users_create_user
  <1>2. CASE op = "login"
    BY <1>2, AccountsAssumption
       DEF internalLogin, users_has_username, users_validate_password
  <1>3. CASE op = "update_email"
    BY <1>3 DEF users_update_email
  <1>4. CASE op = "update_password"
    BY <1>4, AccountsAssumption DEF users_update_password
  <1> QED BY <1>1, <1>2, <1>3, <1>4 DEF Op

(* What the callback of an answer sends. *)
LEMMA ReplyFacts ==
  ASSUME NEW op \in Op, NEW page \in Page, NEW result \in ResultsOf(op)
  PROVE  /\ Replies(op, page, result) \in Seq(Code)
         /\ \A i \in 1 .. Len(Replies(op, page, result)) :
              /\ Replies(op, page, result)[i] = "ok" =>
                   result \in {"token", "updated"}
              /\ Replies(op, page, result)[i] = "bad_password" =>
                   result = "mismatch" /\ page # "register"
  <1> DEFINE sent == Replies(op, page, result)
  <1>1. \/ sent = <<>>
        \/ \E code \in Code :
             /\ sent = <<code>>
             /\ code = "ok" => result \in {"token", "updated"}
             /\ code = "bad_password" => result = "mismatch" /\ page # "register"
    <2> USE DEF Replies, ResultsOf, Code
    <2>1. CASE op = "create_user"
      BY <2>1
    <2>2. CASE op = "login"
      BY <2>2 DEF LoginReply
    <2>3. CASE op \in {"update_email", "update_password"}
      BY <2>3
    <2> QED BY <2>1, <2>2, <2>3 DEF Op
  <1> HIDE DEF sent
  <1>2. CASE sent = <<>>
    BY <1>2 DEF sent
  <1>3. CASE sent # <<>>
    <2>1. PICK code \in Code :
             /\ sent = <<code>>
             /\ code = "ok" => result \in {"token", "updated"}
             /\ code = "bad_password" => result = "mismatch" /\ page # "register"
      BY <1>1, <1>3
    <2>2. sent \in Seq(Code) /\ \A i \in 1 .. Len(sent) : sent[i] = code
      BY <2>1
    <2> QED BY <2>1, <2>2 DEF sent
  <1> QED BY <1>2, <1>3

-----------------------------------------------------------------------------
(***************************************************************************)
(* The pages.                                                              *)
(***************************************************************************)
LEMMA SubmitKeeps ==
  ASSUME AccountsInv, NEW op \in Op, NEW page \in Page, NEW a \in Account,
         NEW p \in Password \cup {NoUser}, NEW replies \in Seq(Code),
         Submit(op, page, a, p, replies),
         page # "update_email" => p \in Password,
         op = (IF page = "register" THEN "create_user" ELSE page),
         \A i \in 1 .. Len(replies) : replies[i] \notin {"ok", "bad_password"},
         IF op = "update_password"
         THEN a \in tokens /\ latest' = [latest EXCEPT ![a] = Len(requests) + 1]
         ELSE latest' = latest
  PROVE  AccountsInv'
  <1> DEFINE n == Len(requests) + 1
             new == [page |-> page, account |-> a, password |-> p,
                     replies |-> replies, held |-> {users[a]}]
             last == Len(tasks) + 1
  <1>1. TypeOK /\ VerdictInv /\ LatestInv
    BY DEF AccountsInv
  <1>2. /\ new.page = page /\ new.account = a /\ new.password = p
        /\ new.replies = replies /\ new.held = {users[a]}
        /\ n = Len(requests) + 1 /\ last = Len(tasks) + 1
        /\ new = [page |-> page, account |-> a, password |-> p,
                  replies |-> replies, held |-> {users[a]}]
    OBVIOUS
  <1> HIDE DEF n, new, last
  <1>3. /\ n \in Request /\ new \in Asked
        /\ DOMAIN requests = 1 .. Len(requests)
        /\ DOMAIN requests' = DOMAIN requests \cup {n} /\ n \notin DOMAIN requests
        /\ requests' \in Seq(Asked) /\ Len(requests') <= MaxRequests
        /\ requests'[n] = new
        /\ \A r \in DOMAIN requests : requests'[r] = requests[r]
        /\ tasks' \in Seq(TaskRecord)
        /\ tasks'[last] = [op |-> op, r |-> n]
        /\ Len(tasks) \in Nat /\ Len(tasks') = last
        /\ \A i \in 1 .. Len(tasks) : tasks'[i] = tasks[i]
        /\ UNCHANGED <<users, answers, tokens, aborted>>
    <2>1. /\ requests \in Seq(Asked) /\ Len(requests) \in Nat
          /\ DOMAIN requests = 1 .. Len(requests) /\ tasks \in Seq(TaskRecord)
      BY <1>1, RequestParts
    <2>2. /\ Len(requests) < MaxRequests /\ requests' = Append(requests, new)
          /\ tasks' = Append(tasks, [op |-> op, r |-> n])
          /\ UNCHANGED <<users, answers, tokens, aborted>>
      BY <1>2 DEF Submit, Submitted
    <2>3. n \in Request
      BY <1>2, <2>1, <2>2, AccountsAssumption DEF Request
    <2>4. new \in Asked
      BY <1>1, <1>2 DEF Asked, TypeOK
    <2>5. [op |-> op, r |-> n] \in TaskRecord
      BY <2>3 DEF TaskRecord
    <2>6. /\ requests' \in Seq(Asked) /\ Len(requests') = n /\ requests'[n] = new
          /\ \A r \in 1 .. Len(requests) : requests'[r] = requests[r]
      BY <1>2, <2>1, <2>2, <2>4, AppendParts
    <2>7. DOMAIN requests' = 1 .. n /\ Len(requests') <= MaxRequests
      BY <1>2, <2>1, <2>2, <2>6, AccountsAssumption
    <2>8. DOMAIN requests' = DOMAIN requests \cup {n} /\ n \notin DOMAIN requests
      BY <1>2, <2>1, <2>7
    <2>9. /\ tasks' \in Seq(TaskRecord) /\ Len(tasks') = last
          /\ tasks'[last] = [op |-> op, r |-> n] /\ Len(tasks) \in Nat
          /\ \A i \in 1 .. Len(tasks) : tasks'[i] = tasks[i]
      BY <1>2, <2>1, <2>2, <2>5, AppendParts
    <2> QED BY <2>1, <2>2, <2>3, <2>4, <2>6, <2>7, <2>8, <2>9
  <1>4. latest' = (IF op = "update_password" THEN [latest EXCEPT ![a] = n] ELSE latest)
    BY <1>2
  <1>5. last \in Nat /\ last = Len(tasks) + 1 /\ 1 .. last = (1 .. Len(tasks)) \cup {last}
        /\ last \notin 1 .. Len(tasks)
    BY <1>2, <1>3
  <1>6. n \in Nat \ {0}
    BY <1>3, AccountsAssumption DEF Request
  <1>7. TypeOK'
    BY <1>1, <1>3, <1>4 DEF TypeOK, TaskRecord
  <1>8. PasswordGiven'
    BY <1>1, <1>2, <1>3 DEF VerdictInv, PasswordGiven
  <1>9. TasksFit'
    <2> SUFFICES ASSUME NEW i \in 1 .. Len(tasks')
                 PROVE  /\ tasks'[i].r \in DOMAIN requests'
                        /\ Fits(tasks'[i], requests'[tasks'[i].r])
      BY DEF TasksFit, Fits
    <2>1. CASE i = last
      BY <1>2, <1>3, <2>1 DEF Fits, Page
    <2>2. CASE i # last
      BY <1>1, <1>3, <1>5, <2>2 DEF VerdictInv, TasksFit
    <2> QED BY <2>1, <2>2
  <1>10. AnswersFit'
    BY <1>1, <1>3 DEF VerdictInv, AnswersFit, Fits, Honest
  <1>11. ASSUME NEW r \in DOMAIN requests, Outstanding(r)'
         PROVE  Outstanding(r)
    <2>1. PICK q \in {tasks', answers'} : \E i \in 1 .. Len(q) : q[i].r = r
      BY <1>11 DEF Outstanding
    <2>2. PICK i \in 1 .. Len(q) : q[i].r = r
      BY <2>1
    <2>3. CASE q = answers'
      BY <1>3, <2>2, <2>3 DEF Outstanding
    <2>4. CASE q = tasks'
      BY <1>3, <1>5, <2>2, <2>4 DEF Outstanding
    <2> QED BY <2>3, <2>4
  <1>12. HeldNow'
    <2> SUFFICES ASSUME NEW r \in DOMAIN requests', Outstanding(r)'
                 PROVE  users'[requests'[r].account] \in requests'[r].held
      BY DEF HeldNow
    <2>1. CASE r = n
      BY <1>2, <1>3, <2>1
    <2>2. CASE r # n
      BY <1>1, <1>3, <1>11, <2>2 DEF VerdictInv, HeldNow
    <2> QED BY <2>1, <2>2
  <1>13. RepliesTrue'
    <2> SUFFICES ASSUME NEW r \in DOMAIN requests'
                 PROVE  Truthful(requests'[r])
      BY DEF RepliesTrue, Truthful
    <2>1. CASE r = n
      BY <1>2, <1>3, <2>1 DEF Truthful
    <2>2. CASE r # n
      BY <1>1, <1>3, <2>2 DEF VerdictInv, RepliesTrue
    <2> QED BY <2>1, <2>2
  <1>14. LatestInv'
    <2>1. \A b \in Account : \/ latest'[b] = latest[b]
                             \/ /\ b = a /\ op = "update_password"
                                /\ latest'[b] = n /\ users[b] # NoUser
      BY <1>1, <1>4 DEF TypeOK
    <2>2. LatestKnown'
      BY <1>1, <1>2, <1>3, <2>1 DEF LatestInv, LatestKnown, Op
    <2>3. \A b \in Account, i \in 1 .. Len(tasks) :
            Changes(tasks[i], requests', b) => Changes(tasks[i], requests, b)
      BY <1>1, <1>3 DEF Changes, VerdictInv, TasksFit
    <2>4. LatestIsLast'
      <3> SUFFICES ASSUME NEW b \in Account, NEW i \in 1 .. last, NEW j \in 1 .. last,
                          tasks'[i].op = "update_password",
                          tasks'[i].r = latest'[b], i < j
                   PROVE  ~Changes(tasks'[j], requests', b)
        BY <1>3 DEF LatestIsLast, Changes
      <3>1. i \in 1 .. Len(tasks) /\ tasks'[i] = tasks[i] /\ tasks[i].r # n
        BY <1>1, <1>3, <1>5 DEF VerdictInv, TasksFit
      <3>2. latest'[b] = latest[b]
        BY <2>1, <3>1
      <3>3. CASE j = last
        <4>1. Changes(tasks'[j], requests', b) => b = a /\ op = "update_password"
          BY <1>2, <1>3, <3>3 DEF Changes
        <4>2. b = a /\ op = "update_password" => latest'[b] = n
          BY <1>1, <1>4 DEF TypeOK
        <4> QED BY <3>1, <4>1, <4>2
      <3>4. CASE j # last
        <4>1. j \in 1 .. Len(tasks) /\ tasks'[j] = tasks[j]
          BY <1>3, <1>5, <3>4
        <4> QED BY <1>1, <2>3, <3>1, <3>2, <4>1 DEF LatestInv, LatestIsLast
      <3> QED BY <3>3, <3>4
    <2>5. LatestStays'
      <3> SUFFICES ASSUME NEW b \in Account, latest'[b] # 0, Succeeded(latest'[b], requests', answers')
                   PROVE  /\ users'[b] = requests'[latest'[b]].password
                          /\ \A i \in 1 .. last : ~Changes(tasks'[i], requests', b)
        BY <1>3 DEF LatestStays, Changes, Succeeded
      <3>1. latest'[b] # n
        BY <1>1, <1>2, <1>3 DEF Succeeded, VerdictInv, AnswersFit
      <3>2. latest'[b] = latest[b] /\ ~(b = a /\ op = "update_password")
        BY <1>1, <1>4, <2>1, <3>1 DEF TypeOK
      <3>3. latest[b] \in DOMAIN requests
        BY <1>1, <3>2 DEF LatestInv, LatestKnown
      <3>4. Succeeded(latest[b], requests, answers)
        BY <1>3, <3>2, <3>3 DEF Succeeded
      <3>5. /\ users[b] = requests[latest[b]].password
            /\ \A i \in 1 .. Len(tasks) : ~Changes(tasks[i], requests, b)
        BY <1>1, <3>2, <3>4 DEF LatestInv, LatestStays
      <3>6. ~Changes(tasks'[last], requests', b)
        BY <1>2, <1>3, <3>2 DEF Changes
      <3> QED BY <1>3, <1>5, <2>3, <3>2, <3>3, <3>5, <3>6
    <2> QED BY <2>2, <2>4, <2>5 DEF LatestInv
  <1> QED BY <1>7, <1>8, <1>9, <1>10, <1>12, <1>13, <1>14 DEF AccountsInv, VerdictInv

(* The requests go on as they were asked: only replies come and the        *)
(* passwords the account has had are more.                                 *)
StillAsked ==
  /\ requests' \in Seq(Asked) /\ Len(requests') = Len(requests)
  /\ DOMAIN requests' = DOMAIN requests
  /\ \A r \in DOMAIN requests :
       /\ requests'[r].page = requests[r].page
       /\ requests'[r].account = requests[r].account
       /\ requests'[r].password = requests[r].password
       /\ requests[r].held \subseteq requests'[r].held

LEMMA StillFits ==
  ASSUME StillAsked, NEW t, t.r \in DOMAIN requests
  PROVE  /\ t.r \in DOMAIN requests'
         /\ Fits(t, requests[t.r]) => Fits(t, requests'[t.r])
         /\ Honest(t, requests[t.r]) => Honest(t, requests'[t.r])
         /\ \A a : Changes(t, requests', a) <=> Changes(t, requests, a)
  BY DEF StillAsked, Fits, Honest, Changes

LEMMA FunctionIsSeq ==
  ASSUME NEW S, NEW n \in Nat, NEW f \in [1 .. n -> S]
  PROVE  f \in Seq(S) /\ Len(f) = n
  <1>1. f \in Seq(S)
    BY SeqDef
  <1> QED BY <1>1, LenProperties

-----------------------------------------------------------------------------
(***************************************************************************)
(* The background thread executes the first task.                          *)
(***************************************************************************)
LEMMA ExecuteKeeps ==
  ASSUME AccountsInv, Execute
  PROVE  AccountsInv'
  <1>1. TypeOK /\ VerdictInv /\ LatestInv
    BY DEF AccountsInv
  <1>2. /\ requests \in Seq(Asked) /\ Len(requests) \in Nat
        /\ DOMAIN requests = 1 .. Len(requests)
        /\ \A r \in DOMAIN requests :
             /\ requests[r] \in Asked /\ r \in Request
             /\ requests[r].account \in Account
        /\ tasks \in Seq(TaskRecord) /\ answers \in Seq(AnswerRecord)
    BY <1>1, RequestParts
  <1> DEFINE t == Head(tasks)
             a == requests[t.r].account
             p == requests[t.r].password
  <1>3. PICK o \in Outcomes(t.op, users[a], p) :
          /\ users' = [users EXCEPT ![a] = o.row]
          /\ answers' = Append(answers, [op |-> t.op, r |-> t.r, result |-> o.result])
          /\ requests' = [q \in DOMAIN requests |->
               IF Outstanding(q) /\ requests[q].account = a
               THEN [requests[q] EXCEPT !.held = @ \cup {o.row}] ELSE requests[q]]
    BY DEF Execute
  <1>4. tasks # <<>> /\ tasks' = Tail(tasks) /\ UNCHANGED <<tokens, latest, aborted>>
    BY DEF Execute
  <1>5. /\ tasks' \in Seq(TaskRecord) /\ t \in TaskRecord /\ t = tasks[1]
        /\ 1 \in 1 .. Len(tasks)
        /\ \A i \in 1 .. Len(tasks') :
             i + 1 \in 1 .. Len(tasks) /\ tasks'[i] = tasks[i + 1]
    BY <1>2, <1>4, TailParts
  <1>6. t.r \in DOMAIN requests /\ Fits(t, requests[t.r]) /\ t.op \in Op
        /\ t.r \in Request
    BY <1>1, <1>5 DEF VerdictInv, TasksFit, TaskRecord
  <1>7. /\ a \in Account /\ users[a] \in Password \cup {NoUser}
        /\ p \in Password \cup {NoUser} /\ (t.op # "update_email" => p \in Password)
    <2>1. a \in Account /\ p \in Password \cup {NoUser}
      BY <1>2, <1>6 DEF Asked
    <2>2. t.op # "update_email" => requests[t.r].page # "update_email"
      BY <1>6 DEF Fits, Op
    <2> QED BY <1>1, <1>6, <2>1, <2>2 DEF TypeOK, VerdictInv, PasswordGiven
  <1>8. /\ o.row \in Password \cup {NoUser} /\ o.result \in ResultsOf(t.op)
        /\ o.result \in Result
        /\ users[a] # NoUser => o.row # NoUser
        /\ t.op # "update_password" /\ users[a] # NoUser => o.row = users[a]
        /\ t.op = "update_password" /\ o.result = "updated" => o.row = p
        /\ o.result = "token" => users[a] = p /\ users[a] # NoUser
        /\ o.result = "mismatch" => users[a] # p
    BY <1>6, <1>7, OutcomeFacts
  <1> DEFINE answer == [op |-> t.op, r |-> t.r, result |-> o.result]
  <1>9. /\ a = requests[t.r].account /\ p = requests[t.r].password
        /\ answer.op = t.op /\ answer.r = t.r /\ answer.result = o.result
        /\ answers' = Append(answers, answer)
    BY <1>3
  <1>10. answer \in AnswerRecord
    BY <1>6, <1>8 DEF AnswerRecord
  <1> HIDE DEF t, a, p, answer
  <1>11. /\ answers' \in Seq(AnswerRecord) /\ Len(answers) \in Nat
         /\ Len(answers') = Len(answers) + 1 /\ answers'[Len(answers) + 1] = answer
         /\ \A i \in 1 .. Len(answers) : answers'[i] = answers[i]
    BY <1>2, <1>9, <1>10, AppendParts
  <1>12. /\ StillAsked
         /\ \A r \in DOMAIN requests :
              /\ requests'[r].replies = requests[r].replies
              /\ Outstanding(r) /\ requests[r].account = a => o.row \in requests'[r].held
    <2> DEFINE new(q) == IF Outstanding(q) /\ requests[q].account = a
                         THEN [requests[q] EXCEPT !.held = @ \cup {o.row}]
                         ELSE requests[q]
    <2>1. requests' = [q \in DOMAIN requests |-> new(q)]
      BY <1>3
    <2>2. ASSUME NEW r \in DOMAIN requests
          PROVE  /\ new(r) \in Asked
                 /\ new(r).page = requests[r].page
                 /\ new(r).account = requests[r].account
                 /\ new(r).password = requests[r].password
                 /\ new(r).replies = requests[r].replies
                 /\ requests[r].held \subseteq new(r).held
                 /\ Outstanding(r) /\ requests[r].account = a => o.row \in new(r).held
      BY <1>2, <1>8 DEF Asked
    <2> HIDE DEF new
    <2>3. requests' \in [1 .. Len(requests) -> Asked]
      BY <1>2, <2>1, <2>2
    <2>4. requests' \in Seq(Asked) /\ Len(requests') = Len(requests)
      BY <1>2, <2>3, FunctionIsSeq
    <2> QED BY <2>1, <2>2, <2>4 DEF StillAsked
  <1>13. \A b \in Account : users'[b] = IF b = a THEN o.row ELSE users[b]
    BY <1>1, <1>3 DEF TypeOK
  <1>14. \A b \in Account : users[b] # NoUser => users'[b] # NoUser
    BY <1>8, <1>13
  <1>15. TypeOK'
    <2>1. users' \in [Account -> Password \cup {NoUser}]
      BY <1>1, <1>3, <1>8 DEF TypeOK
    <2>2. tokens' \subseteq {b \in Account : users'[b] # NoUser}
      BY <1>1, <1>4, <1>14 DEF TypeOK
    <2>3. requests' \in Seq(Asked) /\ Len(requests') <= MaxRequests
      BY <1>1, <1>12 DEF TypeOK, StillAsked
    <2> QED BY <1>1, <1>4, <1>5, <1>11, <2>1, <2>2, <2>3
            DEF TypeOK, TaskRecord, AnswerRecord
  <1>16. PasswordGiven'
    BY <1>1, <1>12 DEF VerdictInv, PasswordGiven, StillAsked
  <1>17. TasksFit'
    <2> SUFFICES ASSUME NEW i \in 1 .. Len(tasks')
                 PROVE  /\ tasks'[i].r \in DOMAIN requests'
                        /\ Fits(tasks'[i], requests'[tasks'[i].r])
      BY DEF TasksFit, Fits
    <2>1. /\ tasks'[i].r \in DOMAIN requests
          /\ Fits(tasks'[i], requests[tasks'[i].r])
      BY <1>1, <1>5 DEF VerdictInv, TasksFit
    <2> QED BY <1>12, <2>1, StillFits
  <1>18. Outstanding(t.r) /\ \A r \in DOMAIN requests : Outstanding(r)' => Outstanding(r)
    <2>1. Outstanding(t.r)
      BY <1>5 DEF Outstanding
    <2>2. ASSUME NEW r \in DOMAIN requests, NEW i \in 1 .. Len(tasks'), tasks'[i].r = r
          PROVE  Outstanding(r)
      BY <1>5, <2>2 DEF Outstanding
    <2>3. ASSUME NEW r \in DOMAIN requests, NEW i \in 1 .. Len(answers'), answers'[i].r = r
          PROVE  Outstanding(r)
      <3>1. CASE i = Len(answers) + 1
        BY <1>9, <1>11, <2>1, <2>3, <3>1
      <3>2. CASE i # Len(answers) + 1
        BY <1>11, <2>3, <3>2 DEF Outstanding
      <3> QED BY <3>1, <3>2
    <2> QED BY <2>1, <2>2, <2>3 DEF Outstanding
  <1>19. users[a] \in requests[t.r].held
    BY <1>1, <1>6, <1>9, <1>18 DEF VerdictInv, HeldNow
  <1>20. AnswersFit'
    <2> SUFFICES ASSUME NEW i \in 1 .. Len(answers')
                 PROVE  /\ answers'[i].r \in DOMAIN requests'
                        /\ Fits(answers'[i], requests'[answers'[i].r])
                        /\ Honest(answers'[i], requests'[answers'[i].r])
                        /\ answers'[i].result = "token"
                             => users'[requests'[answers'[i].r].account] # NoUser
      BY DEF AnswersFit, Fits, Honest
    <2>1. /\ answers'[i].r \in DOMAIN requests
          /\ Fits(answers'[i], requests[answers'[i].r])
          /\ Honest(answers'[i], requests[answers'[i].r])
          /\ answers'[i].result = "token"
               => users[requests[answers'[i].r].account] # NoUser
      <3>1. CASE i = Len(answers) + 1
        BY <1>6, <1>8, <1>9, <1>11, <1>19, <3>1 DEF Fits, Honest
      <3>2. CASE i # Len(answers) + 1
        <4>1. i \in 1 .. Len(answers) /\ answers'[i] = answers[i]
          BY <1>11, <3>2
        <4> QED BY <1>1, <4>1 DEF VerdictInv, AnswersFit
      <3> QED BY <3>1, <3>2
    <2>2. /\ answers'[i].r \in DOMAIN requests'
          /\ Fits(answers'[i], requests'[answers'[i].r])
          /\ Honest(answers'[i], requests'[answers'[i].r])
      BY <1>12, <2>1, StillFits
    <2>3. /\ requests'[answers'[i].r].account = requests[answers'[i].r].account
          /\ requests[answers'[i].r].account \in Account
      BY <1>2, <1>12, <2>1 DEF StillAsked
    <2> QED BY <1>14, <2>1, <2>2, <2>3
  <1>21. HeldNow'
    <2> SUFFICES ASSUME NEW r \in DOMAIN requests, Outstanding(r)'
                 PROVE  users'[requests'[r].account] \in requests'[r].held
      BY <1>12 DEF HeldNow, StillAsked
    <2>1. /\ Outstanding(r) /\ requests'[r].account = requests[r].account
          /\ requests[r].account \in Account
      BY <1>2, <1>12, <1>18 DEF StillAsked
    <2>2. CASE requests[r].account = a
      BY <1>12, <1>13, <2>1, <2>2
    <2>3. CASE requests[r].account # a
      BY <1>1, <1>12, <1>13, <2>1, <2>3 DEF VerdictInv, HeldNow, StillAsked
    <2> QED BY <2>2, <2>3
  <1>22. RepliesTrue'
    <2> SUFFICES ASSUME NEW r \in DOMAIN requests
                 PROVE  Truthful(requests'[r])
      BY <1>12 DEF RepliesTrue, Truthful, StillAsked
    <2>1. Truthful(requests[r])
      BY <1>1 DEF VerdictInv, RepliesTrue
    <2> QED BY <1>12, <2>1 DEF Truthful, StillAsked
  <1>23. LatestKnown'
    BY <1>1, <1>4, <1>12, <1>14 DEF LatestInv, LatestKnown, StillAsked
  <1>24. \A b \in Account, i \in 1 .. Len(tasks) :
           Changes(tasks[i], requests', b) <=> Changes(tasks[i], requests, b)
    BY <1>1, <1>12, StillFits DEF VerdictInv, TasksFit
  <1>25. LatestIsLast'
    <2> SUFFICES ASSUME NEW b \in Account,
                        NEW i \in 1 .. Len(tasks'), NEW j \in 1 .. Len(tasks'),
                        tasks'[i].op = "update_password",
                        tasks'[i].r = latest'[b], i < j
                 PROVE  ~Changes(tasks'[j], requests', b)
      BY DEF LatestIsLast, Changes
    <2>1. /\ i + 1 \in 1 .. Len(tasks) /\ tasks'[i] = tasks[i + 1]
          /\ j + 1 \in 1 .. Len(tasks) /\ tasks'[j] = tasks[j + 1]
          /\ i + 1 < j + 1 /\ latest'[b] = latest[b]
      BY <1>4, <1>5
    <2> QED BY <1>1, <1>24, <2>1 DEF LatestInv, LatestIsLast
  <1>26. LatestStays'
    <2> SUFFICES ASSUME NEW b \in Account, latest[b] # 0,
                        Succeeded(latest[b], requests', answers')
                 PROVE  /\ users'[b] = requests[latest[b]].password
                        /\ \A i \in 1 .. Len(tasks') : ~Changes(tasks'[i], requests', b)
      BY <1>1, <1>4, <1>12
         DEF LatestStays, Changes, Succeeded, StillAsked, LatestInv, LatestKnown
    <2>1. /\ latest[b] \in DOMAIN requests /\ users[b] # NoUser
          /\ requests[latest[b]].page = "update_password"
          /\ requests[latest[b]].account = b
      BY <1>1 DEF LatestInv, LatestKnown
    <2>2. CASE Succeeded(latest[b], requests, answers)
      <3>1. /\ users[b] = requests[latest[b]].password
            /\ \A i \in 1 .. Len(tasks) : ~Changes(tasks[i], requests, b)
        BY <1>1, <2>2 DEF LatestInv, LatestStays
      <3>2. b = a => t.op # "update_password"
        BY <1>5, <1>9, <3>1 DEF Changes
      <3>3. users'[b] = users[b]
        BY <1>8, <1>13, <2>1, <3>2
      <3> QED BY <1>5, <1>24, <3>1, <3>3
    <2>3. CASE ~Succeeded(latest[b], requests, answers)
      <3>1. t.r = latest[b] /\ o.result = "updated"
        <4>1. ~\E i \in 1 .. Len(requests'[latest[b]].replies) :
                 requests'[latest[b]].replies[i] = "ok"
          BY <1>12, <2>1, <2>3 DEF Succeeded
        <4>2. PICK i \in 1 .. Len(answers') :
                answers'[i].r = latest[b] /\ answers'[i].result = "updated"
          BY <4>1 DEF Succeeded
        <4>3. i = Len(answers) + 1
          BY <1>11, <2>3, <4>2 DEF Succeeded
        <4> QED BY <1>9, <1>11, <4>2, <4>3
      <3>2. t.op = "update_password" /\ a = b
        BY <1>6, <1>9, <2>1, <3>1 DEF Fits, Op
      <3>3. users'[b] = requests[latest[b]].password
        BY <1>8, <1>9, <1>13, <3>1, <3>2
      <3>4. \A j \in 1 .. Len(tasks) : 1 < j => ~Changes(tasks[j], requests, b)
        BY <1>1, <1>5, <3>1, <3>2 DEF LatestInv, LatestIsLast
      <3>5. \A i \in 1 .. Len(tasks') : 1 < i + 1
        BY <1>5
      <3> QED BY <1>5, <1>24, <3>3, <3>4, <3>5
    <2> QED BY <2>2, <2>3
  <1> QED BY <1>15, <1>16, <1>17, <1>20, <1>21, <1>22, <1>23, <1>25, <1>26
          DEF AccountsInv, VerdictInv, LatestInv

-----------------------------------------------------------------------------
(***************************************************************************)
(* The event loop runs the callback of the first answer.                   *)
(***************************************************************************)
LEMMA AnswerKeeps ==
  ASSUME AccountsInv, Answer
  PROVE  AccountsInv'
  <1>1. TypeOK /\ VerdictInv /\ LatestInv
    BY DEF AccountsInv
  <1>2. /\ requests \in Seq(Asked) /\ Len(requests) \in Nat
        /\ DOMAIN requests = 1 .. Len(requests)
        /\ \A r \in DOMAIN requests :
             /\ requests[r] \in Asked /\ r \in Request
             /\ requests[r].account \in Account
        /\ tasks \in Seq(TaskRecord) /\ answers \in Seq(AnswerRecord)
    BY <1>1, RequestParts
  <1> DEFINE t == Head(answers)
             q == requests[t.r]
             sent == Replies(t.op, q.page, t.result)
             told == [q EXCEPT !.replies = q.replies \o sent]
             login == [op |-> "login", r |-> t.r]
  <1>3. /\ answers # <<>> /\ answers' = Tail(answers)
        /\ requests' = [requests EXCEPT ![t.r] = told]
        /\ tokens' = IF t.result = "token" THEN tokens \cup {q.account} ELSE tokens
        /\ UNCHANGED <<users, latest, aborted>>
    BY DEF Answer
  <1>4. tasks' = IF LogsIn(t.op, t.result) THEN Append(tasks, login) ELSE tasks
    BY DEF Answer, Submitted
  <1>5. /\ answers' \in Seq(AnswerRecord) /\ t \in AnswerRecord /\ t = answers[1]
        /\ 1 \in 1 .. Len(answers)
        /\ \A i \in 1 .. Len(answers') :
             i + 1 \in 1 .. Len(answers) /\ answers'[i] = answers[i + 1]
    BY <1>2, <1>3, TailParts
  <1>6. /\ t.r \in DOMAIN requests /\ t.r \in Request /\ t.op \in Op
        /\ q \in Asked /\ q.page \in Page /\ q.account \in Account
        /\ Fits(t, q) /\ Honest(t, q)
        /\ t.result = "token" => users[q.account] # NoUser
    <2>1. t.r \in DOMAIN requests /\ Fits(t, q) /\ Honest(t, q)
          /\ (t.result = "token" => users[q.account] # NoUser)
      BY <1>1, <1>5 DEF VerdictInv, AnswersFit
    <2> QED BY <1>2, <1>5, <2>1 DEF AnswerRecord, Asked
  <1>7. /\ sent \in Seq(Code)
        /\ \A i \in 1 .. Len(sent) :
             /\ sent[i] = "ok" => t.result \in {"token", "updated"}
             /\ sent[i] = "bad_password" => t.result = "mismatch" /\ q.page # "register"
    BY <1>6, ReplyFacts DEF Honest
  <1>8. login.op = "login" /\ login.r = t.r /\ q = requests[t.r]
    OBVIOUS
  <1> HIDE DEF q, sent
  <1>9. /\ told \in Asked /\ told.page = q.page /\ told.account = q.account
        /\ told.password = q.password /\ told.held = q.held
        /\ told.replies = q.replies \o sent
    <2>1. q.replies \o sent \in Seq(Code)
      BY <1>6, <1>7 DEF Asked
    <2> QED BY <1>6, <2>1 DEF Asked
  <1>10. login \in TaskRecord
    BY <1>6 DEF TaskRecord, Op
  <1> HIDE DEF t, told, login
  <1>11. \A i \in 1 .. Len(told.replies) :
           \/ \E j \in 1 .. Len(q.replies) : told.replies[i] = q.replies[j]
           \/ \E j \in 1 .. Len(sent) : told.replies[i] = sent[j]
    <2>1. q.replies \in Seq(Code)
      BY <1>6 DEF Asked
    <2> QED BY <1>7, <1>9, <2>1
  <1>12. /\ StillAsked /\ requests'[t.r] = told
         /\ \A r \in DOMAIN requests : r # t.r => requests'[r] = requests[r]
    <2>1. /\ requests' \in Seq(Asked) /\ Len(requests') = Len(requests)
          /\ \A r \in 1 .. Len(requests) :
               requests'[r] = IF r = t.r THEN told ELSE requests[r]
      BY <1>2, <1>3, <1>6, <1>9, ExceptSeq
    <2>2. DOMAIN requests' = DOMAIN requests
      BY <1>2, <1>3
    <2> QED BY <1>2, <1>6, <1>8, <1>9, <2>1, <2>2 DEF StillAsked
  <1>13. /\ tasks' \in Seq(TaskRecord) /\ Len(tasks) \in Nat
         /\ \A i \in 1 .. Len(tasks') :
              \/ i \in 1 .. Len(tasks) /\ tasks'[i] = tasks[i]
              \/ i = Len(tasks) + 1 /\ tasks'[i] = login /\ t.op = "create_user"
    <2>1. CASE LogsIn(t.op, t.result)
      <3>1. /\ tasks' \in Seq(TaskRecord) /\ Len(tasks) \in Nat
            /\ Len(tasks') = Len(tasks) + 1 /\ tasks'[Len(tasks) + 1] = login
            /\ \A i \in 1 .. Len(tasks) : tasks'[i] = tasks[i]
        BY <1>2, <1>4, <1>10, <2>1, AppendParts
      <3> QED BY <2>1, <3>1 DEF LogsIn
    <2>2. CASE ~LogsIn(t.op, t.result)
      BY <1>2, <1>4, <2>2
    <2> QED BY <2>1, <2>2
  <1>14. TypeOK'
    <2>1. tokens' \subseteq {b \in Account : users'[b] # NoUser}
      BY <1>1, <1>3, <1>6 DEF TypeOK
    <2>2. requests' \in Seq(Asked) /\ Len(requests') <= MaxRequests
      BY <1>1, <1>12 DEF TypeOK, StillAsked
    <2> QED BY <1>1, <1>3, <1>5, <1>13, <2>1, <2>2
            DEF TypeOK, TaskRecord, AnswerRecord
  <1>15. PasswordGiven'
    BY <1>1, <1>12 DEF VerdictInv, PasswordGiven, StillAsked
  <1>16. TasksFit'
    <2> SUFFICES ASSUME NEW i \in 1 .. Len(tasks')
                 PROVE  /\ tasks'[i].r \in DOMAIN requests'
                        /\ Fits(tasks'[i], requests'[tasks'[i].r])
      BY DEF TasksFit, Fits
    <2>1. /\ tasks'[i].r \in DOMAIN requests
          /\ Fits(tasks'[i], requests[tasks'[i].r])
      <3>1. CASE i \in 1 .. Len(tasks) /\ tasks'[i] = tasks[i]
        BY <1>1, <3>1 DEF VerdictInv, TasksFit
      <3>2. CASE tasks'[i] = login /\ t.op = "create_user"
        BY <1>6, <1>8, <3>2 DEF Fits
      <3> QED BY <1>13, <3>1, <3>2
    <2> QED BY <1>12, <2>1, StillFits
  <1>17. AnswersFit'
    <2> SUFFICES ASSUME NEW i \in 1 .. Len(answers')
                 PROVE  /\ answers'[i].r \in DOMAIN requests'
                        /\ Fits(answers'[i], requests'[answers'[i].r])
                        /\ Honest(answers'[i], requests'[answers'[i].r])
                        /\ answers'[i].result = "token"
                             => users'[requests'[answers'[i].r].account] # NoUser
      BY DEF AnswersFit, Fits, Honest
    <2>1. /\ answers'[i].r \in DOMAIN requests
          /\ Fits(answers'[i], requests[answers'[i].r])
          /\ Honest(answers'[i], requests[answers'[i].r])
          /\ answers'[i].result = "token"
               => users[requests[answers'[i].r].account] # NoUser
      BY <1>1, <1>5 DEF VerdictInv, AnswersFit
    <2>2. /\ answers'[i].r \in DOMAIN requests'
          /\ Fits(answers'[i], requests'[answers'[i].r])
          /\ Honest(answers'[i], requests'[answers'[i].r])
      BY <1>12, <2>1, StillFits
    <2> QED BY <1>3, <1>12, <2>1, <2>2 DEF StillAsked
  <1>18. ASSUME NEW r \in DOMAIN requests, Outstanding(r)'
         PROVE  Outstanding(r)
    <2>1. Outstanding(t.r)
      BY <1>5 DEF Outstanding
    <2>2. ASSUME NEW i \in 1 .. Len(tasks'), tasks'[i].r = r
          PROVE  Outstanding(r)
      BY <1>8, <1>13, <2>1, <2>2 DEF Outstanding
    <2>3. ASSUME NEW i \in 1 .. Len(answers'), answers'[i].r = r
          PROVE  Outstanding(r)
      BY <1>5, <2>3 DEF Outstanding
    <2> QED BY <1>18, <2>2, <2>3 DEF Outstanding
  <1>19. HeldNow'
    <2> SUFFICES ASSUME NEW r \in DOMAIN requests, Outstanding(r)'
                 PROVE  users'[requests'[r].account] \in requests'[r].held
      BY <1>12 DEF HeldNow, StillAsked
    <2> QED BY <1>1, <1>3, <1>12, <1>18 DEF VerdictInv, HeldNow, StillAsked
  <1>20. RepliesTrue'
    <2> SUFFICES ASSUME NEW r \in DOMAIN requests
                 PROVE  Truthful(requests'[r])
      BY <1>12 DEF RepliesTrue, Truthful, StillAsked
    <2>1. Truthful(requests[r])
      BY <1>1 DEF VerdictInv, RepliesTrue
    <2>2. CASE r # t.r
      BY <1>12, <2>1, <2>2
    <2>3. CASE r = t.r
      <3> SUFFICES ASSUME q.page \in {"register", "login"}
                   PROVE  Truthful(told)
        BY <1>9, <1>12, <2>3 DEF Truthful
      <3>1. t.result # "updated"
        BY <1>6 DEF Fits, Honest, ResultsOf, Op
      <3>2. ASSUME NEW i \in 1 .. Len(told.replies), told.replies[i] = "ok"
            PROVE  q.password \in q.held
        <4>1. CASE \E j \in 1 .. Len(q.replies) : q.replies[j] = "ok"
          BY <1>8, <2>1, <2>3, <4>1 DEF Truthful
        <4>2. CASE \E j \in 1 .. Len(sent) : sent[j] = "ok"
          BY <1>6, <1>7, <3>1, <4>2 DEF Honest
        <4> QED BY <1>11, <3>2, <4>1, <4>2
      <3>3. ASSUME NEW i \in 1 .. Len(told.replies), told.replies[i] = "bad_password"
            PROVE  \E x \in q.held : x # q.password
        <4>1. CASE \E j \in 1 .. Len(q.replies) : q.replies[j] = "bad_password"
          BY <1>8, <2>1, <2>3, <4>1 DEF Truthful
        <4>2. CASE \E j \in 1 .. Len(sent) : sent[j] = "bad_password"
          BY <1>6, <1>7, <4>2 DEF Honest
        <4> QED BY <1>11, <3>3, <4>1, <4>2
      <3> QED BY <1>9, <3>2, <3>3 DEF Truthful
    <2> QED BY <2>2, <2>3
  <1>21. LatestKnown'
    BY <1>1, <1>3, <1>12 DEF LatestInv, LatestKnown, StillAsked
  <1>22. \A b \in Account, i \in 1 .. Len(tasks) :
           Changes(tasks[i], requests', b) <=> Changes(tasks[i], requests, b)
    BY <1>1, <1>12, StillFits DEF VerdictInv, TasksFit
  <1>23. LatestIsLast'
    <2> SUFFICES ASSUME NEW b \in Account,
                        NEW i \in 1 .. Len(tasks'), NEW j \in 1 .. Len(tasks'),
                        tasks'[i].op = "update_password",
                        tasks'[i].r = latest'[b], i < j
                 PROVE  ~Changes(tasks'[j], requests', b)
      BY DEF LatestIsLast, Changes
    <2>1. i \in 1 .. Len(tasks) /\ tasks'[i] = tasks[i]
      BY <1>8, <1>13
    <2>2. CASE tasks'[j] = login
      BY <1>8, <2>2 DEF Changes
    <2>3. CASE j \in 1 .. Len(tasks) /\ tasks'[j] = tasks[j]
      BY <1>1, <1>3, <1>22, <2>1, <2>3 DEF LatestInv, LatestIsLast
    <2> QED BY <1>13, <2>2, <2>3
  <1>24. LatestStays'
    <2> SUFFICES ASSUME NEW b \in Account, latest[b] # 0,
                        Succeeded(latest[b], requests', answers')
                 PROVE  /\ users[b] = requests[latest[b]].password
                        /\ \A i \in 1 .. Len(tasks') : ~Changes(tasks'[i], requests', b)
      BY <1>1, <1>3, <1>12
         DEF LatestStays, Changes, Succeeded, StillAsked, LatestInv, LatestKnown
    <2>1. /\ latest[b] \in DOMAIN requests
          /\ requests[latest[b]].page = "update_password"
      BY <1>1 DEF LatestInv, LatestKnown
    <2>2. Succeeded(latest[b], requests, answers)
      <3>1. ASSUME NEW i \in 1 .. Len(answers'),
                   answers'[i].r = latest[b], answers'[i].result = "updated"
            PROVE  Succeeded(latest[b], requests, answers)
        BY <1>5, <3>1 DEF Succeeded
      <3>2. ASSUME NEW i \in 1 .. Len(requests'[latest[b]].replies),
                   requests'[latest[b]].replies[i] = "ok"
            PROVE  Succeeded(latest[b], requests, answers)
        <4>1. CASE latest[b] # t.r
          BY <1>12, <2>1, <3>2, <4>1 DEF Succeeded
        <4>2. CASE latest[b] = t.r
          <5>1. told.replies[i] = "ok" /\ i \in 1 .. Len(told.replies)
            BY <1>12, <3>2, <4>2
          <5>2. CASE \E j \in 1 .. Len(q.replies) : q.replies[j] = "ok"
            BY <1>8, <4>2, <5>2 DEF Succeeded
          <5>3. CASE \E j \in 1 .. Len(sent) : sent[j] = "ok"
            <6>1. t.result \in {"token", "updated"}
              BY <1>7, <5>3
            <6>2. t.result = "updated"
              BY <1>6, <1>8, <2>1, <4>2, <6>1 DEF Fits, Honest, ResultsOf, Op
            <6> QED BY <1>5, <4>2, <6>2 DEF Succeeded
          <5> QED BY <1>11, <5>1, <5>2, <5>3
        <4> QED BY <4>1, <4>2
      <3> QED BY <3>1, <3>2 DEF Succeeded
    <2>3. /\ users[b] = requests[latest[b]].password
          /\ \A i \in 1 .. Len(tasks) : ~Changes(tasks[i], requests, b)
      BY <1>1, <2>2 DEF LatestInv, LatestStays
    <2>4. ~Changes(login, requests', b)
      BY <1>8 DEF Changes
    <2> QED BY <1>13, <1>22, <2>3, <2>4
  <1> QED BY <1>14, <1>15, <1>16, <1>17, <1>19, <1>20, <1>21, <1>23, <1>24
          DEF AccountsInv, VerdictInv, LatestInv

-----------------------------------------------------------------------------
(* The early replies: none, or that the email is too long. *)
LEMMA EarlyReplies ==
  ASSUME NEW replies \in {<<>>, <<"email_error">>}
  PROVE  /\ replies \in Seq(Code)
         /\ \A i \in 1 .. Len(replies) : replies[i] \notin {"ok", "bad_password"}
  <1>1. CASE replies = <<>>
    BY <1>1
  <1>2. CASE replies = <<"email_error">>
    <2>1. "email_error" \in Code
      BY DEF Code
    <2>2. replies \in Seq(Code) /\ \A i \in 1 .. Len(replies) : replies[i] = "email_error"
      BY <1>2, <2>1
    <2> QED BY <2>2
  <1> QED BY <1>1, <1>2

LEMMA ReceiveKeeps ==
  ASSUME AccountsInv, Receive
  PROVE  AccountsInv'
  <1> DEFINE none == <<>>
  <1>0. /\ none \in Seq(Code)
        /\ \A i \in 1 .. Len(none) : none[i] \notin {"ok", "bad_password"}
        /\ Page \subseteq Op \cup {"register"} /\ "create_user" \in Op /\ "register" \in Page
        /\ "login" \in Page /\ "update_email" \in Page /\ "update_password" \in Page
    BY EarlyReplies DEF Op, Page
  <1>1. ASSUME NEW n \in Name, NEW p \in Password, pageRegister(n, p)
        PROVE  AccountsInv'
    <2> DEFINE a == trim_and_lower[n]
    <2>1. Submit("create_user", "register", a, p, none) /\ latest' = latest
      BY <1>1 DEF pageRegister
    <2>2. a \in Account
      BY DEF Account
    <2> HIDE DEF a, none
    <2> QED BY <1>0, <2>1, <2>2, SubmitKeeps
  <1>2. ASSUME NEW n \in Name, NEW p \in Password, pageLogin(n, p)
        PROVE  AccountsInv'
    <2> DEFINE a == trim_and_lower[n]
    <2>1. Submit("login", "login", a, p, none) /\ latest' = latest
      BY <1>2 DEF pageLogin
    <2>2. a \in Account
      BY DEF Account
    <2> HIDE DEF a, none
    <2> QED BY <1>0, <2>1, <2>2, SubmitKeeps
  <1>3. ASSUME NEW a \in Account, pageUpdateEmail(a)
        PROVE  AccountsInv'
    <2>1. PICK replies \in {<<>>, <<"email_error">>} :
            Submit("update_email", "update_email", a, NoUser, replies)
      BY <1>3 DEF pageUpdateEmail
    <2>2. latest' = latest
      BY <1>3 DEF pageUpdateEmail
    <2>3. /\ replies \in Seq(Code)
          /\ \A i \in 1 .. Len(replies) : replies[i] \notin {"ok", "bad_password"}
      BY EarlyReplies
    <2> QED BY <1>0, <2>1, <2>2, <2>3, SubmitKeeps
  <1>4. ASSUME NEW a \in Account, NEW p \in Password, pageUpdatePassword(a, p)
        PROVE  AccountsInv'
    <2>1. /\ Submit("update_password", "update_password", a, p, none) /\ a \in tokens
          /\ latest' = [latest EXCEPT ![a] = Len(requests) + 1]
      BY <1>4 DEF pageUpdatePassword
    <2> HIDE DEF none
    <2> QED BY <1>0, <2>1, SubmitKeeps
  <1>5. CASE Unreadable \/ BadToken
    <2>1. /\ UNCHANGED <<users, requests, tasks, answers, tokens, latest>>
          /\ aborted' \in BOOLEAN
      BY <1>5 DEF Unreadable, BadToken, JsonAssert
    <2> QED
      BY <2>1 DEF AccountsInv, TypeOK, VerdictInv, PasswordGiven, TasksFit,
         AnswersFit, HeldNow, RepliesTrue, Outstanding, LatestInv, LatestKnown,
         LatestIsLast, LatestStays, Fits, Honest, Truthful, Changes, Succeeded
  <1> QED BY <1>1, <1>2, <1>3, <1>4, <1>5 DEF Receive

(* Every step keeps the invariant. *)
LEMMA AccountsInductive == AccountsInv /\ [Next]_vars => AccountsInv'
  <1> SUFFICES ASSUME AccountsInv, [Next]_vars
               PROVE  AccountsInv'
    OBVIOUS
  <1>1. CASE UNCHANGED vars
    BY <1>1 DEF vars, AccountsInv, TypeOK, VerdictInv, PasswordGiven, TasksFit,
       AnswersFit, HeldNow, RepliesTrue, Outstanding, LatestInv, LatestKnown,
       LatestIsLast, LatestStays, Fits, Honest, Truthful, Changes, Succeeded
  <1>2. CASE Receive
    BY <1>2, ReceiveKeeps
  <1>3. CASE Background
    BY <1>3, ExecuteKeeps DEF Background
  <1>4. CASE Callback
    BY <1>4, AnswerKeeps DEF Callback
  <1> QED BY <1>1, <1>2, <1>3, <1>4 DEF Next

LEMMA AccountsInitially == Init => AccountsInv
  <1> SUFFICES ASSUME Init
               PROVE  AccountsInv
    OBVIOUS
  <1>1. TypeOK
    <2>1. requests \in Seq(Asked) /\ Len(requests) <= MaxRequests
      BY AccountsAssumption DEF Init
    <2>2. tasks \in Seq([op : Op, r : Request])
      BY DEF Init
    <2>3. answers \in Seq([op : Op, r : Request, result : Result])
      BY DEF Init
    <2> QED BY <2>1, <2>2, <2>3 DEF Init, TypeOK
  <1>2. VerdictInv
    BY DEF Init, VerdictInv, PasswordGiven, TasksFit, AnswersFit, HeldNow, RepliesTrue
  <1>3. LatestInv
    BY DEF Init, LatestInv, LatestKnown, LatestIsLast, LatestStays
  <1> QED BY <1>1, <1>2, <1>3 DEF AccountsInv

LEMMA AccountsAlways == Spec => []AccountsInv
  BY AccountsInitially, AccountsInductive, PTL DEF Spec

(***************************************************************************)
(* Type correctness: in particular every token names an account that       *)
(* exists, whatever registrations and errors came before                   *)
(* (server.cpp:55-90, 346-404).                                            *)
(***************************************************************************)
THEOREM AccountsTypeOK == Spec => []TypeOK
  <1>1. AccountsInv => TypeOK
    BY DEF AccountsInv
  <1> QED BY <1>1, AccountsAlways, PTL

(***************************************************************************)
(* A token is given, and a password called bad, only on the strength of a  *)
(* password the account had while the request was under way, with any      *)
(* number of other requests for it (server.cpp:55-90, 346-404, 434-470).   *)
(***************************************************************************)
THEOREM VerdictsTrue == Spec => []VerdictTrueOfSomeMoment
  <1>1. AccountsInv => VerdictTrueOfSomeMoment
    BY DEF AccountsInv, VerdictInv, RepliesTrue, Truthful, VerdictTrueOfSomeMoment,
           Replied
  <1> QED BY <1>1, AccountsAlways, PTL

(***************************************************************************)
(* Once the change of a password submitted last is acknowledged, the       *)
(* account has that password (server.cpp:608-624, mysql.cpp:545-573).      *)
(***************************************************************************)
THEOREM LastChangeAlwaysWins == Spec => []LastChangeWins
  <1>1. AccountsInv => LastChangeWins
    BY DEF AccountsInv, LatestInv, LatestStays, Succeeded, LastChangeWins, Replied
  <1> QED BY <1>1, AccountsAlways, PTL
============================================================================
