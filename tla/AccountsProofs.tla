--------------------------- MODULE AccountsProofs ---------------------------
(***************************************************************************)
(* The invariants of Accounts for any number of addresses, tokens and      *)
(* requests in flight and any configurations.  What a request remembers    *)
(* between its statements stays true: the account it enters exists, the    *)
(* admin flag a sign-in writes back is the one stored, and only the insert *)
(* of a registration or a sign-in may make an admin, in its transaction.   *)
(***************************************************************************)
EXTENDS Accounts, TLAPS

\* What is true of a request's memory, whatever others did since.
RequestOK(q) ==
  /\ q \in Reqs
  /\ q.pc \in {"enter", "sync", "change"} => q.user \in DOMAIN users
  /\ q.pc \in {"change", "spend"} => q.token \in issued
  /\ q.pc = "change" => ~q.dead
  /\ q.pc = "insert" /\ ~config.groups =>
       IF q.bootstrap THEN q.row.kind # "secret" ELSE q.row.kind = "secret" /\ ~q.row.admin
  /\ q.pc = "sync" /\ ~config.groups => q.admin = users[q.user].admin

RequestsOK == req \in [Requests -> Reqs] /\ \A r \in Requests : RequestOK(req[r])
UsersOK ==
  /\ users \in [DOMAIN users -> Users] /\ DOMAIN users \subseteq issued /\ issued \subseteq Tokens
  /\ DOMAIN users # {} => first \in DOMAIN users
  /\ first \in Tokens \cup {None} /\ named \in Tokens \cup {None}
SessionsOK ==
  /\ IsMap(sessions, Tokens, Expiring)
  /\ \A t \in DOMAIN sessions : sessions[t].user \in DOMAIN users
ResetsOK ==
  /\ IsMap(resets, Tokens, Expiring) /\ DOMAIN resets \subseteq issued
  /\ \A t \in DOMAIN resets : resets[t].user \in DOMAIN users
SpentOK == spent \subseteq issued /\ spent \cap DOMAIN resets = {} /\ late = FALSE
CountersOK == config \in Configs /\ clock \in 0..MaxClock /\ begun \in 0..MaxBegun

Inv ==
  /\ RequestsOK /\ UsersOK /\ SessionsOK /\ ResetsOK /\ SpentOK /\ CountersOK
  /\ OnlyTheFirstIsAdmin

-----------------------------------------------------------------------------
(* Tables and requests.                                                    *)

LEMMA EmptyTable ==
  ASSUME UsersOK
  PROVE  users = <<>> <=> DOMAIN users = {}
  BY DEF UsersOK

\* What other requests may do to the tables without disturbing one's memory.
Grows ==
  /\ config' = config /\ issued \subseteq issued' /\ DOMAIN users \subseteq DOMAIN users'
  /\ ~config.groups => \A u \in DOMAIN users : users'[u].admin = users[u].admin

LEMMA MemoryLasts ==
  ASSUME NEW q, RequestOK(q), Grows
  PROVE  RequestOK(q)'
<1>1. q.pc = "sync" => q.user \in DOMAIN users
  BY DEF RequestOK
<1> QED
  BY <1>1 DEF RequestOK, Grows

LEMMA RequestsStay ==
  ASSUME RequestsOK, Grows, req' = req
  PROVE  RequestsOK'
<1>1. \A r \in Requests : RequestOK(req[r])'
  <2> TAKE r \in Requests
  <2>1. PICK q : q = req[r]
    OBVIOUS
  <2>2. RequestOK(q)'
    BY <2>1, MemoryLasts DEF RequestsOK
  <2> QED
    BY <2>1, <2>2
<1> QED
  BY <1>1 DEF RequestsOK

LEMMA RequestMoves ==
  ASSUME RequestsOK, Grows, NEW r \in Requests, NEW to, Become(r, to), RequestOK(to)'
  PROVE  RequestsOK'
<1>1. to \in Reqs
  BY DEF RequestOK
<1>2. req' \in [Requests -> Reqs] /\ \A s \in Requests : req'[s] = IF s = r THEN to ELSE req[s]
  BY <1>1 DEF RequestsOK, Become
<1>3. ASSUME NEW s \in Requests, s # r PROVE RequestOK(req[s])'
  <2>1. PICK q : q = req[s]
    OBVIOUS
  <2>2. RequestOK(q)' /\ req'[s] = q
    BY <2>1, <1>2, <1>3, MemoryLasts DEF RequestsOK
  <2> QED
    BY <2>2
<1>4. RequestOK(req[r])'
  BY <1>2
<1> QED
  BY <1>2, <1>3, <1>4 DEF RequestsOK

\* What a request remembers where.
Changing ==
  [pc : {"change"}, token : Tokens, user : Tokens, password : Passwords, dead : BOOLEAN]

LEMMA Memory ==
  ASSUME NEW q \in Reqs
  PROVE  /\ q.pc = "insert" => q \in [pc : {"insert"}, row : Users, bootstrap : BOOLEAN, empty : BOOLEAN]
         /\ q.pc = "enter" => q \in [pc : {"enter"}, user : Tokens]
         /\ q.pc = "sync" => q \in [pc : {"sync"}, user : Tokens, admin : BOOLEAN]
         /\ q.pc = "change" => q \in Changing
         /\ q.pc = "spend" => q \in [pc : {"spend"}, token : Tokens]
<1>1. CASE q = Idle
  <2>1. q.pc = "idle"
    BY <1>1 DEF Idle
  <2> QED
    BY <2>1
<1>2. CASE q \in [pc : {"insert"}, row : Users, bootstrap : BOOLEAN, empty : BOOLEAN]
  <2>1. q.pc = "insert"
    BY <1>2
  <2> QED
    BY <2>1, <1>2
<1>3. CASE q \in [pc : {"enter"}, user : Tokens]
  BY <1>3
<1>4. CASE q \in [pc : {"sync"}, user : Tokens, admin : BOOLEAN]
  BY <1>4
<1>5. CASE q \in Changing
  BY <1>5 DEF Changing
<1>6. CASE q \in [pc : {"spend"}, token : Tokens]
  BY <1>6
<1> QED
  BY <1>1, <1>2, <1>3, <1>4, <1>5, <1>6 DEF Reqs, Changing

LEMMA IdleOK == RequestOK(Idle)
  BY DEF RequestOK, Idle, Reqs

\* Nothing but requests and counters changed.
LEMMA TablesUntouched ==
  ASSUME Inv, UNCHANGED <<config, users, sessions, resets, issued, first, named, spent, late>>,
         RequestsOK', clock' \in 0..MaxClock, begun' \in 0..MaxBegun
  PROVE  Inv'
<1>1. UsersOK' /\ SessionsOK' /\ ResetsOK' /\ SpentOK' /\ CountersOK' /\ OnlyTheFirstIsAdmin'
  BY DEF Inv, UsersOK, SessionsOK, ResetsOK, SpentOK, CountersOK, OnlyTheFirstIsAdmin
<1> QED
  BY <1>1 DEF Inv

LEMMA UnchangedGrows ==
  ASSUME UNCHANGED <<config, users>>, issued \subseteq issued'
  PROVE  Grows
  BY DEF Grows

\* A handler that only reads, and goes on.
LEMMA OnlyMoves ==
  ASSUME Inv, NEW r \in Requests, NEW to, Become(r, to), RequestOK(to),
         UNCHANGED <<config, users, sessions, resets, issued, clock, first, named, spent, late>>,
         begun' \in 0..MaxBegun
  PROVE  Inv'
<1>1. Grows
  BY UnchangedGrows
<1>2. RequestOK(to)'
  BY <1>1, MemoryLasts
<1>3. RequestsOK'
  BY <1>1, <1>2, RequestMoves DEF Inv
<1> QED
  BY <1>3, TablesUntouched DEF Inv, CountersOK

LEMMA BeginCounts ==
  ASSUME Inv, NEW r, Begin(r)
  PROVE  begun' \in 0..MaxBegun
  BY AccountsAssumption DEF Inv, CountersOK, Begin

-----------------------------------------------------------------------------
(* The statements, one by one.                                             *)

LEMMA UserRow ==
  ASSUME UsersOK, NEW u \in DOMAIN users
  PROVE  /\ u \in Tokens /\ users[u] \in Users
         /\ users[u] = [kind |-> users[u].kind, email |-> users[u].email,
                        subject |-> users[u].subject, password |-> users[u].password,
                        admin |-> users[u].admin]
  BY DEF UsersOK, Users

LEMMA RegisterKeeps ==
  ASSUME Inv, NEW r \in Requests, NEW e \in Emails, NEW p \in Passwords, Register(r, e, p)
  PROVE  Inv'
<1>1. PICK row : row = [kind |-> "password", email |-> e, subject |-> None,
                        password |-> p, admin |-> FALSE]
  OBVIOUS
<1>2. PICK b \in BOOLEAN : b = (users = <<>>)
  OBVIOUS
<1>3. PICK to : to = [pc |-> "insert", row |-> row, bootstrap |-> TRUE, empty |-> b]
  OBVIOUS
<1>4. row \in Users /\ row.kind # "secret"
  BY <1>1 DEF Users, Kinds
<1>5. to \in Reqs
  BY <1>3, <1>4 DEF Reqs
<1>6. RequestOK(to)
  BY <1>3, <1>4, <1>5 DEF RequestOK
<1>7. Become(r, to)
  BY <1>1, <1>2, <1>3 DEF Register, Inserting
<1>8. begun' \in 0..MaxBegun
  BY BeginCounts DEF Register
<1> QED
  BY <1>6, <1>7, <1>8, OnlyMoves DEF Register

LEMMA AnonymousKeeps == ASSUME Inv, NEW r \in Requests, Anonymous(r) PROVE Inv'
<1>1. PICK row : row = [kind |-> "secret", email |-> None, subject |-> None,
                        password |-> None, admin |-> FALSE]
  OBVIOUS
<1>2. PICK b \in BOOLEAN : b = (users = <<>>)
  OBVIOUS
<1>3. PICK to : to = [pc |-> "insert", row |-> row, bootstrap |-> FALSE, empty |-> b]
  OBVIOUS
<1>4. row \in Users /\ row.kind = "secret" /\ ~row.admin
  BY <1>1 DEF Users, Kinds
<1>5. to \in Reqs
  BY <1>3, <1>4 DEF Reqs
<1>6. RequestOK(to)
  BY <1>3, <1>4, <1>5 DEF RequestOK
<1>7. Become(r, to)
  BY <1>1, <1>2, <1>3 DEF Anonymous, Inserting
<1>8. begun' \in 0..MaxBegun
  BY BeginCounts DEF Anonymous
<1> QED
  BY <1>6, <1>7, <1>8, OnlyMoves DEF Anonymous

\* Any request may enter an account there is.
LEMMA EnteringOK ==
  ASSUME UsersOK, NEW u \in DOMAIN users
  PROVE  RequestOK(Entering(u))
<1>1. Entering(u) \in Reqs
  BY UserRow DEF Entering, Reqs
<1> QED
  BY <1>1 DEF RequestOK, Entering

LEMMA LoginKeeps ==
  ASSUME Inv, NEW r \in Requests, NEW e \in Emails, NEW p \in Passwords, Login(r, e, p)
  PROVE  Inv'
<1>1. PICK u \in DOMAIN users : Become(r, Entering(u))
  BY DEF Login, UsersWith
<1>2. RequestOK(Entering(u))
  BY EnteringOK DEF Inv
<1>3. begun' \in 0..MaxBegun
  BY BeginCounts DEF Login
<1>4. PICK to : to = Entering(u)
  OBVIOUS
<1> QED
  BY <1>1, <1>2, <1>3, <1>4, OnlyMoves DEF Login

LEMMA OIDCLoginKeeps ==
  ASSUME Inv, NEW r \in Requests, NEW s \in Subjects, NEW e \in Emails \cup {None},
         NEW a \in BOOLEAN, OIDCLogin(r, s, e, a)
  PROVE  Inv'
<1>1. begun' \in 0..MaxBegun
  BY BeginCounts DEF OIDCLogin
<1>2. CASE \E u \in UsersWith("subject", s) :
             Become(r, [pc |-> "sync", user |-> u,
                        admin |-> IF config.groups THEN a ELSE users[u].admin])
  <2>1. PICK u \in DOMAIN users :
          Become(r, [pc |-> "sync", user |-> u,
                     admin |-> IF config.groups THEN a ELSE users[u].admin])
    BY <1>2 DEF UsersWith
  <2>2. u \in Tokens /\ users[u].admin \in BOOLEAN
    BY UserRow DEF Inv, Users
  <2>3. PICK b \in BOOLEAN : b = (IF config.groups THEN a ELSE users[u].admin)
    BY <2>2
  <2>4. PICK to : to = [pc |-> "sync", user |-> u, admin |-> b]
    OBVIOUS
  <2>5. to \in Reqs
    BY <2>2, <2>4 DEF Reqs
  <2>6. RequestOK(to)
    BY <2>3, <2>4, <2>5 DEF RequestOK
  <2> QED
    BY <1>1, <2>1, <2>3, <2>4, <2>6, OnlyMoves DEF OIDCLogin
<1>3. CASE Become(r, Inserting([kind |-> "oidc", email |-> e, subject |-> s,
                                password |-> None, admin |-> a], ~config.groups))
  <2>1. PICK row : row = [kind |-> "oidc", email |-> e, subject |-> s,
                          password |-> None, admin |-> a]
    OBVIOUS
  <2>2. PICK b \in BOOLEAN : b = (users = <<>>)
    OBVIOUS
  <2>3. PICK c \in BOOLEAN : c = ~config.groups
    OBVIOUS
  <2>4. PICK to : to = [pc |-> "insert", row |-> row, bootstrap |-> c, empty |-> b]
    OBVIOUS
  <2>5. row \in Users /\ row.kind # "secret"
    BY <2>1 DEF Users, Kinds
  <2>6. to \in Reqs
    BY <2>4, <2>5 DEF Reqs
  <2>7. RequestOK(to)
    BY <2>3, <2>4, <2>5, <2>6 DEF RequestOK
  <2>8. Become(r, to)
    BY <1>3, <2>1, <2>2, <2>3, <2>4 DEF Inserting
  <2> QED
    BY <1>1, <2>7, <2>8, OnlyMoves DEF OIDCLogin
<1> QED
  BY <1>2, <1>3 DEF OIDCLogin

\* A row changes, but neither its kind nor, without groups, its admin flag.
LEMMA RowChanges ==
  ASSUME Inv, NEW r \in Requests, NEW to, Become(r, to), RequestOK(to)',
         NEW u \in DOMAIN users, NEW row \in Users, users' = [users EXCEPT ![u] = row],
         row.kind = users[u].kind, ~config.groups => row.admin = users[u].admin,
         UNCHANGED <<config, sessions, resets, issued, clock, begun, first, named, spent, late>>
  PROVE  Inv'
<1>1. /\ DOMAIN users' = DOMAIN users /\ users' \in [DOMAIN users' -> Users]
      /\ \A v \in DOMAIN users : users'[v].kind = users[v].kind
      /\ ~config.groups => \A v \in DOMAIN users : users'[v].admin = users[v].admin
  BY DEF Inv, UsersOK
<1>2. Grows
  BY <1>1 DEF Grows
<1>3. RequestsOK'
  BY <1>2, RequestMoves DEF Inv
<1>4. UsersOK' /\ SessionsOK' /\ ResetsOK' /\ SpentOK' /\ CountersOK'
  BY <1>1 DEF Inv, UsersOK, SessionsOK, ResetsOK, SpentOK, CountersOK
<1>5. OnlyTheFirstIsAdmin'
  BY <1>1 DEF Inv, OnlyTheFirstIsAdmin
<1> QED
  BY <1>3, <1>4, <1>5 DEF Inv

LEMMA SyncAdminKeeps == ASSUME Inv, NEW r \in Requests, SyncAdmin(r) PROVE Inv'
<1>1. PICK u : u = req[r].user
  OBVIOUS
<1>2. PICK a : a = req[r].admin
  OBVIOUS
<1>3. u \in DOMAIN users /\ a \in BOOLEAN /\ (~config.groups => a = users[u].admin)
  <2>1. RequestOK(req[r]) /\ req[r].pc = "sync"
    BY DEF Inv, RequestsOK, SyncAdmin
  <2>2. req[r] \in [pc : {"sync"}, user : Tokens, admin : BOOLEAN]
    BY <2>1, Memory DEF RequestOK
  <2> QED
    BY <1>1, <1>2, <2>1, <2>2 DEF RequestOK
<1>4. PICK row : row = [users[u] EXCEPT !.admin = a]
  OBVIOUS
<1>5. row \in Users /\ row.kind = users[u].kind /\ row.admin = a
  BY <1>3, <1>4, UserRow DEF Inv, Users
<1>6. users' = [users EXCEPT ![u] = row]
  BY <1>1, <1>2, <1>4 DEF SyncAdmin
<1>7. PICK to : to = Entering(u)
  OBVIOUS
<1>8. DOMAIN users' = DOMAIN users /\ u \in Tokens
  BY <1>3, <1>6, UserRow DEF Inv, UsersOK
<1>9. RequestOK(to)'
  <2>1. to \in Reqs /\ to.pc = "enter" /\ to.user = u
    BY <1>7, <1>8 DEF Entering, Reqs
  <2> QED
    BY <2>1, <1>3, <1>8 DEF RequestOK
<1>10. Become(r, to)
  BY <1>1, <1>7 DEF SyncAdmin
<1> QED
  BY <1>3, <1>5, <1>6, <1>9, <1>10, RowChanges DEF SyncAdmin

LEMMA ChangePasswordKeeps == ASSUME Inv, NEW r \in Requests, ChangePassword(r) PROVE Inv'
<1>1. PICK u : u = req[r].user
  OBVIOUS
<1>2. PICK p : p = req[r].password
  OBVIOUS
<1>3. PICK t : t = req[r].token
  OBVIOUS
<1>4. u \in DOMAIN users /\ p \in Passwords /\ t \in issued /\ t \in Tokens /\ ~req[r].dead
  <2>1. RequestOK(req[r]) /\ req[r].pc = "change"
    BY DEF Inv, RequestsOK, ChangePassword
  <2>2. req[r] \in Changing
    BY <2>1, Memory DEF RequestOK
  <2> QED
    BY <1>1, <1>2, <1>3, <2>1, <2>2 DEF RequestOK, Changing
<1>5. PICK row : row = [users[u] EXCEPT !.password = p]
  OBVIOUS
<1>6. row \in Users /\ row.kind = users[u].kind /\ row.admin = users[u].admin
  BY <1>4, <1>5, UserRow DEF Inv, Users
<1>7. users' = [users EXCEPT ![u] = row]
  BY <1>1, <1>2, <1>5 DEF ChangePassword
<1>8. PICK to : to = [pc |-> "spend", token |-> t]
  OBVIOUS
<1>9. RequestOK(to)'
  <2>1. to \in Reqs /\ to.pc = "spend" /\ to.token = t
    BY <1>4, <1>8 DEF Reqs
  <2> QED
    BY <2>1, <1>4 DEF RequestOK, ChangePassword
<1>10. Become(r, to)
  BY <1>3, <1>8 DEF ChangePassword
<1>11. late' = late
  BY <1>4 DEF ChangePassword, Inv, SpentOK
<1> QED
  BY <1>4, <1>6, <1>7, <1>9, <1>10, <1>11, RowChanges DEF ChangePassword

\* A registration or a first sign-in: the new row is an admin exactly when it
\* is the first of all, and not anonymous.
LEMMA InsertUserKeeps == ASSUME Inv, NEW r \in Requests, InsertUser(r) PROVE Inv'
<1> DEFINE q == req[r]
<1>1. RequestOK(q) /\ q.pc = "insert" /\ q \in [pc : {"insert"}, row : Users, bootstrap : BOOLEAN, empty : BOOLEAN]
  BY Memory DEF Inv, RequestsOK, RequestOK, InsertUser
<1>2. PICK b \in BOOLEAN : b <=> DOMAIN users = {}
  OBVIOUS
<1>3. (users = <<>>) = b
  BY <1>2, EmptyTable DEF Inv
<1>4. PICK row : row = IF q.bootstrap THEN BootstrapAdmin(r, q.row) ELSE q.row
  OBVIOUS
<1>5. /\ row \in Users /\ row.kind = q.row.kind
      /\ row.admin = IF q.bootstrap THEN b ELSE q.row.admin
  <2>1. CASE q.bootstrap
    <3>1. row = [q.row EXCEPT !.admin = b]
      BY <2>1, <1>3, <1>4 DEF BootstrapAdmin
    <3> QED
      BY <3>1, <2>1, <1>1 DEF Users
  <2>2. CASE ~q.bootstrap
    BY <2>2, <1>1, <1>4
  <2> QED
    BY <2>1, <2>2
<1>6. PICK u \in Fresh : Insert(u, row) /\ issued' = issued \cup {u} /\ Become(r, Entering(u))
  BY <1>4 DEF InsertUser
<1>7. u \in Tokens /\ u \notin issued /\ u \notin DOMAIN users
  BY <1>6 DEF Fresh, Inv, UsersOK
<1>8. /\ DOMAIN users' = DOMAIN users \cup {u} /\ users' \in [DOMAIN users' -> Users]
      /\ users'[u] = row /\ \A v \in DOMAIN users : users'[v] = users[v]
  BY <1>5, <1>6, <1>7 DEF Insert, With, Inv, UsersOK
<1>9. /\ DOMAIN users = {} => first' = u
      /\ DOMAIN users # {} => first' = first /\ first \in DOMAIN users
  BY <1>2, <1>3, <1>6 DEF Insert, Inv, UsersOK
<1>10. Grows /\ config' = config
  BY <1>6, <1>8 DEF Grows, InsertUser
<1>11. RequestsOK'
  <2>1. PICK to : to = Entering(u)
    OBVIOUS
  <2>2. to \in Reqs /\ to.pc = "enter" /\ to.user = u
    BY <2>1, <1>7 DEF Entering, Reqs
  <2>3. RequestOK(to)'
    BY <2>2, <1>8 DEF RequestOK
  <2> QED
    BY <2>1, <2>3, <1>6, <1>10, RequestMoves DEF Inv
<1>12. UsersOK'
  <2>1. named' \in Tokens \cup {None}
    BY <1>6, <1>7 DEF Insert, Inv, UsersOK
  <2>2. first' \in Tokens
    BY <1>7, <1>9 DEF Inv, UsersOK
  <2> QED
    BY <2>1, <2>2, <1>6, <1>7, <1>8, <1>9 DEF Inv, UsersOK
<1>13. SessionsOK' /\ ResetsOK' /\ SpentOK' /\ CountersOK'
  BY <1>6, <1>8 DEF Inv, SessionsOK, ResetsOK, SpentOK, CountersOK, InsertUser
<1>14. OnlyTheFirstIsAdmin'
  <2> SUFFICES ASSUME ~config.groups, NEW v \in DOMAIN users'
               PROVE  users'[v].admin <=> (v = first' /\ users'[v].kind # "secret")
    BY <1>10 DEF OnlyTheFirstIsAdmin
  <2>1. CASE v = u
    <3>1. u = first' <=> DOMAIN users = {}
      BY <1>7, <1>9
    <3>2. IF q.bootstrap THEN q.row.kind # "secret" ELSE q.row.kind = "secret" /\ ~q.row.admin
      BY <1>1 DEF RequestOK
    <3>3. row.admin <=> (DOMAIN users = {} /\ row.kind # "secret")
      BY <3>2, <1>1, <1>2, <1>5
    <3> QED
      BY <2>1, <3>1, <3>3, <1>8
  <2>2. CASE v # u
    <3>1. v \in DOMAIN users /\ DOMAIN users # {} /\ users'[v] = users[v] /\ first' = first
      BY <2>2, <1>8, <1>9
    <3> QED
      BY <3>1 DEF Inv, OnlyTheFirstIsAdmin
  <2> QED
    BY <2>1, <2>2
<1> QED
  BY <1>11, <1>12, <1>13, <1>14 DEF Inv

\* A request that ends leaves the rest alone.
LEMMA DoneKeeps ==
  ASSUME Inv, NEW r \in Requests, InsertRefused(r) \/ Fails(r)
  PROVE  Inv'
<1>1. PICK to : to = Idle
  OBVIOUS
<1>2. RequestOK(to)
  BY <1>1, IdleOK
<1> QED
  BY <1>1, <1>2, OnlyMoves DEF InsertRefused, Fails, Done, Inv, CountersOK

LEMMA EnterKeeps == ASSUME Inv, NEW r \in Requests, Enter(r) PROVE Inv'
<1>1. PICK u : u = req[r].user
  OBVIOUS
<1>2. u \in DOMAIN users /\ u \in Tokens
  <2>1. RequestOK(req[r]) /\ req[r].pc = "enter"
    BY DEF Inv, RequestsOK, Enter
  <2> QED
    BY <1>1, <2>1, UserRow DEF RequestOK, Inv
<1>3. PICK row : row = [user |-> u, expires |-> clock + SessionTtl]
  OBVIOUS
<1>4. row \in Expiring /\ row.user = u
  BY <1>2, <1>3, AccountsAssumption DEF Expiring, Inv, CountersOK
<1>5. PICK t \in Fresh : sessions' = With(sessions, t, row) /\ issued' = issued \cup {t}
  BY <1>1, <1>3 DEF Enter
<1>6. t \in Tokens
  BY <1>5 DEF Fresh
<1>7. SessionsOK'
  <2>1. /\ IsMap(sessions', Tokens, Expiring) /\ DOMAIN sessions' = DOMAIN sessions \cup {t}
        /\ \A y \in DOMAIN sessions \cup {t} : sessions'[y] = IF y = t THEN row ELSE sessions[y]
    BY <1>4, <1>5, <1>6 DEF Inv, SessionsOK, IsMap, With
  <2> QED
    BY <2>1, <1>2, <1>4 DEF Inv, SessionsOK, Enter
<1>8. Grows
  BY <1>5, UnchangedGrows DEF Enter
<1>9. RequestsOK'
  <2>1. PICK to : to = Idle
    OBVIOUS
  <2>2. RequestOK(to)'
    BY <2>1, <1>8, IdleOK, MemoryLasts
  <2> QED
    BY <2>1, <2>2, <1>8, RequestMoves DEF Inv, Enter, Done
<1>10. UsersOK' /\ ResetsOK' /\ SpentOK' /\ CountersOK' /\ OnlyTheFirstIsAdmin'
  BY <1>5, <1>6 DEF Inv, UsersOK, ResetsOK, SpentOK, CountersOK, OnlyTheFirstIsAdmin, Enter
<1> QED
  BY <1>7, <1>9, <1>10 DEF Inv

\* Sessions are deleted.
LEMMA SessionsKeep ==
  ASSUME Inv, (\E t \in Tokens : Logout(t) \/ ShowExpired(t)) \/ PruneSessions
  PROVE  Inv'
<1>1. PICK A : sessions' = Without(sessions, A)
  BY DEF Logout, ShowExpired, PruneSessions
<1>2. UNCHANGED <<config, users, resets, issued, clock, req, begun, first, named, spent, late>>
  BY DEF Logout, ShowExpired, PruneSessions
<1>3. SessionsOK'
  <2>1. /\ IsMap(sessions', Tokens, Expiring) /\ DOMAIN sessions' = DOMAIN sessions \ A
        /\ \A y \in DOMAIN sessions \ A : sessions'[y] = sessions[y]
    BY <1>1 DEF Inv, SessionsOK, IsMap, Without
  <2> QED
    BY <2>1, <1>2 DEF Inv, SessionsOK
<1>4. RequestsOK'
  BY <1>2, UnchangedGrows, RequestsStay DEF Inv
<1>5. UsersOK' /\ ResetsOK' /\ SpentOK' /\ CountersOK' /\ OnlyTheFirstIsAdmin'
  BY <1>2 DEF Inv, UsersOK, ResetsOK, SpentOK, CountersOK, OnlyTheFirstIsAdmin
<1> QED
  BY <1>3, <1>4, <1>5 DEF Inv

-----------------------------------------------------------------------------
(* Password resets.                                                        *)

\* Reset tokens go, and are noted as spent or not.
LEMMA ResetsShrink ==
  ASSUME Inv, NEW A, resets' = Without(resets, A), RequestsOK',
         spent' \subseteq issued, spent' \cap (DOMAIN resets \ A) = {},
         begun' \in 0..MaxBegun,
         UNCHANGED <<config, users, sessions, issued, clock, first, named, late>>
  PROVE  Inv'
<1>1. ResetsOK' /\ DOMAIN resets' = DOMAIN resets \ A
  <2>1. /\ IsMap(resets', Tokens, Expiring) /\ DOMAIN resets' = DOMAIN resets \ A
        /\ \A y \in DOMAIN resets \ A : resets'[y] = resets[y]
    BY DEF Inv, ResetsOK, IsMap, Without
  <2> QED
    BY <2>1 DEF Inv, ResetsOK
<1>2. UsersOK' /\ SessionsOK' /\ SpentOK' /\ CountersOK' /\ OnlyTheFirstIsAdmin'
  BY <1>1 DEF Inv, UsersOK, SessionsOK, SpentOK, CountersOK, OnlyTheFirstIsAdmin
<1> QED
  BY <1>1, <1>2 DEF Inv

LEMMA RequestResetKeeps == ASSUME Inv, NEW e \in Emails, RequestReset(e) PROVE Inv'
<1>1. PICK u \in DOMAIN users, t \in Fresh :
        resets' = With(resets, t, [user |-> u, expires |-> clock + ResetTtl]) /\ issued' = issued \cup {t}
  BY DEF RequestReset, UsersWith
<1>2. PICK row : row = [user |-> u, expires |-> clock + ResetTtl]
  OBVIOUS
<1>3. t \in Tokens /\ t \notin issued /\ u \in Tokens
  BY UserRow DEF Fresh, Inv
<1>4. row \in Expiring /\ row.user = u
  BY <1>2, <1>3, AccountsAssumption DEF Expiring, Inv, CountersOK
<1>5. ResetsOK' /\ DOMAIN resets' = DOMAIN resets \cup {t}
  <2>1. /\ IsMap(resets', Tokens, Expiring) /\ DOMAIN resets' = DOMAIN resets \cup {t}
        /\ \A y \in DOMAIN resets \cup {t} : resets'[y] = IF y = t THEN row ELSE resets[y]
    BY <1>1, <1>2, <1>3, <1>4 DEF Inv, ResetsOK, IsMap, With
  <2> QED
    BY <2>1, <1>1, <1>4 DEF Inv, ResetsOK, RequestReset
<1>6. RequestsOK'
  BY <1>1, UnchangedGrows, RequestsStay DEF Inv, RequestReset
<1>7. begun' \in 0..MaxBegun
  BY AccountsAssumption DEF Inv, CountersOK, RequestReset
<1>8. UsersOK' /\ SessionsOK' /\ SpentOK' /\ CountersOK' /\ OnlyTheFirstIsAdmin'
  BY <1>1, <1>3, <1>5, <1>7
     DEF Inv, UsersOK, SessionsOK, SpentOK, CountersOK, OnlyTheFirstIsAdmin, RequestReset
<1> QED
  BY <1>5, <1>6, <1>8 DEF Inv

LEMMA ConfirmKeeps ==
  ASSUME Inv, NEW r \in Requests, NEW t \in Tokens, NEW p \in Passwords, Confirm(r, t, p)
  PROVE  Inv'
<1>1. begun' \in 0..MaxBegun
  BY BeginCounts DEF Confirm
<1>2. CASE Expired(t)
  <2>1. PICK A : A = {t}
    OBVIOUS
  <2>2. resets' = Without(resets, A) /\ req' = req /\ late' = late
    BY <1>2, <2>1 DEF Confirm
  <2>3. RequestsOK'
    BY <2>2, UnchangedGrows, RequestsStay DEF Inv, Confirm
  <2> QED
    BY <1>1, <2>2, <2>3, ResetsShrink DEF Inv, SpentOK, Confirm
<1>3. CASE ~Expired(t)
  <2>1. PICK u : u = resets[t].user
    OBVIOUS
  <2>2. t \in DOMAIN resets /\ u \in DOMAIN users /\ u \in Tokens
    BY <2>1, UserRow DEF Confirm, Inv, ResetsOK
  <2>3. PICK dead \in BOOLEAN : dead <=> t \in spent \/ clock > resets[t].expires
    OBVIOUS
  <2>4. PICK to : to = [pc |-> "change", token |-> t, user |-> u, password |-> p, dead |-> dead]
    OBVIOUS
  <2>5. dead = FALSE
    BY <1>3, <2>2, <2>3 DEF Expired, Inv, SpentOK
  <2>6. RequestOK(to)
    <3>1. to \in Changing /\ to.pc = "change" /\ to.user = u /\ to.token = t /\ ~to.dead
      BY <2>2, <2>4, <2>5 DEF Changing
    <3>2. to \in Reqs
      BY <3>1 DEF Reqs, Changing
    <3>3. t \in issued
      BY <2>2 DEF Inv, ResetsOK
    <3> QED
      BY <3>1, <3>2, <3>3, <2>2 DEF RequestOK
  <2>7. resets' = resets /\ late' = late
    BY <1>3 DEF Confirm
  <2>8. Become(r, to)
    <3>1. (t \in spent \/ clock > resets[t].expires) = dead
      BY <2>3
    <3> QED
      BY <1>3, <2>1, <2>4, <3>1 DEF Confirm
  <2> QED
    BY <1>1, <2>6, <2>7, <2>8, OnlyMoves DEF Confirm
<1> QED
  BY <1>2, <1>3

LEMMA SpendKeeps == ASSUME Inv, NEW r \in Requests, Spend(r) PROVE Inv'
<1>1. PICK t : t = req[r].token
  OBVIOUS
<1>2. t \in issued
  BY <1>1 DEF Inv, RequestsOK, RequestOK, Spend
<1>3. PICK A : A = {t}
  OBVIOUS
<1>4. resets' = Without(resets, A) /\ spent' = spent \cup {t}
  BY <1>1, <1>3 DEF Spend
<1>5. RequestsOK'
  <2>1. PICK to : to = Idle
    OBVIOUS
  <2>2. Grows
    BY UnchangedGrows DEF Spend
  <2>3. RequestOK(to)'
    BY <2>1, <2>2, IdleOK, MemoryLasts
  <2> QED
    BY <2>1, <2>2, <2>3, RequestMoves DEF Inv, Spend, Done
<1>6. begun' \in 0..MaxBegun
  BY DEF Inv, CountersOK, Spend
<1> QED
  BY <1>2, <1>3, <1>4, <1>5, <1>6, ResetsShrink DEF Inv, SpentOK, Spend

LEMMA PruneResetsKeeps == ASSUME Inv, PruneResets PROVE Inv'
<1>1. PICK A : A = Over(resets)
  OBVIOUS
<1>2. RequestsOK'
  BY UnchangedGrows, RequestsStay DEF Inv, PruneResets
<1> QED
  BY <1>1, <1>2, ResetsShrink DEF Inv, SpentOK, CountersOK, PruneResets

LEMMA TickKeeps == ASSUME Inv, Tick PROVE Inv'
<1>1. RequestsOK'
  BY UnchangedGrows, RequestsStay DEF Inv, Tick
<1>2. clock' \in 0..MaxClock
  BY AccountsAssumption DEF Inv, CountersOK, Tick
<1> QED
  BY <1>1, <1>2, TablesUntouched DEF Inv, CountersOK, Tick

-----------------------------------------------------------------------------
(* The theorems.                                                           *)

LEMMA Initially == Init => Inv
<1> SUFFICES ASSUME Init PROVE Inv
  OBVIOUS
<1>1. DOMAIN users = {} /\ DOMAIN sessions = {} /\ DOMAIN resets = {}
  BY DEF Init
<1>2. RequestsOK
  BY IdleOK DEF RequestsOK, Init, Reqs
<1>3. users \in [DOMAIN users -> Users]
  BY DEF Init
<1>4. UsersOK /\ SessionsOK /\ ResetsOK /\ SpentOK /\ CountersOK /\ OnlyTheFirstIsAdmin
  BY <1>1, <1>3, AccountsAssumption
     DEF UsersOK, SessionsOK, ResetsOK, SpentOK, CountersOK, OnlyTheFirstIsAdmin, Init, IsMap
<1> QED
  BY <1>2, <1>4 DEF Inv

LEMMA Consecution == ASSUME Inv, [Next]_vars PROVE Inv'
<1>1. ASSUME NEW r \in Requests, Start(r) PROVE Inv'
  BY <1>1, RegisterKeeps, AnonymousKeeps, LoginKeeps, OIDCLoginKeeps, ConfirmKeeps DEF Start
<1>2. ASSUME NEW r \in Requests, Step(r) PROVE Inv'
  BY <1>2, SyncAdminKeeps, InsertUserKeeps, DoneKeeps, EnterKeeps, ChangePasswordKeeps, SpendKeeps
     DEF Step
<1>3. CASE \E e \in Emails : RequestReset(e)
  BY <1>3, RequestResetKeeps
<1>4. CASE (\E t \in Tokens : Logout(t) \/ ShowExpired(t)) \/ PruneSessions
  BY <1>4, SessionsKeep
<1>5. CASE PruneResets \/ Tick
  BY <1>5, PruneResetsKeeps, TickKeeps
<1>6. CASE UNCHANGED vars
  <2>1. RequestsOK'
    BY <1>6, UnchangedGrows, RequestsStay DEF Inv, vars
  <2> QED
    BY <1>6, <2>1, TablesUntouched DEF Inv, CountersOK, vars
<1> QED
  BY <1>1, <1>2, <1>3, <1>4, <1>5, <1>6 DEF Next

LEMMA Invariance == Spec => []Inv
  BY Initially, Consecution, PTL DEF Spec

\* The tables keep their types, and what they and the requests refer to
\* exists, for any interleaving of any requests.
THEOREM AccountTypes == Spec => []TypeOK
<1>1. Inv => TypeOK
  BY DEF Inv, TypeOK, RequestsOK, RequestOK, UsersOK, SessionsOK, ResetsOK, SpentOK, CountersOK, IsMap
<1> QED
  BY <1>1, Invariance, PTL

\* Without groups the first account stays the only admin, however many
\* registrations and sign-ins are in flight.
THEOREM OneAdmin == Spec => []OnlyTheFirstIsAdmin
<1>1. Inv => OnlyTheFirstIsAdmin
  BY DEF Inv
<1> QED
  BY <1>1, Invariance, PTL

\* No request that begins after a link's hour, or after a request the link
\* served has ended, sets a password with it.
THEOREM LinksEnd == Spec => []ResetLinksEnd
<1>1. Inv => ResetLinksEnd
  BY DEF Inv, SpentOK, ResetLinksEnd
<1> QED
  BY <1>1, Invariance, PTL
=============================================================================
