------------------------------ MODULE Accounts ------------------------------
(***************************************************************************)
(* Accounts, sessions and password resets (internal/auth over the tables   *)
(* users, sessions and password_resets): registration, password login, the *)
(* anonymous secret-id, OIDC login, logout, the reset by mail, and the     *)
(* hourly cleanup, as requests whose statements interleave.                *)
(*                                                                         *)
(* E-mail addresses are as they compare after lower-casing; a hash stands  *)
(* for what it was made from.  clock counts hours: a reset token lives for *)
(* ResetTtl of them, a session for SessionTtl.                             *)
(***************************************************************************)
EXTENDS Integers, FiniteSets

CONSTANTS
  Emails, Subjects,   \* addresses, and users of the OIDC provider
  Passwords,
  Tokens,             \* what newUUIDv4 and newSessionToken may hand out
  Requests,           \* requests in flight at once
  None,               \* NULL
  Configs,            \* configurations the process may be started with
  SessionTtl, ResetTtl,
  MaxClock, MaxBegun  \* bounds: hours, requests ever sent

ASSUME AccountsAssumption ==
  /\ IsFiniteSet(Tokens)
  /\ None \notin Emails \cup Subjects \cup Passwords \cup Tokens
  /\ Configs \subseteq [access : {"public", "auth", "both"}, registration : BOOLEAN,
                         oidcOnly : BOOLEAN, groups : BOOLEAN]
  /\ {SessionTtl, ResetTtl, MaxClock, MaxBegun} \subseteq Nat

VARIABLES
  config,    \* the configuration, read once at the start
  users,     \* id -> row
  sessions,  \* token -> row
  resets,    \* token -> row
  issued,    \* ids and tokens handed out so far
  clock,
  req,       \* request -> where it is and what it has read
  begun,     \* counter behind MaxBegun
  first,     \* the first account there was, None before it
  named,     \* the first account that was not anonymous, None before it
  spent,     \* reset tokens that have set a password and were deleted
  late       \* a request that began with a dead token has set a password

vars == <<config, users, sessions, resets, issued, clock, req, begun, first, named, spent, late>>

Kinds == {"password", "oidc", "secret"}
Users == [kind : Kinds, email : Emails \cup {None}, subject : Subjects \cup {None},
          password : Passwords \cup {None}, admin : BOOLEAN]
Expiring == [user : Tokens, expires : 0..(MaxClock + SessionTtl + ResetTtl)]

IsMap(f, S, T) == DOMAIN f \subseteq S /\ \A x \in DOMAIN f : f[x] \in T
With(f, x, r) == [y \in DOMAIN f \cup {x} |-> IF y = x THEN r ELSE f[y]]
Without(f, S) == [y \in DOMAIN f \ S |-> f[y]]

UsersWith(field, value) == {u \in DOMAIN users : users[u][field] = value}

-----------------------------------------------------------------------------
(* Statements.                                                             *)

\* The unique indexes of the users table (001_init.sql) leave NULLs alone.
Unique(row) ==
  /\ row.email # None => UsersWith("email", row.email) = {}
  /\ row.subject # None => UsersWith("subject", row.subject) = {}

Insert(u, row) ==
  /\ Unique(row)
  /\ users' = With(users, u, row)
  /\ first' = IF users = <<>> THEN u ELSE first
  /\ named' = IF named = None /\ row.kind # "secret" THEN u ELSE named

\* Mutation: whether it is the first user was found out before.
BootstrapAdminEarly(r, row) == [row EXCEPT !.admin = req[r].empty]
\* CreateUserBootstrapAdmin counts in the transaction that inserts.
BootstrapAdmin(r, row) == [row EXCEPT !.admin = users = <<>>]

-----------------------------------------------------------------------------
(* Requests.                                                               *)

Idle == [pc |-> "idle"]
Begin(r) == req[r] = Idle /\ begun < MaxBegun /\ begun' = begun + 1
Become(r, to) == req' = [req EXCEPT ![r] = to]
Done(r) == Become(r, Idle)
Fresh == Tokens \ issued

\* A handler that goes on to insert an account; empty is for the mutation.
Inserting(row, bootstrap) ==
  [pc |-> "insert", row |-> row, bootstrap |-> bootstrap, empty |-> users = <<>>]
\* ... and to StartSession for it.
Entering(u) == [pc |-> "enter", user |-> u]

AnonymousAllowed == config.access \in {"public", "both"}
RegistrationEnabled == ~config.oidcOnly /\ config.registration /\ config.access # "public"

\* Register: the address is free; the insert comes after bcrypt.
Register(r, e, p) ==
  /\ RegistrationEnabled
  /\ Begin(r)
  /\ UsersWith("email", e) = {}
  /\ Become(r, Inserting([kind |-> "password", email |-> e, subject |-> None,
                          password |-> p, admin |-> FALSE], TRUE))
  /\ UNCHANGED <<config, users, sessions, resets, issued, clock, first, named, spent, late>>

\* CreateSecretUser.
Anonymous(r) ==
  /\ AnonymousAllowed
  /\ Begin(r)
  /\ Become(r, Inserting([kind |-> "secret", email |-> None, subject |-> None,
                          password |-> None, admin |-> FALSE], FALSE))
  /\ UNCHANGED <<config, users, sessions, resets, issued, clock, first, named, spent, late>>

\* Authenticate: the password stored for the address.
Login(r, e, p) ==
  /\ ~config.oidcOnly
  /\ Begin(r)
  /\ \E u \in UsersWith("email", e) : users[u].password = p /\ Become(r, Entering(u))
  /\ UNCHANGED <<config, users, sessions, resets, issued, clock, first, named, spent, late>>

\* upsertOIDCUser, after groupsCheck let the claims pass: a known subject is
\* read, an unknown one goes on to its insert.
OIDCLogin(r, s, e, groupAdmin) ==
  /\ Begin(r)
  /\ groupAdmin => config.groups
  /\ \/ \E u \in UsersWith("subject", s) :
          Become(r, [pc |-> "sync", user |-> u,
                     admin |-> IF config.groups THEN groupAdmin ELSE users[u].admin])
     \/ /\ UsersWith("subject", s) = {}
        /\ Become(r, Inserting([kind |-> "oidc", email |-> e, subject |-> s,
                                password |-> None, admin |-> groupAdmin],
                               ~config.groups))
  /\ UNCHANGED <<config, users, sessions, resets, issued, clock, first, named, spent, late>>

\* UpdateUserAvatarAndAdmin.
SyncAdmin(r) ==
  /\ req[r].pc = "sync"
  /\ users' = [users EXCEPT ![req[r].user].admin = req[r].admin]
  /\ Become(r, Entering(req[r].user))
  /\ UNCHANGED <<config, sessions, resets, issued, clock, begun, first, named, spent, late>>

\* CreateUser, or CreateUserBootstrapAdmin.
InsertUser(r) ==
  /\ req[r].pc = "insert"
  /\ \E u \in Fresh :
       /\ Insert(u, IF req[r].bootstrap THEN BootstrapAdmin(r, req[r].row) ELSE req[r].row)
       /\ issued' = issued \cup {u}
       /\ Become(r, Entering(u))
  /\ UNCHANGED <<config, sessions, resets, clock, begun, spent, late>>

\* Mutation: the error of the insert is dropped, the account it returns is not.
InsertRefusedEnters(r) ==
  /\ req[r].pc = "insert" /\ ~Unique(req[r].row)
  /\ \E u \in Fresh : issued' = issued \cup {u} /\ Become(r, Entering(u))
  /\ UNCHANGED <<config, users, sessions, resets, clock, begun, first, named, spent, late>>

\* A unique index refuses the row: the handler answers 500.
InsertRefused(r) ==
  /\ req[r].pc = "insert" /\ ~Unique(req[r].row)
  /\ Done(r)
  /\ UNCHANGED <<config, users, sessions, resets, issued, clock, begun, first, named, spent, late>>

\* StartSession.
Enter(r) ==
  /\ req[r].pc = "enter"
  /\ \E t \in Fresh :
       /\ sessions' = With(sessions, t, [user |-> req[r].user, expires |-> clock + SessionTtl])
       /\ issued' = issued \cup {t}
  /\ Done(r)
  /\ UNCHANGED <<config, users, resets, clock, begun, first, named, spent, late>>

\* Logout is one statement.
Logout(t) ==
  /\ t \in DOMAIN sessions
  /\ sessions' = Without(sessions, {t})
  /\ UNCHANGED <<config, users, resets, issued, clock, req, begun, first, named, spent, late>>

-----------------------------------------------------------------------------
(* Password reset.                                                         *)

\* RequestPasswordReset: only password accounts are given a token.  (Its one
\* write is independent of what happens between its two statements.)
RequestReset(e) ==
  /\ begun < MaxBegun /\ begun' = begun + 1
  /\ \E u \in UsersWith("email", e), t \in Fresh :
       /\ users[u].password # None
       /\ resets' = With(resets, t, [user |-> u, expires |-> clock + ResetTtl])
       /\ issued' = issued \cup {t}
  /\ UNCHANGED <<config, users, sessions, clock, req, first, named, spent, late>>

\* time.Now().After: the hour in which it ends still counts.
Expired(t) == clock > resets[t].expires

\* ConfirmPasswordReset reads the token (dead, for the property: it had been
\* spent, or its hour was over, by then) ...
Confirm(r, t, p) ==
  /\ Begin(r)
  /\ t \in DOMAIN resets
  /\ IF Expired(t) THEN resets' = Without(resets, {t}) /\ UNCHANGED req
     ELSE /\ Become(r, [pc |-> "change", token |-> t, user |-> resets[t].user, password |-> p,
                       dead |-> t \in spent \/ clock > resets[t].expires])
          /\ UNCHANGED resets
  /\ UNCHANGED <<config, users, sessions, issued, clock, first, named, spent, late>>

\* ... sets the password, without looking at the token or the clock again ...
ChangePassword(r) ==
  /\ req[r].pc = "change"
  /\ users' = [users EXCEPT ![req[r].user].password = req[r].password]
  /\ Become(r, [pc |-> "spend", token |-> req[r].token])
  /\ late' = (late \/ req[r].dead)
  /\ UNCHANGED <<config, sessions, resets, issued, clock, begun, first, named, spent>>

\* Mutation: nothing deletes it.
SpendNothing(r) ==
  /\ req[r].pc = "spend"
  /\ spent' = spent \cup {req[r].token}
  /\ Done(r)
  /\ UNCHANGED <<config, users, sessions, resets, issued, clock, begun, first, named, late>>

\* ... and deletes the token.
Spend(r) ==
  /\ req[r].pc = "spend"
  /\ resets' = Without(resets, {req[r].token})
  /\ spent' = spent \cup {req[r].token}
  /\ Done(r)
  /\ UNCHANGED <<config, users, sessions, issued, clock, begun, first, named, late>>

-----------------------------------------------------------------------------

\* A statement of the request fails (the deletion of a token silently).
Fails(r) ==
  /\ req[r] # Idle
  /\ Done(r)
  /\ UNCHANGED <<config, users, sessions, resets, issued, clock, begun, first, named, spent, late>>

Tick ==
  /\ clock < MaxClock
  /\ clock' = clock + 1
  /\ UNCHANGED <<config, users, sessions, resets, issued, req, begun, first, named, spent, late>>

\* The rows whose time is up; here the hour in which it ends counts as over.
Over(table) == {t \in DOMAIN table : table[t].expires <= clock}

\* DeleteExpiredSessions, and DeleteExpiredPasswordResets, each a statement
\* of the cleanup job.
PruneSessions ==
  /\ Over(sessions) # {}
  /\ sessions' = Without(sessions, Over(sessions))
  /\ UNCHANGED <<config, users, resets, issued, clock, req, begun, first, named, spent, late>>

PruneResets ==
  /\ Over(resets) # {}
  /\ resets' = Without(resets, Over(resets))
  /\ UNCHANGED <<config, users, sessions, issued, clock, req, begun, first, named, spent, late>>

\* UserFromRequest deletes the expired session it is shown.
ShowExpired(t) ==
  /\ t \in DOMAIN sessions /\ clock > sessions[t].expires
  /\ sessions' = Without(sessions, {t})
  /\ UNCHANGED <<config, users, resets, issued, clock, req, begun, first, named, spent, late>>

Init ==
  /\ config \in Configs
  /\ users = <<>> /\ sessions = <<>> /\ resets = <<>>
  /\ issued = {} /\ clock = 0
  /\ req = [r \in Requests |-> Idle]
  /\ begun = 0
  /\ first = None /\ named = None /\ spent = {} /\ late = FALSE

Start(r) ==
  \/ Anonymous(r)
  \/ \E e \in Emails, p \in Passwords : Register(r, e, p) \/ Login(r, e, p)
  \/ \E s \in Subjects, e \in Emails \cup {None}, a \in BOOLEAN : OIDCLogin(r, s, e, a)
  \/ \E t \in Tokens, p \in Passwords : Confirm(r, t, p)

Step(r) ==
  \/ SyncAdmin(r) \/ InsertUser(r) \/ InsertRefused(r) \/ Enter(r)
  \/ ChangePassword(r) \/ Spend(r) \/ Fails(r)

Next ==
  \/ \E r \in Requests : Start(r) \/ Step(r)
  \/ \E e \in Emails : RequestReset(e)
  \/ \E t \in Tokens : Logout(t) \/ ShowExpired(t)
  \/ PruneSessions \/ PruneResets \/ Tick

Spec == Init /\ [][Next]_vars

-----------------------------------------------------------------------------
(* Properties.                                                             *)

Reqs ==
  {Idle}
  \cup [pc : {"insert"}, row : Users, bootstrap : BOOLEAN, empty : BOOLEAN]
  \cup [pc : {"enter"}, user : Tokens]
  \cup [pc : {"sync"}, user : Tokens, admin : BOOLEAN]
  \cup [pc : {"change"}, token : Tokens, user : Tokens, password : Passwords,
         dead : BOOLEAN]
  \cup [pc : {"spend"}, token : Tokens]

\* The tables have their types, and what they refer to exists.
TypeOK ==
  /\ config \in Configs
  /\ IsMap(users, Tokens, Users)
  /\ IsMap(sessions, Tokens, Expiring) /\ IsMap(resets, Tokens, Expiring)
  /\ \A t \in DOMAIN sessions : sessions[t].user \in DOMAIN users
  /\ \A t \in DOMAIN resets : resets[t].user \in DOMAIN users
  /\ issued \subseteq Tokens /\ clock \in 0..MaxClock
  /\ \A r \in Requests : req[r] \in Reqs
  /\ begun \in 0..MaxBegun
  /\ {first, named} \subseteq Tokens \cup {None}
  /\ spent \subseteq Tokens /\ late \in BOOLEAN

\* Without groups the first account is the only admin there ever is, and stays
\* it, whatever registers or signs in at the same time (CreateUserBootstrapAdmin
\* counts and inserts in one transaction; a sign-in writes back the flag it
\* read).  An anonymous first account is none: then there is no admin.
OnlyTheFirstIsAdmin ==
  ~config.groups =>
    \A u \in DOMAIN users :
      users[u].admin <=> (u = first /\ users[u].kind # "secret")

\* No request that begins once the hour of its reset link is over, or once a
\* request the link served has ended, sets a password.  (ConfirmPasswordReset
\* looks once, at its start: a link that ends or is spent between that and
\* SetUserPassword still sets one, and so does one whose deletion failed, until
\* the cleanup.)
ResetLinksEnd == ~late

\* "The first registered user becomes admin": the first account that is not an
\* anonymous one.
FirstRegisteredIsAdmin ==
  (~config.groups /\ named # None) => users[named].admin
=============================================================================
