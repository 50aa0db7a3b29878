------------------------------ MODULE FeedAdmin ------------------------------
(***************************************************************************)
(* The rows of the feeds table under concurrent requests: the handlers     *)
(* that create, update, rotate and delete a feed (internal/server/feeds.go *)
(* over internal/store/feeds.go), and the public handler that serves one   *)
(* at /ics/<secret> and counts it (internal/server/handlers.go).           *)
(*                                                                         *)
(* A handler that changes a feed reads the whole row, computes and writes  *)
(* the whole row back; each statement is atomic, the handler is not.  A    *)
(* bcrypt hash stands for the password it was made from, text for every    *)
(* column that is only copied (name, rules, TTL, trigger list).            *)
(***************************************************************************)
EXTENDS Integers, FiniteSets, Sequences

CONSTANTS
  Feeds,      \* ids randomToken may hand out
  Users,      \* accounts with a session
  Secrets,    \* secrets randomToken may hand out
  Urls,       \* upstream URLs
  Passwords,  \* passwords and tokens somebody may type
  Texts,      \* contents of the columns that are only copied
  Forms,      \* bodies of the requests that are sent
  Requests,   \* requests in flight at once
  None,       \* the empty string
  MaxBegun    \* bound: requests ever sent

Secret == Passwords \cup {None}

\* store.FeedSource and its DTO; basic auth; the Gotify channel.
Sources == Seq([url : Urls, password : Secret])
AskedSources == Seq([url : Urls, password : Secret, clear : BOOLEAN])
Guards == [user : BOOLEAN, password : Secret]
Channels == [server : BOOLEAN, token : Secret]

\* feedRequest: a form without channel keeps the stored one.
FormType ==
  [text : Texts, sources : AskedSources, guard : Guards, channel : Channels \cup {None}]

ASSUME FeedAssumption ==
  /\ IsFiniteSet(Feeds) /\ IsFiniteSet(Secrets) /\ IsFiniteSet(Requests)
  /\ None \notin Passwords \cup Feeds \cup Secrets
  /\ Forms \subseteq FormType
  /\ MaxBegun \in Nat

VARIABLES
  feeds,     \* id -> row, for the feeds that exist
  issued,    \* ids and secrets handed out so far
  req,       \* request -> where it is and what it has read
  begun,     \* counter behind MaxBegun
  retired,   \* secrets a rotation replaced or a deletion took away
  writes,    \* id -> how often the row was written (serve counts aside)
  overrun,   \* feeds written over by a request that had read an older row
  answered   \* id -> answers to clients whose count was not lost to an error

vars == <<feeds, issued, req, begun, retired, writes, overrun, answered>>

Rows == [owner : Users, secret : Secrets, text : Texts, sources : Sources,
         guard : Guards, channel : Channels, serves : Nat]

\* pc "update", "rotate": the row is read and not yet written; "render": a
\* client's feed is looked up; "mark": it was answered and not yet counted.
Idle == [pc |-> "idle"]
Reading == [pc : {"update", "rotate", "render", "mark"}, feed : Feeds, row : Rows,
            writes : Nat, form : Forms \cup {None}]

Row(f, r) == [x \in DOMAIN feeds \cup {f} |-> IF x = f THEN r ELSE feeds[x]]

-----------------------------------------------------------------------------
(* From a form to the columns of a row.                                    *)

NoGuard == [user |-> FALSE, password |-> None]
NoChannel == [server |-> FALSE, token |-> None]

\* resolveBasicAuth: the combinations it answers with 400, given the stored
\* password (None for a feed that is being created).
Refused(asked, stored) ==
  \/ ~asked.user /\ asked.password # None
  \/ asked.user /\ asked.password = None /\ stored = None

ResolveBasicAuth(asked, stored) ==
  IF ~asked.user THEN NoGuard
  ELSE [user |-> TRUE, password |-> IF asked.password # None THEN asked.password ELSE stored]

\* byURL of preserveSourceSecrets: the last stored source of that URL that
\* has a password.
Stored(stored, url) == {i \in DOMAIN stored : stored[i].url = url /\ stored[i].password # None}
Last(S) == CHOOSE i \in S : \A j \in S : j <= i

\* Mutation: the slot is asked before the URL.
PreserveSecretsBySlot(asked, stored) ==
  [i \in DOMAIN asked |->
     [url |-> asked[i].url,
      password |->
        IF asked[i].clear \/ asked[i].password # None THEN asked[i].password
        ELSE IF i \in DOMAIN stored /\ stored[i].password # None THEN stored[i].password
        ELSE IF Stored(stored, asked[i].url) # {}
             THEN stored[Last(Stored(stored, asked[i].url))].password
        ELSE None]]

\* preserveSourceSecrets over toStoreSources: a password left out is looked
\* up by URL first and by position second.
PreserveSecrets(asked, stored) ==
  [i \in DOMAIN asked |->
     [url |-> asked[i].url,
      password |->
        IF asked[i].clear \/ asked[i].password # None THEN asked[i].password
        ELSE IF Stored(stored, asked[i].url) # {}
             THEN stored[Last(Stored(stored, asked[i].url))].password
        ELSE IF i \in DOMAIN stored THEN stored[i].password
        ELSE None]]

\* buildNotifications: the token is kept while the channel is configured.
BuildNotifications(asked, stored) ==
  IF asked = None THEN stored
  ELSE IF asked.token = None /\ asked.server THEN [asked EXCEPT !.token = stored.token]
  ELSE asked

\* What the form makes of a row.
Filled(row, form) ==
  [row EXCEPT !.text = form.text,
              !.sources = PreserveSecrets(form.sources, row.sources),
              !.guard = ResolveBasicAuth(form.guard, row.guard.password),
              !.channel = BuildNotifications(form.channel, row.channel)]

NewRow(u, s, form) ==
  Filled([owner |-> u, secret |-> s, text |-> form.text, sources |-> <<>>,
          guard |-> NoGuard, channel |-> NoChannel, serves |-> 0], form)

-----------------------------------------------------------------------------
(* The owner's requests.                                                   *)

Begin == begun < MaxBegun /\ begun' = begun + 1

\* handleCreateFeed: everything that can be refused is refused before the
\* one statement it executes.
Create(u, form) ==
  /\ Begin
  /\ ~Refused(form.guard, None)
  /\ \E f \in Feeds \ issued, s \in Secrets \ issued :
       /\ feeds' = Row(f, NewRow(u, s, form))
       /\ issued' = issued \cup {f, s}
  /\ UNCHANGED <<req, retired, writes, overrun, answered>>

\* ownedFeed, for a handler that goes on to write the row.
Read(r, u, f, pc, form) ==
  /\ Begin
  /\ req[r] = Idle
  /\ f \in DOMAIN feeds /\ feeds[f].owner = u
  /\ req' = [req EXCEPT ![r] = [pc |-> pc, feed |-> f, row |-> feeds[f],
                                writes |-> writes[f], form |-> form]]
  /\ UNCHANGED <<feeds, issued, retired, writes, overrun, answered>>

Update(r, u, f, form) == Read(r, u, f, "update", form)
Rotate(r, u, f) == Read(r, u, f, "rotate", None)

\* Mutation: the serve count is written back with the other columns.
UpdateFeedCounted(f, row) ==
  feeds' = IF f \in DOMAIN feeds THEN Row(f, row) ELSE feeds

\* Mutation: a row that is gone is inserted again.
UpdateFeedUpsert(f, row) ==
  feeds' = IF f \in DOMAIN feeds THEN Row(f, [row EXCEPT !.serves = feeds[f].serves])
           ELSE Row(f, row)

\* Store.UpdateFeed: every column but the serve count, if the row exists.
UpdateFeed(f, row) ==
  feeds' = IF f \in DOMAIN feeds THEN Row(f, [row EXCEPT !.serves = feeds[f].serves])
           ELSE feeds

\* The write of an update or a rotation, with what the properties remember
\* of it.
Write(r, row) ==
  LET f == req[r].feed IN
  /\ UpdateFeed(f, row)
  /\ writes' = [writes EXCEPT ![f] = @ + 1]
  /\ overrun' = IF f \in DOMAIN feeds /\ req[r].writes # writes[f]
                THEN overrun \cup {f} ELSE overrun
  /\ req' = [req EXCEPT ![r] = Idle]
  /\ UNCHANGED <<begun, answered>>

WriteUpdate(r) ==
  /\ req[r].pc = "update"
  /\ ~Refused(req[r].form.guard, req[r].row.guard.password)
  /\ Write(r, Filled(req[r].row, req[r].form))
  /\ UNCHANGED <<issued, retired>>

\* handleRotateFeedSecret: the row it read, under a new secret.
WriteRotation(r) ==
  /\ req[r].pc = "rotate"
  /\ \E s \in Secrets \ issued :
       /\ issued' = issued \cup {s}
       /\ Write(r, [req[r].row EXCEPT !.secret = s])
  /\ retired' = IF req[r].feed \in DOMAIN feeds
                THEN retired \cup {req[r].row.secret} ELSE retired

\* The form is refused (400), or the statement fails (500).
GiveUp(r) ==
  /\ req[r].pc \in {"update", "rotate"}
  /\ req' = [req EXCEPT ![r] = Idle]
  /\ UNCHANGED <<feeds, issued, begun, retired, writes, overrun, answered>>

\* handleDeleteFeed is one statement.
Delete(u, f) ==
  /\ Begin
  /\ f \in DOMAIN feeds /\ feeds[f].owner = u
  /\ feeds' = [x \in DOMAIN feeds \ {f} |-> feeds[x]]
  /\ retired' = retired \cup {feeds[f].secret}
  /\ UNCHANGED <<issued, req, writes, overrun, answered>>

-----------------------------------------------------------------------------
(* Calendar clients.                                                       *)

\* handleICS finds the feed by its secret and checks the client's password.
Lookup(r, secret, password) ==
  /\ Begin
  /\ req[r] = Idle
  /\ \E f \in DOMAIN feeds :
       /\ feeds[f].secret = secret
       /\ feeds[f].guard.password \in {None, password}
       /\ req' = [req EXCEPT ![r] = [pc |-> "render", feed |-> f, row |-> feeds[f],
                                     writes |-> writes[f], form |-> None]]
  /\ UNCHANGED <<feeds, issued, retired, writes, overrun, answered>>

\* Service.Render succeeds, the client has its 200 or 304.
Answer(r) ==
  /\ req[r].pc = "render"
  /\ req' = [req EXCEPT ![r].pc = "mark"]
  /\ answered' = [answered EXCEPT ![req[r].feed] = @ + 1]
  /\ UNCHANGED <<feeds, issued, begun, retired, writes, overrun>>

\* No source can be had: 502, and nothing is counted.
RenderFails(r) ==
  /\ req[r].pc = "render"
  /\ req' = [req EXCEPT ![r] = Idle]
  /\ UNCHANGED <<feeds, issued, begun, retired, writes, overrun, answered>>

\* markServed: a relative update of the row, if it still exists.
Mark(r) ==
  LET f == req[r].feed IN
  /\ req[r].pc = "mark"
  /\ feeds' = IF f \in DOMAIN feeds THEN Row(f, [feeds[f] EXCEPT !.serves = @ + 1]) ELSE feeds
  /\ req' = [req EXCEPT ![r] = Idle]
  /\ UNCHANGED <<issued, begun, retired, writes, overrun, answered>>

\* The statement fails; the handler only logs it.
MarkFails(r) ==
  /\ req[r].pc = "mark"
  /\ req' = [req EXCEPT ![r] = Idle]
  /\ answered' = [answered EXCEPT ![req[r].feed] = @ - 1]
  /\ UNCHANGED <<feeds, issued, begun, retired, writes, overrun>>

-----------------------------------------------------------------------------

Init ==
  /\ feeds = <<>> /\ issued = {}
  /\ req = [r \in Requests |-> Idle]
  /\ begun = 0
  /\ retired = {} /\ overrun = {}
  /\ writes = [f \in Feeds |-> 0] /\ answered = [f \in Feeds |-> 0]

Owner ==
  \E u \in Users :
    \/ \E form \in Forms : Create(u, form)
    \/ \E f \in Feeds : Delete(u, f)
    \/ \E r \in Requests, f \in Feeds :
         \/ Rotate(r, u, f)
         \/ \E form \in Forms : Update(r, u, f, form)

Step(r) ==
  \/ WriteUpdate(r) \/ WriteRotation(r) \/ GiveUp(r)
  \/ Answer(r) \/ RenderFails(r) \/ Mark(r) \/ MarkFails(r)

Next ==
  \/ Owner
  \/ \E r \in Requests :
       Step(r) \/ \E s \in Secrets, p \in Secret : Lookup(r, s, p)

Spec == Init /\ [][Next]_vars

-----------------------------------------------------------------------------
(* Properties.                                                             *)

\* The stored rows, and what requests remember of them, have their types.
TypeOK ==
  /\ DOMAIN feeds \subseteq Feeds
  /\ \A f \in DOMAIN feeds : feeds[f] \in Rows
  /\ issued \subseteq Feeds \cup Secrets
  /\ req \in [Requests -> {Idle} \cup Reading]
  /\ begun \in 0..MaxBegun
  /\ retired \subseteq Secrets /\ overrun \subseteq Feeds
  /\ writes \in [Feeds -> Nat] /\ answered \in [Feeds -> Nat]

\* A link that was taken back never resolves again: neither that of a deleted
\* feed (UpdateFeed inserts nothing), nor one a rotation replaced, unless a
\* request that had read the row before the rotation wrote it back.
DeadSecretsStayDead ==
  \A f \in DOMAIN feeds : feeds[f].secret \in retired => f \in overrun

\* Every answer is counted once: edits that carry an older serve count do not
\* set it back, and clients counted at the same time do not hide each other.
ServesAreCounted ==
  \A f \in DOMAIN feeds :
    feeds[f].serves + Cardinality({r \in Requests : req[r].pc = "mark" /\ req[r].feed = f})
      = answered[f]

DistinctUrls(sources) == \A i, j \in DOMAIN sources : sources[i].url = sources[j].url => i = j

\* Of a source that is asked for without a password and was stored with one.
SourcesKept(asked, old, new) ==
  \A i \in DOMAIN asked, k \in DOMAIN old :
    (/\ ~asked[i].clear /\ asked[i].password = None
     /\ old[k].url = asked[i].url /\ old[k].password # None)
    => new[i].password = old[k].password

\* An update that leaves the write-only secrets out keeps them: each stored
\* source's password wherever the source now stands, the basic-auth password
\* while a user name is given, the Gotify token while its server is.  (The
\* rows of requests that overran another are left out.)
SecretsAreKept ==
  [][\A r \in Requests :
       (/\ req[r].pc = "update" /\ req'[r] = Idle /\ feeds' # feeds
        /\ req[r].feed \in DOMAIN feeds' \ overrun')
       => LET f == req[r].feed
              form == req[r].form
          IN  /\ DistinctUrls(feeds[f].sources)
                 => SourcesKept(form.sources, feeds[f].sources, feeds'[f].sources)
              /\ feeds[f].guard.user /\ form.guard.user
                 => feeds'[f].guard.password # None
              /\ (form.channel = None \/ (form.channel.server /\ form.channel.token = None))
                 => feeds'[f].channel.token = feeds[f].channel.token
       ]_vars

\* preserveSourceSecrets matches "by URL first and by position second" and
\* falls back to the position when the "URL changed": a source that is stored
\* without a password, and is asked for without one, stays without.
OpenSourcesStayOpen ==
  [][\A r \in Requests :
       (/\ req[r].pc = "update" /\ req'[r] = Idle /\ feeds' # feeds
        /\ req[r].feed \in DOMAIN feeds' \ overrun')
       => LET old == feeds[req[r].feed].sources
              asked == req[r].form.sources
          IN  DistinctUrls(old) =>
                \A i \in DOMAIN asked, k \in DOMAIN old :
                  (/\ ~asked[i].clear /\ asked[i].password = None
                   /\ old[k].url = asked[i].url /\ old[k].password = None)
                  => feeds'[req[r].feed].sources[i].password = None
       ]_vars
=============================================================================
