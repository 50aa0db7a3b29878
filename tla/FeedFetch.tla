----------------------------- MODULE FeedFetch -----------------------------
(***************************************************************************)
(* Fetching calendar sources: proxy.Fetcher.FetchAuth over the feed_cache  *)
(* table, called by any number of requests and by the notifier at once,    *)
(* while the sources change, fail and recover and the cleanup job prunes   *)
(* the table.  Reading the cache, the answer of the source and the write   *)
(* of the cache are steps of their own.                                    *)
(*                                                                         *)
(* A body is the number of the version it holds, its ETag that number too. *)
(* Time is counted in ticks, each longer than a fetch (the client gives up *)
(* after 30 s), and an age beyond Oldest is Oldest.                        *)
(***************************************************************************)
EXTENDS Integers, FiniteSets

CONSTANTS
  Keys,        \* cache keys: a URL and the credentials it is fetched with
  Fetchers,    \* whoever may be fetching at once
  Ttls,        \* TTLs callers ask for, 0 never uses a fresh copy
  Retention,   \* feedCacheRetention
  Oldest,      \* bound: ages are told apart up to here
  HasTags,     \* the sources send ETags
  FaultKinds,  \* what may go wrong
  MaxChanges, MaxFaults \* bounds: new versions, and faults, of a behaviour

ASSUME FetchAssumption ==
  /\ {Retention, Oldest, MaxChanges, MaxFaults} \subseteq Nat
  /\ Ttls \subseteq 0 .. Oldest /\ Retention < Oldest
  /\ HasTags \in BOOLEAN

VARIABLES
  source,   \* key -> the version the source holds and whether it answers
  lapsed,   \* key -> version -> ticks since the source last held it
  cache,    \* feed_cache
  fetch,    \* fetcher -> its call of FetchAuth
  quiet,    \* key -> ticks since somebody last fetched it
  changes, faults \* counters behind the two bounds

fetchVars == <<source, lapsed, cache, fetch, quiet, changes, faults>>

Versions == 0 .. MaxChanges
Ages == 0 .. Oldest
NoTag == -1
TagOf(version) == IF HasTags THEN version ELSE NoTag
Older(age) == IF age < Oldest THEN age + 1 ELSE age

Rows == [body : Versions, etag : Versions \cup {NoTag}, age : Ages]

\* A call: the cached copy it read, if any, then the row it will write, then
\* what it returns and where that came from.
NoRow == <<>>
Idle == [pc |-> "idle", key |-> <<>>, ttl |-> 0, row |-> NoRow, from |-> "none", ticked |-> FALSE]
Flights == [pc : {"idle", "asking", "answered", "done"},
            key : {<<>>} \cup {<<k>> : k \in Keys}, ttl : Ttls \cup {0},
            row : {NoRow} \cup {<<r>> : r \in Rows},
            from : {"none", "upstream", "fresh", "stale"}, ticked : BOOLEAN]
KeyOf(a) == fetch[a].key[1]
RowOf(a) == fetch[a].row[1]
HasRow(a) == fetch[a].row # NoRow
InFlight(a) == fetch[a].pc \in {"asking", "answered"}

Fault(kind) == kind \in FaultKinds /\ faults < MaxFaults /\ faults' = faults + 1

-----------------------------------------------------------------------------
(* The sources.                                                            *)

Change(k) ==
  /\ changes < MaxChanges
  /\ changes' = changes + 1
  /\ source' = [source EXCEPT ![k].version = @ + 1]
  /\ UNCHANGED <<lapsed, cache, fetch, quiet, faults>>

GoDown(k) ==
  /\ source[k].ok /\ Fault("down")
  /\ source' = [source EXCEPT ![k].ok = FALSE]
  /\ UNCHANGED <<lapsed, cache, fetch, quiet, changes>>

ComeBack(k) ==
  /\ ~source[k].ok
  /\ source' = [source EXCEPT ![k].ok = TRUE]
  /\ UNCHANGED <<lapsed, cache, fetch, quiet, changes, faults>>

-----------------------------------------------------------------------------
(* FetchAuth.                                                              *)

\* Mutation: off by one.
FreshLonger(k, ttl) == k \in DOMAIN cache /\ ttl > 0 /\ cache[k].age <= ttl
Fresh(k, ttl) == k \in DOMAIN cache /\ ttl > 0 /\ cache[k].age < ttl

\* The cache is read: a copy younger than the TTL is the answer.
Begin(a, k, ttl) ==
  /\ fetch[a] = Idle
  /\ fetch' = [fetch EXCEPT ![a] =
       [pc |-> IF Fresh(k, ttl) THEN "done" ELSE "asking", key |-> <<k>>, ttl |-> ttl,
        row |-> IF k \in DOMAIN cache THEN <<cache[k]>> ELSE NoRow,
        from |-> IF Fresh(k, ttl) THEN "fresh" ELSE "none", ticked |-> FALSE]]
  /\ quiet' = [quiet EXCEPT ![k] = 0]
  /\ UNCHANGED <<source, lapsed, cache, changes, faults>>

\* A cache that cannot be read fails the call.
BeginFails(a, k, ttl) ==
  /\ fetch[a] = Idle
  /\ Fault("db")
  /\ fetch' = [fetch EXCEPT ![a] = [Idle EXCEPT !.pc = "done", !.key = <<k>>, !.ttl = ttl]]
  /\ quiet' = [quiet EXCEPT ![k] = 0]
  /\ UNCHANGED <<source, lapsed, cache, changes>>

\* If-None-Match with the cached tag, when there is one.
NotModified(a) ==
  /\ HasRow(a) /\ RowOf(a).etag # NoTag
  /\ RowOf(a).etag = TagOf(source[KeyOf(a)].version)

\* Mutation: the body of the copy with the tag of the answer.
AnswerRowOldBody(a) ==
  [body |-> IF HasRow(a) THEN RowOf(a).body ELSE source[KeyOf(a)].version,
   etag |-> TagOf(source[KeyOf(a)].version), age |-> 0]
\* Mutation: the empty body of a 304 is cached.
AnswerRowNoBody(a) ==
  LET now == source[KeyOf(a)].version
  IN  IF NotModified(a) THEN [body |-> NoTag, etag |-> RowOf(a).etag, age |-> 0]
                        ELSE [body |-> now, etag |-> TagOf(now), age |-> 0]
\* The row an answer makes: the body and tag of a 200, or after a 304 those
\* of the copy.
AnswerRow(a) ==
  LET now == source[KeyOf(a)].version
  IN  IF NotModified(a) THEN [RowOf(a) EXCEPT !.age = 0]
                        ELSE [body |-> now, etag |-> TagOf(now), age |-> 0]

Answer(a) ==
  /\ fetch[a].pc = "asking" /\ source[KeyOf(a)].ok
  /\ fetch' = [fetch EXCEPT ![a] = [@ EXCEPT !.pc = "answered", !.row = <<AnswerRow(a)>>]]
  /\ UNCHANGED <<source, lapsed, cache, quiet, changes, faults>>

\* Stale on error: the copy, if there is one.
Unanswered(a) ==
  /\ fetch[a].pc = "asking"
  /\ fetch' = [fetch EXCEPT ![a] =
       [@ EXCEPT !.pc = "done", !.from = IF HasRow(a) THEN "stale" ELSE "none"]]
  /\ UNCHANGED <<source, lapsed, cache, quiet, changes>>

AnswerFails(a) ==
  \/ fetch[a].pc = "asking" /\ ~source[KeyOf(a)].ok /\ Unanswered(a) /\ UNCHANGED faults
  \/ Unanswered(a) /\ Fault("call")

Deliver(a) == fetch' = [fetch EXCEPT ![a] = [@ EXCEPT !.pc = "done", !.from = "upstream"]]

\* PutCachedFeed replaces whatever other calls wrote meanwhile.
Put(a) ==
  /\ fetch[a].pc = "answered"
  /\ cache' = [k \in DOMAIN cache \cup {KeyOf(a)} |-> IF k = KeyOf(a) THEN RowOf(a) ELSE cache[k]]
  /\ Deliver(a)
  /\ UNCHANGED <<source, lapsed, quiet, changes, faults>>

\* A cache that cannot be written does not fail the call.
PutFails(a) ==
  /\ fetch[a].pc = "answered"
  /\ Fault("put")
  /\ Deliver(a)
  /\ UNCHANGED <<source, lapsed, cache, quiet, changes>>

\* The caller takes the result.
Return(a) ==
  /\ fetch[a].pc = "done"
  /\ fetch' = [fetch EXCEPT ![a] = Idle]
  /\ UNCHANGED <<source, lapsed, cache, quiet, changes, faults>>

Call(a) == Answer(a) \/ AnswerFails(a) \/ Put(a) \/ PutFails(a)

-----------------------------------------------------------------------------

\* The cleanup job: DeleteCachedFeedsBefore(now - feedCacheRetention).
Cleanup ==
  /\ \E k \in DOMAIN cache : cache[k].age > Retention
  /\ cache' = [k \in {k \in DOMAIN cache : cache[k].age <= Retention} |-> cache[k]]
  /\ UNCHANGED <<source, lapsed, fetch, quiet, changes, faults>>

\* Time passes; no call lasts longer than a tick, and its caller has the
\* result by then.
Elapse ==
  /\ \A a \in Fetchers : InFlight(a) => ~fetch[a].ticked
  /\ fetch' = [a \in Fetchers |-> IF InFlight(a) THEN [fetch[a] EXCEPT !.ticked = TRUE] ELSE Idle]
  /\ cache' = [k \in DOMAIN cache |-> [cache[k] EXCEPT !.age = Older(@)]]
  /\ lapsed' = [k \in Keys |-> [v \in Versions |->
                  IF v < source[k].version THEN Older(lapsed[k][v]) ELSE 0]]
  /\ quiet' = [k \in Keys |-> Older(quiet[k])]
  /\ UNCHANGED <<source, changes, faults>>

FetchInit ==
  /\ source = [k \in Keys |-> [version |-> 0, ok |-> TRUE]]
  /\ lapsed = [k \in Keys |-> [v \in Versions |-> 0]]
  /\ cache = [k \in {} |-> NoRow]
  /\ fetch = [a \in Fetchers |-> Idle]
  /\ quiet = [k \in Keys |-> 0]
  /\ changes = 0 /\ faults = 0

Sources == \E k \in Keys : Change(k) \/ GoDown(k) \/ ComeBack(k)

-----------------------------------------------------------------------------
(* Properties.                                                             *)

FetchTypeOK ==
  /\ source \in [Keys -> [version : Versions, ok : BOOLEAN]]
  /\ lapsed \in [Keys -> [Versions -> Ages]]
  /\ DOMAIN cache \subseteq Keys /\ cache \in [DOMAIN cache -> Rows]
  /\ fetch \in [Fetchers -> Flights]
  /\ quiet \in [Keys -> Ages]
  /\ changes \in 0 .. MaxChanges /\ faults \in 0 .. MaxFaults

\* "If the cached copy is younger than ttl it is returned" (proxy.go:83-84):
\* what a caller gets without asking the source is a version the source still
\* held at most its TTL ago, whatever older answers were written over newer
\* ones and whatever calls failed.
FreshEnough ==
  \A a \in Fetchers : fetch[a].from = "fresh" => lapsed[KeyOf(a)][RowOf(a).body] <= fetch[a].ttl

\* "Anything older belongs to a source nobody fetches any more"
\* (main.go:24-26): the last good copy of a source that is still asked for is
\* not pruned.
LastGoodKept ==
  [][\A k \in DOMAIN cache : k \notin DOMAIN cache' => quiet[k] > Retention]_fetchVars

\* A source that answers and rests is in the cache as it is, for good: no
\* late answer, no 304 and no stale copy keeps an old version there.
CatchesUp ==
  \A k \in Keys : <>[](\/ ~source[k].ok
                       \/ k \in DOMAIN cache /\ cache[k].body = source[k].version)
=============================================================================
