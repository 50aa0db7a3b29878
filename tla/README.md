# TidyDAV verification

TLA+ models of the parts of TidyDAV that keep state and run concurrently, TLC
runs that check them on small instances, and TLAPS proofs of the properties
that matter most. Paths are relative to the repository (`src/internal/...` is
written `internal/...`). `PROJECT.json` lists components, runs, hazards, the
source lines behind every definition, and for each checked property a mutation
of the model, shaped like a plausible bug, that breaks it.

    tlc -config Mirror.cfg MCMirrorVariants.tla     # check one run
    tlapm MirrorSyncProofs.tla                        # check the proofs of one module

## 1. The system

TidyDAV is one Go process over one SQLite database. It merges calendar feeds
and serves them under secret links, mirrors CalDAV/CardDAV collections, and
notifies about new events and dead sources. Everything it must not forget is
in the database; the few maps it keeps in memory are lost with the process.

| Component | State | Operations | Talks to |
|---|---|---|---|
| One-way sync: `internal/dav/sync.go`, `mirror.go` | `State.Items` of a job: uid -> hrefs, ETags and fingerprints of both copies; the locals of a run | list both sides, guard, visit every source item, read, compare, PUT, read back, deletion pass | two servers; the runner gives and takes the state |
| Bidirectional sync: `sync_bidi.go` | the same state; both sides resolved to items | list, guard, resolve each side, merge every uid: copy, delete, agree, forget | as above |
| Shared types and clients: `dav.go`, `caldav.go`, `carddav.go`, `extract.go` | none | dispatch on the direction, HTTP calls, UID and date extraction | servers |
| Sync preview: `preview.go` | none | list and read both sides, merge by identity, conflict rule; no writes, no state | servers |
| Sync runner: `internal/davsync/runner.go` | `Runner.running`, a set of jobs under a mutex | `Run` (all due jobs), `RunOne`, `acquire`, `release`, `finish` | job rows, engines |
| Sync job rows and API: `internal/store/syncjobs.go`, `internal/server/syncjobs.go` | table `sync_jobs` | create, update, delete, reset, manual run; the run's own update | users, runner |
| Scheduler and process: `internal/scheduler`, `cmd/tidydav/main.go` | the loops; the signal | ticks, shutdown: drain HTTP for 15 s, stop the loops, exit | everything |
| Notifier: `internal/notifier`, `internal/store/notified.go`, `internal/notify` | table `notified` | per feed: match events, report dead sources and their recovery; prune | fetcher, cache, targets |
| Fetcher and cache: `internal/proxy`, `internal/store/feedcache.go` | table `feed_cache` | `FetchAuth`: fresh copy, or conditional request, or stale copy on error; prune | sources; called by requests and notifier |
| Feed administration: `internal/server/feeds.go`, `internal/store/feeds.go`, `notifications.go` | table `feeds` | create, update, rotate the link, delete, serve and count | users, subscribers |
| Feed service: `internal/feed` | per request: identities seen, sequence of made-up UIDs, zone definitions, the calendar | merge the sources, apply the rules, attach zones; `Render`, `Preview`, `Matches` | fetcher, pipeline; called by requests and notifier |
| Pipeline: `internal/pipeline` | what filter and rename matched | build and apply the seven rules in order | the calendar |
| iCalendar: `internal/ics` | none | read and set properties, last occurrence, generate zones | - |
| Accounts: `internal/auth`, `internal/store/users.go`, `sessions.go`, `passwordreset.go` | tables `users`, `sessions`, `password_resets` | register, sign in (password, OIDC, anonymous), log out, reset by mail, hourly cleanup | users, provider, mail |
| Storage base: `internal/store/store.go`, `migrate.go` | the schema version | open, migrate | SQLite |
| Audit, mail, outbound client, configuration, web interface | append-only records; none | I/O | - |

How they interact, and what is hard about it:

- A **sync run** is a long sequence of calls to two servers that other people
  write to at the same time, and that may fail, lose an answer or list nothing
  by mistake. No call is conditional. All that protects users' data is the
  comparison of ETags and fingerprints from one run to the next, and the order
  in which a run records what it did. What makes it correct: it deletes only
  what is gone, it writes nothing without a change, one clean run restores the
  mirror after anything, and an empty listing stops it.
- The **runner** reads a job (its state included), runs it for minutes, and
  writes the outcome, while the scheduler, other requests and users work on
  the same row, and a shutdown or crash may come at any time. What makes it
  correct: one run of a job at a time, no user's edit undone, no state lost,
  every due job run.
- The **notifier** marks an event before it dispatches it, removes an entry
  after the all-clear, and judges sources by a cache that requests refresh and
  the cleanup prunes. What makes it correct: each message once, none lost,
  the outage and its end reported.
- The **fetcher** is called by any number of goroutines without coordination.
  What makes it correct: answers as fresh as asked for, and no late answer
  keeps an old version in the cache.
- A **feed handler** reads a row, works (bcrypt takes a while), and writes the
  whole row back; the secrets in it are write-only, so a form leaves them out
  and they are put back from the stored row. What makes it correct: links that
  were taken back stay dead, secrets stay with what they belong to, counters
  count.
- A **feed request** takes events from sources that repeat each other, leave out
  UIDs and define time zones, and changes them rule by rule. What makes it
  correct: one event per identity and none lost, names for nameless events that
  are the same in every request, every zone defined, nothing expired that is
  still to come.
- The **preview** repeats the rules of the bidirectional engine without its
  state. What makes it correct: a first run makes what it showed.
- **Account handlers** are sequences of statements. What makes them correct:
  one bootstrap admin, and reset links that end.

## 2. The modules

| Module | Models |
|---|---|
| `DavCollection` | a collection and how a server names versions and answers; shared by the engines |
| `MirrorSync` | `syncOneWay` with `inspectDst` and `putMirror` over a persisted state |
| `MirrorCopies` | `MirrorSync` with a witness of the copies the job must answer for |
| `SyncPreview` | `collect` and `PreviewMerge` over what both sides hold |
| `BidiSync` | `syncBidirectional` with `resolveSide`, `winnerIsA`, `copyItem`; EXTENDS `SyncPreview` and checks it against the engine |
| `JobRuns` | what a sync job promises, abstractly |
| `SyncRunner` | job rows, runner, API, scheduler, process life cycle; implements `JobRuns` |
| `FeedFetch` | `Fetcher.FetchAuth` over `feed_cache`, the sources, the cleanup |
| `Notifier` | the notifier's run and ledger; EXTENDS `FeedFetch` and is one of its fetchers |
| `FeedAdmin` | the rows of `feeds` under concurrent requests |
| `Accounts` | users, sessions, resets under concurrent requests |
| `IcsEvents` | an event and the helpers of `internal/ics` |
| `Pipeline` | the rules, as operators over a set of events |
| `FeedRender` | a request for a feed: merge, rules, answer |
| `MC...` | values for TLC; `MCMirrorVariants` and `MCBidiSync` run one module under several settings, drawn once per behaviour |
| `SyncRunnerProofs`, `MirrorSyncProofs`, `BidiSyncProofs`, `FeedAdminProofs`, `FeedRenderProofs`, `NotifierProofs`, `AccountsProofs` | theorems |
| `DavCollectionProofs` | lemmas about maps, tags and writes that the two engines' proofs share |

### DavCollection

A collection is a function from hrefs to resources, a resource a body and an
ETag. A body keeps what the engines look into: UID, version (what a hash tells
apart), whether its start is in the window, and whether a server has put it in
a form of its own, as many do. An ETag is a number. The engines compare tags of
one href for equality and nothing else, so a new tag is the least one that
nothing remembers for that href: six tags are enough for any number of writes,
and the state space closes. A server names versions stably, differently on
every request (tag `Reissued`, equal to nothing), or not at all (`NoTag`, the
empty string, which is equal to itself).

### MirrorSync

One variable per local that survives a call: `st` is `state.Items`, `bySrc` is
`stateBySrcHref`, `todo` the part of `srcList` still to visit, `dstIdx` the
destination listing, `seen`, `filtered` and `unverified` the marks, `item` the
iteration in progress. `pc` is the server call the run is at, so each action
is the code from one call's answer to the next call:

    Start -> ListSource -> ListDestination -> Visit -> FetchSource / InspectDestination
          -> PutMirror -> ReadBack -> Visit ... -> SweepDelete / SweepForget -> Complete -> Finish

The order of a listing is left open: `Visit` takes any item that remains, as
does the deletion pass, whose order Go's map iteration leaves open in fact.
`Fault` actions are what a server or the process may do: an error, a lost
answer to a PUT or DELETE that was carried out, an empty listing, a crash. Users
write, create and delete on both sides between any two calls (`UserStep`).
`saved` is the persisted state; `Finish` writes it after every run, failed ones
included, as `runner.go:133` does.
`calm` counts whole runs nobody disturbed: 2 means the last one and, if there
is one, the present one; `gone` are items the source lacked at some time since
its listing. Both are only read by properties, and so is `owned`, which
`MirrorCopies` adds: the copies whose PUT was answered and that are still there,
but for what a crash, a reset or a false empty listing took from the job.

### BidiSync

The two sides are `A` and `B`, an entry's Src half and its Dst half.
`resolved[s]` is what `resolveSide` returns, `known` the index it is given,
`left` the uids the merge has still to decide. One action per call again:
`CopyItem`, `DeleteItem`, or `Settle` where the merge calls nobody. The job's policy
`sourceWins` is drawn once, and so is `listMode`, how the listings of each side name
versions: stably, by another ETag each time, or not at all. What the engine compares
and records is `ListedTag` of a version; `todo` and `resolved` remember the version
itself, so that the properties can speak of what was really there. A side that lists
no ETags is in the model but in no passing run: there `sync_bidi.go:28` takes every
known item for unchanged, and three properties fail (section 4). `base` is the version of each side the two last
agreed on, `agreed` the uids for which that still stands, `missed` those whose
last copy the state never learned of, because the answer or the run was lost. The
three are kept independently of the engine's state, so that the properties do
not take the engine's word for it. `calm` is as in `MirrorSync`; an edit before a
run's first listing is answered does not count as a disturbance.

### SyncPreview

`Collect` is the map by identity that `collect` builds, `PreviewMerge` the union
with the conflict rule. Titles and dates are the version number, and so is what
`Options.Modified` reads. `PreviewKept` says of each step of an undisturbed first
run that the preview of the two sides stays the same; at the end both sides are
equal (`SettledInSync`), so they hold what the preview had shown.

### SyncRunner

A sync state is the number of the run that computed it. An actor (the scheduler
or a request) loads a row, acquires, runs, stores and releases, in steps; users
create, update, reset and delete jobs in between; `process` is up, draining
(HTTP for 15 s), stopping (the loops), or down. `Drained` may end the drain at any
time, since a manual run may take ten minutes (`runner.go:106`): `overdue` are the
requests that are then still at work, `unrecorded` the actors whose run the exit ends
before its state is stored. Both are only read by properties. The engine behind
`buildSync` is the choice of an outcome: unchanged, a new state, or an empty one
where the row cannot be run or its state not be decoded. The database may refuse the
outcome (`StoreFails`), which `finish` logs and nothing more. Statements are atomic:
SQLite is used over one connection.

### JobRuns

The abstract specification: jobs with a configuration and a state, and for each
id a phase, free, working or recorded. A run begins when its job is free,
replaces the state once, or loses what it computed, and ends; users create, configure, forget and remove;
the process may stop. `SyncRunner` implements it under the mapping `Promise`: a
row without its run metadata is a job, `used` the ids spent, the number of runs the
states computed. A job is free when it is not in `running`, working while an actor
holds it before the store, else recorded: the phase is read off the mutex's set and the
actors, so that a step that disagrees with either is no step of the promise.

### FeedFetch and Notifier

A fetch is: read the cache, the source's answer, the write to the cache,
return. Versions are numbers and so are tags. Time is counted in ticks, each
longer than a fetch, which the client gives up after 30 s. Ages beyond
`Oldest` are `Oldest`. `Notifier` EXTENDS `FeedFetch` and composes with it: the
watcher is one of the fetchers, and takes the freshness of a source from the
cache the others write too. Marking, dispatching, taking a mark back are steps;
`Stop` is a cancelled run or the end of the process between two of them. `told`
is what the targets heard, and is only read by properties.

### FeedAdmin

Update and rotation are a read and a write (`Update`/`WriteUpdate`), serving is
a lookup, an answer and a count. A hash stands for the password it was made
from. `PreserveSecrets` is `preserveSourceSecrets` with its two passes, by URL
and by position; `UpdateFeed` writes all columns but the serve count, and
inserts nothing. `retired` are links that were taken back, `overrun` the feeds
that were written between the read and the write of another request: what such
a lost update does is the code's known behaviour and is excused in the
properties.

### IcsEvents, Pipeline and FeedRender

An event is a map from property names to values with its alarms, its source and
its place in the order read; a calendar is the set of its events, since rules
look at order only where dedup keeps the first. A time is the number it reads
as and the zone it is written in, of three kinds: zones Go can load, zones only a
source defines, and no TZID (UTC, floating, a date). Times are in single properties
(`DTSTART`, `DTEND`, `RECURRENCE-ID`, and `X-TIME` for any other) and in lists that
may come several times (`EXDATE`, `RDATE`); `TimeProps` are all of them, as
`referencedTZIDs` looks at every property. Offsets are constant. What
go-ical answers for a time it cannot read is taken from how the code handles it.
A pattern is the set of texts it matches. A made-up UID is the pair of the hashed key
and the suffix.

`FeedRender` is the state machine of one request after another: `SkipSource` or
`ReadSource`, then for each event `TakeEvent`, `DropDuplicate` or `NameEvent`;
`Build`, the rules one by one (`ApplyRule`, `SkipDisabled`), and one of the three
answers, or an error (`NothingFetched`, `BuildFails`, `RenderFails`). Its locals
are `merge`'s: `seenUID`, `uidSeq`, `tzdefs`, `fetched`. `offered`, `defined` and
`issued` remember what the sources gave and what was made up, and are only read
by properties.

### Accounts

A request is a sequence of statements, each an action: look up, insert, create a
session. Hashes, cookies and the provider's protocol are abstracted; e-mail
addresses are as they compare after lower-casing. `CreateUserBootstrapAdmin` is
one statement, as in the code. `first` and `named` remember who came first,
`spent` which reset links were used up, `dead` in a request that its link had
ended when it began, and `late` that such a request set a password.

## 3. The runs

Deadlock is checked in every run where nothing says otherwise. `Accounts`,
`AnonymousFirst`, `FeedAdmin`, `FeedRender`, `DedupOfficeZone` and
`RunnerStaleSnapshot` do say so: their requests are bounded, and a system nobody
sends a request to rests.

| Run | Shows | Bounds |
|---|---|---|
| `Mirror` | the deletion pass removes only what the source lacked (`DeletesOnlyGone`), empty listings pass no guard (`VanishGuard`), an undisturbed run makes the mirror true (`SettledMirrors`), the next run writes nothing (`NothingToDoWritesNothing`), recorded ETags vouch for recorded fingerprints (`RecordedTagsTruthful`), no second copies (`OneCopyPerItem`), none forgotten (`NoOrphans`) | eight settings: plain (2 hrefs a side, 2 UIDs, 2 edits or resets, 1 fault of any kind), busy (3 edits, no faults), servers that reissue ETags or send none, items that leave and re-enter the window, two items of one UID, items without a UID (3 hrefs), a state from before fingerprints (crashes, no edit); the destination stores bodies in its own form; destination edits everywhere but between a PUT and its read-back |
| `MirrorConverges` | once edits and faults end the job reaches clean runs and stays there, or stands blocked by the guard | 1 UID beside UID-less items, 2 edits, 1 fault, destination edits while the job is idle, between two items and before a read-back |
| `Bidi` | only real changes are copied (`CopiesOnlyChanges`); in a run nobody disturbs only agreed versions are deleted (`DeletesOnlyUnchanged`) and the newer version survives (`NewestSurvives`); such a run brings both sides together (`SettledInSync`) as the preview of a first run showed (`PreviewHolds`); the guard holds (`VanishGuard`), and the job gets there (`Converges`) | three settings, all between servers that list ETags: quiet (3 hrefs, 2 UIDs, 2 edits between runs, 1 failing call; newest-wins with a tie among the times), racing (1 UID, 2 hrefs, 2 edits at any point, 1 fault of any kind, items in and out of the window; source-wins), renaming (1 UID, 2 hrefs, one side lists another ETag every time, 2 edits between runs, before the second listing and in the merge; newest-wins). Not here: a side that lists none (section 4) |
| `Runner` | every step keeps the promise of `JobRuns` (`KeepsThePromise`: one run per job, no user's change or deletion undone); a shutdown cuts off no run but a manual one that was still being served after the 15 s (`OnlyOverdueUnrecorded`); due jobs run, acquired jobs are released | 2 jobs, the scheduler and 1 request, 1 user edit, 1 new state, 1 outcome the database refuses, shutdowns with the drain ending at any time, crashes, restarts |
| `Notifier` | fresh answers, one message at a time, an honest ledger, outages and recoveries reported, the cache catches up | 1 feed, 1 source, notifier and a client, 1 new version, 2 faults, retention of 2 ticks on both tables, ages told apart to 3 |
| `FeedAdmin` | dead links stay dead, every answer is counted once, an update keeps the secrets it leaves out | 2 feeds, 2 owners, 3 secrets, 4 forms, 2 requests at once, 6 in all |
| `Accounts` | only the first account can have become admin, reset links end | 1 address, 1 provider user, 2 passwords, 4 tokens, 2 requests at once, 5 in all, 2 hours, 3 configurations |
| `FeedRender` | one event per identity (`OneEventPerIdentity`), none lost (`MergeKeepsEach`), the same names in every request (`StableNames`), the zone of every published time defined and no other (`EveryZoneDefined`), nothing expired too early (`ExpireKeepsWhatIsToCome`) | 2 sources, one given twice, 6 contents: a series and a moved instance, copies without a UID, a foreign UID, an all-day series without end, zones loaded, defined, both and neither, zones that only an exception, an extra date or a foreign property is in; every list of up to two of 14 rules, and three rules the constructors refuse; a second request where there are none (`Again`) |
| `MirrorSourceNoTags` | **violated**: see findings | as the plain setting of `Mirror`, without faults |
| `RunnerStaleSnapshot` | **violated**: see findings | 2 jobs, 2 new states |
| `AnonymousFirst` | **violated**: see findings | access mode `both`, no provider, 3 requests |
| `DedupOfficeZone` | **violated**: see findings | 2 sources, the default dedup rule |

Why the bounds suffice. The engines treat items independently except through a
shared href, a shared UID, the guard and the order of a listing; two items, one
spare href and one fault with two or three edits show every pair of these. The
guard's threshold is 2, not 5 (`dav.go:153`): states below the
threshold and at it are both reached; the
theorem `VanishGuarded` covers every threshold. Two actors of each kind suffice for
a mutual exclusion by set membership; `NeverTwice` and `RunnerImplementsPromise`
cover any number. A merge treats sources one after the other, and what it
remembers of them is per identity, key or zone; three, one of them repeated,
show every pair, and two rules every pair of rules in both orders. In
the feed and account models all conflicts are between two requests. Every
action of every module fires in the passing runs between them.

**Symmetry** is used in `FeedAdmin` (ids, secrets and requests) and `Accounts`
(tokens and requests), where the code only compares these values, no liveness
is checked, and no expression chooses one of them.

**Fairness.** Users, faults, shutdowns and crashes are never fair. Fair are: in
the engines `RunStep`, since the scheduler starts a due job again on every tick
and every call is answered or times out (30 s in the clients); in the
runner the scheduler, each run, each accepted request, the end of the drain and
of the process, and its restart (a service manager's); in the notifier its own
steps, each call in flight, the restart and the passing of time. `Converges`
accepts `blocked`: the guard stops a job until a person resets it, which
`dav.go:130-137` means it to. Nothing is assumed fair that needs a user to act.

## 4. Findings

1. **A source without ETags is never read again**
   (`MirrorSourceNoTags` / `SettledMirrors`, `internal/dav/sync.go:104`). The
   fast path compares the recorded and the listed source ETag without asking
   whether there is one, so the empty one equals the empty one. `inspectDst`
   does ask. `sync.go:145-147` says that "nothing is missed". The bidirectional
   engine compares in the same way at `sync_bidi.go:28`: see the limits below.
2. **A run from a stale state** (`RunnerStaleSnapshot` / `RunsFromLatestState`,
   `internal/davsync/runner.go:63`). Jobs are read, states included, before they
   are acquired: a manual run that ends in between is overwritten by a run
   that started from the state before it. `runner.go:38-41` says `acquire` is
   there to prevent this.
3. **Nobody becomes admin** (`AnonymousFirst` / `FirstRegisteredIsAdmin`,
   `internal/store/users.go:103`). In the access mode `both` an anonymous visitor's
   account counts; in the trace it is inserted before the first registration, which
   then is not promoted, and no other step promotes anybody (unless OIDC groups do).
   `README.md:60-61` and `:74` say the first registered user becomes admin.
4. **Meetings of one name in an unreadable zone are duplicates**
   (`DedupOfficeZone` / `DedupKeepsDates`, `internal/pipeline/rules.go:137`).
   `startDate` returns the empty string for a start whose TZID is no IANA name,
   so under the default key SUMMARY + DATE all events of one summary in such a
   zone are one, whatever their dates. `web/src/lib/i18n.ts:179` says the rule
   removes "duplicate events sharing the same key fields (default: summary + date)".

### Known limits, each with the setting that shows it

What the code does not defend against. The passing runs keep out of
these gaps, openly; to see one, change the named cfg as described.

| Gap | Where | To see it |
|---|---|---|
| a destination edit between a PUT and its read-back is fingerprinted as the job's own copy | `dav/mirror.go:165` | `Mirror`, `DstEditPcs <- AllPcs`: `SettledMirrors` |
| of a side that lists no ETags no edit of a known item is seen, the empty ETag being equal to itself: a delete or an older change of the other side beats it, or it is never copied, against `sync_bidi.go:91-92` "A change always beats a delete" | `dav/sync_bidi.go:28` | `Bidi` with `Reissuing` giving "none" (and no `TagsListed` in the ASSUME of `MCBidiSync`): `DeletesOnlyUnchanged`, `NewestSurvives`, `SettledInSync`, one at a time |
| an edit between the listings and a DELETE is deleted with the item | `dav/sync_bidi.go:193` | `DeletesOnlyUnchanged` without `calm # 0` |
| an edit of the other side between the listings and a PUT is overwritten | `dav/sync_bidi.go:157` | `NewestSurvives` without `calm # 0` |
| a server that answers a PUT without an ETag makes the copy look like a change of its side, and is copied back | `dav/sync_bidi.go:161` | `Bidi` with `PutTags` giving side B "none": `CopiesOnlyChanges` |
| the href derived for a new item belongs to an item of the destination's own, which the PUT overwrites | `dav/sync.go:173` | by reading; no property claims otherwise |
| two source items of one UID take turns at one entry: a run with nothing to do writes again | `dav/sync.go:140-156` | `NothingToDoWritesNothing` without `DistinctUids` |
| identities `destHref` maps to one href overwrite each other | `dav/sync.go:223` | the assumption of `OneCopy`; `Mirror` with a constant `DestHref`: `OneCopyPerItem` |
| an item the destination refuses for good stops every run there | `dav/sync.go:176` | not modelled: failures of the model end |
| a reset during a run is overwritten by the run's outcome | `davsync/runner.go:164` | by reading; `Reset` and `Store` in `SyncRunner` |
| a manual run, which may take ten minutes, outlasts the 15 s of a shutdown: what it did to the servers is not recorded | `cmd/tidydav/main.go:121`, `davsync/runner.go:106` | `Runner` with `OnlyOverdueUnrecorded` as `unrecorded = {}` |
| the database refuses a run's outcome: it is logged, and the next run starts from the state before | `davsync/runner.go:164` | `StoreFails` in `SyncRunner`, `Lose` in `JobRuns` |
| a job's direction changes and its state stays | `store/syncjobs.go:69` | `Runner`, `Directions <- TwoWays`, invariant `StateMatchesDirection` |
| a stop between the mark and the dispatch loses the message | `notifier/notifier.go:113` | `Notifier`, invariant `DeliveryConfirmed` |
| the last good copy of a source in a long outage is pruned while it is asked for | `cmd/tidydav/main.go:81`, `store/feedcache.go:84` | `Notifier`, property `LastGoodKept` |
| sources that change places: one that had no password is given its neighbour's old one | `server/feeds.go:607` | `FeedAdmin`, property `OpenSourcesStayOpen` |
| of two updates at once the earlier is lost, and one that read the row before a rotation writes the old link back | `server/feeds.go:153`, against `:193-196` "stops resolving immediately" | `DeadSecretsStayDead` without `overrun` |
| two sources of a feed with one URL share the last one's password | `server/feeds.go:597` | `SecretsAreKept` without `DistinctUrls` |
| of two first sign-ins at once the second is answered with an error | `store/users.go:86` | by reading; `InsertRefused` in `Accounts` |
| a reset looks at its link once, at the start: two at once both use it, and one whose hour ends meanwhile still sets its password | `auth/reset.go:63`, `:76` | `Accounts`: `ResetLinksEnd` with `req[r].token \in spent` for `req[r].dead` in `ChangePassword` |
| a PUT whose answer was lost is repeated in the other direction | `dav/sync_bidi.go:67` | `CopiesOnlyChanges` without `missed` |
| the preview knows no state: after the first run it may show an item the next run deletes | `dav/preview.go:62` | `PreviewKept` without `saved = EmptyMap` |
| a form without a conflict policy is previewed as source-wins and saved as newest-wins | `dav/preview.go:87`, `server/syncjobs.go:392` | by reading |
| a source that is itself a feed of this service brings along UIDs made up here | `feed/service.go:336` | the assumption `RenderAssumption` |
| two sources that define one TZID differently: the first definition is published for both | `feed/service.go:181` | by reading; `FirstDefined` |
| stripping UID or DTSTAMP makes every render of the feed fail | `pipeline/rules.go:245` | `RenderFails` in `FeedRender` |
| stripping UID or RECURRENCE-ID makes events one to a client | `pipeline/rules.go:245` | `OneEventPerIdentity` without `KeepsIdentity` |
| the default dedup key drops a moved instance that has a namesake on its day | `pipeline/rules.go:101` | by reading; `DedupKey` has no RECURRENCE-ID |
| UNTIL before the start it bounds (a date beside a time, or a zoneless start a timezone rule reads in a zone west of UTC): a series expires up to a day early | `ics/recurrence.go:102-104`, `pipeline/rules.go:361` | the assumption `TimesFit` |
| only the first RDATE property is read, and its occurrences count without their duration | `ics/recurrence.go:39`, `:60` | `ExpireKeepsWhatIsToCome` without the exception for RDATE |
| the timezone rule moves starts and leaves RECURRENCE-ID, RRULE and EXDATE in the old zone | `pipeline/rules.go:354` | by reading; `Convert` |
| an alarm made before a strip keeps the summary that is stripped | `pipeline/rules.go:286` | by reading; `AlarmText` |
| an outage longer than both retentions is announced again | `store/notified.go:70` | excused as `forgotten` in `MessagesAlternate` |

## 5. The proofs

TLAPS proves the following for every value of the constants that satisfies the
assumptions of the modules, which TLC evaluates in the runs.

**`SyncRunnerProofs`**: for any finite set of jobs, any requests, directions
and bounds.

| Theorem | States |
|---|---|
| `TypeCorrect` | `TypeOK` |
| `NeverTwice` | `OneRunPerJob`: no job is run by two actors at once, through shutdowns, crashes and restarts |
| `RunningIsExact` | `Runner.running` is exactly the set of jobs somebody runs |
| `RunsKeepConfig` | `ConfigIsTheUsers` |
| `RunsReviveNothing` | `DeletedStaysDeleted` |
| `ShutdownRecordsEveryRun` | `OnlyOverdueUnrecorded`: a shutdown, whenever its drain ends, cuts off no run but those of requests still at work at that moment; what the database refused before (`StoreFails`) is not the shutdown's |
| `RunnerImplementsPromise` | `KeepsThePromise`: `Spec => JobRuns!Spec` under the mapping |

`OneRunPerJob` is not inductive: `acquire` refuses by the set `running`, so one
must know that every busy actor's job is in it. The invariant `Exclusive` joins
the two: the set is exactly the jobs of busy actors, and no two share one.
`NeverTwice` and `RunningIsExact` follow from it. The two action properties
follow from the type invariant, one step per action. For the shutdown the
invariant `Drain` adds that no request but an overdue one is at work once the drain is
over, and nobody once the process is down. How long a drain takes is left open.

For the refinement, initial states map to initial states, and each step to a step
or a stutter: users' requests to `Create`, `Configure`, `Forget`, `Remove`; `acquire`, the store, a
refused store and `release` to `Begin`, `Record`, `Lose`, `End`; every end of the process to `Stop`; the
reads, ticks and refusals to nothing (`StepPromised`). It rests on `TypeOK` and
`Exclusive`, since the phase of a job is read off the set and the actors at once,
and on `StatesComputed`: no row, snapshot or queued job holds a state no run
computed, so that what `Store` writes is one the promise allows.

**`MirrorSyncProofs`**: for any servers, identities, hrefs, users, edits, faults
and thresholds, from an empty or a legacy state. Every invariant of `Mirror` is
proved, each under what its settings have in common:

| Theorem | States | Assuming |
|---|---|---|
| `TypeCorrect` | `TypeOK` | |
| `VanishGuarded` | `VanishGuard` | |
| `TagsTruthful` | `RecordedTagsTruthful` | |
| `OneCopy` | `OneCopyPerItem` | `DestHref` tells identities apart |
| `GoneDeleted` | `DeletesOnlyGone` | a source with ETags, `DistinctItems` |
| `IdleRuns` | `NothingToDoWritesNothing` | the same, `DistinctCopies` |
| `TrueMirror` | `SettledMirrors` | the same, a state with fingerprints, no edit between a PUT and its read-back |
| `NothingForgotten` | `NoOrphans` of `MirrorCopies` | `DistinctCopies` |

The assumptions are the code's and the servers'. A source without ETags breaks the
fast path (finding `MirrorSourceNoTags`). `DistinctItems`: the source refuses a UID
that is taken (`no-uid-conflict` of RFC 4791 and 6352), and no UID reads like the
href of another item; without it two items share an entry, and the copy is of
either. `DistinctCopies` is `OneCopy`'s: `destHref` keeps identities apart. The
edit before a read-back is the hazard at `mirror.go:165`; a state
from before fingerprints cannot tell an edit made before the first run. All of them
are met by settings that `Mirror` checks.

Types alone are not inductive: a run writes entries it assembled over several
calls, from an index it made at its start. `IInv` adds `ItemOK` (what is known of
the item in progress at each call, so that a draft is complete when it is
recorded), `SnapshotOK` (the index names entries that exist as long as the loop
uses it) and
`HomesOK` (every entry's destination is `DestHref` of its identity), from which
`OneCopy` follows. `VanishGuard` needs `GuardInv` beside it: what a run in the loop
knows of the listings it accepted, and that an item leaves `todo` only for
`seen` or `filtered`.

The other five rest on `Vouched`: wherever an entry, persisted, loaded or in
hand, has the tag of a version that stands, its fingerprint is of that version.
It is inductive because no write brings back a tag somebody remembers
(`NothingRevived`). From it follow, each on top of the one before:

- `Named` and `Accounted`: the snapshot's tag leads to the right identity, and an
  item that was in the source all through the run is still to visit, in hand, or
  marked under its identity. So what the deletion pass finds unmarked was gone.
- `CalmInv`: in an undisturbed run each item is to visit, in hand, or its entry
  describes both sides as they are (`Progress`, `InTurn`). A turn of the loop
  touches one identity and one copy (`Turn`, `Elsewhere`), so what one turn
  achieved the others leave alone; after a quiet run every verdict of the next is
  "ok" (`Still`), so it reaches neither PUT nor DELETE. TLC checked this invariant on
  the settings of `Mirror` before it was proved.
- `PairInv`: an entry's two fingerprints are of one body, up to the form the
  server gives it (`Coupled`), so the mirror is not just quiet but true.

`NothingForgotten` needs no calm and nothing of the servers, only `Booked`: every
owned copy is claimed by an entry, or by the item in hand until the PUT is
recorded. The deletion pass forgets an entry without a DELETE where the listing
lacked the copy, and an owned copy that was not listed was put in this run, under
an identity that is in `seen`.

**`BidiSyncProofs`**: for any servers, identities, hrefs, users, edits, faults,
times and thresholds, and both policies. Every invariant of `Bidi`, and its action
property:

| Theorem | States | Assuming, beside `HrefsNameItems` |
|---|---|---|
| `TypeCorrect` | `TypeOK` | (not even that) |
| `VanishGuarded` | `VanishGuard` | |
| `Settled` | `SettledInSync` | `TagsListed` |
| `PreviewHeld` | `PreviewHolds` | |
| `CopiesChangesOnly` | `CopiesOnlyChanges` | `TagsAnswered` |
| `ChangesBeatDeletes` | `DeletesOnlyUnchanged` | `TagsListed` |
| `NewestWins` | `NewestSurvives` | `TagsListed` |

`HrefsNameItems`: every item carries a UID, and the engine files it under hrefs
users of no other item use; TLC evaluates it for the instances it checks. The engine
keys its state by UID and looks up by href, and an href that changes its identity
between two runs mixes two items. `TagsListed`: every listing
names the versions, stably or by another ETag each time; of a side that lists none the
engine sees no edit (section 4). TLC evaluates this one too. `TagsAnswered`: a PUT is
answered with the ETag of what it stored; otherwise the copy comes back as an echo (section 4).
`DeletesOnlyUnchanged` and `NewestSurvives` speak of runs nobody disturbs, whatever
raced, failed or died in the runs before: an edit during the merge is one it
has not seen, and its calls are unconditional.

`CopiesChangesOnly` needs `Lockstep` (what the engine recorded is what both sides
agreed on, but for the items in `missed`) and `ReadUnlessKnown`. The others cannot count on the state being right, and
argue about versions: whatever an entry, a read item or the witness `base` says of
a version holds for as long as that version stands, since no write brings one back.
`ReadTruth` says so of bodies read, `PairTruth` of the two halves of an entry (where
both still stand they are one body), `Truthful` of an entry and `base`, `NotedTrue` of
an item noted without being read. What the merge
decides from the listings is right because an undisturbed run has seen every
version there is (`Seen`) until the merge's turn for it; `Owned` and `Knows` (together
`Book`) tie hrefs, index and entries to their identity. Each step of the merge then
leaves its identity on both sides in one version (`Together`) and the others alone,
from which `Settled` follows; and it replaces a line of the preview by an equal one,
which is `PreviewHeld`.

**`FeedAdminProofs`**: for any finite sets of feeds, secrets and requests in
flight, any users and any forms.

| Theorem | States |
|---|---|
| `TypeCorrect` | `TypeOK`: whatever forms put together is a row (stated by the theorem alone) |
| `AnswersAreCounted` | `ServesAreCounted` |
| `LinksStayDead` | `DeadSecretsStayDead` |
| `UpdatesKeepSecrets` | `SecretsAreKept` |

The serve counts need to know that an id is in use before anything is read or
counted under it (`Known`) and what is left of the equation for feeds that are
deleted while their clients wait (`Counted`); each step moves one request in
or out of `Marks`, whose cardinality changes by one. A dead link could come back
through a stored row or through what a request in flight remembers: `Holds`
joins the two, `OneHolder` says that no two feeds hold one secret, and
`Current` that a request nobody has overtaken remembers the row as it is
stored. `UpdatesKeepSecrets` uses `Current` too: what an update fills its form
from is then the stored row, and `ByUrl` shows that the first pass of
`preserveSourceSecrets` finds the password there. That `Last` picks a position
at all is proved from the well-foundedness of the naturals (`LastIsIn`).

**`FeedRenderProofs`**: for any sources, calendars and rules, and any zones and
offsets, assuming that no source uses UIDs of the made-up form
(`RenderAssumption`).

| Theorem | States |
|---|---|
| `RenderTypes` | `TypeOK` |
| `OneEventPerName` | `OneEventPerIdentity` |
| `NamesAreStable` | `StableNames` |
| `NothingIsLost` | `MergeKeepsEach` |
| `ZonesAreDefined` | `EveryZoneDefined` |
| `NothingExpiresEarly` | `ExpireKeepsWhatIsToCome`, assuming `TimesFit` |

A merged event either has a UID of its own, and its identity is in `seenUID`
(`Given`), or was named, and its suffix is below `uidSeq` of its key (`MadeUp`).
The two cannot meet, so a new name or a new identity belongs to no event yet; and
no rule makes two events one, since each leaves events out or changes neither UID
nor RECURRENCE-ID (`ApplyKeeps`). For `StableNames` the suffix of a name must be
the number of nameless events of its key before it: `SeqCounts` says that `uidSeq`
counts them. `TakenOK` says the same of `seenUID` and the identities offered,
and `DefinedOK` of `tzdefs` and the zones of the sources read.

`TimesFit` says of what the sources hold that times are numbers and that no UNTIL
is before the start it bounds, in whatever zone a timezone rule reads a zoneless
start. A series is judged by its UNTIL alone, and a rule before `expire` moves starts
and leaves UNTIL: `TimesInv` follows each event through the rules (`ApplyTimely`).
Where the assumption fails the rule is off by up to a day (section 4).

**`NotifierProofs`**: for any keys, feeds, sources, events, callers, TTLs and faults;
first the lemmas about the steps of `FeedFetch`, then those about the notifier's.

| Theorem | States |
|---|---|
| `NotifierTypes` | `TypeOK` |
| `CopiesAreFresh` | `FreshEnough` |
| `NoRepeats` | `MessagesAlternate` |
| `LedgerIsHonest` | `LedgerHonest` |

`FreshEnough` speaks of the moment a copy is served; its invariant speaks of the
cache. An answer may be a tick old when it is written, so a copy's version may have
lapsed one tick longer than the copy is old (`CacheOK`), and no more: a 304 is
trusted only with the tag of the body it confirms (`TagOK`). Of a message
under way one must know that its entry is in the ledger, as new as the message
(`MessageOK`), and of every item two things: an entry was heard, cut short, or is
the message under way (`Honest`); and what was heard and not taken back has an
entry no older than itself (`Remembered`), so that by the time retention
deletes the entry the item went unseen for just as long.

**`AccountsProofs`**: for any number of addresses, tokens, requests in flight and
any configurations.

| Theorem | States |
|---|---|
| `AccountTypes` | `TypeOK`: what tables and requests refer to exists |
| `OneAdmin` | `OnlyTheFirstIsAdmin` |
| `LinksEnd` | `ResetLinksEnd` |

Everything rests on what a request remembers between its statements
(`RequestOK`): the account it is about to enter exists, its token was handed out,
only a registration or sign-in bootstraps, and without groups the flag a
sign-in writes back is the one stored. `MemoryLasts` shows that no other request
disturbs this.

**Only model-checked.** Everything under fairness (`Converges`, `DueJobsRun`,
`JobsAreReleased`, `CatchesUp`, `OutagesReported`): TLAPS reasons neither about
liveness of this kind nor about ENABLED. Every invariant and action property of a
passing run is stated by a theorem. `DeletesOnlyGone`, `NothingToDoWritesNothing` and
`SettledMirrors` are proved for sources that refuse a UID that is taken; that they
hold where it is held twice is what the setting `doubled` of `Mirror` shows.

## 6. What is not modelled

- **Parsing and formatting** of iCalendar, vCard and durations: malformed data is a
  source or call that fails, or a time that cannot be read. Regular expressions
  are the sets of texts they match.
- **Daylight saving**: offsets are constant, so the transitions `VTimezone` writes and
  the clamp of their window (`eventWindow`) are left out. So is the order of events
  in what is published.
- **One-way previews**: one map laid over the other, without a conflict rule to get
  wrong; that of an A-to-B job shows what only the destination
  has as kept, although the run deletes what it once copied.
- **Clients**: XML, HTTP and the parsing of bodies. A malformed body is a failing
  call.
- **The window** is fixed per version of an item; in the code it moves with the
  day, so that an item may leave it without being edited.
- **Names of hrefs**: normalisation and the relative/absolute forms of servers.
- **Notifications** are delivered to all targets of a feed or none; a partial
  delivery counts as delivered in the code (`notify.go:180`).
- **Listing, validation, sessions in front of the feed handlers, audit, mail, outbound address checks, configuration, web interface**: no
  protocol between their steps. **Migrations** are one transaction each.
- **SQLite** is atomic per statement and loses nothing that was committed.

## 7. Plan

Written so far, in this order: the mirror (the part that can destroy a user's data),
its settings, the runner, the bidirectional engine, fetcher and notifier, feed
administration, accounts; the proofs of runner, mirror and feed administration;
then the promise of a job and the refinement, the preview against the run, the
rules and the rendering of feeds; the proofs about fetcher, notifier, feeds
and accounts; and those of every invariant of the two engines and of the rules.

Next, in order of what they protect:

1. *One job over an engine*: `MirrorSync` as the engine of `SyncRunner`, with the swap
   of sides for `b-to-a`. It would let the stale snapshot and the direction change
   show their effect on the servers.
2. A *window that moves* with the clock, in both engines.
3. `Notifier` over two sources that share a URL, feeds with one trigger, and
   `Dispatch` target by target, with what `FeedRender` matches in place of its
   constant events.
4. *Names*: `destHref`, `normHref` and the lookups, against what the engines assume.
5. *Sessions in front of feed administration* and `FeedRender` behind its `Answer`,
   with `etagMatches`: FeedAdmin, Accounts and FeedFetch composed.
6. *Migration* of the schema with a stop between two versions.

Worth proving next: `SettledMirrors` for a source that holds a UID twice;
`TrueMirror` from a state without fingerprints, for copies edited after
the first run that adds them.
