------------------------------ MODULE Notifier ------------------------------
(***************************************************************************)
(* The notifier's runs over all feeds: matched events are announced once,  *)
(* and a source that stopped updating is reported once, with an all-clear  *)
(* when it works again.  The notified table remembers what was announced;  *)
(* marking, dispatching and rolling back are steps of their own.  It       *)
(* fetches the sources as one of FeedFetch's fetchers and takes their      *)
(* freshness from the cache the other fetchers write too.                  *)
(***************************************************************************)
EXTENDS FeedFetch

CONSTANTS
  Watcher,     \* the notifier among the fetchers
  Feeds,       \* feeds with a target and both triggers armed
  SourcesOf,   \* feed -> its cache keys
  UrlOf,       \* cache key -> URL
  EventsOf,    \* cache key -> version -> events its rules match
  Ttl,         \* TTL of the feeds
  Threshold,   \* SourceStaleHours
  LedgerRetention \* retention

ASSUME NotifierAssumption ==
  /\ Watcher \in Fetchers
  /\ SourcesOf \in [Feeds -> SUBSET Keys]
  /\ Ttl \in Ttls
  /\ {Threshold, LedgerRetention} \subseteq Nat
  /\ Threshold < Oldest /\ LedgerRetention < Oldest

VARIABLES
  ledger,   \* notified: what was announced -> age of the entry
  run,      \* the notifier's run in progress
  told,     \* what the targets last heard of an item, since when no run found it
            \* announced, and whether its last message was cut short: by a stop,
            \* or by a ledger that could not be written after it
  rested    \* no run has ended since the last tick

vars == <<fetchVars, ledger, run, told, rested>>

Urls == {UrlOf[k] : k \in Keys}
Events == UNION {EventsOf[k][v] : k \in Keys, v \in Versions}
\* event_key is scoped to the feed.
EventItem(f, e) == [feed |-> f, what |-> "event", id |-> e]
SourceItem(f, u) == [feed |-> f, what |-> "source", id |-> u]
Items == {EventItem(f, e) : f \in Feeds, e \in Events} \cup {SourceItem(f, u) : f \in Feeds, u \in Urls}

\* feeds and todo: feeds to visit, then sources to fetch; got: what their
\* fetches returned; items: what the current loop still has to look at; msg:
\* the message under way.
Resting == [pc |-> "idle", feeds |-> {}, feed |-> <<>>, todo |-> {}, got |-> {},
            items |-> {}, item |-> <<>>, msg |-> "none"]
TheFeed == run.feed[1]
TheItem == run.item[1]

-----------------------------------------------------------------------------
(* A run.                                                                  *)

OnlyRun == UNCHANGED <<fetchVars, ledger, told, rested>>

Start ==
  /\ run.pc = "idle" /\ rested
  /\ run' = [Resting EXCEPT !.pc = "feeds", !.feeds = Feeds]
  /\ OnlyRun

\* runFeed, then Matches: merge fetches the sources one after the other.
NextFeed(f) ==
  /\ run.pc = "feeds" /\ f \in run.feeds
  /\ run' = [run EXCEPT !.pc = "merge", !.feeds = @ \ {f}, !.feed = <<f>>,
               !.todo = SourcesOf[f], !.got = {}]
  /\ OnlyRun

Fetch(k) ==
  /\ run.pc = "merge" /\ k \in run.todo
  /\ Begin(Watcher, k, Ttl) \/ BeginFails(Watcher, k, Ttl)
  /\ run' = [run EXCEPT !.todo = @ \ {k}]
  /\ UNCHANGED <<ledger, told, rested>>

\* A source that cannot be fetched is left out.
Fetched ==
  /\ Return(Watcher)
  /\ run' = IF fetch[Watcher].from = "none" THEN run
            ELSE [run EXCEPT !.got = @ \cup {<<KeyOf(Watcher), RowOf(Watcher).body>>}]
  /\ UNCHANGED <<ledger, told, rested>>

MatchedItems == UNION {{EventItem(TheFeed, e) : e \in EventsOf[g[1]][g[2]]} : g \in run.got}

\* Without any source Matches fails, and there are no matches to announce.
Merged ==
  /\ run.pc = "merge" /\ run.todo = {} /\ fetch[Watcher] = Idle
  /\ run' = [run EXCEPT !.pc = "matches", !.items = MatchedItems, !.got = {}]
  /\ OnlyRun

\* Mutation: a repeat sighting leaves the entry as it is.
MarkOnce(x) == ledger' = IF x \in DOMAIN ledger THEN ledger
                         ELSE [y \in DOMAIN ledger \cup {x} |-> IF y = x THEN 0 ELSE ledger[y]]
\* MarkNotified: refresh the entry, or make one.
Mark(x) == ledger' = [y \in DOMAIN ledger \cup {x} |-> IF y = x THEN 0 ELSE ledger[y]]
Sighted(x) == told' = [told EXCEPT ![x] =
                         IF x \in DOMAIN ledger THEN [@ EXCEPT !.age = 0] ELSE [@ EXCEPT !.cut = FALSE]]
Handled(x) == run' = [run EXCEPT !.items = @ \ {x}]
Sending(x, msg) ==
  run' = [run EXCEPT !.items = @ \ {x}, !.item = <<x>>, !.msg = msg]

MarkAndSend(x, msg) ==
  /\ Mark(x) /\ Sighted(x)
  /\ IF x \in DOMAIN ledger THEN Handled(x) ELSE Sending(x, msg)
  /\ UNCHANGED <<fetchVars, rested>>

Announce(x) ==
  /\ run.pc = "matches" /\ run.msg = "none" /\ x \in run.items
  /\ MarkAndSend(x, "event")

\* The ledger cannot be read or written: the item is skipped.
Skip(x) ==
  /\ run.pc \in {"matches", "sources"} /\ run.msg = "none" /\ x \in run.items
  /\ Fault("db")
  /\ Handled(x)
  /\ UNCHANGED <<source, lapsed, cache, fetch, quiet, changes, ledger, told, rested>>

RunStale ==
  /\ run.pc = "matches" /\ run.msg = "none" /\ run.items = {}
  /\ run' = [run EXCEPT !.pc = "sources",
               !.items = {SourceItem(TheFeed, UrlOf[k]) : k \in SourcesOf[TheFeed]}]
  /\ OnlyRun

\* CachedFeedFetchedAt takes the newest copy of the URL, whoever fetched it.
Stale(u) == \A k \in DOMAIN cache : UrlOf[k] = u => cache[k].age > Threshold

Alarm(x) ==
  /\ run.pc = "sources" /\ run.msg = "none" /\ x \in run.items
  /\ Stale(x.id)
  /\ MarkAndSend(x, "warning")

\* A healthy source: an all-clear only if an outage was announced.
AllClear(x) ==
  /\ run.pc = "sources" /\ run.msg = "none" /\ x \in run.items
  /\ ~Stale(x.id)
  /\ IF x \in DOMAIN ledger THEN Sending(x, "all-clear") ELSE Handled(x)
  /\ UNCHANGED <<fetchVars, ledger, told, rested>>

\* At least one target took the message.
Heard(cut) == told' = [told EXCEPT ![TheItem] = [heard |-> run.msg, age |-> 0, cut |-> cut]]
CutShort == told' = [told EXCEPT ![TheItem].cut = TRUE]
MessageDone == run' = [run EXCEPT !.item = <<>>, !.msg = "none"]
RollBack == run' = [run EXCEPT !.msg = "unmark"]

\* The entry of an outage goes with its all-clear; the others stay.
Sent ==
  /\ run.msg \in {"event", "warning", "all-clear"}
  /\ Heard(FALSE)
  /\ IF run.msg = "all-clear" THEN RollBack ELSE MessageDone
  /\ UNCHANGED <<fetchVars, ledger, rested>>

\* Mutation: what could not be delivered stays marked.
UndeliveredMarked ==
  /\ MessageDone
  /\ UNCHANGED <<source, lapsed, cache, fetch, quiet, changes, ledger, rested>>
\* No target was reached: the entry is dropped, so that the next run tries
\* again; that of an all-clear is kept for the same reason.
Undelivered ==
  /\ IF run.msg = "all-clear" THEN MessageDone ELSE RollBack
  /\ UNCHANGED <<source, lapsed, cache, fetch, quiet, changes, ledger, rested>>

SendFails ==
  /\ run.msg \in {"event", "warning", "all-clear"}
  /\ Fault("send")
  /\ UNCHANGED told
  /\ Undelivered

\* Mutation: the entry stays.
UnmarkNot ==
  /\ run.msg = "unmark"
  /\ MessageDone
  /\ UNCHANGED <<fetchVars, ledger, told, rested>>
Unmark ==
  /\ run.msg = "unmark"
  /\ ledger' = [y \in DOMAIN ledger \ {TheItem} |-> ledger[y]]
  /\ MessageDone
  /\ UNCHANGED <<fetchVars, told, rested>>

UnmarkFails ==
  /\ run.msg = "unmark"
  /\ Fault("db")
  /\ CutShort /\ MessageDone
  /\ UNCHANGED <<source, lapsed, cache, fetch, quiet, changes, ledger, rested>>

FeedDone ==
  /\ run.pc = "sources" /\ run.msg = "none" /\ run.items = {}
  /\ run' = [run EXCEPT !.pc = "feeds", !.feed = <<>>]
  /\ OnlyRun

\* The run ends with DeleteNotifiedBefore(now - retention).
Prune ==
  /\ run.pc = "feeds" /\ run.feeds = {}
  /\ ledger' = [y \in {y \in DOMAIN ledger : ledger[y] <= LedgerRetention} |-> ledger[y]]
  /\ run' = Resting /\ rested' = FALSE
  /\ UNCHANGED <<fetchVars, told>>

\* A ledger that cannot be pruned is left as it is; without the list of the
\* feeds there is no run.
RunFails ==
  /\ \/ run.pc = "feeds" /\ run.feeds = {}
     \/ run.pc = "idle" /\ rested
  /\ Fault("db")
  /\ run' = Resting /\ rested' = FALSE
  /\ UNCHANGED <<source, lapsed, cache, fetch, quiet, changes, ledger, told>>

\* The process ends: by a crash, or by a shutdown, whose cancelled context
\* fails every statement and request from here on, the roll-back included.
\* A message under way may have arrived.  The process is down for any time.
Stop ==
  /\ run.pc # "down"
  /\ Fault("stop")
  /\ run' = [Resting EXCEPT !.pc = "down"]
  /\ fetch' = [a \in Fetchers |-> Idle]
  /\ IF run.msg = "none" THEN UNCHANGED told
     ELSE \/ run.msg # "unmark" /\ Heard(TRUE)
          \/ CutShort
  /\ UNCHANGED <<source, lapsed, cache, quiet, changes, ledger, rested>>

Restart ==
  /\ run.pc = "down"
  /\ run' = Resting
  /\ OnlyRun

\* The interval of the notifier is shorter than a tick: while the process is
\* up a run ends before the next tick.
Tick ==
  /\ ~rested \/ run.pc = "down"
  /\ Elapse
  /\ ledger' = [x \in DOMAIN ledger |-> Older(ledger[x])]
  /\ told' = [x \in Items |-> [told[x] EXCEPT !.age = Older(@)]]
  /\ rested' = TRUE
  /\ UNCHANGED run

-----------------------------------------------------------------------------

Init ==
  /\ FetchInit
  /\ ledger = [x \in {} |-> 0]
  /\ run = Resting
  /\ told = [x \in Items |-> [heard |-> "nothing", age |-> 0, cut |-> FALSE]]
  /\ rested = TRUE

OnlyFetches == UNCHANGED <<ledger, run, told, rested>>

\* A request for a calendar.
Asks(a) ==
  /\ run.pc # "down"
  /\ Return(a) \/ \E k \in Keys, ttl \in Ttls : Begin(a, k, ttl) \/ BeginFails(a, k, ttl)
CallStep(a) == Call(a) /\ OnlyFetches

RunStep ==
  \/ Start \/ Merged \/ Fetched \/ RunStale \/ Sent \/ Unmark \/ FeedDone \/ Prune
  \/ \E f \in Feeds : NextFeed(f)
  \/ \E k \in Keys : Fetch(k)
  \/ \E x \in Items : Announce(x) \/ Alarm(x) \/ AllClear(x)
  \/ CallStep(Watcher)

Others ==
  \/ Sources /\ OnlyFetches
  \/ run.pc # "down" /\ Cleanup /\ OnlyFetches
  \/ \E a \in Fetchers \ {Watcher} : CallStep(a) \/ (Asks(a) /\ OnlyFetches)

FaultStep == SendFails \/ UnmarkFails \/ RunFails \/ Stop \/ \E x \in Items : Skip(x)

Next == RunStep \/ Others \/ FaultStep \/ Restart \/ Tick

Spec == Init /\ [][Next]_vars

\* The notifier runs on its interval, calls are answered or time out,
\* a stopped process is restarted, and time passes; nobody has to ask for a
\* calendar.
FairSpec ==
  /\ Spec /\ WF_vars(RunStep) /\ WF_vars(Restart) /\ WF_vars(Tick)
  /\ \A a \in Fetchers : WF_vars(CallStep(a))

-----------------------------------------------------------------------------
(* Properties.                                                             *)

\* Type correctness of the fetches, the ledger and the notifier's run.
TypeOK ==
  /\ FetchTypeOK
  /\ DOMAIN ledger \subseteq Items /\ ledger \in [DOMAIN ledger -> Ages]
  /\ told \in [Items -> [heard : {"nothing", "event", "warning", "all-clear"},
                          age : Ages, cut : BOOLEAN]]
  /\ rested \in BOOLEAN
  /\ run.pc \in {"idle", "feeds", "merge", "matches", "sources", "down"}
  /\ run.feeds \subseteq Feeds /\ run.todo \subseteq Keys /\ run.items \subseteq Items
  /\ run.msg \in {"none", "event", "warning", "all-clear", "unmark"}

\* "Sends exactly one warning [...] and exactly one all-clear when the source
\* works again" (CHANGELOG.md:145-146), and an event is announced once: a
\* message is repeated only when its item went unseen for longer than the
\* ledger keeps entries.
MessagesAlternate ==
  LET heard == told[TheItem].heard
      forgotten == told[TheItem].age > LedgerRetention
  IN  /\ run.msg = "event" => heard = "nothing" \/ forgotten
      /\ run.msg = "warning" => heard # "warning" \/ forgotten
      /\ run.msg = "all-clear" => heard = "warning" \/ told[TheItem].cut

\* "Delivery is now confirmed first" (CHANGELOG.md:255): between two
\* messages the ledger holds only what a target has heard.
DeliveryConfirmed ==
  run.msg = "none" => \A x \in DOMAIN ledger : told[x].heard \in {"event", "warning"}

\* The same, but for messages cut short: each is undeliverable and its mark
\* cannot be taken back.
LedgerHonest ==
  run.msg = "none" =>
    \A x \in DOMAIN ledger : told[x].cut \/ told[x].heard \in {"event", "warning"}

\* An outage that lasts is reported, and its end too, whatever messages were
\* undeliverable before: each is "retried on the next run" (CHANGELOG.md:147),
\* unless it was cut short.
OutagesReported ==
  \A f \in Feeds : \A k \in SourcesOf[f] :
    LET x == SourceItem(f, UrlOf[k])
    IN  /\ Stale(x.id) ~> told[x].heard = "warning" \/ told[x].cut \/ ~Stale(x.id)
        /\ (~Stale(x.id) /\ told[x].heard = "warning")
             ~> told[x].heard = "all-clear" \/ Stale(x.id)
=============================================================================
