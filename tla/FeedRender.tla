----------------------------- MODULE FeedRender -----------------------------
(***************************************************************************)
(* internal/feed: a request for a feed.  Service.merge reads the sources   *)
(* one after the other and takes their events in one by one; the rules are *)
(* applied in order; Render attaches the time zones the result refers to   *)
(* and writes it, Matches and Preview answer from the events.              *)
(*                                                                         *)
(* A request remembers nothing of the one before.  Whether a source        *)
(* answers, and with what, is FeedFetch's.                                 *)
(***************************************************************************)
EXTENDS Pipeline, Sequences

CONSTANTS
  Sources,      \* the feed's sources, a sequence of URLs
  RuleLists,    \* the rules a feed may have, sequences of rule configs
  Calendars,    \* what a source may hold: [zones: set of TZIDs, events: sequence]
  Again         \* bound: the rule lists under which a second request follows

Urls == {Sources[i] : i \in DOMAIN Sources}
Events == UNION {{c.events[i] : i \in DOMAIN c.events} : c \in Calendars}

\* A UID made up here, [key, n], ends in "@tidydav" in the code; no source is
\* taken to use such a one.  What has no TZID is no zone a source defines.
ASSUME RenderAssumption ==
  /\ Sources \in Seq(Urls)
  /\ \A c \in Calendars :
       c.events \in Seq(Events) /\ c.zones \cap {Utc, Floating, DateOnly} = {}
  /\ \A e \in Events : Text(e, "UID") # None => DOMAIN Text(e, "UID") # {"key", "n"}

VARIABLES
  rules,        \* the feed's rules, the same for the whole behaviour
  pc,
  todo,         \* sources still to fetch
  src,          \* the source in hand
  rest,         \* its events still to take in
  fetched,      \* how many sources answered
  count,        \* events looked at
  seenUID,      \* identities taken in
  uidSeq,       \* key -> events named after it
  tzdefs,       \* TZID -> the source that defined it first
  merged,       \* the calendar's events
  original,     \* the events before the rules, for Preview
  step,         \* the rule to apply next
  matched,      \* what the rules so far report
  answer,       \* what the request returned
  requests,     \* bound: requests begun
  offered,      \* witness: every event looked at
  defined,      \* witness: the zones of each source read, in order
  issued        \* witness: every name made up, over all requests

mergeVars == <<todo, src, rest, fetched, count, seenUID, uidSeq, tzdefs, offered, defined>>
vars == <<rules, pc, mergeVars, merged, original, step, matched, answer, requests, issued>>

Nothing == [x \in {} |-> x]
Lookup(m, k, default) == IF k \in DOMAIN m THEN m[k] ELSE default
Put(m, k, v) == [x \in DOMAIN m \cup {k} |-> IF x = k THEN v ELSE m[x]]

\* Mutation: an override counts as a copy of its series.
IdentityUidOnly(e) == <<Text(e, "UID")>>
\* An override shares its series' UID and is told apart by RECURRENCE-ID.
Identity(e) == <<Text(e, "UID"), Raw(e, "RECURRENCE-ID")>>

-----------------------------------------------------------------------------
(* The merge.                                                              *)

\* Down with nothing cached, or not a calendar: the feed goes on without it.
SkipSource ==
  /\ pc = "fetch" /\ todo # <<>>
  /\ todo' = Tail(todo)
  /\ UNCHANGED <<rules, pc, src, rest, fetched, count, seenUID, uidSeq, tzdefs, offered, defined,
                 merged, original, step, matched, answer, requests, issued>>

FirstDefined(defs, url, zones) ==
  [z \in DOMAIN defs \cup zones |-> IF z \in DOMAIN defs THEN defs[z] ELSE url]

ReadSource(c) ==
  /\ pc = "fetch" /\ todo # <<>>
  /\ pc' = "take"
  /\ src' = Head(todo) /\ todo' = Tail(todo)
  /\ fetched' = fetched + 1
  /\ tzdefs' = FirstDefined(tzdefs, Head(todo), c.zones)
  /\ defined' = Append(defined, [url |-> Head(todo), zones |-> c.zones])
  /\ rest' = c.events
  /\ UNCHANGED <<rules, count, seenUID, uidSeq, offered,
                 merged, original, step, matched, answer, requests, issued>>

\* An event as it was read.
InHand == [at |-> count + 1, src |-> src, props |-> Head(rest).props, alarms |-> Head(rest).alarms]

\* Go-ical wants a DTSTAMP; it is made from DTSTART.
EnsureDTStamp(e) ==
  IF "DTSTAMP" \in DOMAIN e.props THEN e
  ELSE SetText(e, "DTSTAMP", IF StartOf(e) = None THEN 0 ELSE StartOf(e))

Look ==
  /\ pc = "take" /\ rest # <<>>
  /\ rest' = Tail(rest)
  /\ count' = count + 1
  /\ offered' = offered \cup {InHand}
  /\ UNCHANGED <<rules, pc, todo, src, fetched, tzdefs, defined,
                 original, step, matched, answer, requests>>

TakeEvent ==
  /\ Look
  /\ Text(InHand, "UID") # None /\ Identity(InHand) \notin seenUID
  /\ seenUID' = seenUID \cup {Identity(InHand)}
  /\ merged' = merged \cup {EnsureDTStamp(InHand)}
  /\ UNCHANGED <<uidSeq, issued>>

DropDuplicate ==
  /\ Look
  /\ Text(InHand, "UID") # None /\ Identity(InHand) \in seenUID
  /\ UNCHANGED <<seenUID, uidSeq, merged, issued>>

\* What syntheticUID hashes.
Fingerprint(e) ==
  [url |-> e.src, summary |-> Text(e, "SUMMARY"), start |-> Raw(e, "DTSTART"),
   location |-> Text(e, "LOCATION")]

\* Mutations: one sequence for all names; no suffix.
SyntheticUIDGlobal(e) == [key |-> Fingerprint(e), n |-> count]
SyntheticUIDBare(e) == [key |-> Fingerprint(e), n |-> 0]
\* The n-th event of a key gets suffix n.
SyntheticUID(e) == [key |-> Fingerprint(e), n |-> Lookup(uidSeq, Fingerprint(e), 0)]

\* How many like it, nameless and from its source, came before.
Twins(e) == {d \in offered : Text(d, "UID") = None /\ Fingerprint(d) = Fingerprint(e)}

\* Mutation: the sequence does not advance.
AdvanceNot(key) == Lookup(uidSeq, key, 0)
Advance(key) == Lookup(uidSeq, key, 0) + 1

NameEvent ==
  /\ Look
  /\ Text(InHand, "UID") = None
  /\ LET key == Fingerprint(InHand)
         uid == SyntheticUID(InHand)
     IN  /\ uidSeq' = Put(uidSeq, key, Advance(key))
         /\ merged' = merged \cup {EnsureDTStamp(SetText(InHand, "UID", uid))}
         /\ issued' = issued \cup {[key |-> key, nth |-> Cardinality(Twins(InHand)), uid |-> uid]}
  /\ UNCHANGED seenUID

SourceDone ==
  /\ pc = "take" /\ rest = <<>>
  /\ pc' = "fetch"
  /\ UNCHANGED <<rules, mergeVars, merged, original, step, matched, answer, requests, issued>>

-----------------------------------------------------------------------------
(* The rules and the answers.                                              *)

Fail ==
  /\ pc' = "failed"
  /\ UNCHANGED <<rules, mergeVars, merged, original, step, matched, answer, requests, issued>>

\* No source at all is an empty calendar; none that answered is an error.
NothingFetched == pc = "fetch" /\ todo = <<>> /\ fetched = 0 /\ Sources # <<>> /\ Fail

MergeDone == pc = "fetch" /\ todo = <<>> /\ ~(fetched = 0 /\ Sources # <<>>)

\* BuildPipeline: a disabled rule may be invalid.
Buildable == \A i \in DOMAIN rules : rules[i].enabled => Valid(rules[i])

BuildFails == MergeDone /\ ~Buildable /\ Fail

\* Preview has looked at the events before.
Build ==
  /\ MergeDone /\ Buildable
  /\ pc' = "rules"
  /\ original' = {MatchedEvent(e) : e \in merged}
  /\ UNCHANGED <<rules, mergeVars, merged, step, matched, answer, requests, issued>>

Applying == pc = "rules" /\ step \in DOMAIN rules

SkipDisabled ==
  /\ Applying /\ ~rules[step].enabled
  /\ step' = step + 1
  /\ UNCHANGED <<rules, pc, mergeVars, merged, original, matched, answer, requests, issued>>

ApplyRule ==
  /\ Applying /\ rules[step].enabled
  /\ step' = step + 1
  /\ merged' = Apply(rules[step], merged)
  /\ LET m == Matched(rules[step], merged)
     IN  matched' = IF m = {} THEN matched
                    ELSE Append(matched, [rule |-> rules[step].type, events |-> m])
  /\ UNCHANGED <<rules, pc, mergeVars, original, answer, requests, issued>>

Applied == pc = "rules" /\ step \notin DOMAIN rules

\* Mutation: only the starts are looked at.
ReferencedTZIDsOfStarts(cal) ==
  {Text(e, "DTSTART").zone : e \in {e \in cal : Text(e, "DTSTART") # None}}
    \ {Utc, Floating, DateOnly}
\* The TZIDs the properties of the events carry, whichever these are.
ReferencedTZIDs(cal) ==
  {p.zone : p \in UNION {TimeProps(e) : e \in cal}} \ {Utc, Floating, DateOnly}

\* The source's definition, else a generated one; a zone nobody knows has none.
ZoneDefs(tzids) ==
  [z \in tzids \cap (DOMAIN tzdefs \cup IanaZones) |-> Lookup(tzdefs, z, None)]

\* Go-ical refuses an event without UID or DTSTAMP.
Encodable(cal) == \A e \in cal : {"UID", "DTSTAMP"} \subseteq DOMAIN e.props

Respond(a) ==
  /\ Applied
  /\ pc' = "done"
  /\ answer' = a
  /\ UNCHANGED <<rules, mergeVars, merged, original, step, matched, requests, issued>>

Render == /\ Encodable(merged)
          /\ Respond([kind |-> "ics", events |-> merged, zones |-> ZoneDefs(ReferencedTZIDs(merged))])
RenderFails == Applied /\ ~Encodable(merged) /\ Fail
MatchesAnswer == Respond([kind |-> "matches", matches |-> matched])
Preview == Respond([kind |-> "preview", original |-> original,
                    transformed |-> {MatchedEvent(e) : e \in merged}])

\* The next request, from nothing.
Request ==
  /\ pc \in {"done", "failed"} /\ rules \in Again /\ requests < 2
  /\ requests' = requests + 1
  /\ pc' = "fetch" /\ todo' = Sources
  /\ src' = None /\ rest' = <<>> /\ fetched' = 0 /\ count' = 0
  /\ seenUID' = {} /\ uidSeq' = Nothing /\ tzdefs' = Nothing
  /\ merged' = {} /\ original' = {} /\ step' = 1 /\ matched' = <<>> /\ answer' = None
  /\ offered' = {} /\ defined' = <<>>
  /\ UNCHANGED <<rules, issued>>

Init ==
  /\ rules \in RuleLists
  /\ pc = "fetch" /\ todo = Sources
  /\ src = None /\ rest = <<>> /\ fetched = 0 /\ count = 0
  /\ seenUID = {} /\ uidSeq = Nothing /\ tzdefs = Nothing
  /\ merged = {} /\ original = {} /\ step = 1 /\ matched = <<>> /\ answer = None
  /\ requests = 1 /\ offered = {} /\ defined = <<>> /\ issued = {}

Next ==
  \/ SkipSource \/ \E c \in Calendars : ReadSource(c)
  \/ TakeEvent \/ DropDuplicate \/ NameEvent \/ SourceDone
  \/ NothingFetched \/ BuildFails \/ Build \/ SkipDisabled \/ ApplyRule
  \/ Render \/ RenderFails \/ MatchesAnswer \/ Preview
  \/ Request

Spec == Init /\ [][Next]_vars
-----------------------------------------------------------------------------
(* Properties.                                                             *)

\* No rule takes away what tells events apart.
KeepsIdentity ==
  \A i \in DOMAIN rules : rules[i].type = "strip" /\ rules[i].enabled
    => rules[i].fields \cap {"UID", "RECURRENCE-ID"} = {}

\* Type correctness of the merge's bookkeeping.
TypeOK ==
  /\ pc \in {"fetch", "take", "rules", "done", "failed"}
  /\ count \in Nat /\ fetched \in 0 .. Len(Sources)
  /\ \A e \in merged : e.at \in 1 .. count
  /\ \A k \in DOMAIN uidSeq : uidSeq[k] \in Nat \ {0}

\* One event to a client (RFC 5545 3.8.4.4).
SameEvent(d, e) ==
  Text(d, "UID") = Text(e, "UID") /\ Raw(d, "RECURRENCE-ID") = Raw(e, "RECURRENCE-ID")

\* The published calendar never holds two events a client takes for one
\* (service.go:188-204): not those of two sources, nor names made up for
\* events without a UID, whatever rules follow.
OneEventPerIdentity ==
  KeepsIdentity => \A d, e \in merged : SameEvent(d, e) => d = e

\* The content of an event the merge must not touch.
Content(e) == [props |-> RemoveAll(e, {"UID", "DTSTAMP"}).props, alarms |-> e.alarms, src |-> e.src]

\* "Both must survive the merge" (service.go:190): of the events the sources
\* gave, exactly the repetitions of an earlier one's identity are left out.
\* Overrides, and copies without a UID, are not.
MergeKeepsEach ==
  pc \in {"fetch", "take"} =>
    \A e \in offered :
      LET repeats == \E d \in offered :
                       d.at < e.at /\ Text(e, "UID") # None /\ SameEvent(d, e)
      IN  ~repeats <=> \E m \in merged : m.at = e.at /\ Content(m) = Content(e)

\* "Clients see stable identities across fetches" (service.go:194-195): the
\* name made up for an event depends on the event, its source and the copies
\* of it before, not on what else a request finds or misses.
StableNames ==
  \A i, j \in issued : <<i.key, i.nth>> = <<j.key, j.nth>> <=> i.uid = j.uid

\* "RFC 5545 requires it; strict clients misread local times otherwise"
\* (service.go:216-219): the zone of every time that is published, be it a
\* start, an exception, an extra date or a client's own, is defined by the
\* first source that defines it, if anyone knows it; and no zone is defined
\* that the rules have left no time in.
TimeIn(e, z) ==
  \E f \in DOMAIN e.props :
    \/ f \in SingleTimes /\ e.props[f].zone = z
    \/ f \in TimeLists /\ \E n \in DOMAIN e.props[f] : e.props[f][n].zone = z
FirstDefiner(z) ==
  LET definers == {i \in DOMAIN defined : z \in defined[i].zones}
  IN  IF definers = {} THEN None
      ELSE defined[CHOOSE i \in definers : \A j \in definers : i <= j].url
EveryZoneDefined ==
  pc = "done" /\ answer.kind = "ics" =>
    LET known == IanaZones \cup UNION {defined[i].zones : i \in DOMAIN defined}
    IN  answer.zones = [z \in {z \in known : \E e \in answer.events : TimeIn(e, z)}
                          |-> FirstDefiner(z)]

\* The occurrences of an event, by their starts; of an open rule, one in the
\* time to come.
Starts(e) ==
  LET rule == Text(e, "RRULE")
  IN  {StartOf(e)} \cup
      CASE rule = None -> {}
        [] rule # None /\ rule.until = None -> {Cutoff}
        [] OTHER -> {t \in StartOf(e) .. rule.until : (t - StartOf(e)) % rule.every = 0}

\* The starts a zoneless time may come to stand for: it is taken for UTC until
\* a timezone rule reads it in a zone of its own.
AllRules == UNION {{rs[i] : i \in DOMAIN rs} : rs \in RuleLists}
Assumed ==
  {0} \cup {OffsetOf(r.floating) : r \in {r \in AllRules : r.type = "timezone"}}
MayStart(e) ==
  LET dt == Text(e, "DTSTART")
  IN  CASE StartOf(e) = None -> {}
        [] StartOf(e) # None /\ dt.zone = Floating -> {dt.when - o : o \in Assumed}
        [] OTHER -> {StartOf(e)}

\* Times are numbers, and the last start a series allows is not before its
\* first, in whatever zone that one is read.
Timely(e) ==
  LET until == Text(e, "RRULE").until
  IN  /\ \A f \in {"DTSTART", "DTEND"} : Text(e, f) # None => Text(e, f).when \in Int
      /\ Text(e, "RRULE") # None /\ until # None =>
           until \in Int /\ \A t \in MayStart(e) : t <= until
TimesFit == None \notin Int /\ Cutoff \in Int /\ \A e \in Events : Timely(e)

\* "Dropping it would delete occurrences that are still to come"
\* (recurrence.go:29-30): the expire rule keeps an event any of whose
\* occurrences ends after the cutoff.  (Of an event without RDATE, in a zone
\* the process knows.)
ExpireKeepsWhatIsToCome ==
  Applying /\ rules[step].type = "expire" =>
    \A e \in merged :
      /\ StartOf(e) # None /\ Text(e, "RDATE") = None
      /\ \E t \in Starts(e) : t + (EndOf(e) - StartOf(e)) >= Cutoff
      => e \in Apply(rules[step], merged)

\* "Remove duplicate events sharing the same key fields (default: summary +
\* date)" (web/src/lib/i18n.ts:179): an event the rule leaves out starts on
\* the date of one it keeps.
DedupKeepsDates ==
  Applying /\ rules[step].type = "dedup" =>
    \A e \in merged : Text(e, "DTSTART") # None =>
      \E d \in Apply(rules[step], merged) :
        /\ Text(d, "DTSTART") # None
        /\ d.props["DTSTART"].when \div DayLength = e.props["DTSTART"].when \div DayLength
=============================================================================
