--------------------------- MODULE NotifierProofs ---------------------------
(***************************************************************************)
(* The notifier for any feeds, sources, events and faults.  Two facts      *)
(* about every item carry the argument: an entry of the ledger was heard,  *)
(* cut short, or is the message under way (Honest); and a message that     *)
(* still stands has an entry at most as old as itself, so that it is       *)
(* repeated only after the ledger forgot it (Remembered).                  *)
(***************************************************************************)
EXTENDS Notifier, TLAPS

-----------------------------------------------------------------------------
(***************************************************************************)
(* What the steps of FeedFetch preserve, for any keys, fetchers, TTLs and  *)
(* faults.  The version a cached copy holds was last current at most a     *)
(* tick before the copy's age says: an answer may be a tick old when it is *)
(* written.  A copy younger than the TTL is thus no older than the TTL.    *)
(***************************************************************************)

\* A tag names the body it came with.
TagOK(row) == row.etag # NoTag => row.etag = row.body

CurrentOK ==
  \A k \in Keys :
    /\ source[k].version <= changes
    /\ \A v \in Versions : v >= source[k].version => lapsed[k][v] = 0
CacheOK ==
  \A k \in DOMAIN cache :
    TagOK(cache[k]) /\ lapsed[k][cache[k].body] <= cache[k].age + 1
FlightOK(f) ==
  /\ f.pc # "idle" => \E k \in Keys : f.key = <<k>>
  /\ f.row # NoRow => TagOK(f.row[1])
  /\ f.pc = "answered" =>
       /\ f.row # NoRow
       /\ lapsed[f.key[1]][f.row[1].body] <= IF f.ticked THEN 1 ELSE 0
  /\ f.from # "none" => f.pc = "done" /\ f.row # NoRow
  /\ f.from = "fresh" => lapsed[f.key[1]][f.row[1].body] <= f.ttl
FlightsOK == \A a \in Fetchers : FlightOK(fetch[a])

FetchInv == FetchTypeOK /\ CurrentOK /\ CacheOK /\ FlightsOK

-----------------------------------------------------------------------------
(* Calls.                                                                  *)

\* A key and a row of a call.
LEMMA FlightParts ==
  ASSUME NEW f \in Flights, FlightOK(f)
  PROVE  /\ f.pc # "idle" => f.key[1] \in Keys /\ f.key = <<f.key[1]>>
         /\ f.row # NoRow => f.row[1] \in Rows /\ f.row = <<f.row[1]>>
<1>1. f.row \in {NoRow} \cup {<<r>> : r \in Rows}
  BY DEF Flights
<1>2. f.pc # "idle" => \E k \in Keys : f.key = <<k>>
  BY DEF FlightOK
<1> QED
  BY <1>1, <1>2

LEMMA IdleFlight == Idle \in Flights /\ FlightOK(Idle)
  BY DEF Idle, Flights, FlightOK, NoRow

\* One call goes on and the tables stay.
LEMMA OneCall ==
  ASSUME FetchInv, NEW a \in Fetchers, NEW f \in Flights, FlightOK(f),
         fetch' = [fetch EXCEPT ![a] = f], UNCHANGED <<source, lapsed, cache, changes>>,
         quiet' \in [Keys -> Ages], faults' \in 0 .. MaxFaults
  PROVE  FetchInv'
<1>1. fetch' \in [Fetchers -> Flights] /\ \A b \in Fetchers : fetch'[b] = IF b = a THEN f ELSE fetch[b]
  BY DEF FetchInv, FetchTypeOK
<1>2. FlightsOK'
  BY <1>1 DEF FetchInv, FlightsOK, FlightOK
<1> QED
  BY <1>1, <1>2 DEF FetchInv, FetchTypeOK, CurrentOK, CacheOK

LEMMA FaultCounts ==
  ASSUME FetchInv, NEW kind, Fault(kind) \/ UNCHANGED faults
  PROVE  faults' \in 0 .. MaxFaults
  BY FetchAssumption DEF FetchInv, FetchTypeOK, Fault

LEMMA SomebodyAsks ==
  ASSUME FetchInv, NEW k \in Keys, quiet' = [quiet EXCEPT ![k] = 0]
  PROVE  quiet' \in [Keys -> Ages]
  BY FetchAssumption DEF FetchInv, FetchTypeOK, Ages

LEMMA BeginKeeps ==
  ASSUME FetchInv, NEW a \in Fetchers, NEW k \in Keys, NEW ttl \in Ttls, Begin(a, k, ttl)
  PROVE  FetchInv'
<1>1. quiet' \in [Keys -> Ages] /\ faults' \in 0 .. MaxFaults
  BY SomebodyAsks DEF Begin, FetchInv, FetchTypeOK
<1>2. CASE Fresh(k, ttl)
  <2>1. PICK r : r = cache[k]
    OBVIOUS
  <2>2. PICK f : f = [pc |-> "done", key |-> <<k>>, ttl |-> ttl, row |-> <<r>>,
                      from |-> "fresh", ticked |-> FALSE]
    OBVIOUS
  <2>3. k \in DOMAIN cache /\ r \in Rows /\ TagOK(r) /\ r.age < ttl /\ lapsed[k][r.body] <= r.age + 1
    BY <1>2, <2>1 DEF Fresh, FetchInv, FetchTypeOK, CacheOK
  <2>4. lapsed[k][r.body] <= ttl
    <3>1. r.age \in Nat /\ ttl \in Nat /\ lapsed[k][r.body] \in Nat
      BY <2>3, FetchAssumption DEF FetchInv, FetchTypeOK, Rows, Ages
    <3> QED
      BY <3>1, <2>3
  <2>5. f \in Flights
    BY <2>2, <2>3 DEF Flights
  <2>6. FlightOK(f)
    BY <2>2, <2>3, <2>4 DEF FlightOK, NoRow
  <2>7. fetch' = [fetch EXCEPT ![a] = f]
    BY <1>2, <2>1, <2>2, <2>3 DEF Begin
  <2> QED
    BY <1>1, <2>5, <2>6, <2>7, OneCall DEF Begin
<1>3. CASE ~Fresh(k, ttl)
  <2>1. PICK row : row = IF k \in DOMAIN cache THEN <<cache[k]>> ELSE NoRow
    OBVIOUS
  <2>2. PICK f : f = [pc |-> "asking", key |-> <<k>>, ttl |-> ttl, row |-> row,
                      from |-> "none", ticked |-> FALSE]
    OBVIOUS
  <2>3. row \in {NoRow} \cup {<<r>> : r \in Rows} /\ (row # NoRow => TagOK(row[1]))
    BY <2>1 DEF FetchInv, FetchTypeOK, CacheOK, NoRow
  <2>5. f \in Flights
    BY <2>2, <2>3 DEF Flights
  <2>6. FlightOK(f)
    BY <2>2, <2>3 DEF FlightOK
  <2>7. fetch' = [fetch EXCEPT ![a] = f]
    BY <1>3, <2>1, <2>2 DEF Begin
  <2> QED
    BY <1>1, <2>5, <2>6, <2>7, OneCall DEF Begin
<1> QED
  BY <1>2, <1>3

LEMMA BeginFailsKeeps ==
  ASSUME FetchInv, NEW a \in Fetchers, NEW k \in Keys, NEW ttl \in Ttls, BeginFails(a, k, ttl)
  PROVE  FetchInv'
<1>1. quiet' \in [Keys -> Ages] /\ faults' \in 0 .. MaxFaults
  BY SomebodyAsks, FaultCounts DEF BeginFails
<1>2. PICK idle : idle = Idle
  OBVIOUS
<1>3. PICK f : f = [idle EXCEPT !.pc = "done", !.key = <<k>>, !.ttl = ttl]
  OBVIOUS
<1>4. idle \in Flights /\ idle.row = NoRow /\ idle.from = "none"
  BY <1>2, IdleFlight DEF Idle
<1>5. f \in Flights /\ f.pc = "done" /\ f.key = <<k>> /\ f.row = NoRow /\ f.from = "none"
  BY <1>3, <1>4 DEF Flights
<1>6. FlightOK(f)
  BY <1>5 DEF FlightOK
<1>7. fetch' = [fetch EXCEPT ![a] = f]
  BY <1>2, <1>3 DEF BeginFails
<1> QED
  BY <1>1, <1>5, <1>6, <1>7, OneCall DEF BeginFails

\* What the source answers is current, and so is the copy a 304 confirms.
LEMMA AnswerIsCurrent ==
  ASSUME FetchInv, NEW a \in Fetchers, fetch[a].pc = "asking"
  PROVE  /\ AnswerRow(a) \in Rows /\ TagOK(AnswerRow(a))
         /\ AnswerRow(a).body = source[KeyOf(a)].version
<1> DEFINE now == source[KeyOf(a)].version
<1>1. fetch[a] \in Flights /\ FlightOK(fetch[a]) /\ KeyOf(a) \in Keys
  BY FlightParts DEF FetchInv, FetchTypeOK, FlightsOK, KeyOf
<1>2. now \in Versions /\ now # NoTag
  BY <1>1 DEF FetchInv, FetchTypeOK, Versions, NoTag
<1>3. 0 \in Ages
  BY FetchAssumption DEF Ages
<1>4. CASE NotModified(a)
  <2>1. RowOf(a) \in Rows /\ TagOK(RowOf(a)) /\ RowOf(a).etag # NoTag /\ RowOf(a).etag = TagOf(now)
    BY <1>1, <1>4, FlightParts DEF NotModified, HasRow, RowOf, FlightOK
  <2>2. RowOf(a).etag = RowOf(a).body /\ RowOf(a).etag = now
    BY <2>1 DEF TagOK, TagOf
  <2>3. AnswerRow(a) = [RowOf(a) EXCEPT !.age = 0]
    BY <1>4 DEF AnswerRow
  <2> QED
    BY <2>1, <2>2, <2>3, <1>3 DEF Rows, TagOK
<1>5. CASE ~NotModified(a)
  <2>1. AnswerRow(a) = [body |-> now, etag |-> TagOf(now), age |-> 0]
    BY <1>5 DEF AnswerRow
  <2> QED
    BY <2>1, <1>2, <1>3 DEF Rows, TagOK, TagOf
<1> QED
  BY <1>4, <1>5

LEMMA AnswerKeeps ==
  ASSUME FetchInv, NEW a \in Fetchers, Answer(a)
  PROVE  FetchInv'
<1>1. PICK g : g = fetch[a]
  OBVIOUS
<1>2. g \in Flights /\ FlightOK(g) /\ g.pc = "asking" /\ g.key[1] = KeyOf(a) /\ KeyOf(a) \in Keys
  BY <1>1, FlightParts DEF FetchInv, FetchTypeOK, FlightsOK, KeyOf, Answer
<1>3. PICK r : r = AnswerRow(a)
  OBVIOUS
<1>4. r \in Rows /\ TagOK(r) /\ r.body = source[g.key[1]].version
  BY <1>2, <1>3, AnswerIsCurrent DEF Answer
<1>5. PICK f : f = [g EXCEPT !.pc = "answered", !.row = <<r>>]
  OBVIOUS
<1>6. /\ f \in Flights /\ f.pc = "answered" /\ f.row = <<r>> /\ f.key = g.key
      /\ f.from = g.from /\ f.ticked \in BOOLEAN
  BY <1>2, <1>4, <1>5 DEF Flights
<1>7. lapsed[f.key[1]][r.body] = 0
  <2>1. source[f.key[1]].version \in Versions /\ f.key[1] \in Keys
    BY <1>2, <1>6 DEF FetchInv, FetchTypeOK
  <2>2. source[f.key[1]].version >= source[f.key[1]].version
    BY <2>1 DEF Versions
  <2> QED
    BY <2>1, <2>2, <1>4, <1>6 DEF FetchInv, CurrentOK
<1>8. FlightOK(f)
  <2>1. f.row # NoRow /\ f.row[1] = r
    BY <1>6 DEF NoRow
  <2>2. f.from = "none" /\ \E k \in Keys : f.key = <<k>>
    BY <1>2, <1>6 DEF FlightOK
  <2> QED
    BY <1>4, <1>6, <1>7, <2>1, <2>2 DEF FlightOK
<1>9. fetch' = [fetch EXCEPT ![a] = f]
  BY <1>1, <1>3, <1>5 DEF Answer
<1> QED
  BY <1>6, <1>8, <1>9, OneCall DEF Answer, FetchInv, FetchTypeOK

LEMMA AnswerFailsKeeps ==
  ASSUME FetchInv, NEW a \in Fetchers, AnswerFails(a)
  PROVE  FetchInv'
<1>1. PICK g : g = fetch[a]
  OBVIOUS
<1>2. g \in Flights /\ FlightOK(g) /\ g.pc = "asking"
  BY <1>1 DEF FetchInv, FetchTypeOK, FlightsOK, AnswerFails, Unanswered
<1>3. PICK f : f = [g EXCEPT !.pc = "done", !.from = IF g.row # NoRow THEN "stale" ELSE "none"]
  OBVIOUS
<1>4. /\ f \in Flights /\ f.pc = "done" /\ f.key = g.key /\ f.row = g.row
      /\ f.from # "fresh" /\ (f.from # "none" => g.row # NoRow)
  BY <1>2, <1>3 DEF Flights
<1>5. FlightOK(f)
  BY <1>2, <1>4 DEF FlightOK
<1>6. fetch' = [fetch EXCEPT ![a] = f]
  BY <1>1, <1>3 DEF AnswerFails, Unanswered, HasRow
<1>7. faults' \in 0 .. MaxFaults
  BY FaultCounts DEF AnswerFails
<1> QED
  BY <1>4, <1>5, <1>6, <1>7, OneCall DEF AnswerFails, Unanswered, FetchInv, FetchTypeOK

\* The caller has the answer.
LEMMA Delivered ==
  ASSUME FetchInv, NEW a \in Fetchers, fetch[a].pc = "answered",
         NEW f, f = [fetch[a] EXCEPT !.pc = "done", !.from = "upstream"]
  PROVE  f \in Flights /\ FlightOK(f)
<1>1. PICK g : g = fetch[a]
  OBVIOUS
<1>2. g \in Flights /\ FlightOK(g) /\ g.pc = "answered"
  BY <1>1 DEF FetchInv, FetchTypeOK, FlightsOK
<1>3. f \in Flights /\ f.pc = "done" /\ f.from = "upstream" /\ f.key = g.key /\ f.row = g.row
  BY <1>1, <1>2 DEF Flights
<1> QED
  BY <1>2, <1>3 DEF FlightOK

LEMMA PutFailsKeeps ==
  ASSUME FetchInv, NEW a \in Fetchers, PutFails(a)
  PROVE  FetchInv'
<1>1. PICK f : f = [fetch[a] EXCEPT !.pc = "done", !.from = "upstream"]
  OBVIOUS
<1>2. f \in Flights /\ FlightOK(f)
  BY <1>1, Delivered DEF PutFails
<1>3. fetch' = [fetch EXCEPT ![a] = f] /\ faults' \in 0 .. MaxFaults
  BY <1>1, FaultCounts DEF PutFails, Deliver
<1> QED
  BY <1>2, <1>3, OneCall DEF PutFails, FetchInv, FetchTypeOK

LEMMA PutKeeps ==
  ASSUME FetchInv, NEW a \in Fetchers, Put(a)
  PROVE  FetchInv'
<1>1. PICK g : g = fetch[a]
  OBVIOUS
<1>2. g \in Flights /\ FlightOK(g) /\ g.pc = "answered"
  BY <1>1 DEF FetchInv, FetchTypeOK, FlightsOK, Put
<1>3. PICK k \in Keys : g.key = <<k>> /\ k = KeyOf(a)
  BY <1>1, <1>2 DEF FlightOK, KeyOf
<1>4. PICK r \in Rows : g.row = <<r>> /\ r = RowOf(a)
  BY <1>1, <1>2, FlightParts DEF FlightOK, RowOf
<1>5. TagOK(r) /\ lapsed[k][r.body] <= 1 /\ lapsed[k][r.body] \in Nat
  <2>1. g.row # NoRow /\ g.row[1] = r /\ g.key[1] = k
    BY <1>3, <1>4 DEF NoRow
  <2>2. lapsed[k][r.body] \in Nat
    BY FetchAssumption DEF FetchInv, FetchTypeOK, Rows, Ages
  <2> QED
    BY <1>2, <2>1, <2>2 DEF FlightOK
<1>6. /\ DOMAIN cache' = DOMAIN cache \cup {k}
      /\ \A j \in DOMAIN cache' : cache'[j] = IF j = k THEN r ELSE cache[j]
      /\ cache' \in [DOMAIN cache' -> Rows]
  BY <1>3, <1>4 DEF Put, FetchInv, FetchTypeOK
<1>7. PICK f : f = [fetch[a] EXCEPT !.pc = "done", !.from = "upstream"]
  OBVIOUS
<1>8. f \in Flights /\ FlightOK(f)
  BY <1>7, Delivered DEF Put
<1>9. fetch' = [fetch EXCEPT ![a] = f]
  BY <1>7 DEF Put, Deliver
<1>10. fetch' \in [Fetchers -> Flights] /\ \A b \in Fetchers : fetch'[b] = IF b = a THEN f ELSE fetch[b]
  BY <1>8, <1>9 DEF FetchInv, FetchTypeOK
<1>11. FlightsOK'
  BY <1>8, <1>10 DEF FetchInv, FlightsOK, FlightOK, Put
<1>12. CacheOK'
  <2>1. r.age \in Nat
    BY FetchAssumption DEF Rows, Ages
  <2>2. ASSUME NEW j \in DOMAIN cache' PROVE TagOK(cache'[j]) /\ lapsed[j][cache'[j].body] <= cache'[j].age + 1
    <3>1. CASE j = k
      <4>1. cache'[j] = r
        BY <3>1, <1>6
      <4> QED
        BY <3>1, <4>1, <1>5, <2>1
    <3>2. CASE j # k
      <4>1. cache'[j] = cache[j] /\ j \in DOMAIN cache
        BY <3>2, <1>6
      <4> QED
        BY <4>1 DEF FetchInv, CacheOK
    <3> QED
      BY <3>1, <3>2
  <2> QED
    BY <2>2 DEF CacheOK, Put, TagOK
<1> QED
  BY <1>6, <1>10, <1>11, <1>12 DEF FetchInv, FetchTypeOK, CurrentOK, Put

LEMMA ReturnKeeps ==
  ASSUME FetchInv, NEW a \in Fetchers, Return(a)
  PROVE  FetchInv'
<1>1. PICK f : f = Idle
  OBVIOUS
<1> QED
  BY <1>1, IdleFlight, OneCall DEF Return, FetchInv, FetchTypeOK

LEMMA CallKeeps ==
  ASSUME FetchInv, NEW a \in Fetchers, Call(a)
  PROVE  FetchInv'
  BY AnswerKeeps, AnswerFailsKeeps, PutKeeps, PutFailsKeeps DEF Call

-----------------------------------------------------------------------------
(* Sources, time and the cleanup.                                          *)

LEMMA SourcesKeep == ASSUME FetchInv, Sources PROVE FetchInv'
<1>1. PICK k \in Keys : Change(k) \/ GoDown(k) \/ ComeBack(k)
  BY DEF Sources
<1>2. source[k] \in [version : Versions, ok : BOOLEAN]
  BY DEF FetchInv, FetchTypeOK
<1>3. faults' \in 0 .. MaxFaults
  BY <1>1, FaultCounts DEF Change, GoDown, ComeBack
<1>4. UNCHANGED <<lapsed, cache, fetch, quiet>>
  BY <1>1 DEF Change, GoDown, ComeBack
<1>5. /\ changes' \in 0 .. MaxChanges /\ changes <= changes'
      /\ source' \in [Keys -> [version : Versions, ok : BOOLEAN]]
      /\ \A j \in Keys : source[j].version <= source'[j].version /\ source'[j].version <= changes'
  <2>1. CASE Change(k)
    <3>1. PICK s : s = [source[k] EXCEPT !.version = source[k].version + 1]
      OBVIOUS
    <3>2. source' = [source EXCEPT ![k] = s] /\ changes' = changes + 1 /\ changes < MaxChanges
      BY <2>1, <3>1 DEF Change
    <3>3. source[k].version \in Nat /\ source[k].version <= changes /\ changes \in Nat /\ MaxChanges \in Nat
      BY <1>2, FetchAssumption DEF FetchInv, FetchTypeOK, CurrentOK, Versions
    <3>4. s \in [version : Versions, ok : BOOLEAN] /\ s.version = source[k].version + 1
      BY <1>2, <3>1, <3>2, <3>3 DEF Versions
    <3>5. \A j \in Keys : source'[j] = IF j = k THEN s ELSE source[j]
      BY <3>2 DEF FetchInv, FetchTypeOK
    <3>6. \A j \in Keys : source[j].version \in Nat /\ source[j].version <= changes
      BY DEF FetchInv, FetchTypeOK, CurrentOK, Versions
    <3> QED
      BY <3>2, <3>3, <3>4, <3>5, <3>6 DEF FetchInv, FetchTypeOK
  <2>2. CASE GoDown(k) \/ ComeBack(k)
    <3>1. PICK b \in BOOLEAN : source' = [source EXCEPT ![k].ok = b] /\ changes' = changes
      BY <2>2 DEF GoDown, ComeBack
    <3>2. PICK s : s = [source[k] EXCEPT !.ok = b]
      OBVIOUS
    <3>3. s \in [version : Versions, ok : BOOLEAN] /\ s.version = source[k].version
      BY <1>2, <3>2
    <3>4. \A j \in Keys : source'[j] = IF j = k THEN s ELSE source[j]
      BY <3>1, <3>2 DEF FetchInv, FetchTypeOK
    <3>5. \A j \in Keys : source[j].version \in Nat /\ source[j].version <= changes
      BY DEF FetchInv, FetchTypeOK, CurrentOK, Versions
    <3> QED
      BY <3>1, <3>2, <3>3, <3>4, <3>5 DEF FetchInv, FetchTypeOK
  <2> QED
    BY <1>1, <2>1, <2>2
<1>6. CurrentOK'
  <2>1. ASSUME NEW j \in Keys, NEW v \in Versions, v >= source'[j].version
        PROVE  lapsed[j][v] = 0
    <3>1. source[j].version \in Nat /\ source'[j].version \in Nat /\ v \in Nat
      BY <1>5 DEF FetchInv, FetchTypeOK, Versions
    <3> QED
      BY <2>1, <3>1, <1>5 DEF FetchInv, CurrentOK
  <2> QED
    BY <1>4, <1>5, <2>1 DEF CurrentOK
<1> QED
  BY <1>3, <1>4, <1>5, <1>6 DEF FetchInv, FetchTypeOK, CacheOK, FlightsOK, FlightOK

LEMMA CleanupKeeps == ASSUME FetchInv, Cleanup PROVE FetchInv'
<1>1. /\ DOMAIN cache' \subseteq DOMAIN cache
      /\ \A k \in DOMAIN cache' : cache'[k] = cache[k]
      /\ cache' \in [DOMAIN cache' -> Rows]
  BY DEF Cleanup, FetchInv, FetchTypeOK
<1> QED
  BY <1>1 DEF Cleanup, FetchInv, FetchTypeOK, CurrentOK, CacheOK, FlightsOK, FlightOK

LEMMA OlderAge ==
  ASSUME NEW n \in Ages
  PROVE  Older(n) \in Ages /\ n <= Older(n) /\ Older(n) <= n + 1 /\ (n < Oldest => Older(n) = n + 1)
  BY FetchAssumption DEF Older, Ages

LEMMA ElapseKeeps == ASSUME FetchInv, Elapse PROVE FetchInv'
<1>1. /\ lapsed' \in [Keys -> [Versions -> Ages]]
      /\ \A k \in Keys : \A v \in Versions :
           lapsed'[k][v] = IF v < source[k].version THEN Older(lapsed[k][v]) ELSE 0
  <2>1. \A k \in Keys : \A v \in Versions : Older(lapsed[k][v]) \in Ages
    BY OlderAge DEF FetchInv, FetchTypeOK
  <2>2. 0 \in Ages
    BY FetchAssumption DEF Ages
  <2> QED
    BY <2>1, <2>2 DEF Elapse
<1>2. \A k \in Keys : \A v \in Versions : lapsed[k][v] \in Ages /\ lapsed'[k][v] \in Ages
  BY <1>1 DEF FetchInv, FetchTypeOK
<1>3. quiet' \in [Keys -> Ages]
  BY OlderAge DEF Elapse, FetchInv, FetchTypeOK
<1>4. CurrentOK'
  <2>1. ASSUME NEW k \in Keys, NEW v \in Versions, v >= source[k].version
        PROVE  lapsed'[k][v] = 0
    <3>1. v \in Nat /\ source[k].version \in Nat
      BY DEF FetchInv, FetchTypeOK, Versions
    <3> QED
      BY <1>1, <2>1, <3>1
  <2> QED
    BY <2>1 DEF FetchInv, CurrentOK, Elapse
<1>5. /\ DOMAIN cache' = DOMAIN cache /\ cache' \in [DOMAIN cache' -> Rows]
      /\ \A k \in DOMAIN cache : /\ cache'[k].body = cache[k].body /\ cache'[k].etag = cache[k].etag
                                 /\ cache'[k].age = Older(cache[k].age)
  <2>1. \A k \in DOMAIN cache : cache[k] \in Rows
    BY DEF FetchInv, FetchTypeOK
  <2>2. ASSUME NEW k \in DOMAIN cache
        PROVE  LET r == [cache[k] EXCEPT !.age = Older(cache[k].age)]
               IN  r \in Rows /\ r.body = cache[k].body /\ r.etag = cache[k].etag
                   /\ r.age = Older(cache[k].age)
    BY <2>1, OlderAge DEF Rows
  <2> QED
    BY <2>2 DEF Elapse
<1>6. CacheOK'
  <2> SUFFICES ASSUME NEW k \in DOMAIN cache
               PROVE  TagOK(cache'[k]) /\ lapsed'[k][cache'[k].body] <= cache'[k].age + 1
    BY <1>5 DEF CacheOK
  <2>1. k \in Keys /\ cache[k] \in Rows /\ TagOK(cache[k]) /\ lapsed[k][cache[k].body] <= cache[k].age + 1
    BY DEF FetchInv, FetchTypeOK, CacheOK
  <2>2. PICK v \in Versions : v = cache[k].body
    BY <2>1 DEF Rows
  <2>3. PICK l \in Ages : l = lapsed[k][v]
    BY <2>1, <1>2
  <2>4. PICK n \in Ages : n = cache[k].age
    BY <2>1 DEF Rows
  <2>5. Older(l) <= Older(n) + 1 /\ 0 <= Older(n) + 1
    BY <2>1, <2>2, <2>3, <2>4, FetchAssumption DEF Older, Ages
  <2>6. lapsed'[k][v] <= cache'[k].age + 1
    BY <2>1, <2>2, <2>3, <2>4, <2>5, <1>1, <1>5
  <2> QED
    BY <2>1, <2>2, <2>6, <1>5 DEF TagOK
<1>7. ASSUME NEW a \in Fetchers PROVE fetch'[a] \in Flights /\ FlightOK(fetch[a])'
  <2>1. PICK g : g = fetch[a]
    OBVIOUS
  <2>2. g \in Flights /\ FlightOK(g)
    BY <2>1 DEF FetchInv, FetchTypeOK, FlightsOK
  <2>3. CASE InFlight(a)
    <3>1. PICK f : f = [g EXCEPT !.ticked = TRUE]
      OBVIOUS
    <3>2. /\ f \in Flights /\ f.pc = g.pc /\ f.row = g.row /\ f.key = g.key /\ f.from = g.from /\ f.ticked
          /\ ~g.ticked /\ g.pc \in {"asking", "answered"}
      BY <2>1, <2>2, <2>3, <3>1 DEF Flights, Elapse, InFlight
    <3>3. fetch'[a] = f
      BY <2>1, <2>3, <3>1 DEF Elapse
    <3>4. FlightOK(f)'
      <4>1. CASE g.pc = "answered"
        <5>1. g.row # NoRow /\ g.key[1] \in Keys /\ g.row[1] \in Rows
              /\ lapsed[g.key[1]][g.row[1].body] <= 0
          BY <2>2, <3>2, <4>1, FlightParts DEF FlightOK
        <5>2. PICK v \in Versions : v = g.row[1].body
          BY <5>1 DEF Rows
        <5>3. lapsed'[g.key[1]][v] <= 1
          BY <5>1, <5>2, <1>1, <1>2, OlderAge DEF Ages
        <5> QED
          BY <2>2, <3>2, <4>1, <5>1, <5>2, <5>3 DEF FlightOK
      <4>2. CASE g.pc = "asking"
        BY <2>2, <3>2, <4>2 DEF FlightOK
      <4> QED
        BY <3>2, <4>1, <4>2
    <3> QED
      BY <3>2, <3>3, <3>4
  <2>4. CASE ~InFlight(a)
    <3>1. fetch'[a] = Idle
      BY <2>4 DEF Elapse
    <3>2. FlightOK(Idle)'
      BY DEF Idle, FlightOK, NoRow
    <3> QED
      BY <3>1, <3>2, IdleFlight
  <2> QED
    BY <2>3, <2>4
<1>8. FlightsOK' /\ fetch' \in [Fetchers -> Flights]
  BY <1>7 DEF FlightsOK, Elapse
<1> QED
  BY <1>1, <1>3, <1>4, <1>5, <1>6, <1>8 DEF FetchInv, FetchTypeOK, Elapse

-----------------------------------------------------------------------------

LEMMA FetchInitially == FetchInit => FetchInv
<1> SUFFICES ASSUME FetchInit PROVE FetchInv
  OBVIOUS
<1>1. 0 \in Ages /\ 0 \in Versions /\ 0 \in 0 .. MaxChanges /\ 0 \in 0 .. MaxFaults
  BY FetchAssumption DEF Ages, Versions
<1>2. FetchTypeOK
  BY <1>1, IdleFlight DEF FetchInit, FetchTypeOK
<1>3. CurrentOK /\ CacheOK /\ FlightsOK
  BY <1>1, IdleFlight DEF FetchInit, CurrentOK, CacheOK, FlightsOK
<1> QED
  BY <1>2, <1>3 DEF FetchInv

\* All calls are lost: the process stops.
LEMMA CallsLost ==
  ASSUME FetchInv, fetch' = [a \in Fetchers |-> Idle], faults' \in 0 .. MaxFaults,
         UNCHANGED <<source, lapsed, cache, quiet, changes>>
  PROVE  FetchInv'
<1>1. fetch' \in [Fetchers -> Flights] /\ \A a \in Fetchers : fetch'[a] = Idle
  BY IdleFlight
<1>2. FlightOK(Idle)'
  BY DEF Idle, FlightOK, NoRow
<1> QED
  BY <1>1, <1>2 DEF FetchInv, FetchTypeOK, CurrentOK, CacheOK, FlightsOK

LEMMA FetchUntouched ==
  ASSUME FetchInv, UNCHANGED <<source, lapsed, cache, fetch, quiet, changes>>,
         faults' \in 0 .. MaxFaults
  PROVE  FetchInv'
  BY DEF FetchInv, FetchTypeOK, CurrentOK, CacheOK, FlightsOK, FlightOK

\* What a caller gets without asking was current within its TTL.
LEMMA FreshIsFreshEnough == FetchInv => FreshEnough
  BY DEF FetchInv, FlightsOK, FlightOK, FreshEnough, KeyOf, RowOf

-----------------------------------------------------------------------------
(* The notifier.                                                           *)

Runs == [pc : {"idle", "feeds", "merge", "matches", "sources", "down"},
         feeds : SUBSET Feeds, feed : {<<>>} \cup {<<f>> : f \in Feeds},
         todo : SUBSET Keys, got : SUBSET (Keys \X Versions),
         items : SUBSET Items, item : {<<>>} \cup {<<x>> : x \in Items},
         msg : {"none", "event", "warning", "all-clear", "unmark"}]
Tales == [heard : {"nothing", "event", "warning", "all-clear"}, age : Ages, cut : BOOLEAN]

RunOK(r) ==
  /\ r \in Runs
  /\ r.pc \in {"merge", "matches", "sources"} => r.feed # <<>>
  /\ r.pc = "matches" => \A x \in r.items : x.what = "event"
  /\ r.pc = "sources" => \A x \in r.items : x.what = "source"
  /\ r.msg # "none" => r.item # <<>> /\ r.pc \in {"matches", "sources"}
ClockOK == rested \in BOOLEAN /\ (run.pc \notin {"idle", "down"} => rested)
LedgerOK ==
  /\ DOMAIN ledger \subseteq Items /\ ledger \in [DOMAIN ledger -> Ages]
  /\ told \in [Items -> Tales]

Forgotten(x) == told[x].age > LedgerRetention
Stands(x) == told[x].heard \in {"event", "warning"} /\ ~Forgotten(x)

Honest(x) ==
  x \in DOMAIN ledger =>
    told[x].cut \/ told[x].heard \in {"event", "warning"} \/ (run.msg # "none" /\ x = TheItem)
Remembered(x) == Stands(x) => x \in DOMAIN ledger /\ ledger[x] <= told[x].age
Kind(x) ==
  /\ x.what = "event" => told[x].heard \in {"nothing", "event"}
  /\ x.what = "source" => told[x].heard # "event"
ItemsOK == \A x \in Items : Honest(x) /\ Remembered(x) /\ Kind(x)

\* The message under way.
MessageOK ==
  /\ run.msg = "event" => TheItem.what = "event" /\ ~Stands(TheItem)
  /\ run.msg = "warning" => TheItem.what = "source" /\ ~Stands(TheItem)
  /\ run.msg = "all-clear" =>
       TheItem.what = "source" /\ (told[TheItem].heard = "warning" \/ told[TheItem].cut)
  /\ run.msg = "unmark" => ~Stands(TheItem)
  /\ run.msg \in {"event", "warning"} => TheItem \in DOMAIN ledger /\ ledger[TheItem] = 0

Inv == FetchInv /\ RunOK(run) /\ ClockOK /\ LedgerOK /\ ItemsOK /\ MessageOK

-----------------------------------------------------------------------------
(* Steps between messages.                                                 *)

LEMMA Rest == Resting \in Runs
  BY DEF Resting, Runs

LEMMA ItemUnderWay ==
  ASSUME RunOK(run), run.msg # "none"
  PROVE  TheItem \in Items /\ run.item = <<TheItem>> /\ run.pc \in {"matches", "sources"}
  BY DEF RunOK, Runs, TheItem

\* Nothing but the fetches changed.
LEMMA OnlyFetched ==
  ASSUME Inv, FetchInv', UNCHANGED <<ledger, run, told, rested>>
  PROVE  Inv'
<1>1. RunOK(run)' /\ ClockOK' /\ LedgerOK'
  BY DEF Inv, RunOK, ClockOK, LedgerOK
<1>2. ItemsOK' /\ MessageOK'
  BY DEF Inv, ItemsOK, MessageOK, Honest, Remembered, Kind, Stands, Forgotten, TheItem
<1> QED
  BY <1>1, <1>2 DEF Inv

\* The run goes on, with no message before or after.
LEMMA RunGoesOn ==
  ASSUME Inv, FetchInv', NEW r, run' = r, RunOK(r), run.msg = "none", r.msg = "none",
         UNCHANGED <<ledger, told>>, rested' \in BOOLEAN,
         r.pc \notin {"idle", "down"} => rested'
  PROVE  Inv'
<1>1. RunOK(run)' /\ ClockOK' /\ LedgerOK'
  BY DEF Inv, RunOK, ClockOK, LedgerOK
<1>2. ItemsOK'
  BY DEF Inv, ItemsOK, Honest, Remembered, Kind, Stands, Forgotten
<1>3. MessageOK'
  BY DEF MessageOK
<1> QED
  BY <1>1, <1>2, <1>3 DEF Inv

LEMMA NoFetch ==
  ASSUME FetchInv, UNCHANGED fetchVars
  PROVE  FetchInv'
<1>1. faults' \in 0 .. MaxFaults
  BY DEF FetchInv, FetchTypeOK, fetchVars
<1> QED
  BY <1>1, FetchUntouched DEF fetchVars

LEMMA StartKeeps == ASSUME Inv, Start PROVE Inv'
<1>1. PICK r : r = [Resting EXCEPT !.pc = "feeds", !.feeds = Feeds]
  OBVIOUS
<1>2. PICK rest : rest = Resting
  OBVIOUS
<1>3. rest \in Runs /\ rest.msg = "none"
  BY <1>2, Rest DEF Resting
<1>4. r = [rest EXCEPT !.pc = "feeds", !.feeds = Feeds]
  BY <1>1, <1>2
<1>5. r \in Runs /\ r.pc = "feeds" /\ r.msg = "none"
  BY <1>3, <1>4 DEF Runs
<1>6. RunOK(r)
  BY <1>5 DEF RunOK
<1>7. run.msg = "none"
  BY ItemUnderWay DEF Inv, Start
<1>8. FetchInv'
  BY NoFetch DEF Inv, Start, OnlyRun
<1> QED
  BY <1>1, <1>5, <1>6, <1>7, <1>8, RunGoesOn DEF Start, OnlyRun, Inv, ClockOK

LEMMA NextFeedKeeps == ASSUME Inv, NEW f \in Feeds, NextFeed(f) PROVE Inv'
<1>1. PICK r : r = [run EXCEPT !.pc = "merge", !.feeds = run.feeds \ {f}, !.feed = <<f>>,
                      !.todo = SourcesOf[f], !.got = {}]
  OBVIOUS
<1>2. SourcesOf[f] \subseteq Keys /\ run \in Runs
  BY NotifierAssumption DEF Inv, RunOK
<1>3. run.msg = "none" /\ rested
  BY ItemUnderWay DEF Inv, NextFeed, ClockOK
<1>4. r \in Runs /\ r.pc = "merge" /\ r.msg = "none" /\ r.feed = <<f>>
  BY <1>1, <1>2, <1>3 DEF Runs
<1>5. RunOK(r)
  BY <1>4 DEF RunOK
<1>6. FetchInv'
  BY NoFetch DEF Inv, NextFeed, OnlyRun
<1> QED
  BY <1>1, <1>3, <1>4, <1>5, <1>6, RunGoesOn DEF NextFeed, OnlyRun

LEMMA FetchKeeps == ASSUME Inv, NEW k \in Keys, Fetch(k) PROVE Inv'
<1>1. PICK r : r = [run EXCEPT !.todo = run.todo \ {k}]
  OBVIOUS
<1>2. run.msg = "none" /\ rested /\ run.pc = "merge" /\ run \in Runs /\ run.feed # <<>>
  BY ItemUnderWay DEF Inv, Fetch, ClockOK, RunOK
<1>3. r \in Runs /\ r.pc = "merge" /\ r.msg = "none" /\ r.feed = run.feed
  BY <1>1, <1>2 DEF Runs
<1>4. RunOK(r)
  BY <1>2, <1>3 DEF RunOK
<1>5. FetchInv'
  BY NotifierAssumption, BeginKeeps, BeginFailsKeeps DEF Inv, Fetch
<1> QED
  BY <1>1, <1>2, <1>3, <1>4, <1>5, RunGoesOn DEF Fetch

LEMMA FetchedKeeps == ASSUME Inv, Fetched PROVE Inv'
<1>1. FetchInv'
  BY NotifierAssumption, ReturnKeeps DEF Inv, Fetched
<1>2. CASE fetch[Watcher].from = "none"
  BY <1>1, <1>2, OnlyFetched DEF Fetched
<1>3. CASE fetch[Watcher].from # "none"
  <2>1. KeyOf(Watcher) \in Keys /\ RowOf(Watcher) \in Rows
    BY <1>3, NotifierAssumption, FlightParts
       DEF Inv, FetchInv, FetchTypeOK, FlightsOK, FlightOK, KeyOf, RowOf
  <2>2. PICK g \in Keys \X Versions : g = <<KeyOf(Watcher), RowOf(Watcher).body>>
    BY <2>1 DEF Rows
  <2>3. PICK r : r = [run EXCEPT !.got = run.got \cup {g}]
    OBVIOUS
  <2>4. /\ r \in Runs /\ r.pc = run.pc /\ r.msg = run.msg /\ r.feed = run.feed
        /\ r.items = run.items /\ r.item = run.item
    BY <2>2, <2>3 DEF Inv, RunOK, Runs
  <2>5. run' = r /\ UNCHANGED <<ledger, told, rested>>
    BY <1>3, <2>2, <2>3 DEF Fetched
  <2>6. RunOK(run)' /\ ClockOK' /\ LedgerOK'
    BY <2>4, <2>5 DEF Inv, RunOK, ClockOK, LedgerOK
  <2>7. ItemsOK' /\ MessageOK'
    BY <2>4, <2>5
       DEF Inv, ItemsOK, MessageOK, Honest, Remembered, Kind, Stands, Forgotten, TheItem
  <2> QED
    BY <1>1, <2>6, <2>7 DEF Inv
<1> QED
  BY <1>2, <1>3

\* The matches of a merge are events of its feed.
LEMMA MatchesAreEvents ==
  ASSUME RunOK(run), run.pc = "merge"
  PROVE  MatchedItems \subseteq Items /\ \A x \in MatchedItems : x.what = "event"
<1>1. TheFeed \in Feeds
  BY DEF RunOK, Runs, TheFeed
<1>2. SUFFICES ASSUME NEW x \in MatchedItems PROVE x \in Items /\ x.what = "event"
  OBVIOUS
<1>3. PICK g \in run.got : \E e \in EventsOf[g[1]][g[2]] : x = EventItem(TheFeed, e)
  BY DEF MatchedItems
<1>4. PICK e \in EventsOf[g[1]][g[2]] : x = EventItem(TheFeed, e)
  BY <1>3
<1>5. g[1] \in Keys /\ g[2] \in Versions
  BY DEF RunOK, Runs
<1>6. e \in Events
  BY <1>5 DEF Events
<1> QED
  BY <1>1, <1>4, <1>6 DEF Items, EventItem

LEMMA MergedKeeps == ASSUME Inv, Merged PROVE Inv'
<1>1. PICK m : m = MatchedItems
  OBVIOUS
<1>2. PICK r : r = [run EXCEPT !.pc = "matches", !.items = m, !.got = {}]
  OBVIOUS
<1>3. run.msg = "none" /\ rested /\ run \in Runs /\ run.feed # <<>>
  BY ItemUnderWay DEF Inv, ClockOK, RunOK, Merged
<1>4. m \subseteq Items /\ \A x \in m : x.what = "event"
  BY <1>1, MatchesAreEvents DEF Inv, Merged
<1>5. r \in Runs /\ r.pc = "matches" /\ r.msg = "none" /\ r.feed = run.feed /\ r.items = m
  BY <1>2, <1>3, <1>4 DEF Runs
<1>6. RunOK(r)
  BY <1>3, <1>4, <1>5 DEF RunOK
<1>7. FetchInv'
  BY NoFetch DEF Inv, Merged, OnlyRun
<1> QED
  BY <1>1, <1>2, <1>3, <1>5, <1>6, <1>7, RunGoesOn DEF Merged, OnlyRun

LEMMA RunStaleKeeps == ASSUME Inv, RunStale PROVE Inv'
<1>1. PICK m : m = {SourceItem(TheFeed, UrlOf[k]) : k \in SourcesOf[TheFeed]}
  OBVIOUS
<1>2. PICK r : r = [run EXCEPT !.pc = "sources", !.items = m]
  OBVIOUS
<1>3. run.msg = "none" /\ rested /\ run \in Runs /\ run.feed # <<>>
  BY DEF Inv, ClockOK, RunOK, RunStale
<1>4. m \subseteq Items /\ \A x \in m : x.what = "source"
  <2>1. TheFeed \in Feeds
    BY <1>3 DEF Runs, TheFeed
  <2>2. SourcesOf[TheFeed] \subseteq Keys
    BY <2>1, NotifierAssumption
  <2>3. \A k \in Keys : SourceItem(TheFeed, UrlOf[k]) \in Items
    BY <2>1 DEF Items, Urls
  <2> QED
    BY <1>1, <2>2, <2>3 DEF SourceItem
<1>5. r \in Runs /\ r.pc = "sources" /\ r.msg = "none" /\ r.feed = run.feed /\ r.items = m
  BY <1>2, <1>3, <1>4 DEF Runs
<1>6. RunOK(r)
  BY <1>3, <1>4, <1>5 DEF RunOK
<1>7. FetchInv'
  BY NoFetch DEF Inv, RunStale, OnlyRun
<1> QED
  BY <1>1, <1>2, <1>3, <1>5, <1>6, <1>7, RunGoesOn DEF RunStale, OnlyRun

LEMMA FeedDoneKeeps == ASSUME Inv, FeedDone PROVE Inv'
<1>1. PICK r : r = [run EXCEPT !.pc = "feeds", !.feed = <<>>]
  OBVIOUS
<1>2. run.msg = "none" /\ rested /\ run \in Runs
  BY DEF Inv, ClockOK, RunOK, FeedDone
<1>3. r \in Runs /\ r.pc = "feeds" /\ r.msg = "none"
  BY <1>1, <1>2 DEF Runs
<1>4. RunOK(r)
  BY <1>3 DEF RunOK
<1>5. FetchInv'
  BY NoFetch DEF Inv, FeedDone, OnlyRun
<1> QED
  BY <1>1, <1>2, <1>3, <1>4, <1>5, RunGoesOn DEF FeedDone, OnlyRun

\* An item is done with, without a message.
LEMMA HandledOK ==
  ASSUME Inv, run.msg = "none", NEW x, NEW r, r = [run EXCEPT !.items = run.items \ {x}]
  PROVE  RunOK(r) /\ r.pc = run.pc /\ r.msg = "none"
<1>1. run \in Runs
  BY DEF Inv, RunOK
<1>2. r \in Runs /\ r.pc = run.pc /\ r.msg = "none" /\ r.items = run.items \ {x} /\ r.feed = run.feed
  BY <1>1 DEF Runs
<1> QED
  BY <1>2 DEF Inv, RunOK

LEMMA SkipKeeps == ASSUME Inv, NEW x \in Items, Skip(x) PROVE Inv'
<1>1. PICK r : r = [run EXCEPT !.items = run.items \ {x}]
  OBVIOUS
<1>2. RunOK(r) /\ r.pc = run.pc /\ r.msg = "none" /\ rested
  BY <1>1, HandledOK DEF Skip, Inv, ClockOK
<1>3. FetchInv'
  BY FaultCounts, FetchUntouched DEF Inv, Skip
<1> QED
  BY <1>1, <1>2, <1>3, RunGoesOn DEF Skip, Handled

LEMMA RestartKeeps == ASSUME Inv, Restart PROVE Inv'
<1>1. PICK r : r = Resting
  OBVIOUS
<1>2. r.pc = "idle" /\ r.msg = "none"
  BY <1>1 DEF Resting
<1>3. RunOK(r)
  BY <1>1, <1>2, Rest DEF RunOK
<1>4. run.msg = "none"
  BY ItemUnderWay DEF Inv, Restart
<1>5. FetchInv'
  BY NoFetch DEF Inv, Restart, OnlyRun
<1> QED
  BY <1>1, <1>2, <1>3, <1>4, <1>5, RunGoesOn DEF Restart, OnlyRun, Inv, ClockOK

LEMMA RunFailsKeeps == ASSUME Inv, RunFails PROVE Inv'
<1>1. PICK r : r = Resting
  OBVIOUS
<1>2. r.pc = "idle" /\ r.msg = "none"
  BY <1>1 DEF Resting
<1>3. RunOK(r)
  BY <1>1, <1>2, Rest DEF RunOK
<1>4. run.msg = "none"
  BY ItemUnderWay DEF Inv, RunFails
<1>5. FetchInv'
  BY FaultCounts, FetchUntouched DEF Inv, RunFails
<1> QED
  BY <1>1, <1>2, <1>3, <1>4, <1>5, RunGoesOn DEF RunFails

-----------------------------------------------------------------------------
(* Messages.                                                               *)

LEMMA ZeroAge == 0 \in Ages /\ LedgerRetention \in Nat /\ 0 <= LedgerRetention
  BY FetchAssumption, NotifierAssumption DEF Ages

LEMMA AgesAreNaturals ==
  ASSUME LedgerOK
  PROVE  /\ \A x \in Items : told[x] \in Tales /\ told[x].age \in Nat
         /\ \A x \in DOMAIN ledger : ledger[x] \in Nat
  BY FetchAssumption DEF LedgerOK, Tales, Ages

\* A message is sent off, or the item was announced before.
LEMMA MarkAndSendKeeps ==
  ASSUME Inv, NEW x \in Items, x \in run.items, run.msg = "none",
         NEW msg, \/ msg = "event" /\ run.pc = "matches"
                  \/ msg = "warning" /\ run.pc = "sources",
         MarkAndSend(x, msg)
  PROVE  Inv'
<1>1. /\ DOMAIN ledger' = DOMAIN ledger \cup {x}
      /\ \A y \in DOMAIN ledger' : ledger'[y] = IF y = x THEN 0 ELSE ledger[y]
      /\ ledger' \in [DOMAIN ledger' -> Ages] /\ DOMAIN ledger' \subseteq Items
  BY ZeroAge DEF Inv, LedgerOK, MarkAndSend, Mark
<1>2. told[x] \in Tales
  BY DEF Inv, LedgerOK
<1>3. PICK tale : tale = IF x \in DOMAIN ledger THEN [told[x] EXCEPT !.age = 0]
                         ELSE [told[x] EXCEPT !.cut = FALSE]
  OBVIOUS
<1>4. /\ tale \in Tales /\ tale.heard = told[x].heard
      /\ x \in DOMAIN ledger => tale.age = 0 /\ tale.cut = told[x].cut
      /\ x \notin DOMAIN ledger => tale.age = told[x].age
  BY <1>2, <1>3, ZeroAge DEF Tales
<1>5. told' = [told EXCEPT ![x] = tale]
  BY <1>3 DEF MarkAndSend, Sighted
<1>6. told' \in [Items -> Tales] /\ \A y \in Items : told'[y] = IF y = x THEN tale ELSE told[y]
  BY <1>4, <1>5 DEF Inv, LedgerOK
<1>7. FetchInv' /\ rested' = rested
  BY NoFetch DEF Inv, MarkAndSend
<1>8. run \in Runs /\ rested /\ run.feed # <<>>
  BY DEF Inv, RunOK, ClockOK
<1>9. PICK r : r = run'
  OBVIOUS
<1>10. CASE x \in DOMAIN ledger
  <2>1. r = [run EXCEPT !.items = run.items \ {x}]
    BY <1>9, <1>10 DEF MarkAndSend, Handled
  <2>2. RunOK(r) /\ r.pc = run.pc /\ r.msg = "none"
    BY <2>1, HandledOK
  <2>3. ASSUME NEW y \in Items PROVE (Honest(y) /\ Remembered(y) /\ Kind(y))'
    <3>1. Honest(y) /\ Remembered(y) /\ Kind(y)
      BY DEF Inv, ItemsOK
    <3>2. CASE y = x
      <4>1. told'[y] = tale /\ ledger'[y] = 0 /\ y \in DOMAIN ledger'
        BY <1>1, <1>6, <3>2
      <4> QED
        BY <3>1, <3>2, <4>1, <1>4, <1>10 DEF Honest, Remembered, Kind, Stands
    <3>3. CASE y # x
      BY <3>1, <3>3, <1>1, <1>6 DEF Honest, Remembered, Kind, Stands, Forgotten
    <3> QED
      BY <3>2, <3>3
  <2>4. MessageOK'
    BY <2>2, <1>9 DEF MessageOK
  <2> QED
    BY <1>1, <1>6, <1>7, <1>8, <1>9, <2>2, <2>3, <2>4 DEF Inv, ClockOK, LedgerOK, ItemsOK
<1>11. CASE x \notin DOMAIN ledger
  <2>1. r = [run EXCEPT !.items = run.items \ {x}, !.item = <<x>>, !.msg = msg]
    BY <1>9, <1>11 DEF MarkAndSend, Sending
  <2>2. /\ r \in Runs /\ r.pc = run.pc /\ r.msg = msg /\ r.item = <<x>> /\ r.feed = run.feed
        /\ r.items = run.items \ {x}
    BY <2>1, <1>8 DEF Runs
  <2>3. RunOK(r) /\ r.item[1] = x
    BY <2>2 DEF Inv, RunOK
  <2>4. ~Stands(x)'
    <3>1. ~Stands(x)
      BY <1>11 DEF Inv, ItemsOK, Remembered
    <3> QED
      BY <3>1, <1>4, <1>6, <1>11 DEF Stands, Forgotten
  <2>5. ASSUME NEW y \in Items PROVE (Honest(y) /\ Remembered(y) /\ Kind(y))'
    <3>1. Honest(y) /\ Remembered(y) /\ Kind(y)
      BY DEF Inv, ItemsOK
    <3>2. CASE y = x
      BY <3>1, <3>2, <2>2, <2>3, <2>4, <1>4, <1>6, <1>9 DEF Honest, Remembered, Kind, TheItem
    <3>3. CASE y # x
      BY <3>1, <3>3, <1>1, <1>6 DEF Honest, Remembered, Kind, Stands, Forgotten
    <3> QED
      BY <3>2, <3>3
  <2>6. (TheItem = x)'
    BY <2>3, <1>9 DEF TheItem
  <2>7. x.what = IF msg = "event" THEN "event" ELSE "source"
    BY DEF Inv, RunOK
  <2>8. MessageOK'
    BY <2>2, <2>4, <2>6, <2>7, <1>1, <1>9 DEF MessageOK
  <2> QED
    BY <1>1, <1>6, <1>7, <1>8, <1>9, <2>2, <2>3, <2>5, <2>8 DEF Inv, ClockOK, LedgerOK, ItemsOK
<1> QED
  BY <1>10, <1>11

LEMMA AnnounceKeeps == ASSUME Inv, NEW x \in Items, Announce(x) PROVE Inv'
  BY MarkAndSendKeeps DEF Announce

LEMMA AlarmKeeps == ASSUME Inv, NEW x \in Items, Alarm(x) PROVE Inv'
  BY MarkAndSendKeeps DEF Alarm

\* The tables stay, and so does what holds of the items; the message moves on.
LEMMA MessageMoves ==
  ASSUME Inv, FetchInv', NEW r, run' = r, RunOK(r), UNCHANGED <<ledger, told, rested>>,
         r.pc \notin {"idle", "down"} => rested,
         \A x \in Items : Honest(x)', MessageOK'
  PROVE  Inv'
<1>1. ClockOK' /\ LedgerOK' /\ RunOK(run)'
  BY DEF Inv, ClockOK, LedgerOK
<1>2. ItemsOK'
  BY DEF Inv, ItemsOK, Remembered, Kind, Stands, Forgotten
<1> QED
  BY <1>1, <1>2 DEF Inv

LEMMA AllClearKeeps == ASSUME Inv, NEW x \in Items, AllClear(x) PROVE Inv'
<1>1. FetchInv' /\ rested /\ run \in Runs /\ run.pc = "sources" /\ run.msg = "none" /\ x \in run.items
  BY NoFetch DEF Inv, AllClear, ClockOK, RunOK
<1>2. PICK r : r = run'
  OBVIOUS
<1>3. CASE x \in DOMAIN ledger
  <2>1. r = [run EXCEPT !.items = run.items \ {x}, !.item = <<x>>, !.msg = "all-clear"]
    BY <1>2, <1>3 DEF AllClear, Sending
  <2>2. /\ r \in Runs /\ r.pc = run.pc /\ r.msg = "all-clear" /\ r.item = <<x>> /\ r.feed = run.feed
        /\ r.items = run.items \ {x}
    BY <2>1, <1>1 DEF Runs
  <2>3. RunOK(r) /\ r.item[1] = x
    BY <2>2, <1>1 DEF Inv, RunOK
  <2>4. (TheItem = x)' /\ UNCHANGED <<ledger, told, rested>>
    BY <2>3, <1>2 DEF TheItem, AllClear
  <2>5. x.what = "source" /\ Honest(x) /\ Kind(x)
    BY <1>1 DEF Inv, RunOK, ItemsOK
  <2>6. MessageOK'
    BY <2>2, <2>4, <2>5, <1>1, <1>2, <1>3 DEF MessageOK, Honest, Kind
  <2>7. \A y \in Items : Honest(y)'
    BY <2>2, <2>4, <1>1, <1>2 DEF Inv, ItemsOK, Honest
  <2> QED
    BY <1>1, <1>2, <2>3, <2>4, <2>6, <2>7, MessageMoves
<1>4. CASE x \notin DOMAIN ledger
  <2>1. r = [run EXCEPT !.items = run.items \ {x}]
    BY <1>2, <1>4 DEF AllClear, Handled
  <2>2. RunOK(r) /\ r.pc = run.pc /\ r.msg = "none"
    BY <2>1, <1>1, HandledOK
  <2> QED
    BY <1>1, <1>2, <2>2, RunGoesOn DEF AllClear
<1> QED
  BY <1>3, <1>4

\* The message is over, or its entry is taken back next.
LEMMA Ended ==
  ASSUME Inv, run.msg # "none", NEW r,
         r = [run EXCEPT !.item = <<>>, !.msg = "none"] \/ r = [run EXCEPT !.msg = "unmark"]
  PROVE  /\ RunOK(r) /\ r.pc = run.pc /\ rested /\ run.pc \in {"matches", "sources"}
         /\ r = [run EXCEPT !.item = <<>>, !.msg = "none"] => r.msg = "none"
         /\ r = [run EXCEPT !.msg = "unmark"] => r.msg = "unmark" /\ r.item = run.item
<1>1. run \in Runs /\ rested /\ run.pc \in {"matches", "sources"}
  BY DEF Inv, RunOK, ClockOK
<1>2. CASE r = [run EXCEPT !.item = <<>>, !.msg = "none"]
  <2>1. r \in Runs /\ r.pc = run.pc /\ r.msg = "none" /\ r.feed = run.feed /\ r.items = run.items
    BY <1>1, <1>2 DEF Runs
  <2>2. RunOK(r)
    BY <2>1 DEF Inv, RunOK
  <2>3. r # [run EXCEPT !.msg = "unmark"]
    <3>1. [run EXCEPT !.msg = "unmark"].msg = "unmark"
      BY <1>1 DEF Runs
    <3> QED
      BY <2>1, <3>1
  <2> QED
    BY <1>1, <2>1, <2>2, <2>3
<1>3. CASE r = [run EXCEPT !.msg = "unmark"]
  <2>1. /\ r \in Runs /\ r.pc = run.pc /\ r.msg = "unmark" /\ r.feed = run.feed /\ r.items = run.items
        /\ r.item = run.item
    BY <1>1, <1>3 DEF Runs
  <2>2. RunOK(r)
    BY <2>1 DEF Inv, RunOK
  <2>3. r # [run EXCEPT !.item = <<>>, !.msg = "none"]
    <3>1. [run EXCEPT !.item = <<>>, !.msg = "none"].msg = "none"
      BY <1>1 DEF Runs
    <3> QED
      BY <2>1, <3>1
  <2> QED
    BY <1>1, <2>1, <2>2, <2>3
<1> QED
  BY <1>2, <1>3

\* A target hears the message under way.
LEMMA HeardKeeps ==
  ASSUME Inv, run.msg \in {"event", "warning", "all-clear"}, NEW cut \in BOOLEAN, Heard(cut),
         UNCHANGED ledger
  PROVE  /\ LedgerOK'
         /\ \A x \in Items : (Remembered(x) /\ Kind(x))'
         /\ \A x \in Items : x \in DOMAIN ledger =>
              told'[x].cut \/ told'[x].heard \in {"event", "warning"} \/ (run.msg = "all-clear" /\ x = TheItem)
         /\ TheItem \in Items
         /\ run.msg = "all-clear" => told'[TheItem].heard = "all-clear"
         /\ told'[TheItem].cut = cut
<1>1. PICK i \in Items : i = TheItem
  BY ItemUnderWay DEF Inv
<1>2. PICK tale : tale = [heard |-> run.msg, age |-> 0, cut |-> cut]
  OBVIOUS
<1>3. tale \in Tales /\ tale.heard = run.msg /\ tale.age = 0 /\ tale.cut = cut
  BY <1>2, ZeroAge DEF Tales
<1>4. told' \in [Items -> Tales] /\ \A x \in Items : told'[x] = IF x = i THEN tale ELSE told[x]
  BY <1>1, <1>2, <1>3 DEF Inv, LedgerOK, Heard
<1>5. LedgerOK'
  BY <1>4 DEF Inv, LedgerOK
<1>6. i.what = "event" <=> run.msg = "event"
  BY <1>1 DEF Inv, MessageOK
<1>7. run.msg \in {"event", "warning"} => i \in DOMAIN ledger /\ ledger[i] = 0
  BY <1>1 DEF Inv, MessageOK
<1>8. ASSUME NEW x \in Items PROVE (Remembered(x) /\ Kind(x))'
  <2>1. CASE x = i
    <3>1. told'[x] = tale
      BY <1>4, <2>1
    <3>2. (Remembered(x))'
      BY <3>1, <2>1, <1>3, <1>7 DEF Remembered, Stands
    <3>3. (Kind(x))'
      <4>1. i.what = "source" => run.msg # "event"
        BY <1>6
      <4>2. i.what = "event" => run.msg = "event"
        BY <1>6
      <4> QED
        BY <3>1, <2>1, <1>3, <4>1, <4>2 DEF Kind
    <3> QED
      BY <3>2, <3>3
  <2>2. CASE x # i
    BY <1>4, <2>2 DEF Inv, ItemsOK, Remembered, Kind, Stands, Forgotten
  <2> QED
    BY <2>1, <2>2
<1>9. ASSUME NEW x \in Items, x \in DOMAIN ledger
      PROVE  told'[x].cut \/ told'[x].heard \in {"event", "warning"} \/ (run.msg = "all-clear" /\ x = TheItem)
  BY <1>1, <1>3, <1>4, <1>9 DEF Inv, ItemsOK, Honest
<1> QED
  BY <1>1, <1>3, <1>4, <1>5, <1>8, <1>9

LEMMA SentKeeps == ASSUME Inv, Sent PROVE Inv'
<1>1. FetchInv' /\ UNCHANGED <<ledger, rested>> /\ Heard(FALSE)
      /\ run.msg \in {"event", "warning", "all-clear"}
  BY NoFetch DEF Inv, Sent
<1>2. PICK r : r = run'
  OBVIOUS
<1>3. r = IF run.msg = "all-clear" THEN [run EXCEPT !.msg = "unmark"]
          ELSE [run EXCEPT !.item = <<>>, !.msg = "none"]
  BY <1>2 DEF Sent, RollBack, MessageDone
<1>4. /\ RunOK(r) /\ r.pc = run.pc /\ rested
      /\ r.msg = IF run.msg = "all-clear" THEN "unmark" ELSE "none"
      /\ run.msg = "all-clear" => r.item = run.item
  BY <1>1, <1>3, Ended
<1>5. /\ LedgerOK' /\ \A x \in Items : (Remembered(x) /\ Kind(x))'
      /\ \A x \in Items : x \in DOMAIN ledger =>
           told'[x].cut \/ told'[x].heard \in {"event", "warning"} \/ (run.msg = "all-clear" /\ x = TheItem)
      /\ run.msg = "all-clear" => told'[TheItem].heard = "all-clear"
  BY <1>1, HeardKeeps
<1>6. run.msg = "all-clear" => TheItem' = TheItem
  BY <1>2, <1>4 DEF TheItem
<1>7. \A x \in Items : Honest(x)'
  BY <1>1, <1>2, <1>4, <1>5, <1>6 DEF Honest
<1>8. MessageOK'
  BY <1>1, <1>2, <1>4, <1>5, <1>6 DEF MessageOK, Stands
<1> QED
  BY <1>1, <1>2, <1>4, <1>5, <1>7, <1>8 DEF Inv, ClockOK, ItemsOK

LEMMA SendFailsKeeps == ASSUME Inv, SendFails PROVE Inv'
<1>1. FetchInv' /\ UNCHANGED <<ledger, told, rested>> /\ run.msg \in {"event", "warning", "all-clear"}
  BY FaultCounts, FetchUntouched DEF Inv, SendFails, Undelivered
<1>2. PICK r : r = run'
  OBVIOUS
<1>3. r = IF run.msg = "all-clear" THEN [run EXCEPT !.item = <<>>, !.msg = "none"]
          ELSE [run EXCEPT !.msg = "unmark"]
  BY <1>2 DEF SendFails, Undelivered, RollBack, MessageDone
<1>4. /\ RunOK(r) /\ r.pc = run.pc /\ rested
      /\ r.msg = IF run.msg = "all-clear" THEN "none" ELSE "unmark"
      /\ run.msg # "all-clear" => r.item = run.item
  BY <1>1, <1>3, Ended
<1>5. run.msg # "all-clear" => TheItem' = TheItem
  BY <1>2, <1>4 DEF TheItem
<1>6. \A x \in Items : Honest(x)'
  BY <1>1, <1>2, <1>4, <1>5 DEF Inv, ItemsOK, Honest, MessageOK
<1>7. MessageOK'
  BY <1>1, <1>2, <1>4, <1>5 DEF Inv, MessageOK, Stands, Forgotten
<1> QED
  BY <1>1, <1>2, <1>4, <1>6, <1>7, MessageMoves

LEMMA UnmarkKeeps == ASSUME Inv, Unmark PROVE Inv'
<1>1. FetchInv' /\ UNCHANGED <<told, rested>> /\ run.msg = "unmark"
  BY NoFetch DEF Inv, Unmark
<1>2. PICK r : r = [run EXCEPT !.item = <<>>, !.msg = "none"]
  OBVIOUS
<1>3. run' = r /\ RunOK(r) /\ r.pc = run.pc /\ rested /\ r.msg = "none"
  BY <1>1, <1>2, Ended DEF Unmark, MessageDone
<1>4. /\ DOMAIN ledger' = DOMAIN ledger \ {TheItem}
      /\ \A y \in DOMAIN ledger' : ledger'[y] = ledger[y]
      /\ ledger' \in [DOMAIN ledger' -> Ages]
  BY DEF Unmark, Inv, LedgerOK
<1>5. LedgerOK' /\ ClockOK' /\ MessageOK'
  BY <1>1, <1>3, <1>4 DEF Inv, LedgerOK, ClockOK, MessageOK
<1>6. ItemsOK'
  BY <1>1, <1>3, <1>4
     DEF Inv, ItemsOK, Honest, Remembered, Kind, Stands, Forgotten, MessageOK
<1> QED
  BY <1>1, <1>3, <1>5, <1>6 DEF Inv

\* The message under way is cut short.
LEMMA CutShortKeeps ==
  ASSUME Inv, run.msg # "none", CutShort, UNCHANGED ledger
  PROVE  /\ LedgerOK'
         /\ \A x \in Items : (Remembered(x) /\ Kind(x))'
         /\ \A x \in Items : x \in DOMAIN ledger => told'[x].cut \/ told'[x].heard \in {"event", "warning"}
<1>1. PICK i \in Items : i = TheItem
  BY ItemUnderWay DEF Inv
<1>2. PICK tale : tale = [told[i] EXCEPT !.cut = TRUE]
  OBVIOUS
<1>3. tale \in Tales /\ tale.heard = told[i].heard /\ tale.age = told[i].age /\ tale.cut
  BY <1>2 DEF Inv, LedgerOK, Tales
<1>4. told' \in [Items -> Tales] /\ \A x \in Items : told'[x] = IF x = i THEN tale ELSE told[x]
  BY <1>1, <1>2, <1>3 DEF Inv, LedgerOK, CutShort
<1>5. LedgerOK'
  BY <1>4 DEF Inv, LedgerOK
<1>6. \A x \in Items : told'[x].heard = told[x].heard /\ told'[x].age = told[x].age
  BY <1>3, <1>4
<1>7. \A x \in Items : (Remembered(x) /\ Kind(x))'
  BY <1>6 DEF Inv, ItemsOK, Remembered, Kind, Stands, Forgotten
<1>8. ASSUME NEW x \in Items, x \in DOMAIN ledger
      PROVE  told'[x].cut \/ told'[x].heard \in {"event", "warning"}
  BY <1>1, <1>3, <1>4, <1>8 DEF Inv, ItemsOK, Honest
<1> QED
  BY <1>5, <1>7, <1>8

LEMMA UnmarkFailsKeeps == ASSUME Inv, UnmarkFails PROVE Inv'
<1>1. FetchInv' /\ UNCHANGED <<ledger, rested>> /\ run.msg = "unmark"
  BY FaultCounts, FetchUntouched DEF Inv, UnmarkFails
<1>2. PICK r : r = [run EXCEPT !.item = <<>>, !.msg = "none"]
  OBVIOUS
<1>3. run' = r /\ RunOK(r) /\ r.pc = run.pc /\ rested /\ r.msg = "none"
  BY <1>1, <1>2, Ended DEF UnmarkFails, MessageDone
<1>4. /\ LedgerOK' /\ \A x \in Items : (Remembered(x) /\ Kind(x))'
      /\ \A x \in Items : x \in DOMAIN ledger => told'[x].cut \/ told'[x].heard \in {"event", "warning"}
  BY <1>1, CutShortKeeps DEF UnmarkFails
<1> QED
  BY <1>1, <1>3, <1>4 DEF Inv, ItemsOK, Honest, ClockOK, MessageOK

LEMMA StopKeeps == ASSUME Inv, Stop PROVE Inv'
<1>1. PICK r : r = [Resting EXCEPT !.pc = "down"]
  OBVIOUS
<1>2. PICK rest : rest = Resting
  OBVIOUS
<1>3. rest \in Runs /\ rest.msg = "none"
  BY <1>2, Rest DEF Resting
<1>4. r = [rest EXCEPT !.pc = "down"]
  BY <1>1, <1>2
<1>5. r \in Runs /\ r.pc = "down" /\ r.msg = "none"
  BY <1>3, <1>4 DEF Runs
<1>6. RunOK(r) /\ run' = r
  BY <1>1, <1>5 DEF RunOK, Stop
<1>7. FetchInv' /\ UNCHANGED <<ledger, rested>>
  BY FaultCounts, CallsLost DEF Inv, Stop
<1>8. /\ LedgerOK' /\ \A x \in Items : (Remembered(x) /\ Kind(x))'
      /\ \A x \in Items : x \in DOMAIN ledger => told'[x].cut \/ told'[x].heard \in {"event", "warning"}
  <2>1. CASE run.msg = "none"
    <3>1. told' = told
      BY <2>1 DEF Stop
    <3> QED
      BY <2>1, <3>1, <1>7
         DEF Inv, ItemsOK, LedgerOK, Honest, Remembered, Kind, Stands, Forgotten
  <2>2. CASE run.msg # "none" /\ run.msg # "unmark" /\ Heard(TRUE)
    <3>1. run.msg \in {"event", "warning", "all-clear"}
      BY <2>2 DEF Inv, RunOK, Runs
    <3>2. PICK cut \in BOOLEAN : cut = TRUE
      OBVIOUS
    <3>3. Heard(cut)
      BY <2>2, <3>2
    <3>4. /\ LedgerOK' /\ \A x \in Items : (Remembered(x) /\ Kind(x))'
          /\ \A x \in Items : x \in DOMAIN ledger =>
               told'[x].cut \/ told'[x].heard \in {"event", "warning"} \/ (run.msg = "all-clear" /\ x = TheItem)
          /\ told'[TheItem].cut
      BY <3>1, <3>2, <3>3, <1>7, HeardKeeps
    <3> QED
      BY <3>4
  <2>3. CASE run.msg # "none" /\ CutShort
    BY <2>3, <1>7, CutShortKeeps
  <2> QED
    BY <2>1, <2>2, <2>3 DEF Stop
<1> QED
  BY <1>5, <1>6, <1>7, <1>8 DEF Inv, ItemsOK, Honest, ClockOK, MessageOK

\* What the ledger forgets was heard longer ago than it keeps entries.
LEMMA PruneKeeps == ASSUME Inv, Prune PROVE Inv'
<1>1. PICK r : r = Resting
  OBVIOUS
<1>2. r.pc = "idle" /\ r.msg = "none" /\ run' = r
  BY <1>1 DEF Resting, Prune
<1>3. RunOK(r)
  BY <1>1, <1>2, Rest DEF RunOK
<1>4. run.msg = "none"
  BY ItemUnderWay DEF Inv, Prune
<1>5. FetchInv' /\ told' = told /\ rested' = FALSE
  BY NoFetch DEF Inv, Prune
<1>6. /\ DOMAIN ledger' = {y \in DOMAIN ledger : ledger[y] <= LedgerRetention}
      /\ \A y \in DOMAIN ledger' : ledger'[y] = ledger[y]
      /\ ledger' \in [DOMAIN ledger' -> Ages]
  BY DEF Prune, Inv, LedgerOK
<1>7. LedgerOK' /\ ClockOK' /\ MessageOK'
  BY <1>2, <1>5, <1>6 DEF Inv, LedgerOK, ClockOK, MessageOK
<1>8. ASSUME NEW x \in Items PROVE (Honest(x) /\ Remembered(x) /\ Kind(x))'
  <2>1. (Honest(x) /\ Kind(x))'
    BY <1>4, <1>5, <1>6 DEF Inv, ItemsOK, Honest, Kind
  <2>2. Remembered(x)'
    <3> SUFFICES ASSUME Stands(x) PROVE x \in DOMAIN ledger' /\ ledger'[x] <= told[x].age
      BY <1>5 DEF Remembered, Stands, Forgotten
    <3>1. x \in DOMAIN ledger /\ ledger[x] <= told[x].age /\ ~(told[x].age > LedgerRetention)
      BY DEF Inv, ItemsOK, Remembered, Stands, Forgotten
    <3>2. ledger[x] \in Nat /\ told[x].age \in Nat /\ LedgerRetention \in Nat
      BY <3>1, AgesAreNaturals, ZeroAge DEF Inv
    <3> QED
      BY <3>1, <3>2, <1>6
  <2> QED
    BY <2>1, <2>2
<1> QED
  BY <1>2, <1>3, <1>5, <1>7, <1>8 DEF Inv, ItemsOK

LEMMA TickKeeps == ASSUME Inv, Tick PROVE Inv'
<1>1. FetchInv' /\ run' = run /\ rested' = TRUE
  BY ElapseKeeps DEF Inv, Tick
<1>2. run.msg = "none"
  BY ItemUnderWay DEF Inv, ClockOK, Tick
<1>3. /\ DOMAIN ledger' = DOMAIN ledger /\ ledger' \in [DOMAIN ledger' -> Ages]
      /\ \A x \in DOMAIN ledger : ledger'[x] = Older(ledger[x])
  BY OlderAge DEF Inv, LedgerOK, Tick
<1>4. ASSUME NEW x \in Items
      PROVE  /\ told'[x] \in Tales /\ told'[x].heard = told[x].heard /\ told'[x].cut = told[x].cut
             /\ told'[x].age = Older(told[x].age)
  <2>1. PICK n : n = Older(told[x].age)
    OBVIOUS
  <2>2. told[x] \in Tales /\ n \in Ages
    BY <2>1, OlderAge DEF Inv, LedgerOK, Tales
  <2>3. told'[x] = [told[x] EXCEPT !.age = n]
    BY <2>1 DEF Tick
  <2> QED
    BY <2>1, <2>2, <2>3 DEF Tales
<1>5. LedgerOK'
  BY <1>3, <1>4 DEF Inv, LedgerOK, Tick
<1>6. ASSUME NEW x \in Items PROVE (Honest(x) /\ Remembered(x) /\ Kind(x))'
  <2>1. (Honest(x) /\ Kind(x))'
    BY <1>2, <1>3, <1>4 DEF Inv, ItemsOK, Honest, Kind
  <2>2. Remembered(x)'
    <3> SUFFICES ASSUME Stands(x)' PROVE x \in DOMAIN ledger' /\ ledger'[x] <= told'[x].age
      BY DEF Remembered
    <3>1. PICK n \in Ages : n = told[x].age
      BY DEF Inv, LedgerOK, Tales
    <3>2. ~(Older(n) > LedgerRetention) /\ told[x].heard \in {"event", "warning"}
      BY <1>4, <3>1 DEF Stands, Forgotten
    <3>3. ~(n > LedgerRetention)
      BY <3>1, <3>2, OlderAge, ZeroAge, FetchAssumption DEF Ages
    <3>4. Stands(x)
      BY <3>1, <3>2, <3>3 DEF Stands, Forgotten
    <3>5. x \in DOMAIN ledger /\ ledger[x] <= n
      BY <3>1, <3>4 DEF Inv, ItemsOK, Remembered
    <3>6. PICK l \in Ages : l = ledger[x]
      BY <3>5 DEF Inv, LedgerOK
    <3>7. Older(l) <= Older(n)
      BY <3>5, <3>6, FetchAssumption DEF Older, Ages
    <3> QED
      BY <3>1, <3>5, <3>6, <3>7, <1>3, <1>4
  <2> QED
    BY <2>1, <2>2
<1>7. RunOK(run)' /\ ClockOK' /\ MessageOK'
  BY <1>1, <1>2 DEF Inv, RunOK, ClockOK, MessageOK
<1> QED
  BY <1>1, <1>5, <1>6, <1>7 DEF Inv, ItemsOK

-----------------------------------------------------------------------------
(* The theorems.                                                           *)

LEMMA Initially == Init => Inv
<1> SUFFICES ASSUME Init PROVE Inv
  OBVIOUS
<1>1. FetchInv
  BY FetchInitially DEF Init
<1>2. PICK r : r = Resting
  OBVIOUS
<1>3. run = r /\ r.pc = "idle" /\ r.msg = "none" /\ r \in Runs
  BY <1>2, Rest DEF Init, Resting
<1>4. RunOK(run) /\ ClockOK /\ MessageOK
  BY <1>3 DEF Init, RunOK, ClockOK, MessageOK
<1>5. DOMAIN ledger = {} /\ ledger \in [DOMAIN ledger -> Ages]
  BY DEF Init
<1>6. told \in [Items -> Tales] /\ \A x \in Items : told[x].heard = "nothing"
  BY ZeroAge DEF Init, Tales
<1>7. LedgerOK /\ ItemsOK
  BY <1>5, <1>6 DEF LedgerOK, ItemsOK, Honest, Remembered, Kind, Stands
<1> QED
  BY <1>1, <1>4, <1>7 DEF Inv

LEMMA Consecution == ASSUME Inv, [Next]_vars PROVE Inv'
<1>1. CASE RunStep
  <2>1. CASE CallStep(Watcher)
    BY <2>1, NotifierAssumption, CallKeeps, OnlyFetched DEF Inv, CallStep, OnlyFetches
  <2> QED
    BY <1>1, <2>1, StartKeeps, MergedKeeps, FetchedKeeps, RunStaleKeeps, SentKeeps, UnmarkKeeps,
       FeedDoneKeeps, PruneKeeps, NextFeedKeeps, FetchKeeps, AnnounceKeeps, AlarmKeeps, AllClearKeeps
       DEF RunStep
<1>2. CASE Others
  <2>1. CASE Sources /\ OnlyFetches
    BY <2>1, SourcesKeep, OnlyFetched DEF Inv, OnlyFetches
  <2>2. CASE Cleanup /\ OnlyFetches
    BY <2>2, CleanupKeeps, OnlyFetched DEF Inv, OnlyFetches
  <2>3. ASSUME NEW a \in Fetchers, CallStep(a) \/ (Asks(a) /\ OnlyFetches) PROVE Inv'
    <3>1. FetchInv'
      BY <2>3, CallKeeps, ReturnKeeps, BeginKeeps, BeginFailsKeeps DEF Inv, CallStep, Asks
    <3> QED
      BY <2>3, <3>1, OnlyFetched DEF CallStep, OnlyFetches
  <2> QED
    BY <1>2, <2>1, <2>2, <2>3 DEF Others
<1>3. CASE FaultStep
  BY <1>3, SendFailsKeeps, UnmarkFailsKeeps, RunFailsKeeps, StopKeeps, SkipKeeps DEF FaultStep
<1>4. CASE Restart \/ Tick
  BY <1>4, RestartKeeps, TickKeeps
<1>5. CASE UNCHANGED vars
  BY <1>5, NoFetch, OnlyFetched DEF Inv, vars
<1> QED
  BY <1>1, <1>2, <1>3, <1>4, <1>5 DEF Next

LEMMA Invariance == Spec => []Inv
  BY Initially, Consecution, PTL DEF Spec

\* The fetches, the ledger and the run keep their types.
THEOREM NotifierTypes == Spec => []TypeOK
<1>1. Inv => TypeOK
  BY DEF Inv, TypeOK, FetchInv, RunOK, Runs, ClockOK, LedgerOK, Tales
<1> QED
  BY <1>1, Invariance, PTL

\* A copy served without asking was current within the TTL, for any callers,
\* late answers and faults.
THEOREM CopiesAreFresh == Spec => []FreshEnough
<1>1. Inv => FreshEnough
  BY FreshIsFreshEnough DEF Inv
<1> QED
  BY <1>1, Invariance, PTL

\* Warnings and all-clears alternate and events are announced once, unless
\* the ledger forgot, whatever stops and failures come between.
THEOREM NoRepeats == Spec => []MessagesAlternate
<1>1. Inv => MessagesAlternate
  <2> SUFFICES ASSUME Inv PROVE MessagesAlternate
    OBVIOUS
  <2>1. CASE run.msg = "none"
    BY <2>1 DEF MessagesAlternate
  <2>2. CASE run.msg # "none"
    <3>1. TheItem \in Items
      BY <2>2, ItemUnderWay DEF Inv
    <3> QED
      BY <3>1 DEF Inv, ItemsOK, MessageOK, Kind, Stands, Forgotten, MessagesAlternate
  <2> QED
    BY <2>1, <2>2
<1> QED
  BY <1>1, Invariance, PTL

\* Between messages the ledger holds what was heard or cut short.
THEOREM LedgerIsHonest == Spec => []LedgerHonest
<1>1. Inv => LedgerHonest
  BY DEF Inv, ItemsOK, LedgerOK, Honest, LedgerHonest
<1> QED
  BY <1>1, Invariance, PTL
=============================================================================
