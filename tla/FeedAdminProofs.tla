--------------------------- MODULE FeedAdminProofs ---------------------------
(***************************************************************************)
(* What the FeedAdmin run shows on two feeds and two requests, proved for  *)
(* every set of feeds, users, secrets, forms and concurrent requests.      *)
(***************************************************************************)
EXTENDS FeedAdmin, FiniteSetTheorems, NaturalsInduction, WellFoundedInduction, TLAPS

-----------------------------------------------------------------------------
(* From a form to the columns of a row.                                    *)

\* Last picks an element: a non-empty set of positions has a greatest one.
LEMMA LastIsIn ==
  ASSUME NEW n \in Nat, NEW S \in SUBSET (1 .. n), S # {}
  PROVE  Last(S) \in S
<1>. DEFINE T == {n - i : i \in S}
<1>1. T \subseteq Nat /\ T # {}
  OBVIOUS
<1>2. PICK x \in T : \A y \in T : ~(<<y, x>> \in OpToRel(<, Nat))
  BY <1>1, NatLessThanWellFounded, WFMin
<1>3. PICK i \in S : x = n - i
  OBVIOUS
<1>4. ASSUME NEW j \in S  PROVE j <= i
  <2>1. n - j \in T /\ n - j \in Nat /\ x \in Nat
    BY <1>1
  <2>2. ~(n - j < x)
    BY <1>2, <2>1 DEF OpToRel
  <2>. QED  BY <1>3, <2>1, <2>2
<1>5. \E k \in S : \A j \in S : j <= k
  BY <1>4
<1>. QED  BY <1>5 DEF Last

\* The elements of a sequence.
LEMMA ElementType ==
  ASSUME NEW S, NEW s \in Seq(S), NEW i \in DOMAIN s
  PROVE  s[i] \in S
<1>1. s \in [1 .. Len(s) -> S] /\ DOMAIN s = 1 .. Len(s)
  OBVIOUS
<1>. QED  BY <1>1

\* A form is made of values of its fields.
LEMMA FormFields ==
  ASSUME NEW form \in Forms
  PROVE  /\ form.text \in Texts /\ form.sources \in AskedSources
         /\ form.guard \in Guards /\ form.channel \in Channels \cup {None}
BY FeedAssumption DEF FormType

\* preserveSourceSecrets returns sources, whatever is asked for and stored.
LEMMA PreserveType ==
  ASSUME NEW asked \in AskedSources, NEW stored \in Sources
  PROVE  PreserveSecrets(asked, stored) \in Sources
<1>. DEFINE Source == [url : Urls, password : Secret]
            password(i) ==
              IF asked[i].clear \/ asked[i].password # None THEN asked[i].password
              ELSE IF Stored(stored, asked[i].url) # {}
                   THEN stored[Last(Stored(stored, asked[i].url))].password
              ELSE IF i \in DOMAIN stored THEN stored[i].password
              ELSE None
<1>1. \A i \in DOMAIN stored : stored[i] \in Source
  <2>1. stored \in Seq(Source)
    BY DEF Sources
  <2>. HIDE DEF Source
  <2>. QED  BY <2>1, ElementType
<1>2. ASSUME NEW i \in DOMAIN asked  PROVE asked[i].url \in Urls /\ password(i) \in Secret
  <2>1. asked[i] \in [url : Urls, password : Secret, clear : BOOLEAN]
    <3>. DEFINE Asked == [url : Urls, password : Secret, clear : BOOLEAN]
    <3>1. asked \in Seq(Asked)
      BY DEF AskedSources
    <3>. HIDE DEF Asked
    <3>2. asked[i] \in Asked
      BY <3>1, ElementType
    <3>. QED  BY <3>2 DEF Asked
  <2>2. ASSUME Stored(stored, asked[i].url) # {}
        PROVE  stored[Last(Stored(stored, asked[i].url))].password \in Secret
    <3>1. Len(stored) \in Nat /\ DOMAIN stored = 1 .. Len(stored)
      BY DEF Sources
    <3>2. Last(Stored(stored, asked[i].url)) \in Stored(stored, asked[i].url)
      BY <2>2, <3>1, LastIsIn DEF Stored
    <3>3. Last(Stored(stored, asked[i].url)) \in DOMAIN stored
      BY <3>2 DEF Stored
    <3>. QED  BY <1>1, <3>3
  <2>3. None \in Secret
    BY DEF Secret
  <2>. QED  BY <1>1, <2>1, <2>2, <2>3
<1>3. /\ DOMAIN asked = 1 .. Len(asked) /\ Len(asked) \in Nat
      /\ PreserveSecrets(asked, stored)
           = [i \in DOMAIN asked |-> [url |-> asked[i].url, password |-> password(i)]]
  BY DEF PreserveSecrets, AskedSources
<1>. HIDE DEF password
<1>4. PreserveSecrets(asked, stored) \in [1 .. Len(asked) -> Source]
  BY <1>2, <1>3
<1>. QED  BY <1>3, <1>4 DEF Sources

\* So a filled row is a row; only text, sources, protection and channel change.
LEMMA FilledType ==
  ASSUME NEW row \in Rows, NEW form \in Forms
  PROVE  /\ Filled(row, form) \in Rows
         /\ Filled(row, form).secret = row.secret
         /\ Filled(row, form).serves = row.serves
<1>. DEFINE sources == PreserveSecrets(form.sources, row.sources)
            guard == ResolveBasicAuth(form.guard, row.guard.password)
            channel == BuildNotifications(form.channel, row.channel)
<1>1. /\ row.sources \in Sources /\ row.guard \in Guards /\ row.channel \in Channels
      /\ row.guard.password \in Secret
  BY DEF Rows, Guards
<1>2. sources \in Sources
  BY <1>1, FormFields, PreserveType
<1>3. guard \in Guards
  BY <1>1, FormFields DEF ResolveBasicAuth, NoGuard, Guards, Secret
<1>4. channel \in Channels
  <2>1. form.channel \in Channels \cup {None}
    BY FormFields
  <2>2. CASE form.channel = None
    BY <1>1, <2>2 DEF BuildNotifications
  <2>3. CASE form.channel # None
    BY <1>1, <2>1, <2>3 DEF BuildNotifications, Channels
  <2>. QED  BY <2>2, <2>3
<1>5. Filled(row, form) = [row EXCEPT !.text = form.text, !.sources = sources,
                                      !.guard = guard, !.channel = channel]
  BY DEF Filled
<1>. HIDE DEF sources, guard, channel
<1>. QED  BY <1>2, <1>3, <1>4, <1>5, FormFields DEF Rows

\* A created row is a row under the given secret that nobody was served from.
LEMMA NewRowType ==
  ASSUME NEW u \in Users, NEW s \in Secrets, NEW form \in Forms
  PROVE  NewRow(u, s, form) \in Rows /\ NewRow(u, s, form).secret = s
         /\ NewRow(u, s, form).serves = 0
<1>. DEFINE empty == [owner |-> u, secret |-> s, text |-> form.text, sources |-> <<>>,
                      guard |-> NoGuard, channel |-> NoChannel, serves |-> 0]
<1>1. NoGuard \in Guards /\ NoChannel \in Channels /\ <<>> \in Sources
  BY DEF NoGuard, NoChannel, Guards, Channels, Secret, Sources
<1>2. empty \in Rows
  BY <1>1, FormFields DEF Rows
<1>3. NewRow(u, s, form) = Filled(empty, form)
  BY DEF NewRow
<1>4. empty.secret = s /\ empty.serves = 0
  OBVIOUS
<1>. HIDE DEF empty
<1>. QED  BY <1>2, <1>3, <1>4, FilledType

-----------------------------------------------------------------------------
(* Type correctness and the serve counts.                                  *)

\* An id is in use before anything is read, or counted, under it; only an
\* update carries a form.
Known ==
  /\ DOMAIN feeds \subseteq issued
  /\ \A f \in Feeds \ issued : answered[f] = 0
  /\ \A r \in Requests : req[r] # Idle => req[r].feed \in issued
  /\ \A r \in Requests : req[r].pc = "update" => req[r].form \in Forms

\* The answers to f's clients that are still to be counted.
Marks(f) == {r \in Requests : req[r].pc = "mark" /\ req[r].feed = f}

\* ServesAreCounted, and for feeds that are deleted what is left of it.
Counted ==
  \A f \in Feeds :
    /\ Cardinality(Marks(f)) <= answered[f]
    /\ f \in DOMAIN feeds => feeds[f].serves + Cardinality(Marks(f)) = answered[f]

TInv == TypeOK /\ Known /\ Counted

\* Replacing or adding one row.
LEMMA RowType ==
  ASSUME NEW f, NEW row, feeds' = Row(f, row)
  PROVE  /\ DOMAIN feeds' = DOMAIN feeds \cup {f}
         /\ feeds'[f] = row
         /\ \A g \in DOMAIN feeds : g # f => feeds'[g] = feeds[g]
BY DEF Row

\* What a request has read.
LEMMA ReadingType ==
  ASSUME TypeOK, NEW r \in Requests, req[r].pc # "idle"
  PROVE  /\ req[r] # Idle /\ req[r] \in Reading
         /\ req[r].feed \in Feeds /\ req[r].row \in Rows /\ req[r].writes \in Nat
<1>1. req[r] # Idle
  BY DEF Idle
<1>2. req[r] \in Reading
  BY <1>1 DEF TypeOK
<1>. QED  BY <1>1, <1>2 DEF Reading

\* One request moves.
LEMMA RequestStep ==
  ASSUME TypeOK, NEW r \in Requests, NEW v \in {Idle} \cup Reading,
         req' = [req EXCEPT ![r] = v]
  PROVE  /\ req' \in [Requests -> {Idle} \cup Reading]
         /\ req'[r] = v
         /\ \A q \in Requests : q # r => req'[q] = req[q]
BY DEF TypeOK

LEMMA MarksFinite == \A f : IsFiniteSet(Marks(f)) /\ Cardinality(Marks(f)) \in Nat
<1>. SUFFICES ASSUME NEW f  PROVE IsFiniteSet(Marks(f)) /\ Cardinality(Marks(f)) \in Nat
  OBVIOUS
<1>1. Marks(f) \in SUBSET Requests
  BY DEF Marks
<1>2. IsFiniteSet(Marks(f))
  BY <1>1, FeedAssumption, FS_Subset
<1>. QED  BY <1>2, FS_CardinalityType

\* A step in which no request starts or stops to wait for its count.
LEMMA SameMarks ==
  ASSUME \A q \in Requests : \/ req'[q] = req[q]
                             \/ req[q].pc # "mark" /\ req'[q].pc # "mark"
  PROVE  \A f : Marks(f)' = Marks(f)
BY DEF Marks

LEMMA CountedSame ==
  ASSUME Counted, answered' = answered, \A f : Marks(f)' = Marks(f),
         \A f \in DOMAIN feeds' \cap Feeds :
           \/ f \in DOMAIN feeds /\ feeds'[f].serves = feeds[f].serves
           \/ feeds'[f].serves + Cardinality(Marks(f)) = answered[f]
  PROVE  Counted'
BY DEF Counted

LEMMA CreateOK == ASSUME TInv, NEW u \in Users, NEW form \in Forms, Create(u, form)  PROVE TInv'
<1>1. PICK f \in Feeds \ issued, s \in Secrets \ issued :
        feeds' = Row(f, NewRow(u, s, form)) /\ issued' = issued \cup {f, s}
  BY DEF Create
<1>2. UNCHANGED <<req, retired, writes, overrun, answered>> /\ begun' = begun + 1 /\ begun < MaxBegun
  BY DEF Create, Begin
<1>. DEFINE row == NewRow(u, s, form)
<1>3. row \in Rows /\ row.serves = 0
  BY NewRowType
<1>4. feeds' = Row(f, row)
  BY <1>1
<1>. HIDE DEF row
<1>5. /\ DOMAIN feeds' = DOMAIN feeds \cup {f} /\ feeds'[f] = row
      /\ \A g \in DOMAIN feeds : g # f => feeds'[g] = feeds[g]
  BY <1>4, RowType
<1>6. f \notin DOMAIN feeds
  BY DEF TInv, Known
<1>7. TypeOK'
  BY <1>1, <1>2, <1>3, <1>5, <1>6, FeedAssumption DEF TInv, TypeOK
<1>8. Known'
  BY <1>1, <1>2, <1>5 DEF TInv, Known
<1>9. Counted'
  <2>1. \A g : Marks(g)' = Marks(g)
    BY <1>2 DEF Marks
  <2>2. Cardinality(Marks(f)) = 0 /\ answered[f] = 0
    <3>1. \A r \in Requests : req[r].pc = "mark" => req[r].feed # f
      BY DEF TInv, Known, Idle
    <3>2. Marks(f) = {}
      BY <3>1 DEF Marks
    <3>. QED  BY <3>2, FS_EmptySet DEF TInv, Known
  <2>3. feeds'[f].serves + Cardinality(Marks(f)) = answered[f]
    BY <1>3, <1>5, <2>2
  <2>4. \A g \in DOMAIN feeds' \cap Feeds : g # f => g \in DOMAIN feeds /\ feeds'[g].serves = feeds[g].serves
    BY <1>5
  <2>. QED  BY <1>2, <2>1, <2>3, <2>4, CountedSame DEF TInv
<1>. QED  BY <1>7, <1>8, <1>9 DEF TInv

LEMMA DeleteOK == ASSUME TInv, NEW u \in Users, NEW f \in Feeds, Delete(u, f)  PROVE TInv'
<1>1. /\ f \in DOMAIN feeds /\ feeds' = [x \in DOMAIN feeds \ {f} |-> feeds[x]]
      /\ retired' = retired \cup {feeds[f].secret}
      /\ UNCHANGED <<issued, req, writes, overrun, answered>>
      /\ begun' = begun + 1 /\ begun < MaxBegun
  BY DEF Delete, Begin
<1>2. feeds[f].secret \in Secrets
  BY <1>1 DEF TInv, TypeOK, Rows
<1>3. TypeOK'
  BY <1>1, <1>2, FeedAssumption DEF TInv, TypeOK
<1>4. Known'
  BY <1>1 DEF TInv, Known
<1>5. Counted'
  BY <1>1, CountedSame DEF TInv, Marks
<1>. QED  BY <1>3, <1>4, <1>5 DEF TInv

\* Reading a row, by its owner or for a client.
LEMMA ReadOK ==
  ASSUME TInv, NEW r \in Requests, NEW f \in DOMAIN feeds,
         NEW pc \in {"update", "rotate", "render"}, NEW form \in Forms \cup {None},
         pc = "update" => form \in Forms,
         Begin, req[r] = Idle,
         req' = [req EXCEPT ![r] = [pc |-> pc, feed |-> f, row |-> feeds[f],
                                    writes |-> writes[f], form |-> form]],
         UNCHANGED <<feeds, issued, retired, writes, overrun, answered>>
  PROVE  TInv'
<1>. DEFINE v == [pc |-> pc, feed |-> f, row |-> feeds[f], writes |-> writes[f], form |-> form]
<1>1. v \in Reading
  BY DEF TInv, TypeOK, Reading
<1>2. v # Idle /\ v.pc = pc /\ v.feed = f /\ v.form = form
  BY <1>1 DEF Reading, Idle
<1>3. req' = [req EXCEPT ![r] = v]
  OBVIOUS
<1>. HIDE DEF v
<1>4. /\ req' \in [Requests -> {Idle} \cup Reading] /\ req'[r] = v
      /\ \A q \in Requests : q # r => req'[q] = req[q]
  BY <1>1, <1>3, RequestStep DEF TInv
<1>5. TypeOK'
  BY <1>4, FeedAssumption DEF TInv, TypeOK, Begin
<1>6. Known'
  BY <1>2, <1>4 DEF TInv, Known
<1>7. \A g : Marks(g)' = Marks(g)
  BY <1>2, <1>4, SameMarks DEF Idle
<1>8. Counted'
  BY <1>7, CountedSame DEF TInv
<1>. QED  BY <1>5, <1>6, <1>8 DEF TInv

\* Dropping a request that was not about to count.
LEMMA DropOK ==
  ASSUME TInv, NEW r \in Requests, req[r].pc \in {"update", "rotate", "render"},
         req' = [req EXCEPT ![r] = Idle],
         UNCHANGED <<feeds, issued, begun, retired, writes, overrun, answered>>
  PROVE  TInv'
<1>1. /\ req' \in [Requests -> {Idle} \cup Reading] /\ req'[r] = Idle
      /\ \A q \in Requests : q # r => req'[q] = req[q]
  BY RequestStep DEF TInv
<1>2. TypeOK'
  BY <1>1 DEF TInv, TypeOK
<1>3. Known'
  BY <1>1 DEF TInv, Known, Idle
<1>4. \A g : Marks(g)' = Marks(g)
  BY <1>1, SameMarks DEF Idle
<1>5. Counted'
  BY <1>4, CountedSame DEF TInv
<1>. QED  BY <1>2, <1>3, <1>5 DEF TInv

\* The write of an update or a rotation: a row that keeps the count it finds.
LEMMA WriteOK ==
  ASSUME TInv, NEW r \in Requests, req[r].pc \in {"update", "rotate"},
         NEW row \in Rows, Write(r, row),
         issued \subseteq issued', issued' \subseteq Feeds \cup Secrets, retired' \subseteq Secrets
  PROVE  TInv'
<1>. DEFINE f == req[r].feed
            written == [row EXCEPT !.serves = feeds[f].serves]
<1>1. f \in Feeds
  BY ReadingType DEF TInv
<1>2. /\ feeds' = IF f \in DOMAIN feeds THEN Row(f, written) ELSE feeds
      /\ writes' = [writes EXCEPT ![f] = @ + 1]
      /\ overrun' \subseteq overrun \cup {f}
      /\ req' = [req EXCEPT ![r] = Idle]
      /\ UNCHANGED <<begun, answered>>
  BY DEF Write, UpdateFeed
<1>3. ASSUME f \in DOMAIN feeds  PROVE written \in Rows /\ written.serves = feeds[f].serves
  <2>1. feeds[f].serves \in Nat
    BY <1>3 DEF TInv, TypeOK, Rows
  <2>. QED  BY <2>1 DEF Rows
<1>. HIDE DEF f, written
<1>4. /\ req' \in [Requests -> {Idle} \cup Reading] /\ req'[r] = Idle
      /\ \A q \in Requests : q # r => req'[q] = req[q]
  BY <1>2, RequestStep DEF TInv
<1>5. /\ DOMAIN feeds' = DOMAIN feeds
      /\ \A g \in DOMAIN feeds : feeds'[g] \in Rows /\ feeds'[g].serves = feeds[g].serves
  <2>1. CASE f \in DOMAIN feeds
    <3>1. /\ DOMAIN feeds' = DOMAIN feeds \cup {f} /\ feeds'[f] = written
          /\ \A g \in DOMAIN feeds : g # f => feeds'[g] = feeds[g]
      BY <1>2, <2>1, RowType
    <3>. QED  BY <1>3, <2>1, <3>1 DEF TInv, TypeOK
  <2>2. CASE f \notin DOMAIN feeds
    BY <1>2, <2>2 DEF TInv, TypeOK
  <2>. QED  BY <2>1, <2>2
<1>6. writes' \in [Feeds -> Nat]
  BY <1>1, <1>2 DEF TInv, TypeOK
<1>7. TypeOK'
  BY <1>1, <1>2, <1>4, <1>5, <1>6 DEF TInv, TypeOK
<1>8. Known'
  BY <1>2, <1>4, <1>5 DEF TInv, Known, Idle
<1>9. \A g : Marks(g)' = Marks(g)
  BY <1>4, SameMarks DEF Idle
<1>10. Counted'
  BY <1>2, <1>5, <1>9, CountedSame DEF TInv
<1>. QED  BY <1>7, <1>8, <1>10 DEF TInv

LEMMA WriteUpdateOK == ASSUME TInv, NEW r \in Requests, WriteUpdate(r)  PROVE TInv'
<1>1. req[r].row \in Rows /\ req[r].form \in Forms
  BY ReadingType DEF WriteUpdate, TInv, Known
<1>2. Filled(req[r].row, req[r].form) \in Rows
  BY <1>1, FilledType
<1>. QED  BY <1>2, WriteOK DEF WriteUpdate, TInv, TypeOK

LEMMA WriteRotationOK == ASSUME TInv, NEW r \in Requests, WriteRotation(r)  PROVE TInv'
<1>1. PICK s \in Secrets \ issued :
        issued' = issued \cup {s} /\ Write(r, [req[r].row EXCEPT !.secret = s])
  BY DEF WriteRotation
<1>2. req[r].row \in Rows
  BY ReadingType DEF WriteRotation, TInv
<1>3. [req[r].row EXCEPT !.secret = s] \in Rows /\ req[r].row.secret \in Secrets
  BY <1>2 DEF Rows
<1>4. retired' \subseteq Secrets
  BY <1>3 DEF WriteRotation, TInv, TypeOK
<1>5. issued \subseteq issued' /\ issued' \subseteq Feeds \cup Secrets
  BY <1>1 DEF TInv, TypeOK
<1>. QED  BY <1>1, <1>3, <1>4, <1>5, WriteOK DEF WriteRotation

LEMMA AnswerOK == ASSUME TInv, NEW r \in Requests, Answer(r)  PROVE TInv'
<1>. DEFINE v == [req[r] EXCEPT !.pc = "mark"]
<1>0. req[r].pc = "render" /\ req[r] \in Reading
  BY ReadingType DEF Answer, TInv
<1>1. PICK f \in Feeds : f = req[r].feed
  BY <1>0 DEF Reading
<1>2. /\ req' = [req EXCEPT ![r] = v]
      /\ answered' = [answered EXCEPT ![f] = @ + 1]
      /\ UNCHANGED <<feeds, issued, begun, retired, writes, overrun>>
  BY <1>1 DEF Answer
<1>3. v \in Reading /\ v.pc = "mark" /\ v.feed = f
  BY <1>0, <1>1 DEF Reading
<1>. HIDE DEF v
<1>4. /\ req' \in [Requests -> {Idle} \cup Reading] /\ req'[r] = v
      /\ \A q \in Requests : q # r => req'[q] = req[q]
  BY <1>2, <1>3, RequestStep DEF TInv
<1>5. /\ answered' \in [Feeds -> Nat] /\ answered'[f] = answered[f] + 1
      /\ \A g \in Feeds : g # f => answered'[g] = answered[g]
  BY <1>2 DEF TInv, TypeOK
<1>6. TypeOK'
  BY <1>2, <1>4, <1>5 DEF TInv, TypeOK
<1>7. f \in issued
  BY <1>0, <1>1 DEF TInv, Known, Idle
<1>8. Known'
  BY <1>2, <1>3, <1>4, <1>5, <1>7 DEF TInv, Known
<1>. DEFINE Waiting(g) == {q \in Requests : req'[q].pc = "mark" /\ req'[q].feed = g}
<1>9. \A g : Marks(g)' = Waiting(g)
  BY DEF Marks
<1>10. /\ r \notin Marks(f) /\ Waiting(f) = Marks(f) \cup {r}
       /\ \A g : g # f => Waiting(g) = Marks(g)
  BY <1>0, <1>3, <1>4 DEF Marks
<1>11. Cardinality(Marks(f)') = Cardinality(Marks(f)) + 1
  BY <1>9, <1>10, MarksFinite, FS_AddElement
<1>12. Counted'
  <2>1. ASSUME NEW g \in Feeds
        PROVE  /\ Cardinality(Marks(g)') <= answered'[g]
               /\ g \in DOMAIN feeds => feeds[g].serves + Cardinality(Marks(g)') = answered'[g]
    <3>1. /\ Cardinality(Marks(g)) \in Nat /\ answered[g] \in Nat
          /\ g \in DOMAIN feeds => feeds[g].serves \in Nat
      BY MarksFinite DEF TInv, TypeOK, Rows
    <3>2. CASE g = f
      BY <1>5, <1>11, <3>1, <3>2 DEF TInv, Counted
    <3>3. CASE g # f
      BY <1>5, <1>9, <1>10, <3>3 DEF TInv, Counted
    <3>. QED  BY <3>2, <3>3
  <2>. QED  BY <1>2, <2>1 DEF Counted
<1>. QED  BY <1>6, <1>8, <1>12 DEF TInv

\* A request stops to wait for its count.
LEMMA UnmarkOK ==
  ASSUME TInv, NEW r \in Requests, NEW f \in Feeds, req[r].pc = "mark", req[r].feed = f,
         req' = [req EXCEPT ![r] = Idle]
  PROVE  /\ req' \in [Requests -> {Idle} \cup Reading] /\ req'[r] = Idle
         /\ \A q \in Requests : q # r => req'[q] = req[q]
         /\ Cardinality(Marks(f)') = Cardinality(Marks(f)) - 1
         /\ Cardinality(Marks(f)') \in Nat
         /\ \A g : g # f => Marks(g)' = Marks(g)
<1>1. /\ req' \in [Requests -> {Idle} \cup Reading] /\ req'[r] = Idle
      /\ \A q \in Requests : q # r => req'[q] = req[q]
  BY RequestStep DEF TInv
<1>. DEFINE Waiting(g) == {q \in Requests : req'[q].pc = "mark" /\ req'[q].feed = g}
<1>2. \A g : Marks(g)' = Waiting(g)
  BY DEF Marks
<1>3. /\ r \in Marks(f) /\ Waiting(f) = Marks(f) \ {r}
      /\ \A g : g # f => Waiting(g) = Marks(g)
  BY <1>1 DEF Marks, Idle
<1>. HIDE DEF Waiting
<1>4. /\ IsFiniteSet(Waiting(f)) /\ Cardinality(Waiting(f)) = Cardinality(Marks(f)) - 1
      /\ Cardinality(Waiting(f)) \in Nat
  BY <1>3, MarksFinite, FS_RemoveElement, FS_CardinalityType
<1>. QED  BY <1>1, <1>2, <1>3, <1>4

LEMMA MarkOK == ASSUME TInv, NEW r \in Requests, Mark(r)  PROVE TInv'
<1>0. req[r].pc = "mark" /\ req[r] \in Reading
  BY ReadingType DEF Mark, TInv
<1>1. PICK f \in Feeds : f = req[r].feed
  BY <1>0 DEF Reading
<1>. DEFINE row == [feeds[f] EXCEPT !.serves = @ + 1]
<1>2. /\ feeds' = IF f \in DOMAIN feeds THEN Row(f, row) ELSE feeds
      /\ req' = [req EXCEPT ![r] = Idle]
      /\ UNCHANGED <<issued, begun, retired, writes, overrun, answered>>
  BY <1>1 DEF Mark
<1>3. ASSUME f \in DOMAIN feeds
      PROVE  row \in Rows /\ row.serves = feeds[f].serves + 1 /\ feeds[f].serves \in Nat
  BY <1>3 DEF TInv, TypeOK, Rows
<1>. HIDE DEF row
<1>4. /\ DOMAIN feeds' = DOMAIN feeds
      /\ \A g \in DOMAIN feeds : feeds'[g] \in Rows
      /\ \A g \in DOMAIN feeds : g # f => feeds'[g] = feeds[g]
      /\ f \in DOMAIN feeds => feeds'[f].serves = feeds[f].serves + 1 /\ feeds[f].serves \in Nat
  <2>1. CASE f \in DOMAIN feeds
    <3>1. /\ DOMAIN feeds' = DOMAIN feeds \cup {f} /\ feeds'[f] = row
          /\ \A g \in DOMAIN feeds : g # f => feeds'[g] = feeds[g]
      BY <1>2, <2>1, RowType
    <3>. QED  BY <1>3, <2>1, <3>1 DEF TInv, TypeOK
  <2>2. CASE f \notin DOMAIN feeds
    BY <1>2, <2>2 DEF TInv, TypeOK
  <2>. QED  BY <2>1, <2>2
<1>5. /\ req' \in [Requests -> {Idle} \cup Reading] /\ req'[r] = Idle
      /\ \A q \in Requests : q # r => req'[q] = req[q]
      /\ Cardinality(Marks(f)') = Cardinality(Marks(f)) - 1
      /\ Cardinality(Marks(f)') \in Nat
      /\ \A g : g # f => Marks(g)' = Marks(g)
  BY <1>0, <1>1, <1>2, UnmarkOK
<1>6. TypeOK'
  BY <1>2, <1>4, <1>5 DEF TInv, TypeOK
<1>7. Known'
  BY <1>2, <1>4, <1>5 DEF TInv, Known, Idle
<1>8. Counted'
  <2>1. ASSUME NEW g \in Feeds
        PROVE  /\ Cardinality(Marks(g)') <= answered[g]
               /\ g \in DOMAIN feeds => feeds'[g].serves + Cardinality(Marks(g)') = answered[g]
    <3>1. Cardinality(Marks(g)) \in Nat /\ answered[g] \in Nat
      BY MarksFinite DEF TInv, TypeOK
    <3>2. CASE g = f
      BY <1>4, <1>5, <3>1, <3>2 DEF TInv, Counted
    <3>3. CASE g # f
      BY <1>4, <1>5, <3>3 DEF TInv, Counted
    <3>. QED  BY <3>2, <3>3
  <2>. QED  BY <1>2, <1>4, <2>1 DEF Counted
<1>. QED  BY <1>6, <1>7, <1>8 DEF TInv

LEMMA MarkFailsOK == ASSUME TInv, NEW r \in Requests, MarkFails(r)  PROVE TInv'
<1>0. req[r].pc = "mark" /\ req[r] \in Reading
  BY ReadingType DEF MarkFails, TInv
<1>1. PICK f \in Feeds : f = req[r].feed
  BY <1>0 DEF Reading
<1>2. /\ req' = [req EXCEPT ![r] = Idle]
      /\ answered' = [answered EXCEPT ![f] = @ - 1]
      /\ UNCHANGED <<feeds, issued, begun, retired, writes, overrun>>
  BY <1>1 DEF MarkFails
<1>3. /\ req' \in [Requests -> {Idle} \cup Reading] /\ req'[r] = Idle
      /\ \A q \in Requests : q # r => req'[q] = req[q]
      /\ Cardinality(Marks(f)') = Cardinality(Marks(f)) - 1
      /\ Cardinality(Marks(f)') \in Nat
      /\ \A g : g # f => Marks(g)' = Marks(g)
  BY <1>0, <1>1, <1>2, UnmarkOK
<1>4. Cardinality(Marks(f)) <= answered[f] /\ answered[f] \in Nat /\ Cardinality(Marks(f)) \in Nat
  BY MarksFinite DEF TInv, Counted, TypeOK
<1>5. answered[f] - 1 \in Nat
  BY <1>3, <1>4
<1>6. /\ answered' \in [Feeds -> Nat] /\ answered'[f] = answered[f] - 1
      /\ \A g \in Feeds : g # f => answered'[g] = answered[g]
  BY <1>2, <1>5 DEF TInv, TypeOK
<1>7. TypeOK'
  BY <1>2, <1>3, <1>6 DEF TInv, TypeOK
<1>8. f \in issued
  BY <1>0, <1>1 DEF TInv, Known, Idle
<1>9. Known'
  BY <1>2, <1>3, <1>6, <1>8 DEF TInv, Known, Idle
<1>10. Counted'
  <2>1. ASSUME NEW g \in Feeds
        PROVE  /\ Cardinality(Marks(g)') <= answered'[g]
               /\ g \in DOMAIN feeds => feeds[g].serves + Cardinality(Marks(g)') = answered'[g]
    <3>1. g \in DOMAIN feeds => feeds[g].serves \in Nat
      BY DEF TInv, TypeOK, Rows
    <3>2. CASE g = f
      BY <1>3, <1>4, <1>6, <3>1, <3>2 DEF TInv, Counted
    <3>3. CASE g # f
      BY <1>3, <1>6, <3>3 DEF TInv, Counted
    <3>. QED  BY <3>2, <3>3
  <2>. QED  BY <1>2, <2>1 DEF Counted
<1>. QED  BY <1>7, <1>9, <1>10 DEF TInv

LEMMA InitOK == Init => TInv
<1>. SUFFICES ASSUME Init  PROVE TInv
  OBVIOUS
<1>1. DOMAIN feeds = {}
  BY DEF Init
<1>2. TypeOK
  BY <1>1, FeedAssumption DEF Init, TypeOK
<1>3. Known
  BY <1>1 DEF Init, Known, Idle
<1>4. Counted
  <2>1. \A f : Marks(f) = {}
    BY DEF Init, Marks, Idle
  <2>2. \A f \in Feeds : Cardinality(Marks(f)) = 0 /\ answered[f] = 0
    BY <2>1, FS_EmptySet DEF Init
  <2>. QED  BY <1>1, <2>2 DEF Counted
<1>. QED  BY <1>2, <1>3, <1>4 DEF TInv

LEMMA StepOK == TInv /\ [Next]_vars => TInv'
<1>. SUFFICES ASSUME TInv, [Next]_vars  PROVE TInv'
  OBVIOUS
<1>1. CASE Owner
  <2>1. ASSUME NEW r \in Requests, NEW u \in Users, NEW f \in Feeds,
               NEW pc \in {"update", "rotate"}, NEW form \in Forms \cup {None},
               pc = "update" => form \in Forms, Read(r, u, f, pc, form)
        PROVE  TInv'
    BY <2>1, ReadOK DEF Read
  <2>. QED  BY <1>1, <2>1, CreateOK, DeleteOK DEF Owner, Update, Rotate
<1>2. ASSUME NEW r \in Requests, Step(r)  PROVE TInv'
  <2>1. CASE GiveUp(r) \/ RenderFails(r)
    BY <2>1, DropOK DEF GiveUp, RenderFails
  <2>. QED  BY <1>2, <2>1, WriteUpdateOK, WriteRotationOK, AnswerOK, MarkOK, MarkFailsOK DEF Step
<1>3. ASSUME NEW r \in Requests, NEW s \in Secrets, NEW p \in Secret, Lookup(r, s, p)
      PROVE  TInv'
  BY <1>3, ReadOK DEF Lookup
<1>4. CASE UNCHANGED vars
  <2>1. \A g : Marks(g)' = Marks(g)
    BY <1>4 DEF vars, Marks
  <2>2. Counted'
    BY <1>4, <2>1, CountedSame DEF vars, TInv
  <2>. QED  BY <1>4, <2>2 DEF vars, TInv, TypeOK, Known
<1>. QED  BY <1>1, <1>2, <1>3, <1>4 DEF Next

-----------------------------------------------------------------------------
(* Links that were taken back.                                             *)

\* f is stored under secret x, or a request in flight may store it under x.
Holds(f, x) ==
  \/ f \in DOMAIN feeds /\ feeds[f].secret = x
  \/ \E r \in Requests : req[r] # Idle /\ req[r].feed = f /\ req[r].row.secret = x

\* No two feeds can have the same secret; secrets in use were handed out.
OneHolder == \A f, g, x : Holds(f, x) /\ Holds(g, x) => f = g
HeldIssued == \A f, x : Holds(f, x) => x \in issued

\* The columns an edit takes over from the row it read.
SameColumns(a, b) ==
  a.secret = b.secret /\ a.sources = b.sources /\ a.guard = b.guard /\ a.channel = b.channel

\* A request that nobody has overtaken remembers the row as it is stored.
Current ==
  \A r \in Requests : req[r] # Idle =>
    /\ req[r].writes <= writes[req[r].feed]
    /\ (req[r].feed \in DOMAIN feeds /\ req[r].writes = writes[req[r].feed])
         => SameColumns(req[r].row, feeds[req[r].feed])

LInv ==
  /\ TInv /\ OneHolder /\ HeldIssued /\ Current
  /\ retired \subseteq issued
  /\ DeadSecretsStayDead

\* A step that stores or reads no secret but a fresh one, x under feed h.
LEMMA HoldersOK ==
  ASSUME OneHolder, HeldIssued, issued \subseteq issued', NEW h, NEW x \in issued',
         \A f, y : Holds(f, y)' => Holds(f, y) \/ (f = h /\ y = x /\ x \notin issued)
  PROVE  OneHolder' /\ HeldIssued'
<1>1. OneHolder'
  BY DEF OneHolder, HeldIssued
<1>2. HeldIssued'
  BY DEF HeldIssued
<1>. QED  BY <1>1, <1>2

\* A step that changes no stored secret, protection, source or channel.
LEMMA QuietOK ==
  ASSUME LInv, TInv', UNCHANGED <<issued, writes, overrun>>,
         \A f \in DOMAIN feeds' : f \in DOMAIN feeds /\ SameColumns(feeds'[f], feeds[f]),
         \A q \in Requests : req'[q] # Idle =>
           \/ /\ req[q] # Idle /\ req'[q].feed = req[q].feed
              /\ req'[q].row = req[q].row /\ req'[q].writes = req[q].writes
           \/ /\ req'[q].feed \in DOMAIN feeds /\ req'[q].row = feeds[req'[q].feed]
              /\ req'[q].writes = writes[req'[q].feed],
         \A x \in retired' : \/ x \in retired
                             \/ x \in issued /\ \A f \in DOMAIN feeds' : feeds'[f].secret # x
  PROVE  LInv'
<1>1. \A f, y : Holds(f, y)' => Holds(f, y)
  BY DEF Holds, SameColumns
<1>2. OneHolder' /\ HeldIssued'
  BY <1>1 DEF OneHolder, HeldIssued, LInv
<1>3. Current'
  <2>1. ASSUME NEW q \in Requests, req'[q] # Idle
        PROVE  /\ req'[q].writes <= writes[req'[q].feed]
               /\ (req'[q].feed \in DOMAIN feeds' /\ req'[q].writes = writes[req'[q].feed])
                    => SameColumns(req'[q].row, feeds'[req'[q].feed])
    <3>1. CASE /\ req[q] # Idle /\ req'[q].feed = req[q].feed
               /\ req'[q].row = req[q].row /\ req'[q].writes = req[q].writes
      BY <3>1 DEF LInv, Current, SameColumns
    <3>2. CASE /\ req'[q].feed \in DOMAIN feeds /\ req'[q].row = feeds[req'[q].feed]
               /\ req'[q].writes = writes[req'[q].feed]
      <4>1. writes[req'[q].feed] \in Nat
        BY <3>2 DEF LInv, TInv, TypeOK
      <4>. QED  BY <3>2, <4>1 DEF SameColumns
    <3>. QED  BY <2>1, <3>1, <3>2
  <2>. QED  BY <2>1 DEF Current, SameColumns
<1>4. retired' \subseteq issued' /\ DeadSecretsStayDead'
  BY DEF LInv, DeadSecretsStayDead, SameColumns
<1>. QED  BY <1>2, <1>3, <1>4 DEF LInv

LEMMA CreateLinks ==
  ASSUME LInv, TInv', NEW u \in Users, NEW form \in Forms, Create(u, form)
  PROVE  LInv'
<1>1. PICK f \in Feeds \ issued, s \in Secrets \ issued :
        feeds' = Row(f, NewRow(u, s, form)) /\ issued' = issued \cup {f, s}
  BY DEF Create
<1>2. UNCHANGED <<req, retired, writes, overrun, answered>>
  BY DEF Create
<1>. DEFINE row == NewRow(u, s, form)
<1>3. row.secret = s
  BY NewRowType
<1>4. feeds' = Row(f, row)
  BY <1>1
<1>. HIDE DEF row
<1>5. /\ DOMAIN feeds' = DOMAIN feeds \cup {f} /\ feeds'[f].secret = s
      /\ \A g \in DOMAIN feeds : g # f => feeds'[g] = feeds[g]
  BY <1>3, <1>4, RowType
<1>6. /\ f \notin DOMAIN feeds
      /\ \A r \in Requests : req[r] # Idle => req[r].feed # f
  BY DEF LInv, TInv, Known
<1>7. \A g, y : Holds(g, y)' => Holds(g, y) \/ (g = f /\ y = s /\ s \notin issued)
  BY <1>2, <1>5 DEF Holds
<1>8. OneHolder' /\ HeldIssued'
  BY <1>1, <1>7, HoldersOK DEF LInv
<1>9. Current'
  BY <1>2, <1>5, <1>6 DEF LInv, Current, SameColumns
<1>10. retired' \subseteq issued' /\ DeadSecretsStayDead'
  BY <1>1, <1>2, <1>5 DEF LInv, DeadSecretsStayDead
<1>. QED  BY <1>8, <1>9, <1>10 DEF LInv

LEMMA DeleteLinks ==
  ASSUME LInv, TInv', NEW u \in Users, NEW f \in Feeds, Delete(u, f)
  PROVE  LInv'
<1>1. /\ f \in DOMAIN feeds /\ feeds' = [x \in DOMAIN feeds \ {f} |-> feeds[x]]
      /\ retired' = retired \cup {feeds[f].secret}
      /\ UNCHANGED <<issued, req, writes, overrun, answered>>
  BY DEF Delete
<1>2. Holds(f, feeds[f].secret)
  BY <1>1 DEF Holds
<1>3. feeds[f].secret \in issued
  BY <1>2 DEF LInv, HeldIssued
<1>4. \A g \in DOMAIN feeds : feeds[g].secret = feeds[f].secret => g = f
  BY <1>2 DEF LInv, OneHolder, Holds
<1>5. \A g \in DOMAIN feeds' : g \in DOMAIN feeds /\ g # f /\ feeds'[g] = feeds[g]
  BY <1>1
<1>. QED  BY <1>1, <1>3, <1>4, <1>5, QuietOK DEF SameColumns

LEMMA ReadLinks ==
  ASSUME LInv, TInv', NEW r \in Requests, NEW f \in DOMAIN feeds,
         NEW pc, NEW form,
         req' = [req EXCEPT ![r] = [pc |-> pc, feed |-> f, row |-> feeds[f],
                                    writes |-> writes[f], form |-> form]],
         UNCHANGED <<feeds, issued, retired, writes, overrun>>
  PROVE  LInv'
<1>1. \A q \in Requests : q # r => req'[q] = req[q]
  BY DEF LInv, TInv, TypeOK
<1>2. /\ req'[r].feed = f /\ req'[r].row = feeds[f] /\ req'[r].writes = writes[f]
  BY DEF LInv, TInv, TypeOK
<1>. QED  BY <1>1, <1>2, QuietOK DEF SameColumns

\* Dropping a request, or moving it on, changes no row but a serve count.
LEMMA MoveLinks ==
  ASSUME LInv, TInv', NEW r \in Requests,
         GiveUp(r) \/ Answer(r) \/ RenderFails(r) \/ Mark(r) \/ MarkFails(r)
  PROVE  LInv'
<1>1. UNCHANGED <<issued, retired, writes, overrun>>
  BY DEF GiveUp, Answer, RenderFails, Mark, MarkFails
<1>2. \A f \in DOMAIN feeds' : f \in DOMAIN feeds /\ SameColumns(feeds'[f], feeds[f])
  <2>1. CASE Mark(r)
    <3>. DEFINE f == req[r].feed
                row == [feeds[f] EXCEPT !.serves = @ + 1]
    <3>1. feeds' = IF f \in DOMAIN feeds THEN Row(f, row) ELSE feeds
      BY <2>1 DEF Mark
    <3>2. f \in DOMAIN feeds => SameColumns(row, feeds[f])
      BY DEF LInv, TInv, TypeOK, Rows, SameColumns
    <3>. HIDE DEF f, row
    <3>3. CASE f \in DOMAIN feeds
      BY <3>1, <3>2, <3>3, RowType DEF SameColumns
    <3>4. CASE f \notin DOMAIN feeds
      BY <3>1, <3>4 DEF SameColumns
    <3>. QED  BY <3>3, <3>4
  <2>2. CASE feeds' = feeds
    BY <2>2 DEF SameColumns
  <2>. QED  BY <2>1, <2>2 DEF GiveUp, Answer, RenderFails, MarkFails
<1>3. \A q \in Requests : q # r => req'[q] = req[q]
  BY DEF GiveUp, Answer, RenderFails, Mark, MarkFails, LInv, TInv, TypeOK
<1>4. CASE req' = [req EXCEPT ![r] = Idle]
  <2>1. req'[r] = Idle
    BY <1>4 DEF LInv, TInv, TypeOK
  <2>. QED  BY <1>1, <1>2, <1>3, <2>1, QuietOK
<1>5. CASE Answer(r)
  <2>1. req[r] # Idle /\ req[r] \in Reading
    BY <1>5, ReadingType DEF Answer, LInv, TInv
  <2>2. /\ req'[r].feed = req[r].feed /\ req'[r].row = req[r].row
        /\ req'[r].writes = req[r].writes
    BY <1>5, <2>1 DEF Answer, LInv, TInv, TypeOK, Reading
  <2>. QED  BY <1>1, <1>2, <1>3, <2>1, <2>2, QuietOK
<1>. QED  BY <1>4, <1>5 DEF GiveUp, RenderFails, Mark, MarkFails

\* What the write of an update or a rotation changes.
LEMMA Written ==
  ASSUME LInv, NEW r \in Requests, req[r].pc \in {"update", "rotate"},
         NEW row \in Rows, Write(r, row), NEW f \in Feeds, f = req[r].feed
  PROVE  /\ DOMAIN feeds' = DOMAIN feeds
         /\ f \in DOMAIN feeds => SameColumns(feeds'[f], row)
         /\ \A g \in DOMAIN feeds : g # f => feeds'[g] = feeds[g]
         /\ writes' \in [Feeds -> Nat] /\ writes'[f] = writes[f] + 1 /\ writes[f] \in Nat
         /\ \A g \in Feeds : g # f => writes'[g] = writes[g]
         /\ req'[r] = Idle /\ \A q \in Requests : q # r => req'[q] = req[q]
         /\ overrun \subseteq overrun'
         /\ f \in DOMAIN feeds /\ req[r].writes # writes[f] => f \in overrun'
<1>. DEFINE written == [row EXCEPT !.serves = feeds[f].serves]
<1>1. /\ feeds' = IF f \in DOMAIN feeds THEN Row(f, written) ELSE feeds
      /\ writes' = [writes EXCEPT ![f] = @ + 1]
      /\ overrun' = IF f \in DOMAIN feeds /\ req[r].writes # writes[f]
                    THEN overrun \cup {f} ELSE overrun
      /\ req' = [req EXCEPT ![r] = Idle]
  BY DEF Write, UpdateFeed
<1>2. SameColumns(written, row)
  BY DEF SameColumns, Rows
<1>. HIDE DEF written
<1>3. /\ DOMAIN feeds' = DOMAIN feeds
      /\ f \in DOMAIN feeds => SameColumns(feeds'[f], row)
      /\ \A g \in DOMAIN feeds : g # f => feeds'[g] = feeds[g]
  <2>1. CASE f \in DOMAIN feeds
    <3>1. /\ DOMAIN feeds' = DOMAIN feeds \cup {f} /\ feeds'[f] = written
          /\ \A g \in DOMAIN feeds : g # f => feeds'[g] = feeds[g]
      BY <1>1, <2>1, RowType
    <3>. QED  BY <1>2, <2>1, <3>1
  <2>2. CASE f \notin DOMAIN feeds
    BY <1>1, <2>2
  <2>. QED  BY <2>1, <2>2
<1>4. /\ writes' \in [Feeds -> Nat] /\ writes'[f] = writes[f] + 1 /\ writes[f] \in Nat
      /\ \A g \in Feeds : g # f => writes'[g] = writes[g]
  BY <1>1 DEF LInv, TInv, TypeOK
<1>5. req'[r] = Idle /\ \A q \in Requests : q # r => req'[q] = req[q]
  BY <1>1 DEF LInv, TInv, TypeOK
<1>6. /\ overrun \subseteq overrun'
      /\ f \in DOMAIN feeds /\ req[r].writes # writes[f] => f \in overrun'
  BY <1>1
<1>. QED  BY <1>3, <1>4, <1>5, <1>6

\* The secret is the one that was read, or a fresh one that retires it.
LEMMA WriteLinks ==
  ASSUME LInv, TInv', NEW r \in Requests, req[r].pc \in {"update", "rotate"},
         NEW row \in Rows, Write(r, row),
         \/ row.secret = req[r].row.secret /\ UNCHANGED <<issued, retired>>
         \/ /\ row.secret \notin issued /\ issued' = issued \cup {row.secret}
            /\ retired' = IF req[r].feed \in DOMAIN feeds
                          THEN retired \cup {req[r].row.secret} ELSE retired
  PROVE  LInv'
<1>1. /\ req[r] # Idle /\ req[r].feed \in Feeds /\ req[r].row \in Rows
      /\ req[r].writes \in Nat
  BY ReadingType DEF LInv, TInv
<1>2. PICK f \in Feeds : f = req[r].feed
  BY <1>1
<1>3. /\ DOMAIN feeds' = DOMAIN feeds
      /\ f \in DOMAIN feeds => SameColumns(feeds'[f], row)
      /\ \A g \in DOMAIN feeds : g # f => feeds'[g] = feeds[g]
  BY <1>2, Written
<1>4. /\ writes'[f] = writes[f] + 1 /\ writes[f] \in Nat
      /\ \A g \in Feeds : g # f => writes'[g] = writes[g]
  BY <1>2, Written
<1>5. req'[r] = Idle /\ \A q \in Requests : q # r => req'[q] = req[q]
  BY <1>2, Written
<1>6. /\ overrun \subseteq overrun'
      /\ f \in DOMAIN feeds /\ req[r].writes # writes[f] => f \in overrun'
  BY <1>2, Written
<1>7. PICK x : x = req[r].row.secret
  OBVIOUS
<1>8. PICK y : y = row.secret
  OBVIOUS
<1>9. Holds(f, x) /\ x \in issued
  BY <1>1, <1>2, <1>7 DEF Holds, LInv, HeldIssued
<1>10. \A g, z : Holds(g, z)' => Holds(g, z) \/ (g = f /\ z = y)
  BY <1>3, <1>5, <1>8 DEF Holds, SameColumns
<1>11. issued \subseteq issued' /\ y \in issued' /\ (y = x \/ y \notin issued)
  BY <1>7, <1>8, <1>9
<1>12. \A g, z : Holds(g, z)' => Holds(g, z) \/ (g = f /\ z = y /\ y \notin issued)
  BY <1>9, <1>10, <1>11
<1>13. OneHolder' /\ HeldIssued'
  BY <1>11, <1>12, HoldersOK DEF LInv
<1>14. Current'
  <2>1. ASSUME NEW q \in Requests, req'[q] # Idle
        PROVE  /\ req'[q].writes <= writes'[req'[q].feed]
               /\ (req'[q].feed \in DOMAIN feeds' /\ req'[q].writes = writes'[req'[q].feed])
                    => SameColumns(req'[q].row, feeds'[req'[q].feed])
    <3>1. q # r /\ req'[q] = req[q] /\ req[q] # Idle
      BY <1>5, <2>1
    <3>2. req[q].feed \in Feeds /\ req[q].writes \in Nat
      BY <3>1 DEF LInv, TInv, TypeOK, Reading
    <3>3. /\ req[q].writes <= writes[req[q].feed]
          /\ (req[q].feed \in DOMAIN feeds /\ req[q].writes = writes[req[q].feed])
               => SameColumns(req[q].row, feeds[req[q].feed])
      BY <3>1 DEF LInv, Current
    <3>4. CASE req[q].feed = f
      BY <1>4, <3>1, <3>2, <3>3, <3>4
    <3>5. CASE req[q].feed # f
      BY <1>3, <1>4, <3>1, <3>2, <3>3, <3>5
    <3>. QED  BY <3>4, <3>5
  <2>. QED  BY <2>1 DEF Current, SameColumns
<1>15. retired' \subseteq issued'
  BY <1>7, <1>9, <1>11 DEF LInv
<1>16. DeadSecretsStayDead'
  <2>1. ASSUME NEW g \in DOMAIN feeds', feeds'[g].secret \in retired'  PROVE g \in overrun'
    <3>1. retired' \subseteq retired \cup {x} /\ g \in DOMAIN feeds
      BY <1>3, <1>7, <2>1
    <3>2. CASE g # f
      <4>1. feeds'[g] = feeds[g] /\ Holds(g, feeds[g].secret)
        BY <1>3, <3>1, <3>2 DEF Holds
      <4>2. feeds[g].secret # x
        BY <1>9, <3>2, <4>1 DEF LInv, OneHolder
      <4>. QED  BY <1>6, <2>1, <3>1, <4>1, <4>2 DEF LInv, DeadSecretsStayDead
    <3>3. CASE g = f
      <4>1. feeds'[f].secret = y
        BY <1>3, <1>8, <3>1, <3>3 DEF SameColumns
      <4>2. y = x /\ retired' = retired
        BY <1>7, <1>8, <1>9, <2>1, <3>1, <3>3, <4>1 DEF LInv
      <4>3. CASE req[r].writes = writes[f]
        <5>1. feeds[f].secret = x
          BY <1>1, <1>2, <1>7, <3>1, <3>3, <4>3 DEF LInv, Current, SameColumns
        <5>. QED  BY <1>6, <2>1, <3>1, <3>3, <4>1, <4>2, <5>1 DEF LInv, DeadSecretsStayDead
      <4>. QED  BY <1>6, <3>1, <3>3, <4>3
    <3>. QED  BY <3>2, <3>3
  <2>. QED  BY <2>1 DEF DeadSecretsStayDead
<1>. QED  BY <1>13, <1>14, <1>15, <1>16 DEF LInv

LEMMA WriteUpdateLinks == ASSUME LInv, TInv', NEW r \in Requests, WriteUpdate(r)  PROVE LInv'
<1>1. req[r].pc = "update" /\ req[r].row \in Rows /\ req[r].form \in Forms
  BY ReadingType DEF WriteUpdate, LInv, TInv, Known
<1>2. PICK row : row = Filled(req[r].row, req[r].form)
  OBVIOUS
<1>3. row \in Rows /\ row.secret = req[r].row.secret
  BY <1>1, <1>2, FilledType
<1>4. Write(r, row) /\ UNCHANGED <<issued, retired>>
  BY <1>2 DEF WriteUpdate
<1>. QED  BY <1>1, <1>3, <1>4, WriteLinks

LEMMA WriteRotationLinks == ASSUME LInv, TInv', NEW r \in Requests, WriteRotation(r)  PROVE LInv'
<1>1. req[r].pc = "rotate" /\ req[r].row \in Rows
  BY ReadingType DEF WriteRotation, LInv, TInv
<1>2. PICK s \in Secrets \ issued :
        issued' = issued \cup {s} /\ Write(r, [req[r].row EXCEPT !.secret = s])
  BY DEF WriteRotation
<1>3. PICK row : row = [req[r].row EXCEPT !.secret = s]
  OBVIOUS
<1>4. row \in Rows /\ row.secret = s
  BY <1>1, <1>3 DEF Rows
<1>5. retired' = IF req[r].feed \in DOMAIN feeds
                 THEN retired \cup {req[r].row.secret} ELSE retired
  BY DEF WriteRotation
<1>. QED  BY <1>1, <1>2, <1>3, <1>4, <1>5, WriteLinks

LEMMA InitLinks == Init => LInv
<1>. SUFFICES ASSUME Init  PROVE LInv
  OBVIOUS
<1>1. DOMAIN feeds = {} /\ retired = {} /\ \A r \in Requests : req[r] = Idle
  BY DEF Init
<1>2. \A f, x : ~Holds(f, x)
  BY <1>1 DEF Holds
<1>. QED  BY <1>1, <1>2, InitOK DEF LInv, OneHolder, HeldIssued, Current, DeadSecretsStayDead

LEMMA StepLinks == LInv /\ [Next]_vars => LInv'
<1>. SUFFICES ASSUME LInv, [Next]_vars  PROVE LInv'
  OBVIOUS
<1>0. TInv'
  BY StepOK DEF LInv
<1>1. CASE Owner
  <2>1. ASSUME NEW r \in Requests, NEW u \in Users, NEW f \in Feeds, NEW pc, NEW form,
               Read(r, u, f, pc, form)
        PROVE  LInv'
    BY <1>0, <2>1, ReadLinks DEF Read
  <2>. QED  BY <1>0, <1>1, <2>1, CreateLinks, DeleteLinks DEF Owner, Update, Rotate
<1>2. ASSUME NEW r \in Requests, Step(r)  PROVE LInv'
  BY <1>0, <1>2, WriteUpdateLinks, WriteRotationLinks, MoveLinks DEF Step
<1>3. ASSUME NEW r \in Requests, NEW s \in Secrets, NEW p \in Secret, Lookup(r, s, p)
      PROVE  LInv'
  <2>1. PICK f \in DOMAIN feeds :
          req' = [req EXCEPT ![r] = [pc |-> "render", feed |-> f, row |-> feeds[f],
                                     writes |-> writes[f], form |-> None]]
    BY <1>3 DEF Lookup
  <2>. QED  BY <1>0, <1>3, <2>1, ReadLinks DEF Lookup
<1>4. CASE UNCHANGED vars
  BY <1>0, <1>4, QuietOK DEF vars, SameColumns
<1>. QED  BY <1>1, <1>2, <1>3, <1>4 DEF Next

LEMMA AlwaysLInv == Spec => []LInv
BY InitLinks, StepLinks, PTL DEF Spec

LEMMA AlwaysTInv == Spec => []TInv
BY InitOK, StepOK, PTL DEF Spec

\* The rows that are stored, and what the requests in flight remember of
\* them, have their types, whatever the forms put together.
THEOREM TypeCorrect == Spec => []TypeOK
BY AlwaysTInv, PTL DEF TInv

\* Every answer is counted once: UpdateFeed never writes a serve count back
\* and MarkFeedServed adds to the one it finds (store/feeds.go:65-96).
THEOREM AnswersAreCounted == Spec => []ServesAreCounted
<1>1. TInv => ServesAreCounted
  BY DEF TInv, TypeOK, Counted, ServesAreCounted, Marks
<1>. QED  BY <1>1, AlwaysTInv, PTL

\* A link that was deleted or rotated away stays dead, unless a request that
\* had read the row before wrote it back (server/feeds.go:199-240).
THEOREM LinksStayDead == Spec => []DeadSecretsStayDead
BY AlwaysLInv, PTL DEF LInv

-----------------------------------------------------------------------------
(* The write-only secrets an edit leaves out.                              *)

\* Of a list without repeated URLs, a stored password is found by its URL.
LEMMA ByUrl ==
  ASSUME NEW asked \in AskedSources, NEW old \in Sources, DistinctUrls(old)
  PROVE  SourcesKept(asked, old, PreserveSecrets(asked, old))
<1>. SUFFICES ASSUME NEW i \in DOMAIN asked, NEW k \in DOMAIN old,
                     ~asked[i].clear, asked[i].password = None,
                     old[k].url = asked[i].url, old[k].password # None
              PROVE  PreserveSecrets(asked, old)[i].password = old[k].password
  BY DEF SourcesKept
<1>1. Stored(old, asked[i].url) = {k}
  BY DEF Stored, DistinctUrls
<1>2. Last({k}) = k
  <2>1. k \in Nat
    BY DEF Sources
  <2>2. \E j \in {k} : \A l \in {k} : l <= j
    BY <2>1
  <2>. QED  BY <2>2 DEF Last
<1>. QED  BY <1>1, <1>2 DEF PreserveSecrets

\* What a form that leaves secrets out makes of a row.
Keeps(row, form, new) ==
  /\ DistinctUrls(row.sources) => SourcesKept(form.sources, row.sources, new.sources)
  /\ row.guard.user /\ form.guard.user => new.guard.password # None
  /\ (form.channel = None \/ (form.channel.server /\ form.channel.token = None))
       => new.channel.token = row.channel.token

LEMMA FilledKeeps ==
  ASSUME NEW row \in Rows, NEW form \in Forms, ~Refused(form.guard, row.guard.password)
  PROVE  Keeps(row, form, Filled(row, form))
<1>. DEFINE sources == PreserveSecrets(form.sources, row.sources)
            guard == ResolveBasicAuth(form.guard, row.guard.password)
            channel == BuildNotifications(form.channel, row.channel)
<1>1. DistinctUrls(row.sources) => SourcesKept(form.sources, row.sources, sources)
  BY ByUrl, FormFields DEF Rows
<1>2. form.guard.user => guard.password # None
  BY FormFields DEF Refused, ResolveBasicAuth, Guards
<1>3. (form.channel = None \/ (form.channel.server /\ form.channel.token = None))
        => channel.token = row.channel.token
  <2>1. CASE form.channel = None
    BY <2>1 DEF BuildNotifications
  <2>2. CASE form.channel # None /\ form.channel.server /\ form.channel.token = None
    BY <2>2, FormFields DEF BuildNotifications, Channels
  <2>. QED  BY <2>1, <2>2
<1>. HIDE DEF sources, guard, channel
<1>4. /\ Filled(row, form).sources = sources /\ Filled(row, form).guard = guard
      /\ Filled(row, form).channel = channel
  BY DEF Filled, sources, guard, channel, Rows
<1>. QED  BY <1>1, <1>2, <1>3, <1>4 DEF Keeps

\* Only its own write ends an update that changes a row.
LEMMA EndsInWrite ==
  ASSUME LInv, Next, NEW r \in Requests, req[r].pc = "update", req'[r] = Idle, feeds' # feeds
  PROVE  WriteUpdate(r)
<1>0. req[r] # Idle
  BY DEF Idle
<1>1. CASE Owner
  <2>1. ASSUME NEW q \in Requests, NEW u, NEW f, NEW pc, NEW form, Read(q, u, f, pc, form)
        PROVE  FALSE
    BY <2>1 DEF Read
  <2>. QED  BY <1>0, <1>1, <2>1 DEF Owner, Update, Rotate, Create, Delete
<1>2. ASSUME NEW q \in Requests, Step(q)  PROVE WriteUpdate(r)
  <2>1. CASE q = r
    BY <1>2, <2>1 DEF Step, WriteRotation, GiveUp, Answer, RenderFails, Mark, MarkFails
  <2>2. CASE q # r
    <3>1. \E v : req' = [req EXCEPT ![q] = v]
      BY <1>2 DEF Step, WriteUpdate, WriteRotation, Write, GiveUp, Answer, RenderFails, Mark, MarkFails
    <3>2. req'[r] = req[r]
      BY <2>2, <3>1 DEF LInv, TInv, TypeOK
    <3>. QED  BY <1>0, <3>2
  <2>. QED  BY <2>1, <2>2
<1>3. ASSUME NEW q \in Requests, NEW s \in Secrets, NEW p \in Secret, Lookup(q, s, p)
      PROVE  FALSE
  BY <1>3 DEF Lookup
<1>. QED  BY <1>1, <1>2, <1>3 DEF Next

\* An update that leaves a password or a token out keeps the stored one
\* (server/feeds.go: preserveSourceSecrets, resolveBasicAuth and
\* buildNotifications), whatever happens to the row meanwhile.
THEOREM UpdatesKeepSecrets == Spec => SecretsAreKept
<1>. DEFINE Kept ==
       \A r \in Requests :
         (/\ req[r].pc = "update" /\ req'[r] = Idle /\ feeds' # feeds
          /\ req[r].feed \in DOMAIN feeds' \ overrun')
         => LET f == req[r].feed
                form == req[r].form
            IN  /\ DistinctUrls(feeds[f].sources)
                   => SourcesKept(form.sources, feeds[f].sources, feeds'[f].sources)
                /\ feeds[f].guard.user /\ form.guard.user
                   => feeds'[f].guard.password # None
                /\ (form.channel = None \/ (form.channel.server /\ form.channel.token = None))
                   => feeds'[f].channel.token = feeds[f].channel.token
<1>1. LInv /\ [Next]_vars => [Kept]_vars
  <2>. SUFFICES ASSUME LInv, Next, NEW r \in Requests,
                       req[r].pc = "update", req'[r] = Idle, feeds' # feeds,
                       req[r].feed \in DOMAIN feeds' \ overrun'
                PROVE  Keeps(feeds[req[r].feed], req[r].form, feeds'[req[r].feed])
    BY DEF vars, Keeps
  <2>1. WriteUpdate(r)
    BY EndsInWrite
  <2>2. /\ req[r] # Idle /\ req[r].feed \in Feeds /\ req[r].row \in Rows /\ req[r].form \in Forms
    BY ReadingType DEF LInv, TInv, Known
  <2>3. PICK row : row = Filled(req[r].row, req[r].form)
    OBVIOUS
  <2>4. PICK f \in Feeds : f = req[r].feed
    BY <2>2
  <2>5. row \in Rows /\ Write(r, row) /\ Keeps(req[r].row, req[r].form, row)
    BY <2>1, <2>2, <2>3, FilledType, FilledKeeps DEF WriteUpdate
  <2>6. /\ DOMAIN feeds' = DOMAIN feeds
        /\ f \in DOMAIN feeds => SameColumns(feeds'[f], row)
        /\ f \in DOMAIN feeds /\ req[r].writes # writes[f] => f \in overrun'
    BY <2>4, <2>5, Written
  <2>7. f \in DOMAIN feeds /\ req[r].writes = writes[f]
    BY <2>4, <2>6
  <2>8. SameColumns(req[r].row, feeds[f])
    BY <2>2, <2>4, <2>7 DEF LInv, Current
  <2>. QED  BY <2>4, <2>5, <2>6, <2>7, <2>8 DEF Keeps, SameColumns
<1>. QED  BY <1>1, AlwaysLInv, PTL DEF Spec, SecretsAreKept
=============================================================================
