-------------------------- MODULE FeedRenderProofs --------------------------
(***************************************************************************)
(* What holds of every feed.  The merge keeps two kinds of events: those   *)
(* with a UID of their own, whose identity is in seenUID, and those it     *)
(* named, whose suffix is below uidSeq of their key.  The rules after it   *)
(* only leave events out or keep UID and RECURRENCE-ID.  seenUID holds the *)
(* identities offered so far, uidSeq counts the nameless of each key, and  *)
(* tzdefs holds the first definition of each zone.  No rule moves a start  *)
(* past the end of its series.                                             *)
(***************************************************************************)
EXTENDS FeedRender, FiniteSetTheorems, TLAPS

IsEvent(e) == e = [at |-> e.at, src |-> e.src, props |-> e.props, alarms |-> e.alarms]

MadeUp(e) ==
  \E k \in DOMAIN uidSeq : \E n \in Nat :
    n < uidSeq[k] /\ Text(e, "UID") = [key |-> k, n |-> n]
Given(e) == Identity(e) \in seenUID /\ DOMAIN Text(e, "UID") # {"key", "n"}

PcOK == pc \in {"fetch", "take", "rules", "done", "failed"}
SourcesOK ==
  /\ rest \in Seq(Events) /\ todo \in Seq(Urls)
  /\ fetched \in Nat /\ fetched + Len(todo) <= Len(Sources)
EventsOK ==
  /\ count \in Nat
  /\ \A e \in merged : IsEvent(e) /\ e.at \in 1 .. count
SeqOK == \A k \in DOMAIN uidSeq : uidSeq[k] \in Nat \ {0}
Kinds == pc \in {"fetch", "take"} => \A e \in merged : Given(e) \/ MadeUp(e)
RulesOK == pc \in {"rules", "done"} => Buildable

Inv == PcOK /\ SourcesOK /\ EventsOK /\ SeqOK /\ Kinds /\ RulesOK /\ OneEventPerIdentity

-----------------------------------------------------------------------------
(* Reading and changing an event.                                          *)

\* A changed property reads as set, the others as before.
LEMMA TextOfSetText ==
  ASSUME NEW e, IsEvent(e), NEW f, NEW v, NEW g
  PROVE  /\ IsEvent(SetText(e, f, v))
         /\ SetText(e, f, v).at = e.at
         /\ SetText(e, f, v).src = e.src
         /\ Text(SetText(e, f, v), g) = IF g = f THEN v ELSE Text(e, g)
<1> DEFINE p == [h \in DOMAIN e.props \cup {f} |-> IF h = f THEN v ELSE e.props[h]]
<1>1. SetText(e, f, v) = [at |-> e.at, src |-> e.src, props |-> p, alarms |-> e.alarms]
  BY DEF SetText, IsEvent
<1>2. SetText(e, f, v).props = p
  BY <1>1
<1>3. Text(SetText(e, f, v), g) = IF g = f THEN v ELSE Text(e, g)
  BY <1>2 DEF Text
<1> QED
  BY <1>1, <1>3 DEF IsEvent

LEMMA TextOfRemoveAll ==
  ASSUME NEW e, IsEvent(e), NEW fields, NEW g, g \notin fields
  PROVE  /\ IsEvent(RemoveAll(e, fields))
         /\ RemoveAll(e, fields).at = e.at
         /\ Text(RemoveAll(e, fields), g) = Text(e, g)
<1> DEFINE p == [h \in DOMAIN e.props \ fields |-> e.props[h]]
<1>1. RemoveAll(e, fields) = [at |-> e.at, src |-> e.src, props |-> p, alarms |-> e.alarms]
  BY DEF RemoveAll, IsEvent
<1>2. RemoveAll(e, fields).props = p
  BY <1>1
<1>3. Text(RemoveAll(e, fields), g) = Text(e, g)
  BY <1>2 DEF Text
<1> QED
  BY <1>1, <1>3 DEF IsEvent

\* What a rule does to one event leaves its place and its identity alone.
Keeps(e, f) ==
  /\ IsEvent(f) /\ f.at = e.at
  /\ Text(f, "UID") = Text(e, "UID")
  /\ Raw(f, "RECURRENCE-ID") = Raw(e, "RECURRENCE-ID")

LEMMA KeepsItself == ASSUME NEW e, IsEvent(e) PROVE Keeps(e, e)
  BY DEF Keeps

LEMMA SetTextKeeps ==
  ASSUME NEW e, IsEvent(e), NEW f, NEW v, f \notin {"UID", "RECURRENCE-ID"}
  PROVE  Keeps(e, SetText(e, f, v))
  BY TextOfSetText DEF Keeps, Raw

LEMMA KeepsTransitive ==
  ASSUME NEW e, NEW f, NEW g, Keeps(e, f), Keeps(f, g)
  PROVE  Keeps(e, g)
  BY DEF Keeps

LEMMA StampKeeps == ASSUME NEW e, IsEvent(e) PROVE Keeps(e, EnsureDTStamp(e))
  BY KeepsItself, SetTextKeeps DEF EnsureDTStamp

LEMMA RenameKeeps ==
  ASSUME NEW r, r.field \in EditableFields, NEW e, IsEvent(e)
  PROVE  Keeps(e, Rename(r, e))
  BY KeepsItself, SetTextKeeps DEF Rename, EditableFields

LEMMA ConvertFieldKeeps ==
  ASSUME NEW r, NEW e, IsEvent(e), NEW f \in {"DTSTART", "DTEND"}
  PROVE  Keeps(e, ConvertField(r, e, f))
  BY KeepsItself, SetTextKeeps DEF ConvertField

LEMMA ConvertKeeps ==
  ASSUME NEW r, NEW e, IsEvent(e)
  PROVE  Keeps(e, Convert(r, e))
<1>1. Keeps(e, ConvertField(r, e, "DTSTART"))
  BY ConvertFieldKeeps
<1>2. IsEvent(ConvertField(r, e, "DTSTART"))
  BY <1>1 DEF Keeps
<1>3. Keeps(ConvertField(r, e, "DTSTART"), Convert(r, e))
  BY <1>2, ConvertFieldKeeps DEF Convert
<1> QED
  BY <1>1, <1>3, KeepsTransitive

LEMMA StripKeeps ==
  ASSUME NEW fields, fields \cap {"UID", "RECURRENCE-ID"} = {}, NEW e, IsEvent(e)
  PROVE  Keeps(e, RemoveAll(e, fields))
  BY TextOfRemoveAll DEF Keeps, Raw

LEMMA AlarmKeeps ==
  ASSUME NEW r, NEW e, IsEvent(e)
  PROVE  Keeps(e, SetAlarm(r, e))
<1>1. SetAlarm(r, e) = [at |-> e.at, src |-> e.src, props |-> e.props, alarms |-> {AlarmText(r, e)}]
  BY DEF SetAlarm, IsEvent
<1> QED
  BY <1>1 DEF Keeps, IsEvent, Text, Raw

-----------------------------------------------------------------------------
(* A rule over all events.                                                 *)

OnePer(cal) == \A d, e \in cal : SameEvent(d, e) => d = e
AllEvents(cal) == \A e \in cal : IsEvent(e)

\* What keeps events apart before keeps their images apart after.
LEMMA SameBefore ==
  ASSUME NEW d, NEW e, NEW f, NEW g, Keeps(d, f), Keeps(e, g), SameEvent(f, g)
  PROVE  SameEvent(d, e)
  BY DEF Keeps, SameEvent

\* No rule that is built brings two events together or makes one up.
LEMMA ApplyKeeps ==
  ASSUME NEW r, Valid(r), NEW cal, AllEvents(cal), OnePer(cal),
         r.type = "strip" => r.fields \cap {"UID", "RECURRENCE-ID"} = {}
  PROVE  /\ \A f \in Apply(r, cal) : \E e \in cal : Keeps(e, f)
         /\ OnePer(Apply(r, cal))
<1>1. r.type \in {"filter", "dedup", "rename", "strip", "timezone", "expire", "alarm"}
  BY DEF Valid
<1>2. CASE r.type \in {"filter", "dedup", "expire"}
  <2>1. Apply(r, cal) \subseteq cal
    <3>1. CASE r.type = "filter"
      BY <3>1 DEF Apply
    <3>2. CASE r.type = "dedup"
      BY <3>2 DEF Apply, Dedup
    <3>3. CASE r.type = "expire"
      BY <3>3 DEF Apply
    <3> QED
      BY <1>2, <3>1, <3>2, <3>3
  <2> QED
    BY <2>1, KeepsItself DEF AllEvents, OnePer
<1>3. CASE r.type = "rename"
  <2>1. Apply(r, cal) = {Rename(r, e) : e \in cal} /\ r.field \in EditableFields
    BY <1>3 DEF Apply, Valid
  <2>2. \A e \in cal : Keeps(e, Rename(r, e))
    BY <2>1, RenameKeeps DEF AllEvents
  <2>3. \A d, e \in cal : SameEvent(Rename(r, d), Rename(r, e)) => d = e
    BY <2>2, SameBefore DEF OnePer
  <2> QED
    BY <2>1, <2>2, <2>3 DEF OnePer
<1>4. CASE r.type = "strip"
  <2>1. Apply(r, cal) = {RemoveAll(e, r.fields) : e \in cal}
    BY <1>4 DEF Apply
  <2>2. \A e \in cal : Keeps(e, RemoveAll(e, r.fields))
    BY <1>4, StripKeeps DEF AllEvents
  <2>3. \A d, e \in cal : SameEvent(RemoveAll(d, r.fields), RemoveAll(e, r.fields)) => d = e
    BY <2>2, SameBefore DEF OnePer
  <2> QED
    BY <2>1, <2>2, <2>3 DEF OnePer
<1>5. CASE r.type = "timezone"
  <2>1. Apply(r, cal) = {Convert(r, e) : e \in cal}
    BY <1>5 DEF Apply
  <2>2. \A e \in cal : Keeps(e, Convert(r, e))
    BY ConvertKeeps DEF AllEvents
  <2>3. \A d, e \in cal : SameEvent(Convert(r, d), Convert(r, e)) => d = e
    BY <2>2, SameBefore DEF OnePer
  <2> QED
    BY <2>1, <2>2, <2>3 DEF OnePer
<1>6. CASE r.type = "alarm"
  <2>1. Apply(r, cal) = {SetAlarm(r, e) : e \in cal}
    BY <1>6 DEF Apply
  <2>2. \A e \in cal : Keeps(e, SetAlarm(r, e))
    BY AlarmKeeps DEF AllEvents
  <2>3. \A d, e \in cal : SameEvent(SetAlarm(r, d), SetAlarm(r, e)) => d = e
    BY <2>2, SameBefore DEF OnePer
  <2> QED
    BY <2>1, <2>2, <2>3 DEF OnePer
<1> QED
  BY <1>1, <1>2, <1>3, <1>4, <1>5, <1>6

-----------------------------------------------------------------------------
(* The merge takes an event in.                                            *)

\* The event in hand is an event, with a UID no name made up here equals.
LEMMA InHandOK ==
  ASSUME Inv, Look
  PROVE  /\ IsEvent(InHand) /\ InHand.at = count + 1
         /\ Text(InHand, "UID") # None => DOMAIN Text(InHand, "UID") # {"key", "n"}
         /\ rest' \in Seq(Events)
<1>1. rest \in Seq(Events) /\ rest # <<>> /\ rest' = Tail(rest)
  BY DEF Inv, SourcesOK, Look
<1>2. Head(rest) \in Events /\ rest' \in Seq(Events)
  BY <1>1
<1>3. Text(Head(rest), "UID") # None => DOMAIN Text(Head(rest), "UID") # {"key", "n"}
  BY <1>2, RenderAssumption
<1>4. InHand.props = Head(rest).props /\ InHand.at = count + 1 /\ IsEvent(InHand)
  BY DEF InHand, IsEvent
<1>5. Text(InHand, "UID") = Text(Head(rest), "UID")
  BY <1>4 DEF Text
<1> QED
  BY <1>2, <1>3, <1>4, <1>5

\* A name of the event's key that no event has yet.
LEMMA NameIsNew ==
  ASSUME Inv, pc = "take", NEW k,
         NEW e \in merged, Text(e, "UID") = [key |-> k, n |-> Lookup(uidSeq, k, 0)]
  PROVE  FALSE
<1>1. DOMAIN Text(e, "UID") = {"key", "n"}
  OBVIOUS
<1>2. MadeUp(e)
  BY <1>1 DEF Inv, Kinds, Given
<1>3. PICK j \in DOMAIN uidSeq : \E n \in Nat :
        n < uidSeq[j] /\ Text(e, "UID") = [key |-> j, n |-> n]
  BY <1>2 DEF MadeUp
<1>4. PICK n \in Nat : n < uidSeq[j] /\ Text(e, "UID") = [key |-> j, n |-> n]
  BY <1>3
<1>5. Text(e, "UID").key = k /\ Text(e, "UID").n = Lookup(uidSeq, k, 0)
  OBVIOUS
<1>6. Text(e, "UID").key = j /\ Text(e, "UID").n = n
  BY <1>4
<1>7. j = k /\ n = uidSeq[j]
  BY <1>5, <1>6 DEF Lookup
<1>8. uidSeq[j] \in Nat
  BY DEF Inv, SeqOK
<1> QED
  BY <1>4, <1>7, <1>8

LEMMA TakeEventKeeps == ASSUME Inv, TakeEvent PROVE Inv'
<1>0. PICK new : new = EnsureDTStamp(InHand)
  OBVIOUS
<1>1. Look /\ pc = "take" /\ pc' = "take" /\ count' = count + 1 /\ merged' = merged \cup {new}
  BY <1>0 DEF TakeEvent, Look
<1>2. IsEvent(InHand) /\ InHand.at = count + 1 /\ rest' \in Seq(Events)
  BY <1>1, InHandOK
<1>3. DOMAIN Text(InHand, "UID") # {"key", "n"}
  BY <1>1, InHandOK DEF TakeEvent
<1>4. Keeps(InHand, new)
  BY <1>0, <1>2, StampKeeps
<1>5. PcOK' /\ SourcesOK' /\ SeqOK' /\ RulesOK'
  BY <1>1, <1>2 DEF Inv, PcOK, SourcesOK, SeqOK, RulesOK, Buildable, TakeEvent, Look
<1>6. EventsOK'
  BY <1>1, <1>2, <1>4 DEF Inv, EventsOK, Keeps
<1>7. Identity(new) = Identity(InHand) /\ DOMAIN Text(new, "UID") # {"key", "n"}
  BY <1>3, <1>4 DEF Keeps, Identity
<1>8. Kinds'
  <2>1. ASSUME NEW e \in merged PROVE Given(e)' \/ MadeUp(e)'
    BY <1>1 DEF Inv, Kinds, Given, MadeUp, TakeEvent
  <2>2. Given(new)'
    BY <1>7 DEF Given, TakeEvent
  <2> QED
    BY <1>1, <2>1, <2>2 DEF Kinds
<1>9. ASSUME NEW e \in merged, SameEvent(e, new) PROVE FALSE
  <2>1. Identity(e) = Identity(new) /\ Text(e, "UID") = Text(new, "UID")
    BY <1>9 DEF SameEvent, Identity
  <2>2. CASE Given(e)
    BY <2>1, <2>2, <1>7 DEF Given, TakeEvent
  <2>3. CASE MadeUp(e)
    <3>1. PICK k, n : Text(e, "UID") = [key |-> k, n |-> n]
      BY <2>3 DEF MadeUp
    <3> QED
      BY <3>1, <2>1, <1>7
  <2> QED
    BY <1>1, <2>2, <2>3 DEF Inv, Kinds
<1>10. OneEventPerIdentity'
  BY <1>1, <1>9 DEF Inv, OneEventPerIdentity, KeepsIdentity, SameEvent, TakeEvent, Look
<1> QED
  BY <1>5, <1>6, <1>8, <1>10 DEF Inv

LEMMA NameEventKeeps == ASSUME Inv, NameEvent PROVE Inv'
<1> DEFINE key == Fingerprint(InHand)
           uid == [key |-> key, n |-> Lookup(uidSeq, key, 0)]
           named == SetText(InHand, "UID", uid)
<1>0. PICK new : new = EnsureDTStamp(named)
  OBVIOUS
<1>1. Look /\ pc = "take" /\ pc' = "take" /\ count' = count + 1 /\ merged' = merged \cup {new}
  BY <1>0 DEF NameEvent, Look, SyntheticUID
<1>2. IsEvent(InHand) /\ InHand.at = count + 1 /\ rest' \in Seq(Events)
  BY <1>1, InHandOK
<1>3. IsEvent(named) /\ named.at = count + 1 /\ Text(named, "UID") = uid
  BY <1>2, TextOfSetText
<1>4. IsEvent(new) /\ new.at = count + 1 /\ Text(new, "UID") = uid
  BY <1>0, <1>3, StampKeeps DEF Keeps
<1>5. /\ DOMAIN uidSeq' = DOMAIN uidSeq \cup {key}
      /\ uidSeq'[key] = Lookup(uidSeq, key, 0) + 1
      /\ \A k \in DOMAIN uidSeq : k # key => uidSeq'[k] = uidSeq[k]
  BY DEF NameEvent, Put, Advance
<1>6. Lookup(uidSeq, key, 0) \in Nat
  BY DEF Inv, SeqOK, Lookup
<1>7. SeqOK'
  BY <1>5, <1>6 DEF Inv, SeqOK
<1>8. PcOK' /\ SourcesOK' /\ RulesOK'
  BY <1>1, <1>2 DEF Inv, PcOK, SourcesOK, RulesOK, Buildable, NameEvent, Look
<1>9. EventsOK'
  BY <1>1, <1>4 DEF Inv, EventsOK
<1>10. Kinds'
  <2>1. ASSUME NEW e \in merged PROVE Given(e)' \/ MadeUp(e)'
    <3>1. CASE Given(e)
      BY <3>1 DEF Given, NameEvent
    <3>2. CASE MadeUp(e)
      <4>1. PICK k \in DOMAIN uidSeq : \E n \in Nat :
              n < uidSeq[k] /\ Text(e, "UID") = [key |-> k, n |-> n]
        BY <3>2 DEF MadeUp
      <4>2. PICK n \in Nat : n < uidSeq[k] /\ Text(e, "UID") = [key |-> k, n |-> n]
        BY <4>1
      <4>3. k \in DOMAIN uidSeq' /\ uidSeq[k] \in Nat /\ uidSeq[k] <= uidSeq'[k] /\ uidSeq'[k] \in Nat
        BY <1>5, <1>6 DEF Inv, SeqOK, Lookup
      <4>4. n < uidSeq'[k]
        BY <4>2, <4>3
      <4> QED
        BY <4>2, <4>3, <4>4 DEF MadeUp
    <3> QED
      BY <1>1, <3>1, <3>2 DEF Inv, Kinds
  <2>2. MadeUp(new)'
    <3>1. PICK k : k = key
      OBVIOUS
    <3>2. PICK n : n = Lookup(uidSeq, key, 0)
      OBVIOUS
    <3>3. k \in DOMAIN uidSeq' /\ n \in Nat /\ n < uidSeq'[k]
      BY <1>5, <1>6, <3>1, <3>2
    <3>4. Text(new, "UID") = [key |-> k, n |-> n]
      BY <1>4, <3>1, <3>2
    <3> QED
      BY <3>3, <3>4 DEF MadeUp
  <2> QED
    BY <1>1, <2>1, <2>2 DEF Kinds
<1>11. ASSUME NEW e \in merged, SameEvent(e, new) PROVE FALSE
  BY <1>1, <1>4, <1>11, NameIsNew DEF SameEvent
<1>12. OneEventPerIdentity'
  BY <1>1, <1>11 DEF Inv, OneEventPerIdentity, KeepsIdentity, SameEvent, NameEvent, Look
<1> QED
  BY <1>7, <1>8, <1>9, <1>10, <1>12 DEF Inv

-----------------------------------------------------------------------------
(* The rules, and the rest of the steps.                                   *)

\* A rule makes up no event, whatever it takes from those there are.
LEMMA ApplyPlaces ==
  ASSUME NEW r, Valid(r), NEW cal, AllEvents(cal)
  PROVE  \A f \in Apply(r, cal) : IsEvent(f) /\ \E e \in cal : f.at = e.at
<1>1. CASE r.type = "strip"
  <2>1. ASSUME NEW e \in cal
        PROVE  IsEvent(RemoveAll(e, r.fields)) /\ RemoveAll(e, r.fields).at = e.at
    <3> DEFINE p == [h \in DOMAIN e.props \ r.fields |-> e.props[h]]
    <3>1. RemoveAll(e, r.fields) = [at |-> e.at, src |-> e.src, props |-> p, alarms |-> e.alarms]
      BY DEF RemoveAll, IsEvent, AllEvents
    <3> QED
      BY <3>1 DEF IsEvent
  <2> QED
    BY <1>1, <2>1 DEF Apply
<1>2. CASE r.type \in {"filter", "dedup", "expire"}
  BY <1>2 DEF Apply, Dedup, AllEvents
<1>3. CASE r.type = "rename"
  BY <1>3, RenameKeeps DEF Apply, Valid, AllEvents, Keeps
<1>4. CASE r.type = "timezone"
  BY <1>4, ConvertKeeps DEF Apply, AllEvents, Keeps
<1>5. CASE r.type = "alarm"
  BY <1>5, AlarmKeeps DEF Apply, AllEvents, Keeps
<1> QED
  BY <1>1, <1>2, <1>3, <1>4, <1>5 DEF Valid

LEMMA ApplyRuleKeeps == ASSUME Inv, ApplyRule PROVE Inv'
<1> DEFINE r == rules[step]
<1>1. pc = "rules" /\ pc' = "rules" /\ merged' = Apply(r, merged) /\ Valid(r)
  BY DEF ApplyRule, Applying, Inv, RulesOK, Buildable
<1>2. AllEvents(merged)
  BY DEF Inv, EventsOK, AllEvents
<1>3. PcOK' /\ SourcesOK' /\ SeqOK' /\ RulesOK' /\ Kinds'
  BY <1>1 DEF Inv, PcOK, SourcesOK, SeqOK, RulesOK, Buildable, Kinds, ApplyRule, mergeVars
<1>4. EventsOK'
  BY <1>1, <1>2, ApplyPlaces DEF Inv, EventsOK, ApplyRule, mergeVars
<1>5. OneEventPerIdentity'
  <2> SUFFICES ASSUME KeepsIdentity' PROVE OnePer(merged')
    BY DEF OneEventPerIdentity, OnePer, SameEvent
  <2>1. KeepsIdentity /\ OnePer(merged)
    BY DEF Inv, OneEventPerIdentity, OnePer, KeepsIdentity, ApplyRule
  <2>2. r.type = "strip" => r.fields \cap {"UID", "RECURRENCE-ID"} = {}
    BY <2>1 DEF KeepsIdentity, ApplyRule, Applying
  <2> QED
    BY <1>1, <1>2, <2>1, <2>2, ApplyKeeps
<1> QED
  BY <1>3, <1>4, <1>5 DEF Inv

\* A step that leaves the events and what was noted of them alone.
LEMMA SameEventsKeep ==
  ASSUME Inv, UNCHANGED <<rules, count, seenUID, uidSeq, merged>>, PcOK', SourcesOK', RulesOK',
         pc' \in {"fetch", "take"} => pc \in {"fetch", "take"}
  PROVE  Inv'
<1>1. EventsOK' /\ SeqOK' /\ Kinds'
  BY DEF Inv, EventsOK, SeqOK, Kinds, Given, MadeUp
<1>2. OneEventPerIdentity'
  BY DEF Inv, OneEventPerIdentity, KeepsIdentity
<1> QED
  BY <1>1, <1>2 DEF Inv

LEMMA DropDuplicateKeeps == ASSUME Inv, DropDuplicate PROVE Inv'
<1>1. Look /\ pc = "take" /\ pc' = "take" /\ count' = count + 1 /\ rest' \in Seq(Events)
  BY InHandOK DEF DropDuplicate, Look
<1>2. PcOK' /\ SourcesOK' /\ SeqOK' /\ RulesOK' /\ Kinds' /\ EventsOK'
  BY <1>1 DEF Inv, PcOK, SourcesOK, SeqOK, RulesOK, Kinds, Given, MadeUp, EventsOK, DropDuplicate, Look
<1>3. OneEventPerIdentity'
  BY DEF Inv, OneEventPerIdentity, KeepsIdentity, DropDuplicate, Look
<1> QED
  BY <1>2, <1>3 DEF Inv

LEMMA SourcesKeep ==
  ASSUME Inv, SkipSource \/ SourceDone \/ \E c \in Calendars : ReadSource(c)
  PROVE  Inv'
<1>1. UNCHANGED <<rules, count, seenUID, uidSeq, merged>> /\ PcOK' /\ RulesOK'
      /\ pc \in {"fetch", "take"}
  BY DEF SkipSource, SourceDone, ReadSource, mergeVars, PcOK, RulesOK, Inv
<1>2. todo \in Seq(Urls) /\ rest \in Seq(Events) /\ fetched \in Nat /\ fetched + Len(todo) <= Len(Sources)
  BY DEF Inv, SourcesOK
<1>3. todo # <<>> => Tail(todo) \in Seq(Urls) /\ Len(Tail(todo)) = Len(todo) - 1 /\ Len(todo) \in Nat
  BY <1>2
<1>4. Len(Sources) \in Nat
  BY RenderAssumption
<1>5. SourcesOK'
  <2>1. CASE SkipSource
    BY <2>1, <1>2, <1>3, <1>4 DEF SkipSource, SourcesOK
  <2>2. CASE SourceDone
    BY <2>2, <1>2 DEF SourceDone, mergeVars, SourcesOK
  <2>3. CASE \E c \in Calendars : ReadSource(c)
    BY <2>3, <1>2, <1>3, <1>4, RenderAssumption DEF ReadSource, SourcesOK
  <2> QED
    BY <2>1, <2>2, <2>3
<1> QED
  BY <1>1, <1>5, SameEventsKeep

LEMMA AnswersKeep ==
  ASSUME Inv,
         NothingFetched \/ BuildFails \/ Build \/ SkipDisabled
           \/ Render \/ RenderFails \/ MatchesAnswer \/ Preview
  PROVE  Inv'
<1>1. UNCHANGED <<rules, count, seenUID, uidSeq, merged, rest, todo, fetched>>
      /\ pc' \in {"rules", "done", "failed"}
  BY DEF NothingFetched, BuildFails, Build, SkipDisabled, Applying, Render, RenderFails,
         MatchesAnswer, Preview, Respond, Fail, mergeVars
<1>2. pc' \in {"rules", "done"} => Buildable
  BY DEF NothingFetched, BuildFails, Build, SkipDisabled, Applying, Render, RenderFails,
         MatchesAnswer, Preview, Respond, Applied, Fail, Inv, RulesOK
<1>3. PcOK' /\ SourcesOK' /\ RulesOK'
  BY <1>1, <1>2 DEF Inv, PcOK, SourcesOK, RulesOK, Buildable
<1> QED
  BY <1>1, <1>3, SameEventsKeep

\* Nothing is there yet when a request begins.
LEMMA FromNothing ==
  ASSUME pc = "fetch", todo = Sources, rest = <<>>, fetched = 0, count = 0,
         uidSeq = Nothing, merged = {}
  PROVE  Inv
<1>1. Len(Sources) \in Nat /\ <<>> \in Seq(Events)
  BY RenderAssumption
<1>2. SourcesOK
  BY <1>1, RenderAssumption DEF SourcesOK
<1>3. DOMAIN uidSeq = {}
  BY DEF Nothing
<1> QED
  BY <1>2, <1>3 DEF Inv, PcOK, EventsOK, SeqOK, Kinds, RulesOK, OneEventPerIdentity

LEMMA RequestKeeps == ASSUME Request PROVE Inv'
<1>1. Len(Sources) \in Nat /\ <<>> \in Seq(Events)
  BY RenderAssumption
<1>2. SourcesOK'
  BY <1>1, RenderAssumption DEF SourcesOK, Request
<1>3. DOMAIN uidSeq' = {}
  BY DEF Nothing, Request
<1> QED
  BY <1>2, <1>3 DEF Inv, PcOK, EventsOK, SeqOK, Kinds, RulesOK, OneEventPerIdentity, Request

LEMMA StepKeeps == ASSUME Inv, [Next]_vars PROVE Inv'
<1>1. CASE TakeEvent BY <1>1, TakeEventKeeps
<1>2. CASE NameEvent BY <1>2, NameEventKeeps
<1>3. CASE DropDuplicate BY <1>3, DropDuplicateKeeps
<1>4. CASE ApplyRule BY <1>4, ApplyRuleKeeps
<1>5. CASE SkipSource \/ SourceDone \/ \E c \in Calendars : ReadSource(c) BY <1>5, SourcesKeep
<1>6. CASE NothingFetched \/ BuildFails \/ Build \/ SkipDisabled
             \/ Render \/ RenderFails \/ MatchesAnswer \/ Preview
  BY <1>6, AnswersKeep
<1>7. CASE Request BY <1>7, RequestKeeps
<1>8. CASE UNCHANGED vars
  <2>1. PcOK' /\ SourcesOK' /\ RulesOK'
    BY <1>8 DEF vars, mergeVars, Inv, PcOK, SourcesOK, RulesOK, Buildable
  <2> QED
    BY <1>8, <2>1, SameEventsKeep DEF vars, mergeVars
<1> QED
  BY <1>1, <1>2, <1>3, <1>4, <1>5, <1>6, <1>7, <1>8 DEF Next

LEMMA Invariance == Spec => []Inv
<1>1. Init => Inv
  BY FromNothing DEF Init
<1> QED
  BY <1>1, StepKeeps, PTL DEF Spec

\* Whatever the sources send and the rules do, the merge counts right and
\* every event it holds is one it looked at.
THEOREM RenderTypes == Spec => []TypeOK
<1>1. Inv => TypeOK
  <2>1. ASSUME Inv PROVE fetched \in 0 .. Len(Sources)
    <3>1. Len(todo) \in Nat /\ fetched \in Nat /\ fetched + Len(todo) <= Len(Sources)
      BY <2>1 DEF Inv, SourcesOK
    <3>2. Len(Sources) \in Nat
      BY RenderAssumption
    <3> QED
      BY <3>1, <3>2
  <2> QED
    BY <2>1 DEF Inv, PcOK, EventsOK, SeqOK, TypeOK
<1> QED
  BY <1>1, Invariance, PTL

\* Whatever the sources send, and whatever rules that keep UID and
\* RECURRENCE-ID follow, no two published events are one to a client.
THEOREM OneEventPerName == Spec => []OneEventPerIdentity
<1>1. Inv => OneEventPerIdentity
  BY DEF Inv
<1> QED
  BY <1>1, Invariance, PTL

-----------------------------------------------------------------------------
(* Names.  The suffix of a key counts the nameless events of that key so   *)
(* far, so a name says which copy of which event it was made for.          *)

Nameless(events, k) == {d \in events : Text(d, "UID") = None /\ Fingerprint(d) = k}

Merging == pc \in {"fetch", "take"}
OfferedOK == Merging => IsFiniteSet(offered) /\ \A d \in offered : d.at \in 1 .. count
SeqCounts == Merging => \A k : Lookup(uidSeq, k, 0) = Cardinality(Nameless(offered, k))
NamesOK == \A i \in issued : i.uid = [key |-> i.key, n |-> i.nth]
NameInv == OfferedOK /\ SeqCounts /\ NamesOK

\* Steps that look at no event.
LookedAt == <<count, offered, uidSeq, issued>>

LEMMA NamesUntouched ==
  ASSUME NameInv, UNCHANGED LookedAt, Merging' => Merging
  PROVE  NameInv'
  BY DEF NameInv, OfferedOK, SeqCounts, NamesOK, LookedAt

\* The event in hand is a new one, and adds to its own key at most.
LEMMA LookCounts ==
  ASSUME Inv, NameInv, Look
  PROVE  /\ OfferedOK'
         /\ \A k : Cardinality(Nameless(offered, k)) \in Nat
         /\ \A k : Nameless(offered', k) =
              IF Text(InHand, "UID") = None /\ Fingerprint(InHand) = k
              THEN Nameless(offered, k) \cup {InHand} ELSE Nameless(offered, k)
         /\ \A k : Cardinality(Nameless(offered, k) \cup {InHand})
                     = Cardinality(Nameless(offered, k)) + 1
<1>1. count \in Nat /\ count' = count + 1 /\ offered' = offered \cup {InHand} /\ Merging
  BY DEF Look, Inv, EventsOK, Merging
<1>2. IsFiniteSet(offered) /\ (\A d \in offered : d.at \in 1 .. count) /\ InHand.at = count + 1
  BY <1>1, InHandOK DEF NameInv, OfferedOK
<1>3. InHand \notin offered
  BY <1>1, <1>2
<1>4. IsFiniteSet(offered') /\ \A d \in offered' : d.at \in 1 .. count'
  BY <1>1, <1>2, FS_AddElement
<1>5. ASSUME NEW k
      PROVE  /\ IsFiniteSet(Nameless(offered, k)) /\ InHand \notin Nameless(offered, k)
  BY <1>2, <1>3, FS_Subset DEF Nameless
<1>6. \A k : Nameless(offered', k) =
              IF Text(InHand, "UID") = None /\ Fingerprint(InHand) = k
              THEN Nameless(offered, k) \cup {InHand} ELSE Nameless(offered, k)
  BY <1>1 DEF Nameless
<1>7. ASSUME NEW k
      PROVE  /\ Cardinality(Nameless(offered, k)) \in Nat
             /\ Cardinality(Nameless(offered, k) \cup {InHand}) = Cardinality(Nameless(offered, k)) + 1
  BY <1>5, FS_AddElement, FS_CardinalityType
<1> QED
  BY <1>4, <1>6, <1>7 DEF OfferedOK

LEMMA NamedCounts ==
  ASSUME Inv, NameInv, Look, Text(InHand, "UID") # None, UNCHANGED <<uidSeq, issued>>
  PROVE  NameInv'
<1>1. Merging
  BY DEF Look, Merging
<1> QED
  BY <1>1, LookCounts DEF NameInv, SeqCounts, NamesOK

LEMMA NameEventCounts ==
  ASSUME Inv, NameInv, NameEvent
  PROVE  NameInv'
<1> DEFINE key == Fingerprint(InHand)
<1>1. Look /\ Merging /\ Text(InHand, "UID") = None
  BY DEF NameEvent, Look, Merging
<1>2. uidSeq' = Put(uidSeq, key, Lookup(uidSeq, key, 0) + 1)
  BY DEF NameEvent, Advance
<1>3. Lookup(uidSeq, key, 0) = Cardinality(Nameless(offered, key))
  BY <1>1 DEF NameInv, SeqCounts
<1>4. NamesOK'
  <2>1. issued' = issued \cup {[key |-> key, nth |-> Cardinality(Nameless(offered, key)),
                                uid |-> [key |-> key, n |-> Lookup(uidSeq, key, 0)]]}
    BY DEF NameEvent, Twins, Nameless, SyntheticUID
  <2>2. ASSUME NEW i \in issued' PROVE i.uid = [key |-> i.key, n |-> i.nth]
    <3>1. CASE i \in issued
      BY <3>1 DEF NameInv, NamesOK
    <3>2. CASE i \notin issued
      <4> DEFINE seq == Lookup(uidSeq, key, 0)
      <4>1. i = [key |-> key, nth |-> seq, uid |-> [key |-> key, n |-> seq]]
        BY <2>1, <1>3, <3>2
      <4> HIDE DEF seq, key
      <4> QED
        BY <4>1
    <3> QED
      BY <3>1, <3>2
  <2> QED
    BY <2>2 DEF NamesOK
<1>5. SeqCounts'
  <2> SUFFICES ASSUME NEW k PROVE Lookup(uidSeq', k, 0) = Cardinality(Nameless(offered', k))
    BY DEF SeqCounts
  <2>1. Lookup(uidSeq, k, 0) = Cardinality(Nameless(offered, k))
    BY <1>1 DEF NameInv, SeqCounts
  <2>2. CASE k = key
    <3>1. Lookup(uidSeq', k, 0) = Lookup(uidSeq, k, 0) + 1
      BY <1>2, <2>2 DEF Put, Lookup
    <3>2. Nameless(offered', k) = Nameless(offered, k) \cup {InHand}
      BY <1>1, <2>2, LookCounts
    <3> QED
      BY <1>1, <2>1, <3>1, <3>2, LookCounts
  <2>3. CASE k # key
    <3>1. Lookup(uidSeq', k, 0) = Lookup(uidSeq, k, 0)
      BY <1>2, <2>3 DEF Put, Lookup
    <3>2. Nameless(offered', k) = Nameless(offered, k)
      BY <1>1, <2>3, LookCounts
    <3> QED
      BY <2>1, <3>1, <3>2
  <2> QED
    BY <2>2, <2>3
<1> QED
  BY <1>1, <1>4, <1>5, LookCounts DEF NameInv

LEMMA NothingLookedAt ==
  ASSUME NamesOK, offered = {}, uidSeq = Nothing
  PROVE  NameInv
<1>1. IsFiniteSet({}) /\ Cardinality({}) = 0
  BY FS_EmptySet
<1>2. \A k : Lookup(uidSeq, k, 0) = 0 /\ Nameless(offered, k) = {}
  BY DEF Lookup, Nothing, Nameless
<1> QED
  BY <1>1, <1>2 DEF NameInv, OfferedOK, SeqCounts

LEMMA RequestForgets ==
  ASSUME NameInv, Request
  PROVE  NameInv'
<1>1. IsFiniteSet({}) /\ Cardinality({}) = 0
  BY FS_EmptySet
<1>2. offered' = {} /\ uidSeq' = Nothing /\ issued' = issued
  BY DEF Request
<1>3. \A k : Lookup(uidSeq', k, 0) = 0 /\ Nameless(offered', k) = {}
  BY <1>2 DEF Lookup, Nothing, Nameless
<1> QED
  BY <1>1, <1>2, <1>3 DEF NameInv, OfferedOK, SeqCounts, NamesOK

LEMMA NamesStep == ASSUME Inv, NameInv, [Next]_vars PROVE NameInv'
<1>1. CASE TakeEvent \/ DropDuplicate
  BY <1>1, NamedCounts DEF TakeEvent, DropDuplicate
<1>2. CASE NameEvent
  BY <1>2, NameEventCounts
<1>3. CASE Request
  BY <1>3, RequestForgets
<1>4. CASE SkipSource \/ SourceDone \/ \E c \in Calendars : ReadSource(c)
  BY <1>4, NamesUntouched
     DEF SkipSource, SourceDone, ReadSource, LookedAt, mergeVars, Merging
<1>5. CASE NothingFetched \/ BuildFails \/ Build \/ SkipDisabled \/ ApplyRule
             \/ Render \/ RenderFails \/ MatchesAnswer \/ Preview
  BY <1>5, NamesUntouched
     DEF NothingFetched, BuildFails, Build, SkipDisabled, ApplyRule, Applying, Render, RenderFails,
         MatchesAnswer, Preview, Respond, Fail, Applied, LookedAt, mergeVars, Merging
<1>6. CASE UNCHANGED vars
  BY <1>6, NamesUntouched DEF vars, mergeVars, LookedAt, Merging
<1> QED
  BY <1>1, <1>2, <1>3, <1>4, <1>5, <1>6 DEF Next

\* For any sources, down or not, over any number of requests: two events get
\* one name exactly when they are the same copy of the same event.
THEOREM NamesAreStable == Spec => []StableNames
<1>1. Init => NameInv
  BY NothingLookedAt DEF Init, NamesOK
<1>2. NameInv => StableNames
  <2> SUFFICES ASSUME NameInv, NEW i \in issued, NEW j \in issued
               PROVE  <<i.key, i.nth>> = <<j.key, j.nth>> <=> i.uid = j.uid
    BY DEF StableNames
  <2>1. i.uid = [key |-> i.key, n |-> i.nth] /\ j.uid = [key |-> j.key, n |-> j.nth]
    BY DEF NameInv, NamesOK
  <2>2. i.uid.key = i.key /\ i.uid.n = i.nth /\ j.uid.key = j.key /\ j.uid.n = j.nth
    BY <2>1
  <2> QED
    BY <2>1, <2>2
<1> QED
  BY <1>1, <1>2, NamesStep, Invariance, PTL DEF Spec

-----------------------------------------------------------------------------
(* Nothing is lost in the merge.  An event is left out exactly when its     *)
(* identity is in seenUID, which holds those of the events offered before. *)

Repeats(e) ==
  \E d \in offered : d.at < e.at /\ Text(e, "UID") # None /\ SameEvent(d, e)
Taken(e) == \E m \in merged : m.at = e.at /\ Content(m) = Content(e)

SeenOK == seenUID = {Identity(d) : d \in {d \in offered : Text(d, "UID") # None}}
TakenOK == Merging => SeenOK /\ \A e \in offered : ~Repeats(e) <=> Taken(e)

\* The merge changes nothing of an event but its UID and its stamp.
LEMMA ContentOfSetText ==
  ASSUME NEW e, IsEvent(e), NEW f \in {"UID", "DTSTAMP"}, NEW v
  PROVE  Content(SetText(e, f, v)) = Content(e)
<1> DEFINE p == [h \in DOMAIN e.props \cup {f} |-> IF h = f THEN v ELSE e.props[h]]
           g == SetText(e, f, v)
           bare == [h \in DOMAIN e.props \ {"UID", "DTSTAMP"} |-> e.props[h]]
<1>1. g = [at |-> e.at, src |-> e.src, props |-> p, alarms |-> e.alarms]
  BY DEF SetText, IsEvent
<1>2. [h \in DOMAIN p \ {"UID", "DTSTAMP"} |-> p[h]] = bare
  OBVIOUS
<1>3. RemoveAll(g, {"UID", "DTSTAMP"}) = [at |-> e.at, src |-> e.src, props |-> bare, alarms |-> e.alarms]
  <2> HIDE DEF p, bare, g
  <2> QED
    BY <1>1, <1>2 DEF RemoveAll
<1>4. RemoveAll(e, {"UID", "DTSTAMP"}) = [at |-> e.at, src |-> e.src, props |-> bare, alarms |-> e.alarms]
  BY DEF RemoveAll, IsEvent
<1> HIDE DEF p, bare, g
<1>5. g.alarms = e.alarms /\ g.src = e.src
  BY <1>1
<1> QED
  BY <1>3, <1>4, <1>5 DEF Content, g

LEMMA ContentOfStamped ==
  ASSUME NEW e, IsEvent(e)
  PROVE  Content(EnsureDTStamp(e)) = Content(e)
  BY ContentOfSetText DEF EnsureDTStamp

\* What is true of the events before stays true with one more looked at.
LEMMA LookKeepsTaken ==
  ASSUME Inv, NameInv, TakenOK, Look, NEW New, merged' = merged \cup New,
         \A m \in New : m.at = count + 1,
         Text(InHand, "UID") # None /\ Identity(InHand) \in seenUID => New = {},
         ~(Text(InHand, "UID") # None /\ Identity(InHand) \in seenUID)
           => \E m \in New : Content(m) = Content(InHand),
         seenUID' = seenUID \cup (IF Text(InHand, "UID") = None THEN {} ELSE {Identity(InHand)})
  PROVE  TakenOK'
<1>1. /\ count \in Nat /\ count' = count + 1 /\ offered' = offered \cup {InHand} /\ Merging
      /\ InHand.at = count + 1
  BY InHandOK DEF Look, Inv, EventsOK, Merging
<1>2. PICK new : new = InHand
  OBVIOUS
<1>3. (\A d \in offered : d.at \in 1 .. count) /\ \A m \in merged : m.at \in 1 .. count
  BY <1>1 DEF NameInv, OfferedOK, Inv, EventsOK
<1>4. SeenOK'
  BY <1>1 DEF SeenOK, TakenOK
<1>5. ASSUME NEW e \in offered PROVE (~Repeats(e) <=> Taken(e))'
  <2>1. Repeats(e)' <=> Repeats(e)
    BY <1>1, <1>2, <1>3 DEF Repeats
  <2>2. Taken(e)' <=> Taken(e)
    BY <1>1, <1>3 DEF Taken
  <2> QED
    BY <1>1, <2>1, <2>2 DEF TakenOK
<1>6. (~Repeats(new) <=> Taken(new))'
  <2>1. Repeats(new)' <=> Text(new, "UID") # None /\ Identity(new) \in seenUID
    <3>1. \A d \in offered : d.at < new.at
      BY <1>1, <1>2, <1>3
    <3>2. ~(new.at < new.at)
      BY <1>1, <1>2
    <3>3. Repeats(new)' <=> Text(new, "UID") # None /\ \E d \in offered : SameEvent(d, new)
      BY <1>1, <1>2, <3>1, <3>2 DEF Repeats
    <3>4. \A d : SameEvent(d, new) <=> Identity(d) = Identity(new)
      BY DEF SameEvent, Identity
    <3>5. \A d : SameEvent(d, new) => Text(d, "UID") = Text(new, "UID")
      BY DEF SameEvent
    <3>6. SeenOK
      BY <1>1 DEF TakenOK
    <3> QED
      BY <3>3, <3>4, <3>5, <3>6 DEF SeenOK
  <2>2. Taken(new)' <=> \E m \in New : Content(m) = Content(new)
    BY <1>1, <1>2, <1>3 DEF Taken
  <2>3. Text(new, "UID") # None /\ Identity(new) \in seenUID => New = {}
    BY <1>2
  <2>4. ~(Text(new, "UID") # None /\ Identity(new) \in seenUID)
           => \E m \in New : Content(m) = Content(new)
    BY <1>2
  <2> QED
    BY <2>1, <2>2, <2>3, <2>4
<1> QED
  BY <1>1, <1>2, <1>4, <1>5, <1>6 DEF TakenOK

LEMMA TakenStep == ASSUME Inv, NameInv, TakenOK, [Next]_vars PROVE TakenOK'
<1>1. CASE TakeEvent
  <2>1. Look /\ merged' = merged \cup {EnsureDTStamp(InHand)}
        /\ Text(InHand, "UID") # None /\ Identity(InHand) \notin seenUID
        /\ seenUID' = seenUID \cup {Identity(InHand)}
    BY <1>1 DEF TakeEvent
  <2>2. IsEvent(InHand) /\ InHand.at = count + 1
    BY <2>1, InHandOK
  <2>3. EnsureDTStamp(InHand).at = count + 1 /\ Content(EnsureDTStamp(InHand)) = Content(InHand)
    BY <2>2, StampKeeps, ContentOfStamped DEF Keeps
  <2>4. PICK new : new = EnsureDTStamp(InHand)
    OBVIOUS
  <2>5. merged' = merged \cup {new} /\ \A m \in {new} : m.at = count + 1
    BY <2>4, <2>1, <2>3
  <2>6. /\ Text(InHand, "UID") # None /\ Identity(InHand) \in seenUID => {new} = {}
        /\ ~(Text(InHand, "UID") # None /\ Identity(InHand) \in seenUID)
             => \E m \in {new} : Content(m) = Content(InHand)
        /\ seenUID' = seenUID \cup (IF Text(InHand, "UID") = None THEN {} ELSE {Identity(InHand)})
    BY <2>4, <2>1, <2>3
  <2> QED
    BY <2>1, <2>5, <2>6, LookKeepsTaken
<1>2. CASE DropDuplicate
  <2>1. Look /\ merged' = merged /\ seenUID' = seenUID
        /\ Text(InHand, "UID") # None /\ Identity(InHand) \in seenUID
    BY <1>2 DEF DropDuplicate
  <2>2. PICK none : none = {}
    OBVIOUS
  <2>3. /\ merged' = merged \cup none /\ \A m \in none : m.at = count + 1
        /\ Text(InHand, "UID") # None /\ Identity(InHand) \in seenUID => none = {}
        /\ ~(Text(InHand, "UID") # None /\ Identity(InHand) \in seenUID)
             => \E m \in none : Content(m) = Content(InHand)
        /\ seenUID' = seenUID \cup (IF Text(InHand, "UID") = None THEN {} ELSE {Identity(InHand)})
    BY <2>1, <2>2
  <2> QED
    BY <2>1, <2>3, LookKeepsTaken
<1>3. CASE NameEvent
  <2> DEFINE uid == SyntheticUID(InHand)
             named == SetText(InHand, "UID", uid)
  <2>1. Look /\ merged' = merged \cup {EnsureDTStamp(named)}
        /\ Text(InHand, "UID") = None /\ seenUID' = seenUID \cup {}
    BY <1>3 DEF NameEvent
  <2>2. IsEvent(InHand) /\ InHand.at = count + 1
    BY <2>1, InHandOK
  <2>3. IsEvent(named) /\ named.at = count + 1 /\ Content(named) = Content(InHand)
    BY <2>2, TextOfSetText, ContentOfSetText
  <2>4. EnsureDTStamp(named).at = count + 1 /\ Content(EnsureDTStamp(named)) = Content(InHand)
    BY <2>3, StampKeeps, ContentOfStamped DEF Keeps
  <2>5. PICK new : new = EnsureDTStamp(named)
    OBVIOUS
  <2>6. merged' = merged \cup {new} /\ \A m \in {new} : m.at = count + 1
    BY <2>5, <2>1, <2>4
  <2>7. /\ Text(InHand, "UID") # None /\ Identity(InHand) \in seenUID => {new} = {}
        /\ ~(Text(InHand, "UID") # None /\ Identity(InHand) \in seenUID)
             => \E m \in {new} : Content(m) = Content(InHand)
        /\ seenUID' = seenUID \cup (IF Text(InHand, "UID") = None THEN {} ELSE {Identity(InHand)})
    BY <2>5, <2>1, <2>4
  <2> QED
    BY <2>1, <2>6, <2>7, LookKeepsTaken
<1>4. CASE Request
  BY <1>4 DEF Request, TakenOK, SeenOK
<1>5. CASE SkipSource \/ SourceDone \/ \E c \in Calendars : ReadSource(c)
  BY <1>5 DEF SkipSource, SourceDone, ReadSource, mergeVars, Merging, TakenOK, SeenOK, Repeats, Taken
<1>6. CASE NothingFetched \/ BuildFails \/ Build \/ SkipDisabled \/ ApplyRule
             \/ Render \/ RenderFails \/ MatchesAnswer \/ Preview
  BY <1>6
     DEF NothingFetched, BuildFails, Build, SkipDisabled, ApplyRule, Applying, Render, RenderFails,
         MatchesAnswer, Preview, Respond, Fail, Applied, Merging, TakenOK
<1>7. CASE UNCHANGED vars
  BY <1>7 DEF vars, mergeVars, Merging, TakenOK, SeenOK, Repeats, Taken
<1> QED
  BY <1>1, <1>2, <1>3, <1>4, <1>5, <1>6, <1>7 DEF Next

\* For any sources: the merge leaves out exactly the repetitions of an
\* identity, and changes nothing of an event but a missing UID or stamp.
THEOREM NothingIsLost == Spec => []MergeKeepsEach
<1>1. Init => NameInv /\ TakenOK
  BY NothingLookedAt DEF Init, NamesOK, TakenOK, SeenOK
<1>2. TakenOK => MergeKeepsEach
  BY DEF TakenOK, MergeKeepsEach, Merging, Repeats, Taken
<1> QED
  BY <1>1, <1>2, NamesStep, TakenStep, Invariance, PTL DEF Spec

-----------------------------------------------------------------------------
(* The time zones.  tzdefs holds exactly the zones the sources read so far  *)
(* define, each from the first of them.                                     *)

Definers == [url : Urls, zones : {c.zones : c \in Calendars}]
First(z, i) ==
  /\ i \in DOMAIN defined /\ z \in defined[i].zones
  /\ \A j \in DOMAIN defined : z \in defined[j].zones => i <= j

NoTZID == {Utc, Floating, DateOnly}
KnownZones == IanaZones \cup UNION {defined[i].zones : i \in DOMAIN defined}

DefinedOK ==
  /\ defined \in Seq(Definers)
  /\ \A i \in DOMAIN defined : defined[i].zones \subseteq DOMAIN tzdefs
  /\ \A z \in DOMAIN tzdefs : \E i : First(z, i) /\ tzdefs[z] = defined[i].url
AnswerOK ==
  pc = "done" /\ answer.kind = "ics" => answer.zones = ZoneDefs(ReferencedTZIDs(answer.events))

ZoneInv == DefinedOK /\ AnswerOK

\* The first definer is the one FirstDefiner finds.
LEMMA FirstIsFirst ==
  ASSUME defined \in Seq(Definers), NEW z, NEW i, First(z, i)
  PROVE  FirstDefiner(z) = defined[i].url
<1> DEFINE definers == {j \in DOMAIN defined : z \in defined[j].zones}
           Least(k) == k \in definers /\ \A j \in definers : k <= j
<1>1. Least(i)
  BY DEF First
<1>2. \A k, l : Least(k) /\ Least(l) => k = l
  <2>1. DOMAIN defined \subseteq Nat
    OBVIOUS
  <2> QED
    BY <2>1
<1>3. (CHOOSE k \in definers : \A j \in definers : k <= j) = i
  BY <1>1, <1>2
<1>4. definers # {}
  BY <1>1
<1> HIDE DEF Least
<1> QED
  BY <1>3, <1>4 DEF FirstDefiner

LEMMA ReadSourceDefines ==
  ASSUME Inv, DefinedOK, NEW c \in Calendars, ReadSource(c)
  PROVE  DefinedOK'
<1>1. PICK n : n = Len(defined) + 1
  OBVIOUS
<1>2. PICK d \in Definers : d = [url |-> Head(todo), zones |-> c.zones]
  BY DEF Inv, SourcesOK, ReadSource, Definers
<1>3. /\ defined' = Append(defined, d) /\ defined' \in Seq(Definers)
      /\ DOMAIN defined' = 1 .. n /\ DOMAIN defined = 1 .. (n - 1) /\ n \in Nat
      /\ defined'[n] = d /\ \A i \in DOMAIN defined : defined'[i] = defined[i]
  BY <1>1, <1>2 DEF DefinedOK, ReadSource
<1>4. /\ DOMAIN tzdefs' = DOMAIN tzdefs \cup d.zones
      /\ \A z \in DOMAIN tzdefs' : tzdefs'[z] = IF z \in DOMAIN tzdefs THEN tzdefs[z] ELSE d.url
  BY <1>2 DEF ReadSource, FirstDefined
<1>5. \A i \in DOMAIN defined' : defined'[i].zones \subseteq DOMAIN tzdefs'
  BY <1>3, <1>4 DEF DefinedOK
<1>6. ASSUME NEW z \in DOMAIN tzdefs' PROVE \E i : (First(z, i) /\ tzdefs[z] = defined[i].url)'
  <2>1. CASE z \in DOMAIN tzdefs
    <3>1. PICK i : First(z, i) /\ tzdefs[z] = defined[i].url
      BY <2>1 DEF DefinedOK
    <3>2. (First(z, i) /\ tzdefs[z] = defined[i].url)'
      BY <2>1, <3>1, <1>3, <1>4 DEF First
    <3> QED
      BY <3>2
  <2>2. CASE z \notin DOMAIN tzdefs
    <3>1. \A j \in DOMAIN defined : z \notin defined[j].zones
      BY <2>2 DEF DefinedOK
    <3>2. (First(z, n) /\ tzdefs[z] = defined[n].url)'
      BY <2>2, <3>1, <1>3, <1>4, <1>6 DEF First
    <3> QED
      BY <3>2
  <2> QED
    BY <2>1, <2>2
<1> QED
  BY <1>3, <1>5, <1>6 DEF DefinedOK

LEMMA DefinedUntouched ==
  ASSUME DefinedOK, UNCHANGED <<tzdefs, defined>>
  PROVE  DefinedOK'
  BY DEF DefinedOK, First

LEMMA NothingDefined ==
  ASSUME tzdefs = Nothing, defined = <<>>
  PROVE  DefinedOK
  BY DEF DefinedOK, Nothing

LEMMA DefinedStep == ASSUME Inv, ZoneInv, [Next]_vars PROVE DefinedOK'
<1>1. CASE \E c \in Calendars : ReadSource(c)
  BY <1>1, ReadSourceDefines DEF ZoneInv
<1>2. CASE Request
  <2>1. (tzdefs = Nothing)' /\ (defined = <<>>)'
    BY <1>2 DEF Request, Nothing
  <2>2. DefinedOK'
    BY <2>1 DEF DefinedOK, Nothing
  <2> QED
    BY <2>2
<1>3. CASE TakeEvent \/ DropDuplicate \/ NameEvent \/ SkipSource \/ SourceDone
  BY <1>3, DefinedUntouched
     DEF ZoneInv, TakeEvent, DropDuplicate, NameEvent, Look, SkipSource, SourceDone, mergeVars
<1>4. CASE NothingFetched \/ BuildFails \/ Build \/ SkipDisabled \/ ApplyRule
             \/ Render \/ RenderFails \/ MatchesAnswer \/ Preview
  BY <1>4, DefinedUntouched
     DEF ZoneInv, NothingFetched, BuildFails, Build, SkipDisabled, ApplyRule, Render, RenderFails,
         MatchesAnswer, Preview, Respond, Fail, mergeVars
<1>5. CASE UNCHANGED vars
  BY <1>5, DefinedUntouched DEF ZoneInv, vars, mergeVars
<1> QED
  BY <1>1, <1>2, <1>3, <1>4, <1>5 DEF Next

LEMMA AnswerStep == ASSUME ZoneInv, [Next]_vars PROVE AnswerOK'
<1>1. CASE Render
  <2>1. answer' = [kind |-> "ics", events |-> merged, zones |-> ZoneDefs(ReferencedTZIDs(merged))]
        /\ tzdefs' = tzdefs
    BY <1>1 DEF Render, Respond, mergeVars
  <2>2. answer'.zones = ZoneDefs(ReferencedTZIDs(merged)) /\ answer'.events = merged
    BY <2>1
  <2>3. (\A cal : ZoneDefs(ReferencedTZIDs(cal))' = ZoneDefs(ReferencedTZIDs(cal)))
    BY <2>1 DEF ZoneDefs
  <2> QED
    BY <2>1, <2>2 DEF AnswerOK, ZoneDefs
<1>2. CASE MatchesAnswer \/ Preview
  BY <1>2 DEF MatchesAnswer, Preview, Respond, AnswerOK
<1>3. CASE Request \/ SkipSource \/ SourceDone \/ TakeEvent \/ DropDuplicate \/ NameEvent
             \/ NothingFetched \/ BuildFails \/ Build \/ SkipDisabled \/ ApplyRule \/ RenderFails
             \/ \E c \in Calendars : ReadSource(c)
  BY <1>3
     DEF Request, SkipSource, SourceDone, TakeEvent, DropDuplicate, NameEvent, Look, NothingFetched,
         BuildFails, Build, SkipDisabled, ApplyRule, Applying, RenderFails, ReadSource, Fail, AnswerOK
<1>4. CASE UNCHANGED vars
  BY <1>4 DEF vars, mergeVars, AnswerOK, ZoneInv, ZoneDefs
<1> QED
  BY <1>1, <1>2, <1>3, <1>4 DEF Next

\* The scan finds the zones of all times, whichever property holds them.
LEMMA ScanFindsTimes ==
  ASSUME NEW cal, NEW z, z \notin NoTZID
  PROVE  z \in ReferencedTZIDs(cal) <=> \E e \in cal : TimeIn(e, z)
<1>1. ASSUME NEW e
      PROVE  (\E p \in TimeProps(e) : p.zone = z) <=> TimeIn(e, z)
  BY DEF TimeProps, TimeIn
<1>2. z \in ReferencedTZIDs(cal) <=> \E e \in cal : \E p \in TimeProps(e) : p.zone = z
  BY DEF ReferencedTZIDs, NoTZID
<1> QED  BY <1>1, <1>2

\* What the sources read so far define is in tzdefs, and no more.
LEMMA DefinedZones ==
  ASSUME DefinedOK
  PROVE  /\ KnownZones = IanaZones \cup DOMAIN tzdefs
         /\ KnownZones \cap NoTZID = {}
         /\ \A z \in DOMAIN tzdefs : FirstDefiner(z) = tzdefs[z]
         /\ \A z : z \notin DOMAIN tzdefs => FirstDefiner(z) = None
<1>1. \A i \in DOMAIN defined : defined[i] \in Definers
  BY DEF DefinedOK
<1>2. \A i \in DOMAIN defined : defined[i].zones \cap NoTZID = {}
  BY <1>1, RenderAssumption DEF Definers, NoTZID
<1>3. UNION {defined[i].zones : i \in DOMAIN defined} = DOMAIN tzdefs
  <2>1. \A i \in DOMAIN defined : defined[i].zones \subseteq DOMAIN tzdefs
    BY DEF DefinedOK
  <2>2. \A z \in DOMAIN tzdefs : \E i \in DOMAIN defined : z \in defined[i].zones
    BY DEF DefinedOK, First
  <2> QED  BY <2>1, <2>2
<1>4. IanaZones \cap NoTZID = {}
  BY ZonesAssumption DEF NoTZID
<1>5. \A z \in DOMAIN tzdefs : FirstDefiner(z) = tzdefs[z]
  BY FirstIsFirst DEF DefinedOK
<1>6. \A z : z \notin DOMAIN tzdefs => FirstDefiner(z) = None
  BY DEF DefinedOK, FirstDefiner
<1> QED  BY <1>2, <1>3, <1>4, <1>5, <1>6 DEF KnownZones

\* For any sources, calendars and rules: the zone of every time the published
\* calendar holds, in whatever property, is defined by the first source that
\* defines it, if anyone knows it, and no other zone is.
THEOREM ZonesAreDefined == Spec => []EveryZoneDefined
<1>1. Init => ZoneInv
  BY NothingDefined DEF Init, ZoneInv, AnswerOK
<1>2. ZoneInv => EveryZoneDefined
  <2> SUFFICES ASSUME ZoneInv, pc = "done", answer.kind = "ics" PROVE EveryZoneDefined
    BY DEF EveryZoneDefined
  <2> DEFINE named == ReferencedTZIDs(answer.events)
             used == {z \in KnownZones : \E e \in answer.events : TimeIn(e, z)}
  <2>1. answer.zones = [z \in named \cap (DOMAIN tzdefs \cup IanaZones) |-> Lookup(tzdefs, z, None)]
    BY DEF ZoneInv, AnswerOK, ZoneDefs
  <2>2. /\ KnownZones = IanaZones \cup DOMAIN tzdefs
        /\ KnownZones \cap NoTZID = {}
        /\ \A z \in DOMAIN tzdefs : FirstDefiner(z) = tzdefs[z]
        /\ \A z : z \notin DOMAIN tzdefs => FirstDefiner(z) = None
    BY DefinedZones DEF ZoneInv
  <2>3. named \cap (DOMAIN tzdefs \cup IanaZones) = used
    BY <2>2, ScanFindsTimes
  <2>4. \A z : Lookup(tzdefs, z, None) = FirstDefiner(z)
    BY <2>2 DEF Lookup
  <2> HIDE DEF named
  <2>5. answer.zones = [z \in used |-> FirstDefiner(z)]
    BY <2>1, <2>3, <2>4
  <2> QED
    BY <2>5 DEF EveryZoneDefined, KnownZones
<1> QED
  BY <1>1, <1>2, DefinedStep, AnswerStep, Invariance, PTL DEF Spec, ZoneInv
-----------------------------------------------------------------------------
(* The expire rule.  Every event in hand stays Timely: the rules leave its *)
(* times alone or take them away, and the timezone rule moves a zoneless   *)
(* start to one it may come to stand for.                                  *)

TimeFields == {"DTSTART", "DTEND", "RRULE"}

\* An event with the times of another, or without some of them.
LEMMA TimelyLess ==
  ASSUME NEW d, NEW e, Timely(e), \A f \in TimeFields : Text(d, f) \in {Text(e, f), None}
  PROVE  Timely(d)
<1>1. \A f \in {"DTSTART", "DTEND"} : Text(d, f) # None => Text(d, f).when \in Int
  BY DEF Timely, TimeFields
<1>2. MayStart(d) \subseteq MayStart(e)
  <2>1. CASE Text(d, "DTSTART") = Text(e, "DTSTART")
    BY <2>1 DEF MayStart, StartOf
  <2>2. CASE Text(d, "DTSTART") = None
    BY <2>2 DEF MayStart, StartOf
  <2> QED  BY <2>1, <2>2 DEF TimeFields
<1>3. Text(d, "RRULE") # None => Text(d, "RRULE") = Text(e, "RRULE")
  BY DEF TimeFields
<1> QED  BY <1>1, <1>2, <1>3 DEF Timely

LEMMA OffsetType == ASSUME NEW z  PROVE OffsetOf(z) \in Int
BY ZonesAssumption DEF OffsetOf

\* A timezone rule moves a start to one it may come to stand for.
LEMMA ConvertStart ==
  ASSUME NEW r \in AllRules, r.type = "timezone", Valid(r), NEW e, IsEvent(e), Timely(e),
         Text(e, "DTSTART") # None, Readable(Text(e, "DTSTART").zone),
         Text(e, "DTSTART").zone # DateOnly, None \notin Int
  PROVE  MayStart(ConvertField(r, e, "DTSTART")) \subseteq MayStart(e)
<1> DEFINE dt == Text(e, "DTSTART")
           from == OffsetOf(IF dt.zone = Floating THEN r.floating ELSE dt.zone)
           t == dt.when - from
           there == [when |-> t + OffsetOf(r.target), zone |-> r.target]
           d == ConvertField(r, e, "DTSTART")
<1>1. d = SetText(e, "DTSTART", there)
  BY DEF ConvertField
<1>2. Text(d, "DTSTART") = there
  BY <1>1, TextOfSetText
<1>3. dt.when \in Int /\ from \in Int /\ OffsetOf(r.target) \in Int
  BY OffsetType DEF Timely
<1>4. r.target \in IanaZones \cup {Utc} /\ r.target # Floating
  BY ZonesAssumption DEF Valid
<1>5. there.when - OffsetOf(there.zone) = t /\ there.zone = r.target
  BY <1>3
<1>6. MayStart(d) \subseteq {t}
  <2>1. StartOf(d) = None \/ StartOf(d) = t
    BY <1>2, <1>5 DEF StartOf, Instant
  <2>2. Text(d, "DTSTART").zone # Floating
    BY <1>2, <1>4, <1>5
  <2> QED  BY <2>1, <2>2 DEF MayStart
<1>7. StartOf(e) = dt.when - OffsetOf(dt.zone) /\ StartOf(e) # None
  BY <1>3, OffsetType DEF StartOf, Instant
<1>8. CASE dt.zone = Floating
  <2>1. from \in Assumed
    BY <1>8 DEF Assumed
  <2> QED  BY <1>6, <1>7, <1>8, <2>1 DEF MayStart
<1>9. CASE dt.zone # Floating
  BY <1>6, <1>7, <1>9 DEF MayStart
<1> QED  BY <1>8, <1>9

LEMMA ConvertTimely ==
  ASSUME NEW r \in AllRules, r.type = "timezone", Valid(r), NEW e, IsEvent(e), Timely(e),
         None \notin Int, NEW f \in {"DTSTART", "DTEND"}
  PROVE  Timely(ConvertField(r, e, f)) /\ IsEvent(ConvertField(r, e, f))
<1> DEFINE dt == Text(e, f)
           d == ConvertField(r, e, f)
           t == dt.when - OffsetOf(IF dt.zone = Floating THEN r.floating ELSE dt.zone)
           there == [when |-> t + OffsetOf(r.target), zone |-> r.target]
<1>1. CASE dt = None \/ dt.zone = DateOnly \/ ~Readable(dt.zone)
  BY <1>1 DEF ConvertField
<1>2. CASE ~(dt = None \/ dt.zone = DateOnly \/ ~Readable(dt.zone))
  <2>1. d = SetText(e, f, there)
    BY <1>2 DEF ConvertField
  <2>2. IsEvent(d) /\ \A g : Text(d, g) = IF g = f THEN there ELSE Text(e, g)
    BY <2>1, TextOfSetText
  <2>3. there.when \in Int
    BY <1>2, OffsetType DEF Timely
  <2>4. \A g \in {"DTSTART", "DTEND"} : Text(d, g) # None => Text(d, g).when \in Int
    BY <2>2, <2>3 DEF Timely
  <2>5. MayStart(d) \subseteq MayStart(e)
    <3>1. CASE f = "DTSTART"
      BY <1>2, <3>1, ConvertStart
    <3>2. CASE f = "DTEND"
      <4>1. Text(d, "DTSTART") = Text(e, "DTSTART")
        BY <2>2, <3>2
      <4> QED  BY <4>1 DEF MayStart, StartOf
    <3> QED  BY <3>1, <3>2
  <2>6. Text(d, "RRULE") = Text(e, "RRULE")
    BY <2>2
  <2> QED  BY <2>2, <2>4, <2>5, <2>6 DEF Timely
<1> QED  BY <1>1, <1>2

LEMMA ApplyTimely ==
  ASSUME NEW r \in AllRules, Valid(r), None \notin Int,
         NEW cal, AllEvents(cal), \A e \in cal : Timely(e)
  PROVE  \A d \in Apply(r, cal) : Timely(d)
<1>1. CASE r.type \in {"filter", "dedup", "expire"}
  BY <1>1 DEF Apply, Dedup
<1>2. CASE r.type = "rename"
  <2>1. ASSUME NEW e \in cal  PROVE Timely(Rename(r, e))
    <3>1. CASE ~Renames(r, e)
      BY <3>1 DEF Rename
    <3>2. CASE Renames(r, e)
      <4>1. \A g \in TimeFields : g # r.field
        BY <1>2 DEF Valid, EditableFields, TimeFields
      <4>2. \A g \in TimeFields : Text(Rename(r, e), g) = Text(e, g)
        BY <3>2, <4>1, TextOfSetText DEF Rename, AllEvents
      <4> QED  BY <4>2, TimelyLess
    <3> QED  BY <3>1, <3>2
  <2> QED  BY <1>2, <2>1 DEF Apply
<1>3. CASE r.type = "strip"
  <2>1. ASSUME NEW e \in cal  PROVE Timely(RemoveAll(e, r.fields))
    <3>1. \A g \in TimeFields : g \notin r.fields => Text(RemoveAll(e, r.fields), g) = Text(e, g)
      BY TextOfRemoveAll DEF AllEvents
    <3>2. \A g \in TimeFields : g \in r.fields => Text(RemoveAll(e, r.fields), g) = None
      <4> DEFINE p == [h \in DOMAIN e.props \ r.fields |-> e.props[h]]
      <4>1. RemoveAll(e, r.fields) = [at |-> e.at, src |-> e.src, props |-> p, alarms |-> e.alarms]
        BY DEF RemoveAll, IsEvent, AllEvents
      <4>2. RemoveAll(e, r.fields).props = p
        BY <4>1
      <4> QED  BY <4>2 DEF Text
    <3> QED  BY <3>1, <3>2, TimelyLess
  <2> QED  BY <1>3, <2>1 DEF Apply
<1>4. CASE r.type = "timezone"
  <2>1. \A e \in cal : Timely(Convert(r, e))
    BY <1>4, ConvertTimely DEF Convert, AllEvents
  <2> QED  BY <1>4, <2>1 DEF Apply
<1>5. CASE r.type = "alarm"
  <2>1. ASSUME NEW e \in cal  PROVE Timely(SetAlarm(r, e))
    <3>1. SetAlarm(r, e) = [at |-> e.at, src |-> e.src, props |-> e.props, alarms |-> {AlarmText(r, e)}]
      BY DEF SetAlarm, IsEvent, AllEvents
    <3>2. \A g : Text(SetAlarm(r, e), g) = Text(e, g)
      BY <3>1 DEF Text
    <3> QED  BY <3>2, TimelyLess
  <2> QED  BY <1>5, <2>1 DEF Apply
<1> QED  BY <1>1, <1>2, <1>3, <1>4, <1>5 DEF Valid

\* The rules are the feed's, and every event is Timely.
TimesInv == rules \in RuleLists /\ \A e \in merged : Timely(e)

\* An event taken in has the times it was read with.
LEMMA TakenTimely ==
  ASSUME Inv, TimesFit, Look
  PROVE  /\ Timely(EnsureDTStamp(InHand))
         /\ \A uid : Timely(EnsureDTStamp(SetText(InHand, "UID", uid)))
<1>1. rest \in Seq(Events) /\ rest # <<>>
  BY DEF Inv, SourcesOK, Look
<1>2. Head(rest) \in Events
  BY <1>1
<1>3. IsEvent(InHand) /\ InHand.props = Head(rest).props
  BY DEF InHand, IsEvent
<1>4. Timely(InHand)
  <2>1. \A f : Text(InHand, f) = Text(Head(rest), f)
    BY <1>3 DEF Text
  <2> QED  BY <1>2, <2>1, TimelyLess DEF TimesFit
<1>5. ASSUME NEW e, IsEvent(e), Timely(e), NEW f, f \notin TimeFields, NEW v
      PROVE  IsEvent(SetText(e, f, v)) /\ Timely(SetText(e, f, v))
  <2>1. IsEvent(SetText(e, f, v)) /\ \A g \in TimeFields : Text(SetText(e, f, v), g) = Text(e, g)
    BY <1>5, TextOfSetText
  <2> QED  BY <1>5, <2>1, TimelyLess
<1>6. ASSUME NEW e, IsEvent(e), Timely(e)  PROVE Timely(EnsureDTStamp(e))
  BY <1>5, <1>6 DEF EnsureDTStamp, TimeFields
<1> QED
  BY <1>3, <1>4, <1>5, <1>6 DEF TimeFields

LEMMA TimesStep == ASSUME TimesFit, Inv, TimesInv, [Next]_vars  PROVE TimesInv'
<1>1. CASE TakeEvent
  BY <1>1, TakenTimely DEF TakeEvent, Look, TimesInv
<1>2. CASE NameEvent
  BY <1>2, TakenTimely DEF NameEvent, Look, TimesInv
<1>3. CASE ApplyRule
  <2>1. /\ rules[step] \in AllRules /\ Valid(rules[step]) /\ rules' = rules
        /\ merged' = Apply(rules[step], merged)
    BY <1>3 DEF ApplyRule, Applying, Inv, RulesOK, Buildable, TimesInv, AllRules
  <2>2. AllEvents(merged)
    BY DEF Inv, EventsOK, AllEvents
  <2> QED  BY <2>1, <2>2, ApplyTimely DEF TimesInv, TimesFit
<1>4. CASE Request
  BY <1>4 DEF Request, TimesInv
<1>5. CASE UNCHANGED <<rules, merged>>
  BY <1>5 DEF TimesInv
<1>6. UNCHANGED <<rules, merged>> \/ TakeEvent \/ NameEvent \/ ApplyRule \/ Request
  BY DEF Next, vars, SkipSource, ReadSource, DropDuplicate, Look, SourceDone, NothingFetched,
         BuildFails, Build, SkipDisabled, Render, RenderFails, MatchesAnswer, Preview, Respond, Fail
<1> QED  BY <1>1, <1>2, <1>3, <1>4, <1>5, <1>6

\* Numbers out of the times of an event.
LEMMA TimesAreNumbers ==
  ASSUME None \notin Int, NEW e, Timely(e), StartOf(e) # None
  PROVE  StartOf(e) \in Int /\ EndOf(e) \in Int /\ StartOf(e) \in MayStart(e)
<1> DEFINE dt == Text(e, "DTSTART")
<1>1. dt # None /\ Readable(dt.zone) /\ StartOf(e) = dt.when - OffsetOf(dt.zone)
  BY DEF StartOf, Instant
<1>2. StartOf(e) \in Int
  BY <1>1, OffsetType DEF Timely
<1>3. EndOf(e) \in Int
  BY <1>2, OffsetType, ZonesAssumption DEF EndOf, Instant, Timely
<1>4. StartOf(e) \in MayStart(e)
  <2>1. CASE dt.zone = Floating
    <3>1. OffsetOf(dt.zone) = 0 /\ 0 \in Assumed
      BY <2>1, ZonesAssumption DEF OffsetOf, Assumed
    <3> QED  BY <1>1, <2>1, <3>1 DEF MayStart
  <2>2. CASE dt.zone # Floating
    BY <2>2 DEF MayStart
  <2> QED  BY <2>1, <2>2
<1> QED  BY <1>2, <1>3, <1>4

\* The expire rule keeps whatever still has an occurrence to come, where UNTIL
\* is not before the start.  It takes a zoneless start for UTC, as it does
\* UNTIL; a timezone rule before it moves the start alone (recurrence.go:102-104,
\* rules.go:361-371), so UNTIL must not be before the moved start either.
THEOREM NothingExpiresEarly == ASSUME TimesFit  PROVE Spec => []ExpireKeepsWhatIsToCome
<1>1. Init => TimesInv
  BY DEF Init, TimesInv
<1>2. ASSUME TimesInv  PROVE ExpireKeepsWhatIsToCome
  <2> SUFFICES ASSUME Applying, rules[step].type = "expire", NEW e \in merged,
                      StartOf(e) # None, Text(e, "RDATE") = None,
                      NEW t \in Starts(e), t + (EndOf(e) - StartOf(e)) >= Cutoff
               PROVE  ~Expires(e)
    BY DEF ExpireKeepsWhatIsToCome, Apply
  <2> DEFINE rule == Text(e, "RRULE")
             lasts == EndOf(e) - StartOf(e)
  <2>1. /\ StartOf(e) \in Int /\ EndOf(e) \in Int /\ StartOf(e) \in MayStart(e)
        /\ Cutoff \in Int /\ None \notin Int /\ Timely(e) /\ FirstRDates(e) = {}
    BY <1>2, TimesAreNumbers DEF TimesInv, TimesFit, FirstRDates
  <2>2. CASE rule = None
    <3>1. t = StartOf(e) /\ LastOccurrence(e) = EndOf(e)
      BY <2>2 DEF Starts, LastOccurrence
    <3> QED  BY <2>1, <3>1 DEF Expires
  <2>3. CASE rule # None /\ rule.until = None
    BY <2>3 DEF Expires, LastOccurrence
  <2>4. CASE rule # None /\ rule.until # None
    <3>1. rule.until \in Int /\ StartOf(e) <= rule.until
      BY <2>1, <2>4 DEF Timely
    <3>2. t \in Int /\ t <= rule.until
      BY <2>1, <2>4, <3>1 DEF Starts
    <3>3. LastOccurrence(e) = rule.until + (IF lasts > 0 THEN lasts ELSE 0)
      <4> DEFINE end == rule.until + (IF lasts > 0 THEN lasts ELSE 0)
      <4>1. Bounds(e) \cup FirstRDates(e) = {end} /\ end \in Int
        BY <2>1, <3>1 DEF Bounds
      <4>2. (CHOOSE last \in {end} : \A x \in {end} : x <= last) = end
        BY <4>1
      <4> QED  BY <2>4, <4>1, <4>2 DEF LastOccurrence
    <3> QED  BY <2>1, <3>1, <3>2, <3>3 DEF Expires
  <2> QED  BY <2>2, <2>3, <2>4
<1> QED  BY <1>1, <1>2, TimesStep, Invariance, PTL DEF Spec
=============================================================================
