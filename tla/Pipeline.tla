------------------------------ MODULE Pipeline ------------------------------
(***************************************************************************)
(* internal/pipeline: what a feed's rules do to the events.  A pattern is  *)
(* the set of texts it matches, a replacement a map from text to text;     *)
(* either is None when the pattern is empty or no regular expression, or   *)
(* the match mode unknown.                                                 *)
(***************************************************************************)
EXTENDS IcsEvents

CONSTANTS
  Cutoff,       \* now less the expire rule's age
  Reminder      \* the alarm's text when there is no other

EditableFields == {"SUMMARY", "DESCRIPTION", "LOCATION"}

\* BuildRule: what the constructors refuse.
Valid(r) ==
  CASE r.type = "filter" -> r.mode \in {"blacklist", "whitelist"} /\ r.hits # None
    [] r.type = "rename" -> r.field \in EditableFields /\ r.to # None
    [] r.type = "strip" -> r.fields # {}
    [] r.type = "timezone" -> {r.target, r.floating} \subseteq IanaZones \cup {Utc}
    [] r.type = "expire" -> r.days > 0
    [] r.type = "alarm" -> r.minutes >= 0
    [] r.type = "dedup" -> TRUE
    [] OTHER -> FALSE

Matches(r, e) == \E f \in r.fields : Text(e, f) \in r.hits

FilterKeeps(r, e) == IF r.mode = "whitelist" THEN Matches(r, e) ELSE ~Matches(r, e)

\* The date the start reads as, in its zone; the zero time's without a start,
\* nothing when it cannot be read.
StartDate(e) ==
  LET dt == Text(e, "DTSTART")
  IN  CASE dt = None -> -1
        [] dt # None /\ Readable(dt.zone) -> dt.when \div DayLength
        [] OTHER -> None

DedupKey(r, e) == [f \in r.keys |-> IF f = "DATE" THEN StartDate(e) ELSE Text(e, f)]

\* The first event of every key stays.
Dedup(r, cal) ==
  {e \in cal : \A d \in cal : DedupKey(r, d) = DedupKey(r, e) => e.at <= d.at}

Renames(r, e) ==
  LET val == Text(e, r.field)
  IN  val # None /\ val \in DOMAIN r.to /\ r.to[val] # val
Rename(r, e) == IF Renames(r, e) THEN SetText(e, r.field, r.to[Text(e, r.field)]) ELSE e

\* Alarms of the source are replaced.
AlarmText(r, e) ==
  CASE r.text # None -> r.text
    [] Text(e, "SUMMARY") # None -> Text(e, "SUMMARY")
    [] OTHER -> Reminder
SetAlarm(r, e) == [e EXCEPT !.alarms = {AlarmText(r, e)}]

\* A date stays, and so does a time in a zone that cannot be read.
ConvertField(r, e, f) ==
  LET dt == Text(e, f)
  IN  IF dt = None \/ dt.zone = DateOnly \/ ~Readable(dt.zone) THEN e
      ELSE LET t == dt.when - OffsetOf(IF dt.zone = Floating THEN r.floating ELSE dt.zone)
           IN  SetText(e, f, [when |-> t + OffsetOf(r.target), zone |-> r.target])
Convert(r, e) == ConvertField(r, ConvertField(r, e, "DTSTART"), "DTEND")

Expires(e) == IF LastOccurrence(e) = None THEN FALSE ELSE LastOccurrence(e) < Cutoff

\* Rule.Apply.
Apply(r, cal) ==
  CASE r.type = "filter" -> {e \in cal : FilterKeeps(r, e)}
    [] r.type = "dedup" -> Dedup(r, cal)
    [] r.type = "rename" -> {Rename(r, e) : e \in cal}
    [] r.type = "strip" -> {RemoveAll(e, r.fields) : e \in cal}
    [] r.type = "timezone" -> {Convert(r, e) : e \in cal}
    [] r.type = "expire" -> {e \in cal : ~Expires(e)}
    [] r.type = "alarm" -> {SetAlarm(r, e) : e \in cal}

\* Reporter: filter and rename report what they matched, as it then reads.
MatchedEvent(e) ==
  [summary |-> Text(e, "SUMMARY"), uid |-> Text(e, "UID"), start |-> Raw(e, "DTSTART")]
Matched(r, cal) ==
  CASE r.type = "filter" -> {MatchedEvent(e) : e \in {e \in cal : Matches(r, e)}}
    [] r.type = "rename" -> {MatchedEvent(Rename(r, e)) : e \in {e \in cal : Renames(r, e)}}
    [] OTHER -> {}
=============================================================================
