------------------------------ MODULE IcsEvents ------------------------------
(***************************************************************************)
(* The vocabulary of internal/ics: an event and the helpers that read and  *)
(* change it.                                                              *)
(*                                                                         *)
(* An event's properties are a map: name -> value.  A calendar's events    *)
(* are a set; "at" is an event's place in the order they were read in.     *)
(* A time is the number it reads as and the zone it is written in.  EXDATE *)
(* and RDATE are lists: they come any number of times, each a set of times *)
(* in one zone; X-TIME stands for a property of some client's own.         *)
(***************************************************************************)
EXTENDS Integers, FiniteSets

CONSTANTS
  None,         \* the empty string, an absent property, the zero time
  IanaZones,    \* zones the process can load; others only their source defines
  Offset,       \* zone -> how far its clocks are ahead
  Utc, Floating, DateOnly,  \* no TZID: "...Z", a zoneless time, a date
  DayLength     \* of a day

ASSUME ZonesAssumption ==
  /\ {Utc, Floating, DateOnly} \cap IanaZones = {}
  /\ Utc # Floating /\ Utc # DateOnly /\ Floating # DateOnly
  /\ Offset \in [IanaZones -> Int]
  /\ DayLength \in Nat \ {0}

Readable(zone) == zone \in IanaZones \cup {Utc, Floating, DateOnly}
OffsetOf(zone) == IF zone \in IanaZones THEN Offset[zone] ELSE 0
Instant(dt) == dt.when - OffsetOf(dt.zone)

\* Text: the value of a property, or nothing.
Text(e, f) == IF f \in DOMAIN e.props THEN e.props[f] ELSE None

\* Raw: a time as it is written.  Its TZID is not part of the value.
Raw(e, f) ==
  LET dt == Text(e, f)
  IN  IF dt = None THEN None
      ELSE [when |-> dt.when, form |-> IF dt.zone \in {Utc, DateOnly} THEN dt.zone ELSE Floating]

SetText(e, f, v) ==
  [e EXCEPT !.props = [g \in DOMAIN e.props \cup {f} |-> IF g = f THEN v ELSE e.props[g]]]

RemoveAll(e, fields) ==
  [e EXCEPT !.props = [g \in DOMAIN e.props \ fields |-> e.props[g]]]

\* DateTimeStart and DateTimeEnd, the zero time when there is none to read.
\* A zoneless time is taken for UTC; an all-day event lasts its day.
StartOf(e) ==
  LET dt == Text(e, "DTSTART")
  IN  IF dt # None /\ Readable(dt.zone) THEN Instant(dt) ELSE None

EndOf(e) ==
  LET dt == Text(e, "DTEND")
  IN  CASE dt # None -> IF Readable(dt.zone) THEN Instant(dt) ELSE StartOf(e)
        [] StartOf(e) # None /\ e.props["DTSTART"].zone = DateOnly -> StartOf(e) + DayLength
        [] OTHER -> StartOf(e)

SingleTimes == {"DTSTART", "DTEND", "RECURRENCE-ID", "X-TIME"}
TimeLists == {"EXDATE", "RDATE"}

\* The properties of an event that carry times, each in its zone.
TimeProps(e) ==
  {e.props[f] : f \in SingleTimes \cap DOMAIN e.props}
    \cup UNION {{e.props[f][n] : n \in DOMAIN e.props[f]} : f \in TimeLists \cap DOMAIN e.props}

\* Raw of a list is its first property; the numbers are read without the zone.
FirstRDates(e) == IF Text(e, "RDATE") = None THEN {} ELSE Text(e, "RDATE")[1].times

\* Mutation: UNTIL taken for the end of the last occurrence.
BoundsUnextended(e) == {Text(e, "RRULE").until}
\* UNTIL bounds the last start; the occurrence runs for the event's duration.
Bounds(e) ==
  LET until == Text(e, "RRULE").until
      extended == StartOf(e) # None /\ EndOf(e) > StartOf(e)
  IN  {IF extended THEN until + (EndOf(e) - StartOf(e)) ELSE until}

\* The end of the final occurrence; None when it is not bounded.
LastOccurrence(e) ==
  LET rule == Text(e, "RRULE")
      ends == (IF rule = None THEN {} ELSE Bounds(e)) \cup FirstRDates(e)
  IN  CASE rule = None /\ Text(e, "RDATE") = None -> EndOf(e)
        [] rule # None /\ rule.until = None -> None
        [] ends = {} -> None
        [] OTHER -> CHOOSE last \in ends : \A t \in ends : t <= last
=============================================================================
