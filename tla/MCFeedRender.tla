---------------------------- MODULE MCFeedRender ----------------------------
(* Instances of FeedRender for TLC. *)
EXTENDS FeedRender, TLC

\* A UID, told apart from the made-up ones by its shape.
U(u) == [given |-> u]
At(t, z) == [when |-> t, zone |-> z]
On(ts, z) == [times |-> ts, zone |-> z]

Event(p) == [props |-> p, alarms |-> {}]

\* A series that ends while its last occurrence runs, and a moved one of its.
\* One of its exceptions was made elsewhere.
Series == Event([UID |-> U("u1"), SUMMARY |-> "a", DTSTART |-> At(1, "Berlin"),
                 DTEND |-> At(5, "Berlin"), RRULE |-> [every |-> 4, until |-> 4],
                 EXDATE |-> <<On({3}, Utc), On({8}, "Tokyo")>>])
Moved == Event("RECURRENCE-ID" :> At(5, "Berlin") @@
               [UID |-> U("u1"), SUMMARY |-> "b", DTSTART |-> At(6, "Berlin")])
Birthday == Event([UID |-> U("u4"), SUMMARY |-> "b", DTSTART |-> At(0, DateOnly),
                   RRULE |-> [every |-> 4, until |-> None]])
Plain == [Event([UID |-> U("u2"), SUMMARY |-> "a", DTSTART |-> At(2, Utc), DTSTAMP |-> 0,
                 RDATE |-> <<On({4, 6}, "Office")>>])
            EXCEPT !.alarms = {"up"}]
AllDay == Event("X-TIME" :> At(4, "Plant") @@
                [UID |-> U("u2"), SUMMARY |-> "b", DTSTART |-> At(4, DateOnly)])
Nameless == Event([SUMMARY |-> "a", DTSTART |-> At(2, Floating)])
\* Two meetings in a zone only their source knows.
Office == Event([UID |-> U("u3"), SUMMARY |-> "a", DTSTART |-> At(6, "Office")])
Later == Event([UID |-> U("u5"), SUMMARY |-> "a", DTSTART |-> At(10, "Office")])

Cal(zs, es) == [zones |-> zs, events |-> es]
Known ==
  {Cal({"Berlin"}, <<Series, Moved>>), Cal({"Office"}, <<Office, Nameless>>),
   Cal({}, <<Nameless, Nameless>>), Cal({"Berlin", "Office"}, <<Plain, Series>>),
   Cal({}, <<Birthday, AllDay>>), Cal({"Tokyo", "Plant"}, <<>>)}
OfficeHours == {Cal({"Office"}, <<Office, Later>>), Cal({}, <<Plain>>)}

Offsets == [z \in {"Berlin", "Tokyo"} |-> IF z = "Berlin" THEN 1 ELSE 3]

Rule(r) == [enabled |-> TRUE] @@ r
Filters == {Rule([type |-> "filter", mode |-> m, fields |-> {"SUMMARY"}, hits |-> {"a"}]) :
              m \in {"blacklist", "whitelist"}}
DefaultDedup == Rule([type |-> "dedup", keys |-> {"SUMMARY", "DATE"}])
Strips ==
  {Rule([type |-> "strip", fields |-> {f}]) :
     f \in {"SUMMARY", "DTSTART", "RECURRENCE-ID", "UID", "EXDATE"}}
Unnamed == [type |-> "filter", mode |-> "blacklist", fields |-> {"SUMMARY"}, hits |-> None]
Others ==
  {DefaultDedup, Rule([type |-> "expire", days |-> 1]),
   Rule([type |-> "rename", field |-> "SUMMARY", to |-> ("a" :> "b")]),
   Rule([type |-> "timezone", target |-> "Tokyo", floating |-> "Berlin"]),
   Rule([type |-> "alarm", minutes |-> 0, text |-> None]),
   Rule(Unnamed), [enabled |-> FALSE] @@ Unnamed}
OneRule == Filters \cup Strips \cup Others

\* Configurations the constructors refuse.
Refused ==
  {Rule([type |-> "filter", mode |-> "greylist", fields |-> {"SUMMARY"}, hits |-> {"a"}]),
   Rule([type |-> "expire", days |-> 0]), Rule([type |-> "alarm", minutes |-> -1, text |-> None])}

UpToTwo == {<<>>} \cup {<<r>> : r \in OneRule \cup Refused} \cup {<<r, q>> : r, q \in OneRule}
NoRules == {<<>>}
OnlyDedup == {<<DefaultDedup>>}
TwoSources == <<"x", "y">>
\* One of them given twice.
ThreeSources == <<"x", "y", "x">>

\* The series of these calendars end no earlier than they start.
ASSUME TimesFit
=============================================================================
