--------------------------- MODULE DavCollection ---------------------------
(***************************************************************************)
(* The vocabulary both sync engines of internal/dav share: hrefs, ETags,   *)
(* bodies, a collection (one side of a sync job) and the answers a CalDAV  *)
(* or CardDAV server gives to the four calls of the Collection interface.  *)
(*                                                                         *)
(* A Go map is a partial function; MapSet and MapDelete are m[k] = v and   *)
(* delete(m, k).  An ETag is a positive number, NoTag the empty string.  A *)
(* tag only ever meets tags of the same href, by equality, so "a tag the   *)
(* server never issued before" is the least one nothing remembers for that *)
(* href.  Reissued stands for the tag of a server that hands out another   *)
(* one on every request: it equals no tag, itself included.                *)
(***************************************************************************)
EXTENDS Integers, FiniteSets

CONSTANTS
  Uids,       \* identities an item body may carry
  Revs,       \* versions of a body, what a hash tells apart
  ETags,      \* the tags a server may issue
  None        \* a value that is no body, href or key

ASSUME ETagsAssumption == ETags \subseteq Nat \ {0}

NoTag == 0
Reissued == -1
Tags == ETags \cup {NoTag, Reissued}

\* How a server names versions: a stable ETag per version, another ETag on
\* every request, or none at all (mirror.go:100-104).
TagModes == {"stable", "reissued", "none"}

\* An item body, as far as the engine looks into it: its UID (None when
\* there is none to extract), its version, whether its start lies in the
\* job's window and whether a server has put it in its own form.
Bodies == [uid : Uids \cup {None}, rev : Revs, in : BOOLEAN,
           form : {"sent", "kept"}]

ASSUME NoneAssumption == None \notin Bodies

Resources == [body : Bodies, etag : ETags]

IsMap(m, K, V) == DOMAIN m \subseteq K /\ m \in [DOMAIN m -> V]
Maps(K, V) == UNION {[D -> V] : D \in SUBSET K}
EmptyMap == [x \in {} |-> x]
MapSet(m, k, v) == [x \in DOMAIN m \cup {k} |-> IF x = k THEN v ELSE m[x]]
MapDelete(m, k) == [x \in DOMAIN m \ {k} |-> m[x]]

\* The identity of an item: its UID, or the href of a body without one.
UidOf(body, href) == IF body.uid = None THEN href ELSE body.uid

\* What a server keeps of the bytes it is sent.
Stored(body, rewrites) == IF rewrites THEN [body EXCEPT !.form = "kept"] ELSE body

\* The ETag a response carries for a version tagged etag.
Tagged(etag, mode) ==
  CASE mode = "stable" -> etag
    [] mode = "reissued" -> Reissued
    [] OTHER -> NoTag

SameTag(s, t) == s = t /\ s # Reissued

\* The singleton of the least tag outside used (empty when all are used).
NewTags(used) ==
  {t \in ETags \ used : \A u \in ETags \ used : t <= u}

\* List: href and ETag of every item, no bodies.
Listing(coll, mode) == [h \in DOMAIN coll |-> Tagged(coll[h].etag, mode)]

\* Mutation: off by one.
VanishedLate(listed, known, threshold) == listed = 0 /\ known > threshold
\* The deliberate refusal to act on a side that lists nothing.
Vanished(listed, known, threshold) == listed = 0 /\ known >= threshold
=============================================================================
