------------------------- MODULE DavCollectionProofs -------------------------
(***************************************************************************)
(* What the operators of DavCollection return, for every kind of key,      *)
(* value and tag: the lemmas the proofs about both sync engines share.     *)
(***************************************************************************)
EXTENDS DavCollection, FiniteSetTheorems, TLAPS

-----------------------------------------------------------------------------
(* Maps.                                                                   *)

LEMMA EmptyMapType == ASSUME NEW K, NEW V  PROVE IsMap(EmptyMap, K, V) /\ DOMAIN EmptyMap = {}
BY DEF IsMap, EmptyMap

LEMMA MapSetType ==
  ASSUME NEW K, NEW V, NEW m, IsMap(m, K, V), NEW k \in K, NEW v \in V
  PROVE  /\ IsMap(MapSet(m, k, v), K, V)
         /\ DOMAIN MapSet(m, k, v) = DOMAIN m \cup {k}
         /\ \A x \in DOMAIN m \cup {k} : MapSet(m, k, v)[x] = IF x = k THEN v ELSE m[x]
BY DEF IsMap, MapSet

LEMMA MapDeleteType ==
  ASSUME NEW K, NEW V, NEW m, IsMap(m, K, V), NEW k
  PROVE  /\ IsMap(MapDelete(m, k), K, V)
         /\ DOMAIN MapDelete(m, k) = DOMAIN m \ {k}
         /\ \A x \in DOMAIN m \ {k} : MapDelete(m, k)[x] = m[x]
BY DEF IsMap, MapDelete

\* What m[k] = v and delete(m, k) leave, whatever the map's types.
LEMMA MapSetValue ==
  ASSUME NEW m, NEW k, NEW v
  PROVE  /\ DOMAIN MapSet(m, k, v) = DOMAIN m \cup {k}
         /\ MapSet(m, k, v)[k] = v
         /\ \A x \in DOMAIN m : x # k => MapSet(m, k, v)[x] = m[x]
BY DEF MapSet

LEMMA MapDeleteValue ==
  ASSUME NEW m, NEW k
  PROVE  /\ DOMAIN MapDelete(m, k) = DOMAIN m \ {k}
         /\ \A x \in DOMAIN m : x # k => MapDelete(m, k)[x] = m[x]
BY DEF MapDelete

-----------------------------------------------------------------------------
(* Tags and bodies.                                                        *)

LEMMA TaggedType == ASSUME NEW t \in ETags, NEW mode \in TagModes  PROVE Tagged(t, mode) \in Tags
BY DEF Tagged, TagModes, Tags

LEMMA ListingType ==
  ASSUME NEW H, NEW c, IsMap(c, H, Resources), NEW mode \in TagModes
  PROVE  IsMap(Listing(c, mode), H, Tags) /\ DOMAIN Listing(c, mode) = DOMAIN c
<1>1. \A h \in DOMAIN c : c[h].etag \in ETags
  BY DEF IsMap, Resources
<1>. QED  BY <1>1, TaggedType DEF IsMap, Listing

LEMMA StoredType == ASSUME NEW b \in Bodies, NEW r  PROVE Stored(b, r) \in Bodies
BY DEF Stored, Bodies

LEMMA NewTagsType == ASSUME NEW S  PROVE NewTags(S) \subseteq ETags
BY DEF NewTags

\* A tag the server never issued before, as far as anyone remembers.
LEMMA NewTagsFresh == ASSUME NEW S, NEW t \in NewTags(S)  PROVE t \in ETags /\ t \notin S
BY DEF NewTags

\* No version is tagged with the empty string or with a tag that changes.
LEMMA ETagsReal == NoTag \notin ETags /\ Reissued \notin ETags /\ ETags \subseteq Tags
BY ETagsAssumption DEF NoTag, Reissued, Tags

-----------------------------------------------------------------------------
(* Versions.                                                               *)

\* The version tagged e is what the collection holds under h.
Stands(c, h, e) == h \in DOMAIN c /\ c[h].etag = e

\* A write under a tag that is not e, or a removal, brings no version back.
LEMMA SetStands ==
  ASSUME NEW c, NEW h, NEW b, NEW t, NEW g, NEW e, g = h => e # t,
         Stands(MapSet(c, h, [body |-> b, etag |-> t]), g, e)
  PROVE  Stands(c, g, e) /\ MapSet(c, h, [body |-> b, etag |-> t])[g] = c[g]
BY MapSetValue DEF Stands, MapSet

LEMMA DeleteStands ==
  ASSUME NEW c, NEW h, NEW g, NEW e, Stands(MapDelete(c, h), g, e)
  PROVE  Stands(c, g, e) /\ MapDelete(c, h)[g] = c[g]
BY DEF Stands, MapDelete
=============================================================================
