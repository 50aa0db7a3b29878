-------------------------- MODULE MirrorSyncProofs --------------------------
(***************************************************************************)
(* MirrorSync proved for every set of identities, hrefs and ETags, every   *)
(* kind of server and any number of edits and faults: type correctness,    *)
(* one destination copy per item, the vanish guard, recorded ETags that    *)
(* vouch for fingerprints, deletions, idle runs, the mirror itself, and    *)
(* copies nobody claims.  What an item needs of its servers for each is    *)
(* the theorem's assumption.                                               *)
(***************************************************************************)
EXTENDS MirrorCopies, DavCollectionProofs

-----------------------------------------------------------------------------
(* Identities and constants.                                               *)

LEMMA UidOfType ==
  ASSUME NEW b \in Bodies, NEW h \in SrcHrefs
  PROVE  UidOf(b, h) \in Keys
BY DEF UidOf, Bodies, Keys

\* The constants, one by one.
LEMMA Constants ==
  /\ DestHref \in [Keys -> DstHrefs]
  /\ SrcMode \in TagModes /\ DstMode \in TagModes /\ PutMode \in TagModes
  /\ Rewrites \in BOOLEAN
  /\ SrcBodies \subseteq Bodies /\ DstBodies \subseteq Bodies
  /\ Threshold \in Nat /\ MaxEdits \in Nat /\ MaxFaults \in Nat
  /\ None \notin Keys /\ None \notin DstHrefs /\ None \notin SrcHrefs /\ None \notin Bodies
BY MirrorAssumption, NoneAssumption DEF Keys

-----------------------------------------------------------------------------
(* The inductive invariant.                                                *)

\* What the program counter says of the locals.
ItemOK ==
  /\ pc \in {"inspect", "fetch", "put", "readback"} => item.href \in SrcHrefs
  /\ pc \in {"inspect", "put", "readback"} =>
       /\ item.uid \in Keys
       /\ item.cur.srcHref \in SrcHrefs
       /\ item.cur.dstHref \in {None, DestHref[item.uid]}
  /\ pc \in {"inspect", "readback"} => item.cur.dstHref \in DstHrefs
  /\ pc \in {"put", "readback"} => item.data \in Bodies
  /\ pc = "inspect" => /\ item.cur.dstHref \in DOMAIN dstIdx
                       /\ item.data = None => ~item.changed
  /\ pc = "fetch" => item.uid = None \/ item.verdict \in {"missing", "drifted"}

\* stateBySrcHref names entries that exist as long as the loop may use it.
SnapshotOK ==
  /\ pc \in {"idle", "listSrc", "finish"} => todo = EmptyMap
  /\ pc \in {"listSrc", "listDst"} \/ todo # EmptyMap =>
       \A h \in DOMAIN bySrc : bySrc[h].uid \in DOMAIN st

\* Every entry points to the href its identity maps to.
HomesOK == \A m \in {saved, st} : \A k \in DOMAIN m : m[k].dstHref = DestHref[k]

RunOK == StateOK /\ ListingsOK /\ MarksOK /\ item \in Items /\ ItemOK /\ SnapshotOK /\ HomesOK
IInv == ServersOK /\ CountersOK /\ RunOK

LEMMA NoItemType == NoItem \in Items
<1>1. ZeroEntry \in Drafts
  BY DEF ZeroEntry, Drafts, Tags
<1>. QED  BY <1>1 DEF NoItem, Items, Tags, Verdicts

\* A return from syncOneWay leaves a well-formed state to be saved.
LEMMA ReturnOK ==
  ASSUME RunOK, NEW o \in {"ok", "error", "blocked"}, Return(o)
  PROVE  RunOK'
<1>1. StateOK' /\ HomesOK'
  BY DEF RunOK, StateOK, HomesOK, Return
<1>2. ListingsOK'
  BY EmptyMapType DEF ListingsOK, Return
<1>3. MarksOK'
  BY DEF MarksOK, Return, Pcs
<1>4. item' \in Items
  BY NoItemType DEF Return
<1>5. ItemOK' /\ SnapshotOK'
  BY DEF ItemOK, SnapshotOK, Return
<1>. QED  BY <1>1, <1>2, <1>3, <1>4, <1>5 DEF RunOK

-----------------------------------------------------------------------------
(* Users and the runner.                                                   *)

\* Whatever leaves the engine alone leaves its invariant alone.
LEMMA RunSame ==
  ASSUME RunOK, UNCHANGED engineVars, gone' \subseteq Keys
  PROVE  RunOK'
BY DEF RunOK, engineVars, StateOK, ListingsOK, MarksOK, ItemOK, SnapshotOK, HomesOK

LEMMA UserEditOK == ASSUME CountersOK, UserEdit  PROVE CountersOK'
BY Constants DEF CountersOK, UserEdit

LEMMA NoteGoneOK == ASSUME MarksOK, NoteGone  PROVE gone' \subseteq Keys
BY DEF NoteGone, MarksOK

LEMMA SourceUsersOK ==
  ASSUME IInv, NEW h \in SrcHrefs,
         SrcRemove(h) \/ \E b \in SrcBodies : SrcWrite(h, b)
  PROVE  IInv'
<1>1. CountersOK' /\ RunOK'
  <2>1. UserEdit /\ NoteGone
    BY DEF SrcRemove, SrcWrite
  <2>. QED  BY <2>1, UserEditOK, NoteGoneOK, RunSame DEF IInv, RunOK, UserEdit
<1>2. ServersOK'
  <2>1. CASE SrcRemove(h)
    BY <2>1, MapDeleteType DEF SrcRemove, IInv, ServersOK
  <2>2. ASSUME NEW b \in SrcBodies, SrcWrite(h, b)  PROVE ServersOK'
    <3>1. PICK t \in NewTags(UsedSrcTags(h)) : src' = MapSet(src, h, [body |-> b, etag |-> t])
      BY <2>2 DEF SrcWrite
    <3>2. [body |-> b, etag |-> t] \in Resources
      BY <3>1, NewTagsType, Constants DEF Resources
    <3>. QED  BY <2>2, <3>1, <3>2, MapSetType DEF SrcWrite, IInv, ServersOK
  <2>. QED  BY <2>1, <2>2
<1>. QED  BY <1>1, <1>2 DEF IInv

LEMMA DestinationUsersOK ==
  ASSUME IInv, NEW h \in DstHrefs,
         DstRemove(h) \/ \E b \in DstBodies : DstWrite(h, b)
  PROVE  IInv'
<1>1. CountersOK' /\ RunOK'
  <2>1. UserEdit /\ gone' = gone
    BY DEF DstRemove, DstWrite
  <2>. QED  BY <2>1, UserEditOK, RunSame DEF IInv, RunOK, UserEdit, MarksOK
<1>2. ServersOK'
  <2>1. CASE DstRemove(h)
    BY <2>1, MapDeleteType DEF DstRemove, IInv, ServersOK
  <2>2. ASSUME NEW b \in DstBodies, DstWrite(h, b)  PROVE ServersOK'
    <3>1. PICK t \in NewTags(UsedDstTags(h)) :
            dst' = MapSet(dst, h, [body |-> Stored(b, Rewrites), etag |-> t])
      BY <2>2 DEF DstWrite
    <3>2. [body |-> Stored(b, Rewrites), etag |-> t] \in Resources
      BY <3>1, NewTagsType, StoredType, Constants DEF Resources
    <3>. QED  BY <2>2, <3>1, <3>2, MapSetType DEF DstWrite, IInv, ServersOK
  <2>. QED  BY <2>1, <2>2
<1>. QED  BY <1>1, <1>2 DEF IInv

LEMMA ResetOK == ASSUME IInv, ResetState  PROVE IInv'
<1>1. CountersOK'
  BY Constants DEF ResetState, IInv, CountersOK
<1>2. StateOK' /\ HomesOK'
  BY EmptyMapType DEF ResetState, IInv, RunOK, StateOK, HomesOK
<1>3. ListingsOK' /\ MarksOK' /\ ItemOK' /\ SnapshotOK' /\ item' \in Items /\ ServersOK'
  BY DEF ResetState, IInv, RunOK, ListingsOK, MarksOK, ItemOK, SnapshotOK, ServersOK, Pcs
<1>. QED  BY <1>1, <1>2, <1>3 DEF IInv, RunOK

\* Start: the state is loaded and indexed by source href.
LEMMA StartOK == ASSUME IInv, Start  PROVE IInv'
<1>1. ServersOK' /\ CountersOK'
  BY DEF Start, IInv, ServersOK, CountersOK
<1>2. StateOK' /\ HomesOK'
  BY DEF Start, IInv, RunOK, StateOK, HomesOK
<1>3. PICK f : /\ f \in [{saved[k].srcHref : k \in DOMAIN saved} -> DOMAIN saved]
               /\ bySrc' = [h \in {saved[k].srcHref : k \in DOMAIN saved} |->
                              [uid |-> f[h], etag |-> saved[f[h]].srcETag]]
  BY DEF Start, SnapshotBySrcHref
<1>4. /\ DOMAIN saved \subseteq Keys
      /\ \A k \in DOMAIN saved : saved[k].srcHref \in SrcHrefs /\ saved[k].srcETag \in Tags
  BY DEF IInv, RunOK, StateOK, IsMap, Entries
<1>5. IsMap(bySrc', SrcHrefs, [uid : Keys, etag : Tags])
  BY <1>3, <1>4 DEF IsMap
<1>6. SnapshotOK'
  BY <1>3 DEF SnapshotOK, Start, IInv, RunOK
<1>7. ListingsOK' /\ MarksOK' /\ ItemOK' /\ item' \in Items
  BY <1>5 DEF Start, IInv, RunOK, ListingsOK, MarksOK, ItemOK, Pcs
<1>. QED  BY <1>1, <1>2, <1>6, <1>7 DEF IInv, RunOK

LEMMA FinishOK == ASSUME IInv, Finish  PROVE IInv'
<1>1. ServersOK' /\ CountersOK'
  BY DEF Finish, IInv, ServersOK, CountersOK
<1>2. StateOK' /\ HomesOK'
  BY EmptyMapType DEF Finish, IInv, RunOK, StateOK, HomesOK
<1>3. SnapshotOK'
  BY DEF SnapshotOK, Finish, IInv, RunOK
<1>4. ListingsOK' /\ MarksOK' /\ ItemOK' /\ item' \in Items
  BY DEF Finish, IInv, RunOK, ListingsOK, MarksOK, ItemOK, Pcs
<1>. QED  BY <1>1, <1>2, <1>3, <1>4 DEF IInv, RunOK

LEMMA CrashOK == ASSUME IInv, Crash  PROVE IInv'
<1>1. ServersOK' /\ CountersOK'
  BY Constants DEF Crash, Fault, IInv, ServersOK, CountersOK
<1>2. StateOK' /\ HomesOK'
  BY EmptyMapType DEF Crash, ClearRun, IInv, RunOK, StateOK, HomesOK
<1>3. ListingsOK'
  BY EmptyMapType DEF ListingsOK, Crash, ClearRun
<1>4. MarksOK' /\ ItemOK' /\ SnapshotOK' /\ item' \in Items
  BY NoItemType DEF Crash, ClearRun, IInv, RunOK, MarksOK, ItemOK, SnapshotOK, Pcs
<1>. QED  BY <1>1, <1>2, <1>3, <1>4 DEF IInv, RunOK

-----------------------------------------------------------------------------
(* The two listings.                                                       *)

LEMMA AcceptSourceOK ==
  ASSUME RunOK, pc = "listSrc", NEW list, IsMap(list, SrcHrefs, Tags),
         DOMAIN list \subseteq DOMAIN src, IsMap(src, SrcHrefs, Resources), AcceptSource(list)
  PROVE  RunOK'
<1>1. CASE Vanished(Cardinality(DOMAIN list), Cardinality(DOMAIN st), Threshold)
  BY <1>1, ReturnOK DEF AcceptSource
<1>2. CASE ~Vanished(Cardinality(DOMAIN list), Cardinality(DOMAIN st), Threshold)
  <2>1. /\ pc' = "listDst" /\ todo' = list
        /\ gone' = Keys \ {UidOf(src[h].body, h) : h \in DOMAIN list}
        /\ UNCHANGED <<saved, st, bySrc, dstIdx, seen, filtered, unverified, item, status>>
    BY <1>2 DEF AcceptSource
  <2>2. StateOK' /\ HomesOK' /\ ListingsOK' /\ item' \in Items
    BY <2>1 DEF RunOK, StateOK, HomesOK, ListingsOK
  <2>3. MarksOK' /\ ItemOK' /\ SnapshotOK'
    BY <2>1 DEF RunOK, MarksOK, ItemOK, SnapshotOK, Pcs
  <2>. QED  BY <2>2, <2>3 DEF RunOK
<1>. QED  BY <1>1, <1>2

LEMMA AcceptDestinationOK ==
  ASSUME RunOK, pc = "listDst", NEW list, IsMap(list, DstHrefs, Tags), AcceptDestination(list)
  PROVE  RunOK'
<1>. DEFINE known == Cardinality({k \in DOMAIN st : st[k].dstHref # None})
<1>1. CASE Vanished(Cardinality(DOMAIN list), known, Threshold)
  BY <1>1, ReturnOK DEF AcceptDestination
<1>2. CASE ~Vanished(Cardinality(DOMAIN list), known, Threshold)
  <2>1. /\ pc' = "next" /\ dstIdx' = list
        /\ UNCHANGED <<saved, st, bySrc, todo, seen, filtered, unverified, item, status, gone>>
    BY <1>2 DEF AcceptDestination
  <2>2. StateOK' /\ HomesOK' /\ ListingsOK' /\ item' \in Items
    BY <2>1 DEF RunOK, StateOK, HomesOK, ListingsOK
  <2>3. MarksOK' /\ ItemOK' /\ SnapshotOK'
    BY <2>1 DEF RunOK, MarksOK, ItemOK, SnapshotOK, Pcs
  <2>. QED  BY <2>2, <2>3 DEF RunOK
<1>. QED  BY <1>1, <1>2

LEMMA ListingsStepOK ==
  ASSUME IInv, ListSource \/ ListDestination \/ SourceListsEmpty \/ DestinationListsEmpty
  PROVE  IInv'
<1>1. ServersOK' /\ CountersOK'
  BY Constants DEF ListSource, ListDestination, SourceListsEmpty, DestinationListsEmpty, Fault,
                   IInv, ServersOK, CountersOK
<1>2. RunOK'
  <2>1. CASE ListSource
    BY <2>1, ListingType, AcceptSourceOK, Constants DEF ListSource, IInv, ServersOK
  <2>2. CASE SourceListsEmpty
    BY <2>2, EmptyMapType, AcceptSourceOK DEF SourceListsEmpty, IInv, ServersOK
  <2>3. CASE ListDestination
    BY <2>3, ListingType, AcceptDestinationOK, Constants DEF ListDestination, IInv, ServersOK
  <2>4. CASE DestinationListsEmpty
    BY <2>4, EmptyMapType, AcceptDestinationOK DEF DestinationListsEmpty, IInv
  <2>. QED  BY <2>1, <2>2, <2>3, <2>4
<1>. QED  BY <1>1, <1>2 DEF IInv

-----------------------------------------------------------------------------
(* The loop over the source.                                               *)

\* The entry of the item in the making, with its destination half renewed.
Renewed(it, t, b) == [it EXCEPT !.cur.dstETag = t, !.cur.dstHash = b]
LEMMA RenewedDraft ==
  ASSUME NEW it \in Items, NEW t \in Tags, NEW b \in Bodies \cup {None}
  PROVE  /\ Renewed(it, t, b) \in Items
         /\ Renewed(it, t, b).cur = [it.cur EXCEPT !.dstETag = t, !.dstHash = b]
         /\ Renewed(it, t, b).uid = it.uid
         /\ Renewed(it, t, b).data = it.data
         /\ Renewed(it, t, b).href = it.href
         /\ Renewed(it, t, b).changed = it.changed
BY DEF Items, Drafts, Renewed

\* A draft that has found its two homes is an entry.
LEMMA DraftIsEntry ==
  ASSUME NEW e \in Drafts, e.srcHref \in SrcHrefs, e.dstHref \in DstHrefs
  PROVE  e \in Entries
BY DEF Drafts, Entries

LEMMA EntryIsDraft == Entries \subseteq Drafts
BY DEF Drafts, Entries

\* Recording the entry of one identity.
LEMMA RecordOK ==
  ASSUME StateOK, HomesOK, NEW k \in Keys, NEW e \in Entries, e.dstHref = DestHref[k],
         saved' = saved, st' = MapSet(st, k, e)
  PROVE  StateOK' /\ HomesOK' /\ DOMAIN st \subseteq DOMAIN st'
<1>1. IsMap(st', Keys, Entries) /\ DOMAIN st' = DOMAIN st \cup {k}
  BY MapSetType DEF StateOK
<1>2. \A x \in DOMAIN st' : st'[x] = IF x = k THEN e ELSE st[x]
  BY <1>1 DEF MapSet
<1>. QED  BY <1>1, <1>2 DEF StateOK, HomesOK

LEMMA VisitOK == ASSUME IInv, NEW h \in SrcHrefs, Visit(h)  PROVE IInv'
<1>. DEFINE uid == bySrc[h].uid
            cur == st[uid]
            meta == [NoItem EXCEPT !.href = h, !.tag = todo[h]]
<1>1. ServersOK' /\ CountersOK'
  BY DEF Visit, IInv, ServersOK, CountersOK
<1>2. /\ pc = "next" /\ h \in DOMAIN todo /\ todo' = MapDelete(todo, h)
      /\ UNCHANGED <<saved, bySrc, dstIdx, filtered, unverified, status, gone>>
  BY DEF Visit
<1>3. IsMap(todo', SrcHrefs, Tags) /\ todo[h] \in Tags /\ todo # EmptyMap
  BY <1>2, MapDeleteType, EmptyMapType DEF IInv, RunOK, ListingsOK, IsMap
<1>4. ListingsOK'
  BY <1>2, <1>3 DEF IInv, RunOK, ListingsOK
<1>5. /\ meta \in Items
      /\ meta.href = h /\ meta.data = None /\ meta.uid = None /\ meta.changed = FALSE
  BY <1>3, NoItemType DEF Items, NoItem
<1>6. \A x \in DOMAIN bySrc : bySrc[x].uid \in DOMAIN st
  BY <1>3 DEF IInv, RunOK, SnapshotOK
<1>7. ASSUME SourceUnchanged(h)
      PROVE  /\ uid \in DOMAIN st /\ uid \in Keys
             /\ cur \in Entries /\ cur.dstHref = DestHref[uid]
  BY <1>6, <1>7 DEF SourceUnchanged, IInv, RunOK, StateOK, HomesOK, IsMap
<1>8. CASE SourceUnchanged(h) /\ ListedVerdict(cur) = "ok" /\ seen' = seen \cup {uid}
           /\ st' = [st EXCEPT ![uid].dstETag = dstIdx[cur.dstHref]] /\ UNCHANGED <<pc, item>>
  <2>1. cur.dstHref \in DOMAIN dstIdx
    BY <1>8 DEF ListedVerdict
  <2>2. dstIdx[cur.dstHref] \in Tags
    BY <2>1 DEF IInv, RunOK, ListingsOK, IsMap
  <2>. DEFINE e == [cur EXCEPT !.dstETag = dstIdx[cur.dstHref]]
  <2>3. e \in Entries /\ e.dstHref = DestHref[uid]
    BY <1>7, <1>8, <2>2 DEF Entries
  <2>4. /\ DOMAIN st' = DOMAIN st
        /\ \A x \in DOMAIN st : st'[x] = IF x = uid THEN e ELSE st[x]
        /\ st' \in [DOMAIN st -> Entries]
    BY <1>7, <1>8, <2>3 DEF IInv, RunOK, StateOK, IsMap
  <2>5. StateOK' /\ HomesOK'
    BY <1>2, <2>3, <2>4 DEF IInv, RunOK, StateOK, HomesOK, IsMap
  <2>6. MarksOK' /\ ItemOK' /\ item' \in Items
    BY <1>2, <1>7, <1>8 DEF IInv, RunOK, MarksOK, ItemOK
  <2>7. SnapshotOK'
    BY <1>2, <1>6, <1>8, <2>4 DEF SnapshotOK
  <2>. QED  BY <1>1, <1>4, <2>5, <2>6, <2>7 DEF IInv, RunOK
<1>9. ASSUME UNCHANGED <<st, seen>>, item' \in Items, item'.href = h,
             \/ pc' = "fetch" /\ (item'.uid = None \/ item'.verdict = "missing")
             \/ /\ pc' = "inspect" /\ SourceUnchanged(h)
                /\ item'.uid = uid /\ item'.cur = cur /\ ~item'.changed
                /\ cur.dstHref \in DOMAIN dstIdx
      PROVE  IInv'
  <2>1. StateOK' /\ HomesOK'
    BY <1>2, <1>9 DEF IInv, RunOK, StateOK, HomesOK
  <2>2. MarksOK'
    BY <1>2, <1>9 DEF IInv, RunOK, MarksOK, Pcs
  <2>3. SnapshotOK'
    BY <1>2, <1>6, <1>9 DEF SnapshotOK
  <2>4. ItemOK'
    <3>1. CASE pc' = "fetch"
      BY <1>9, <3>1 DEF ItemOK
    <3>2. CASE pc' = "inspect"
      <4>1. /\ item'.uid = uid /\ item'.cur = cur /\ SourceUnchanged(h)
            /\ ~item'.changed
            /\ cur.dstHref \in DOMAIN dstIdx
        BY <1>9, <3>2
      <4>2. /\ uid \in Keys /\ cur.srcHref \in SrcHrefs /\ cur.dstHref \in DstHrefs
            /\ cur.dstHref = DestHref[uid]
        BY <1>7, <4>1 DEF Entries
      <4>. QED  BY <1>2, <1>9, <3>2, <4>1, <4>2 DEF ItemOK
    <3>. QED  BY <1>9, <3>1, <3>2
  <2>. QED  BY <1>1, <1>4, <1>9, <2>1, <2>2, <2>3, <2>4 DEF IInv, RunOK
<1>10. CASE SourceUnchanged(h) /\ ListedVerdict(cur) = "unchecked" /\ pc' = "inspect"
            /\ item' = [meta EXCEPT !.uid = uid, !.cur = cur] /\ UNCHANGED <<st, seen>>
  <2>1. cur.dstHref \in DOMAIN dstIdx
    BY <1>10 DEF ListedVerdict
  <2>2. cur \in Drafts /\ uid \in Keys
    BY <1>7, <1>10, EntryIsDraft
  <2>3. /\ item' \in Items /\ item'.href = h
        /\ item'.uid = uid /\ item'.cur = cur /\ ~item'.changed
    BY <1>5, <1>10, <2>2 DEF Items
  <2>. QED  BY <1>9, <1>10, <2>1, <2>3
<1>11. CASE SourceUnchanged(h) /\ pc' = "fetch"
            /\ item' = [meta EXCEPT !.uid = uid, !.verdict = "missing"] /\ UNCHANGED <<st, seen>>
  <2>1. item' \in Items /\ item'.href = h /\ item'.verdict = "missing"
    BY <1>5, <1>7, <1>11 DEF Items, Verdicts
  <2>. QED  BY <1>9, <1>11, <2>1
<1>12. CASE pc' = "fetch" /\ item' = meta /\ UNCHANGED <<st, seen>>
  BY <1>5, <1>9, <1>12
<1>. QED  BY <1>8, <1>10, <1>11, <1>12 DEF Visit

\* Decide: write the item, or record its entry.
LEMMA DecideOK ==
  ASSUME IInv, NEW it \in Items, NEW v \in Verdicts, Decide(it, v),
         UNCHANGED <<src, dst, edits, faults, calm, gone>>,
         UNCHANGED <<saved, bySrc, todo, dstIdx, unverified, status>>,
         pc \in {"fetch", "inspect"},
         seen' \subseteq Keys, filtered' \subseteq Keys,
         it.href \in SrcHrefs, it.uid \in Keys, it.cur.srcHref \in SrcHrefs,
         it.cur.dstHref \in {None, DestHref[it.uid]},
         v \in {"missing", "drifted"} \/ it.changed => it.data \in Bodies,
         v \notin {"missing", "drifted"} => it.cur.dstHref \in DstHrefs
  PROVE  IInv'
<1>1. ServersOK' /\ CountersOK' /\ ListingsOK'
  BY DEF IInv, RunOK, ServersOK, CountersOK, ListingsOK
<1>2. CASE v \in {"missing", "drifted"} \/ it.changed
  <2>1. pc' = "put" /\ item' = it /\ st' = st
    BY <1>2 DEF Decide
  <2>2. StateOK' /\ HomesOK' /\ MarksOK' /\ item' \in Items
    BY <2>1 DEF IInv, RunOK, StateOK, HomesOK, MarksOK, Pcs
  <2>3. ItemOK'
    BY <1>2, <2>1 DEF ItemOK
  <2>4. SnapshotOK'
    BY <2>1 DEF SnapshotOK, IInv, RunOK
  <2>. QED  BY <1>1, <2>2, <2>3, <2>4 DEF IInv, RunOK
<1>3. CASE ~(v \in {"missing", "drifted"} \/ it.changed)
  <2>1. pc' = "next" /\ item' = NoItem /\ st' = MapSet(st, it.uid, it.cur)
    BY <1>3 DEF Decide
  <2>2. it.cur \in Entries /\ it.cur.dstHref = DestHref[it.uid]
    <3>1. it.cur \in Drafts
      BY DEF Items
    <3>. QED  BY <1>3, <3>1, DraftIsEntry, Constants
  <2>3. StateOK' /\ HomesOK' /\ DOMAIN st \subseteq DOMAIN st'
    BY <2>1, <2>2, RecordOK DEF IInv, RunOK
  <2>4. MarksOK' /\ ItemOK' /\ item' \in Items
    BY <2>1, NoItemType DEF IInv, RunOK, MarksOK, ItemOK, Pcs
  <2>5. SnapshotOK'
    BY <2>1, <2>3 DEF SnapshotOK, IInv, RunOK
  <2>. QED  BY <1>1, <2>3, <2>4, <2>5 DEF IInv, RunOK
<1>. QED  BY <1>2, <1>3

\* The draft keeps the destination half the entry has, if there is one.
LEMMA DraftOK ==
  ASSUME StateOK, HomesOK, item \in Items, item.href \in SrcHrefs,
         NEW uid \in Keys, NEW body \in Bodies
  PROVE  /\ SourceDraft(uid, body) \in Drafts
         /\ SourceDraft(uid, body).srcHref = item.href
         /\ SourceDraft(uid, body).dstHref \in {None, DestHref[uid]}
<1>. DEFINE old == IF uid \in DOMAIN st THEN st[uid] ELSE ZeroEntry
<1>1. old \in Drafts /\ old.dstHref \in {None, DestHref[uid]}
  <2>1. CASE uid \in DOMAIN st
    <3>1. st[uid] \in Entries /\ st[uid].dstHref = DestHref[uid]
      BY <2>1 DEF StateOK, HomesOK, IsMap
    <3>. QED  BY <2>1, <3>1, EntryIsDraft
  <2>2. CASE uid \notin DOMAIN st
    BY <2>2 DEF ZeroEntry, Drafts, Tags
  <2>. QED  BY <2>1, <2>2
<1>2. item.tag \in Tags
  BY DEF Items
<1>. HIDE DEF old
<1>3. SourceDraft(uid, body) = [old EXCEPT !.srcHref = item.href, !.srcETag = item.tag,
                                           !.srcHash = body]
  BY DEF SourceDraft, old
<1>. QED  BY <1>1, <1>2, <1>3 DEF Drafts

LEMMA FetchSourceOK == ASSUME IInv, FetchSource  PROVE IInv'
<1>. DEFINE body == src[item.href].body
            uid == UidOf(body, item.href)
            draft == SourceDraft(uid, body)
            verdict == IF item.uid = uid THEN item.verdict ELSE ListedVerdict(draft)
            cur == IF verdict = "ok"
                   THEN [draft EXCEPT !.dstETag = dstIdx[draft.dstHref]] ELSE draft
            it == [item EXCEPT !.uid = uid, !.data = body, !.cur = cur,
                     !.changed = SourceChanged(uid, body)]
<1>1. /\ pc = "fetch" /\ item.href \in SrcHrefs /\ item \in Items
      /\ item.uid = None \/ item.verdict \in {"missing", "drifted"}
      /\ StateOK /\ HomesOK
  BY DEF FetchSource, IInv, RunOK, ItemOK
<1>2. body \in Bodies /\ uid \in Keys
  <2>1. src[item.href] \in Resources
    BY DEF FetchSource, IInv, ServersOK, IsMap
  <2>2. body \in Bodies
    BY <2>1 DEF Resources
  <2>. QED  BY <1>1, <2>2, UidOfType
<1>3. /\ draft \in Drafts /\ draft.srcHref = item.href
      /\ draft.dstHref \in {None, DestHref[uid]}
  BY <1>1, <1>2, DraftOK
<1>4. /\ verdict \in Verdicts
      /\ verdict \notin {"missing", "drifted"} => draft.dstHref \in DOMAIN dstIdx
  BY <1>1, <1>2, Constants DEF ListedVerdict, Verdicts
<1>5. /\ cur \in Drafts /\ cur.srcHref = draft.srcHref /\ cur.dstHref = draft.dstHref
  <2>1. CASE verdict = "ok"
    <3>1. dstIdx[draft.dstHref] \in Tags
      BY <1>4, <2>1 DEF IInv, RunOK, ListingsOK, IsMap
    <3>. QED  BY <1>3, <2>1, <3>1 DEF Drafts
  <2>2. CASE verdict # "ok"
    BY <1>3, <2>2
  <2>. QED  BY <2>1, <2>2
<1>. HIDE DEF cur, verdict, draft, uid
<1>6. /\ it \in Items /\ it.href = item.href /\ it.uid = uid /\ it.data = body /\ it.cur = cur
  BY <1>1, <1>2, <1>5 DEF Items, SourceChanged
<1>. HIDE DEF it
<1>7. UNCHANGED <<src, dst, saved, bySrc, todo, dstIdx, unverified, status,
                  edits, faults, calm, gone>>
  BY DEF FetchSource
<1>8. \/ ~body.in /\ filtered' = filtered \cup {uid} /\ pc' = "next" /\ item' = NoItem
         /\ UNCHANGED <<st, seen>>
      \/ seen' = seen \cup {uid} /\ UNCHANGED filtered
         /\ verdict = "unchecked" /\ pc' = "inspect" /\ item' = it /\ UNCHANGED st
      \/ seen' = seen \cup {uid} /\ UNCHANGED filtered
         /\ verdict # "unchecked" /\ Decide(it, verdict)
  BY DEF FetchSource, it, cur, verdict, draft, uid
<1>9. ServersOK' /\ CountersOK' /\ ListingsOK'
  BY <1>7 DEF IInv, RunOK, ServersOK, CountersOK, ListingsOK
<1>10. seen \cup {uid} \subseteq Keys /\ filtered \cup {uid} \subseteq Keys
       /\ seen \subseteq Keys /\ filtered \subseteq Keys
  BY <1>2 DEF IInv, RunOK, MarksOK
<1>11. CASE filtered' = filtered \cup {uid} /\ pc' = "next" /\ item' = NoItem
            /\ UNCHANGED <<st, seen>>
  <2>1. StateOK' /\ HomesOK' /\ MarksOK' /\ item' \in Items
    BY <1>7, <1>10, <1>11, NoItemType DEF IInv, RunOK, StateOK, HomesOK, MarksOK, Pcs
  <2>2. ItemOK' /\ SnapshotOK'
    BY <1>7, <1>11 DEF IInv, RunOK, ItemOK, SnapshotOK
  <2>. QED  BY <1>9, <2>1, <2>2 DEF IInv, RunOK
<1>12. CASE seen' = seen \cup {uid} /\ UNCHANGED filtered
            /\ verdict = "unchecked" /\ pc' = "inspect" /\ item' = it /\ UNCHANGED st
  <2>1. StateOK' /\ HomesOK' /\ MarksOK' /\ item' \in Items
    BY <1>6, <1>7, <1>10, <1>12 DEF IInv, RunOK, StateOK, HomesOK, MarksOK, Pcs
  <2>2. cur.dstHref \in DOMAIN dstIdx /\ cur.dstHref \in DstHrefs
    BY <1>4, <1>5, <1>12 DEF IInv, RunOK, ListingsOK, IsMap
  <2>3. ItemOK'
    BY <1>1, <1>2, <1>3, <1>5, <1>6, <1>7, <1>12, <2>2, Constants DEF ItemOK
  <2>4. SnapshotOK'
    BY <1>7, <1>12 DEF IInv, RunOK, SnapshotOK
  <2>. QED  BY <1>9, <2>1, <2>3, <2>4 DEF IInv, RunOK
<1>13. CASE seen' = seen \cup {uid} /\ UNCHANGED filtered
            /\ verdict # "unchecked" /\ Decide(it, verdict)
  <2>1. verdict \notin {"missing", "drifted"} => cur.dstHref \in DstHrefs
    BY <1>4, <1>5 DEF IInv, RunOK, ListingsOK, IsMap
  <2>2. it.cur.srcHref \in SrcHrefs /\ it.cur.dstHref \in {None, DestHref[uid]}
    BY <1>1, <1>3, <1>5, <1>6
  <2>. QED  BY <1>1, <1>2, <1>4, <1>6, <1>7, <1>10, <1>13, <2>1, <2>2, DecideOK
<1>. QED  BY <1>8, <1>11, <1>12, <1>13

LEMMA InspectDestinationOK == ASSUME IInv, InspectDestination  PROVE IInv'
<1>. DEFINE home == item.cur.dstHref
            verdict == ReadVerdict(item.cur, dst[home].body)
            etag == IF dstIdx[home] # NoTag THEN dstIdx[home]
                    ELSE Tagged(dst[home].etag, DstMode)
            it == IF verdict = "ok"
                  THEN [item EXCEPT !.cur.dstETag = etag, !.cur.dstHash = dst[home].body]
                  ELSE item
<1>1. /\ pc = "inspect" /\ item \in Items /\ item.href \in SrcHrefs /\ item.uid \in Keys
      /\ item.cur.srcHref \in SrcHrefs /\ home \in DstHrefs
      /\ home \in {None, DestHref[item.uid]} /\ home \in DOMAIN dstIdx
      /\ item.data = None => ~item.changed
  BY DEF InspectDestination, IInv, RunOK, ItemOK
<1>2. dst[home] \in Resources
  BY DEF InspectDestination, IInv, ServersOK, IsMap
<1>3. dst[home].body \in Bodies /\ etag \in Tags
  <2>1. dstIdx[home] \in Tags
    BY <1>1 DEF IInv, RunOK, ListingsOK, IsMap
  <2>. QED  BY <1>2, <2>1, TaggedType, Constants DEF Resources
<1>4. /\ it \in Items /\ it.href = item.href /\ it.uid = item.uid /\ it.data = item.data
      /\ it.changed = item.changed
      /\ it.cur.srcHref = item.cur.srcHref /\ it.cur.dstHref = item.cur.dstHref
  <2>. HIDE DEF etag, verdict
  <2>1. item.cur \in Drafts
    BY <1>1 DEF Items
  <2>2. CASE verdict = "ok"
    <3>1. it = Renewed(item, etag, dst[home].body)
      BY <2>2 DEF Renewed
    <3>. HIDE DEF it, home
    <3>2. /\ it \in Items /\ it.href = item.href /\ it.uid = item.uid /\ it.data = item.data
          /\ it.changed = item.changed
          /\ it.cur = [item.cur EXCEPT !.dstETag = etag, !.dstHash = dst[home].body]
      BY <1>1, <1>3, <3>1, RenewedDraft
    <3>3. it.cur.srcHref = item.cur.srcHref /\ it.cur.dstHref = item.cur.dstHref
      BY <2>1, <3>2 DEF Drafts
    <3>. QED  BY <3>2, <3>3
  <2>3. CASE verdict # "ok"
    BY <1>1, <2>3
  <2>. QED  BY <2>2, <2>3
<1>5. verdict \in {"ok", "drifted"}
  BY DEF ReadVerdict
<1>6. \/ item.data # None /\ Decide(it, verdict) /\ UNCHANGED seen
      \/ item.data = None /\ verdict = "ok" /\ seen' = seen \cup {item.uid} /\ Decide(it, verdict)
      \/ item.data = None /\ verdict = "drifted" /\ pc' = "fetch"
         /\ item' = [item EXCEPT !.verdict = verdict, !.cur = ZeroEntry] /\ UNCHANGED <<st, seen>>
  BY DEF InspectDestination
<1>7. UNCHANGED <<src, dst, saved, bySrc, todo, dstIdx, filtered, unverified, status,
                  edits, faults, calm, gone>>
  BY DEF InspectDestination
<1>. HIDE DEF it, verdict
<1>8. /\ seen \subseteq Keys /\ filtered \subseteq Keys
      /\ it.cur.srcHref \in SrcHrefs /\ it.cur.dstHref \in {None, DestHref[it.uid]}
      /\ it.cur.dstHref \in DstHrefs
      /\ verdict \in Verdicts
  BY <1>1, <1>4, <1>5 DEF IInv, RunOK, MarksOK, Verdicts
<1>9. CASE item.data # None /\ Decide(it, verdict) /\ UNCHANGED seen
  <2>1. it.data \in Bodies
    BY <1>1, <1>4, <1>9 DEF Items
  <2>. QED  BY <1>1, <1>4, <1>7, <1>8, <1>9, <2>1, DecideOK
<1>10. CASE item.data = None /\ verdict = "ok" /\ seen' = seen \cup {item.uid}
            /\ Decide(it, verdict)
  <2>1. verdict \notin {"missing", "drifted"} /\ ~it.changed /\ seen' \subseteq Keys
        /\ filtered' \subseteq Keys
    BY <1>1, <1>4, <1>7, <1>8, <1>10
  <2>. QED  BY <1>1, <1>4, <1>7, <1>8, <1>10, <2>1, DecideOK
<1>11. CASE item.data = None /\ verdict = "drifted" /\ pc' = "fetch"
            /\ item' = [item EXCEPT !.verdict = verdict, !.cur = ZeroEntry]
            /\ UNCHANGED <<st, seen>>
  <2>1. item' \in Items /\ item'.href = item.href /\ item'.verdict = "drifted"
    BY <1>1, <1>8, <1>11, NoItemType DEF Items, NoItem
  <2>2. ServersOK' /\ CountersOK' /\ ListingsOK' /\ StateOK' /\ HomesOK' /\ MarksOK'
    BY <1>7, <1>11 DEF IInv, RunOK, ServersOK, CountersOK, ListingsOK, StateOK, HomesOK, MarksOK,
                       Pcs
  <2>3. ItemOK' /\ SnapshotOK'
    BY <1>1, <1>7, <1>11, <2>1 DEF IInv, RunOK, ItemOK, SnapshotOK
  <2>. QED  BY <2>1, <2>2, <2>3 DEF IInv, RunOK
<1>. QED  BY <1>6, <1>9, <1>10, <1>11

LEMMA SkipUnverifiedOK == ASSUME RunOK, pc = "inspect", SkipUnverified  PROVE RunOK'
<1>1. item.uid \in Keys
  BY DEF RunOK, ItemOK
<1>2. StateOK' /\ HomesOK' /\ ListingsOK' /\ item' \in Items
  BY NoItemType DEF SkipUnverified, RunOK, StateOK, HomesOK, ListingsOK
<1>3. MarksOK' /\ ItemOK' /\ SnapshotOK'
  BY <1>1 DEF SkipUnverified, RunOK, MarksOK, ItemOK, SnapshotOK, Pcs
<1>. QED  BY <1>2, <1>3 DEF RunOK

\* The href an item is written to is the one of its identity.
LEMMA PutHrefOK ==
  ASSUME IInv, pc = "put"
  PROVE  PutHref(item) = DestHref[item.uid] /\ PutHref(item) \in DstHrefs
BY Constants DEF PutHref, IInv, RunOK, ItemOK

LEMMA StorePutOK ==
  ASSUME IInv, pc = "put", NEW t \in ETags, StorePut(t), src' = src
  PROVE  ServersOK'
<1>1. item.data \in Bodies
  BY DEF IInv, RunOK, ItemOK
<1>2. [body |-> Stored(item.data, Rewrites), etag |-> t] \in Resources
  BY <1>1, StoredType DEF Resources
<1>. QED  BY <1>2, PutHrefOK, MapSetType DEF StorePut, IInv, ServersOK

LEMMA PutMirrorOK == ASSUME IInv, PutMirror  PROVE IInv'
<1>1. PICK t \in ETags :
        /\ StorePut(t)
        /\ item' = [item EXCEPT !.cur.dstHref = PutHref(item), !.ret = Tagged(t, PutMode)]
  BY NewTagsType DEF PutMirror
<1>2. ServersOK'
  BY <1>1, StorePutOK DEF PutMirror
<1>3. /\ PutHref(item) = DestHref[item.uid] /\ PutHref(item) \in DstHrefs
      /\ Tagged(t, PutMode) \in Tags
  BY <1>1, PutHrefOK, TaggedType, Constants DEF PutMirror
<1>4. /\ item \in Items /\ item.href \in SrcHrefs /\ item.uid \in Keys
      /\ item.cur.srcHref \in SrcHrefs /\ item.data \in Bodies
  BY DEF PutMirror, IInv, RunOK, ItemOK
<1>5. /\ item' \in Items /\ item'.href = item.href /\ item'.uid = item.uid
      /\ item'.data = item.data /\ item'.cur.srcHref = item.cur.srcHref
      /\ item'.cur.dstHref = PutHref(item)
  BY <1>1, <1>3, <1>4 DEF Items, Drafts
<1>6. CountersOK' /\ StateOK' /\ HomesOK' /\ ListingsOK' /\ MarksOK'
  BY DEF PutMirror, IInv, RunOK, CountersOK, StateOK, HomesOK, ListingsOK, MarksOK, Pcs
<1>7. ItemOK' /\ SnapshotOK'
  BY <1>3, <1>4, <1>5 DEF PutMirror, IInv, RunOK, ItemOK, SnapshotOK
<1>. QED  BY <1>2, <1>5, <1>6, <1>7 DEF IInv, RunOK

LEMMA RecordPutOK ==
  ASSUME IInv, pc = "readback", NEW t \in Tags, NEW b \in Bodies, RecordPut(t, b), CountersOK'
  PROVE  IInv'
<1>1. /\ item \in Items /\ item.uid \in Keys /\ item.cur.srcHref \in SrcHrefs
      /\ item.cur.dstHref \in DstHrefs /\ item.cur.dstHref = DestHref[item.uid]
  BY Constants DEF IInv, RunOK, ItemOK
<1>. DEFINE e == [item.cur EXCEPT !.dstETag = t, !.dstHash = b]
<1>2. e \in Entries /\ e.dstHref = DestHref[item.uid]
  BY <1>1 DEF Items, Drafts, Entries
<1>3. st' = MapSet(st, item.uid, e) /\ saved' = saved
  BY DEF RecordPut
<1>. HIDE DEF e
<1>4. StateOK' /\ HomesOK' /\ DOMAIN st \subseteq DOMAIN st'
  BY <1>1, <1>2, <1>3, RecordOK DEF IInv, RunOK
<1>5. ServersOK' /\ ListingsOK' /\ MarksOK' /\ item' \in Items
  BY NoItemType DEF RecordPut, IInv, RunOK, ServersOK, ListingsOK, MarksOK, Pcs
<1>6. ItemOK' /\ SnapshotOK'
  BY <1>4 DEF RecordPut, IInv, RunOK, ItemOK, SnapshotOK
<1>. QED  BY <1>4, <1>5, <1>6 DEF IInv, RunOK

LEMMA ReadBackOK == ASSUME IInv, ReadBack \/ ReadBackGone \/ ReadBackFails  PROVE IInv'
<1>1. pc = "readback" /\ CountersOK'
  BY Constants DEF ReadBack, ReadBackGone, ReadBackFails, RecordPut, Fault, IInv, CountersOK
<1>2. item.ret \in Tags /\ item.data \in Bodies
  BY <1>1 DEF IInv, RunOK, ItemOK, Items
<1>3. CASE ReadBackGone \/ ReadBackFails
  BY <1>1, <1>2, <1>3, RecordPutOK DEF ReadBackGone, ReadBackFails
<1>4. CASE ReadBack
  <2>. DEFINE back == dst[item.cur.dstHref]
              tag == Tagged(back.etag, DstMode)
              t == IF tag # NoTag THEN tag ELSE item.ret
  <2>1. back \in Resources
    BY <1>4 DEF ReadBack, IInv, ServersOK, IsMap
  <2>2. tag \in Tags /\ back.body \in Bodies
    BY <2>1, TaggedType, Constants DEF Resources
  <2>3. t \in Tags
    BY <1>2, <2>2
  <2>4. RecordPut(t, back.body)
    BY <1>4 DEF ReadBack
  <2>. HIDE DEF t, back
  <2>. QED  BY <1>1, <2>2, <2>3, <2>4, RecordPutOK
<1>. QED  BY <1>3, <1>4

-----------------------------------------------------------------------------
(* The deletion pass and the ends of a run.                                *)

LEMMA ForgetOK ==
  ASSUME IInv, NEW uid \in Doomed, st' = MapDelete(st, uid), ServersOK',
         UNCHANGED <<saved, pc, bySrc, todo, dstIdx, seen, filtered, unverified, item,
                     status, edits, faults, calm, gone>>
  PROVE  IInv'
<1>1. pc = "next" /\ todo = EmptyMap
  BY DEF Doomed
<1>2. /\ IsMap(st', Keys, Entries)
      /\ \A x \in DOMAIN st' : x \in DOMAIN st /\ st'[x] = st[x]
  <2>1. IsMap(st, Keys, Entries)
    BY DEF IInv, RunOK, StateOK
  <2>2. IsMap(MapDelete(st, uid), Keys, Entries) /\ DOMAIN MapDelete(st, uid) = DOMAIN st \ {uid}
    BY <2>1, SMTT(30) DEF MapDelete, IsMap
  <2>3. \A x \in DOMAIN st' : st'[x] = st[x]
    BY DEF MapDelete
  <2>. QED  BY <2>2, <2>3
<1>3. StateOK' /\ HomesOK'
  BY <1>2 DEF IInv, RunOK, StateOK, HomesOK
<1>4. CountersOK' /\ ListingsOK' /\ MarksOK' /\ ItemOK' /\ item' \in Items
  BY DEF IInv, RunOK, CountersOK, ListingsOK, MarksOK, ItemOK
<1>5. SnapshotOK'
  BY <1>1 DEF SnapshotOK
<1>. QED  BY <1>3, <1>4, <1>5 DEF IInv, RunOK

LEMMA SweepOK ==
  ASSUME IInv, NEW uid \in Keys, SweepDelete(uid) \/ SweepForget(uid)
  PROVE  IInv'
<1>1. CASE SweepDelete(uid)
  <2>1. ServersOK'
    BY <1>1, MapDeleteType DEF SweepDelete, IInv, ServersOK
  <2>. QED  BY <1>1, <2>1, ForgetOK DEF SweepDelete
<1>2. CASE SweepForget(uid)
  <2>1. ServersOK'
    BY <1>2 DEF SweepForget, IInv, ServersOK
  <2>. QED  BY <1>2, <2>1, ForgetOK DEF SweepForget
<1>. QED  BY <1>1, <1>2

\* Every early return, whether a call failed or its answer was lost.
LEMMA ReturnsOK ==
  ASSUME IInv,
         \/ FetchSourceGone \/ Complete \/ CallFails \/ PutLost
         \/ \E uid \in Keys : SweepDeleteGone(uid) \/ DeleteLost(uid)
  PROVE  IInv'
<1>1. \E o \in {"ok", "error", "blocked"} : Return(o)
  BY DEF FetchSourceGone, Complete, CallFails, PutLost, SweepDeleteGone, DeleteLost
<1>2. RunOK'
  BY <1>1, ReturnOK DEF IInv
<1>3. CountersOK'
  BY Constants DEF FetchSourceGone, Complete, CallFails, PutLost, SweepDeleteGone, DeleteLost,
                   Fault, IInv, CountersOK
<1>4. ServersOK'
  <2>1. CASE dst' = dst /\ src' = src
    BY <2>1 DEF IInv, ServersOK
  <2>2. CASE PutLost
    <3>1. PICK t \in ETags : StorePut(t)
      BY <2>2, NewTagsType DEF PutLost
    <3>. QED  BY <2>2, <3>1, StorePutOK DEF PutLost
  <2>3. ASSUME NEW uid \in Keys, DeleteLost(uid)  PROVE ServersOK'
    BY <2>3, MapDeleteType DEF DeleteLost, IInv, ServersOK
  <2>. QED  BY <2>1, <2>2, <2>3 DEF FetchSourceGone, Complete, CallFails, SweepDeleteGone
<1>. QED  BY <1>2, <1>3, <1>4 DEF IInv

LEMMA InspectSkippedOK == ASSUME IInv, InspectGone \/ InspectFails  PROVE IInv'
<1>1. pc = "inspect" /\ SkipUnverified
  BY DEF InspectGone, InspectFails
<1>2. RunOK'
  BY <1>1, SkipUnverifiedOK DEF IInv
<1>. QED  BY <1>2, Constants DEF InspectGone, InspectFails, Fault, IInv, ServersOK, CountersOK

LEMMA StutterOK == ASSUME IInv, UNCHANGED vars  PROVE IInv'
<1>1. RunOK'
  BY RunSame DEF vars, IInv, RunOK, MarksOK
<1>. QED  BY <1>1 DEF vars, IInv, ServersOK, CountersOK

LEMMA StepOK == IInv /\ [Next]_vars => IInv'
<1>. SUFFICES ASSUME IInv, [Next]_vars  PROVE IInv'
  OBVIOUS
<1>1. CASE RunStep
  BY <1>1, StartOK, ListingsStepOK, VisitOK, FetchSourceOK, ReturnsOK, InspectDestinationOK,
     InspectSkippedOK, PutMirrorOK, ReadBackOK, SweepOK, FinishOK DEF RunStep
<1>2. CASE FaultStep
  BY <1>2, ReturnsOK, InspectSkippedOK, ReadBackOK, ListingsStepOK, CrashOK DEF FaultStep
<1>3. CASE UserStep
  BY <1>3, SourceUsersOK, DestinationUsersOK, ResetOK DEF UserStep
<1>. QED  BY <1>1, <1>2, <1>3, StutterOK DEF Next

-----------------------------------------------------------------------------
(* What follows.                                                           *)

\* The state every behaviour starts from, new or written by a release
\* without fingerprints.
LEMMA InitOK == Init => IInv
<1>. SUFFICES ASSUME Init  PROVE IInv
  OBVIOUS
<1>1. IsMap(src, SrcHrefs, Resources)
  <2>1. [body : SrcBodies, etag : NewTags({})] \subseteq Resources
    BY Constants, NewTagsType DEF Resources
  <2>. QED  BY <2>1 DEF Init, Maps, IsMap
<1>2. /\ IsMap(dst, DstHrefs, Resources)
      /\ IsMap(saved, Keys, Entries)
      /\ \A k \in DOMAIN saved : saved[k].dstHref = DestHref[k]
  <2>1. CASE ~Legacy
    BY <2>1, EmptyMapType DEF Init
  <2>2. CASE Legacy
    <3>1. PICK s \in {NoTag} \cup NewTags({}), d \in {NoTag} \cup NewTags({}) :
            saved = [u \in SrcUids(src) |->
                       LegacyEntry(CHOOSE h \in DOMAIN src : UidOf(src[h].body, h) = u, s, d)]
      BY <2>2, Zenon DEF Init, LegacySaved
    <3>2. \A h \in DOMAIN src :
            h \in SrcHrefs /\ src[h].body \in Bodies /\ UidOf(src[h].body, h) \in Keys
      BY <1>1, UidOfType DEF IsMap, Resources
    <3>3. ASSUME NEW u \in SrcUids(src)
          PROVE  u \in Keys /\ saved[u] \in Entries /\ saved[u].dstHref = DestHref[u]
      <4>. DEFINE h == CHOOSE h \in DOMAIN src : UidOf(src[h].body, h) = u
      <4>1. h \in DOMAIN src /\ UidOf(src[h].body, h) = u
        BY DEF SrcUids
      <4>2. saved[u] = LegacyEntry(h, s, d)
        BY <3>1
      <4>. HIDE DEF h
      <4>3. h \in SrcHrefs /\ u \in Keys /\ DestHref[u] \in DstHrefs
        BY <3>2, <4>1, Constants
      <4>4. saved[u] = [srcHref |-> h, srcETag |-> s, srcHash |-> None,
                        dstHref |-> DestHref[u], dstETag |-> d, dstHash |-> None]
        BY <4>1, <4>2 DEF LegacyEntry, ZeroEntry
      <4>5. s \in Tags /\ d \in Tags
        BY NewTagsType DEF Tags
      <4>. QED  BY <4>3, <4>4, <4>5 DEF Entries
    <3>4. DOMAIN saved = SrcUids(src)
      BY <3>1
    <3>5. IsMap(saved, Keys, Entries)
      BY <3>1, <3>3, <3>4 DEF IsMap
    <3>6. PICK t \in NewTags({}) :
            dst = [c \in {saved[u].dstHref : u \in DOMAIN saved} |-> LegacyCopy(c, t)]
      BY <2>2 DEF Init, LegacyCopies
    <3>7. ASSUME NEW x \in DOMAIN dst  PROVE x \in DstHrefs /\ dst[x] \in Resources
      <4>. DEFINE home(h) == DestHref[UidOf(src[h].body, h)] = x
                  h == CHOOSE h \in DOMAIN src : home(h)
      <4>1. PICK u \in SrcUids(src) : x = DestHref[u]
        BY <3>3, <3>4, <3>6
      <4>2. \E g \in DOMAIN src : home(g)
        BY <4>1 DEF SrcUids
      <4>3. h \in DOMAIN src
        BY <4>2
      <4>4. dst[x] = [body |-> Stored(src[h].body, Rewrites), etag |-> t]
        BY <3>6 DEF LegacyCopy
      <4>. HIDE DEF h
      <4>. QED  BY <3>2, <3>3, <4>1, <4>3, <4>4, NewTagsType, StoredType, Constants DEF Resources
    <3>8. IsMap(dst, DstHrefs, Resources)
      BY <3>6, <3>7 DEF IsMap
    <3>. QED  BY <3>3, <3>4, <3>5, <3>8
  <2>. QED  BY <2>1, <2>2
<1>3. CountersOK
  BY Constants DEF Init, CountersOK
<1>4. ListingsOK
  BY EmptyMapType DEF Init, ListingsOK
<1>5. StateOK /\ HomesOK
  BY <1>2, EmptyMapType DEF Init, StateOK, HomesOK
<1>6. MarksOK /\ ItemOK /\ SnapshotOK /\ item \in Items
  BY NoItemType DEF Init, MarksOK, ItemOK, SnapshotOK, Pcs
<1>. QED  BY <1>1, <1>2, <1>3, <1>4, <1>5, <1>6 DEF IInv, RunOK, ServersOK

LEMMA AlwaysInv == Spec => []IInv
<1>1. Init => IInv
  BY InitOK
<1>2. IInv /\ [Next]_vars => IInv'
  BY StepOK
<1>. QED  BY <1>1, <1>2, PTL DEF Spec

\* The collections, the persisted state, the snapshot and the locals of a run
\* keep their types through every edit, failure and crash: no lookup of
\* syncOneWay meets a key that is not there (sync.go:104-214).
THEOREM TypeCorrect == Spec => []TypeOK
<1>1. IInv => TypeOK
  BY DEF IInv, RunOK, TypeOK
<1>. QED  BY <1>1, AlwaysInv, PTL

\* Where destHref keeps identities apart, two entries never claim one copy,
\* whatever the bodies' UIDs, the servers' tags, the failures and the crashes
\* (sync.go:168-175): every entry points to the href of its identity.
THEOREM OneCopy ==
  ASSUME \A j, k \in Keys : DestHref[j] = DestHref[k] => j = k
  PROVE  Spec => []OneCopyPerItem
<1>1. IInv => OneCopyPerItem
  <2>. SUFFICES ASSUME IInv, NEW m \in {saved, st}, NEW j \in DOMAIN m, NEW k \in DOMAIN m,
                       m[j].dstHref = m[k].dstHref
                PROVE  j = k
    BY DEF OneCopyPerItem
  <2>1. j \in Keys /\ k \in Keys
    BY DEF IInv, RunOK, StateOK, IsMap
  <2>2. m[j].dstHref = DestHref[j] /\ m[k].dstHref = DestHref[k]
    BY DEF IInv, RunOK, HomesOK
  <2>. QED  BY <2>1, <2>2
<1>. QED  BY <1>1, AlwaysInv, PTL

-----------------------------------------------------------------------------
(* The vanish guard.  What the two guards establish at the listings has to *)
(* survive the loop: the loop marks at least one identity per item it      *)
(* visits, so the deletion pass after it never runs on nothing.            *)

Loop == {"next", "inspect", "fetch", "put", "readback"}
Guarded == Cardinality(DOMAIN saved) >= Threshold
GuardInv ==
  /\ pc \in {"listSrc", "listDst"} => st = saved
  /\ pc \notin Loop => seen = {} /\ filtered = {}
  /\ Guarded => /\ pc = "listDst" => todo # EmptyMap
                /\ pc \in Loop => dstIdx # EmptyMap
                /\ pc = "next" /\ todo = EmptyMap => seen \cup filtered # {}
  /\ pc \in {"put", "readback"} => item.uid \in seen
  /\ pc = "inspect" /\ item.data # None => item.uid \in seen

LEMMA ReturnGuarded == ASSUME NEW o, Return(o)  PROVE GuardInv'
BY DEF Return, GuardInv, Loop

LEMMA EmptyListing == Cardinality(DOMAIN EmptyMap) = 0
BY EmptyMapType, FS_EmptySet

\* Past the source's guard something is listed or little is known.
LEMMA AcceptSourceGuarded ==
  ASSUME IInv, GuardInv, pc = "listSrc", NEW list, AcceptSource(list)
  PROVE  GuardInv'
<1>1. CASE Vanished(Cardinality(DOMAIN list), Cardinality(DOMAIN st), Threshold)
  BY <1>1, ReturnGuarded DEF AcceptSource
<1>2. CASE ~Vanished(Cardinality(DOMAIN list), Cardinality(DOMAIN st), Threshold)
  <2>1. /\ pc' = "listDst" /\ todo' = list
        /\ UNCHANGED <<saved, st, seen, filtered>>
    BY <1>2 DEF AcceptSource
  <2>2. Guarded => list # EmptyMap
    BY <1>2, EmptyListing DEF Guarded, Vanished, GuardInv
  <2>. QED  BY <2>1, <2>2 DEF GuardInv, Guarded, Loop
<1>. QED  BY <1>1, <1>2

\* Every entry names a copy, so the destination's guard counts them all.
LEMMA AcceptDestinationGuarded ==
  ASSUME IInv, GuardInv, pc = "listDst", NEW list, AcceptDestination(list)
  PROVE  GuardInv'
<1>. DEFINE known == {k \in DOMAIN st : st[k].dstHref # None}
<1>1. CASE Vanished(Cardinality(DOMAIN list), Cardinality(known), Threshold)
  BY <1>1, ReturnGuarded DEF AcceptDestination
<1>2. CASE ~Vanished(Cardinality(DOMAIN list), Cardinality(known), Threshold)
  <2>1. /\ pc' = "next" /\ dstIdx' = list
        /\ UNCHANGED <<saved, st, todo, seen, filtered>>
    BY <1>2 DEF AcceptDestination
  <2>2. known = DOMAIN st
    <3>1. \A k \in DOMAIN st : k \in Keys /\ st[k].dstHref = DestHref[k]
      BY DEF IInv, RunOK, StateOK, HomesOK, IsMap
    <3>2. \A k \in DOMAIN st : st[k].dstHref # None
      BY <3>1, Constants
    <3>. QED  BY <3>2
  <2>3. Guarded => list # EmptyMap
    BY <1>2, <2>2, EmptyListing DEF Guarded, Vanished, GuardInv
  <2>. QED  BY <2>1, <2>3 DEF GuardInv, Guarded, Loop
<1>. QED  BY <1>1, <1>2

\* A step of the loop marks the item it is done with, or keeps the mark.
LEMMA LoopGuarded ==
  ASSUME IInv, GuardInv, pc \in Loop, pc' \in Loop, UNCHANGED <<saved, dstIdx>>,
         pc' = "next" /\ todo' = EmptyMap => seen' \cup filtered' # {},
         pc' \in {"put", "readback"} => item'.uid \in seen',
         pc' = "inspect" => item'.data = None \/ item'.uid \in seen'
  PROVE  GuardInv'
BY DEF GuardInv, Guarded, Loop

LEMMA DecideMarked ==
  ASSUME NEW it, NEW v, Decide(it, v), it.uid \in seen'
  PROVE  /\ pc' \in {"put", "next"}
         /\ pc' = "put" => item'.uid \in seen'
         /\ seen' \cup filtered' # {}
BY DEF Decide

LEMMA VisitGuarded == ASSUME IInv, GuardInv, NEW h \in SrcHrefs, Visit(h)  PROVE GuardInv'
<1>1. pc = "next" /\ UNCHANGED <<saved, dstIdx>>
  BY DEF Visit
<1>2. \/ seen' = seen \cup {bySrc[h].uid} /\ pc' = pc
      \/ pc' = "inspect" /\ item'.data = None
      \/ pc' = "fetch"
  BY DEF Visit, NoItem
<1>. QED  BY <1>1, <1>2, LoopGuarded DEF Loop

LEMMA FetchGuarded == ASSUME IInv, GuardInv, FetchSource  PROVE GuardInv'
<1>. DEFINE body == src[item.href].body
            uid == UidOf(body, item.href)
            draft == SourceDraft(uid, body)
            verdict == IF item.uid = uid THEN item.verdict ELSE ListedVerdict(draft)
            cur == IF verdict = "ok"
                   THEN [draft EXCEPT !.dstETag = dstIdx[draft.dstHref]] ELSE draft
            it == [item EXCEPT !.uid = uid, !.data = body, !.cur = cur,
                     !.changed = SourceChanged(uid, body)]
<1>1. /\ pc = "fetch" /\ UNCHANGED <<saved, dstIdx>>
      /\ \/ filtered' = filtered \cup {uid} /\ pc' = "next"
         \/ seen' = seen \cup {uid} /\ pc' = "inspect" /\ item' = it
         \/ seen' = seen \cup {uid} /\ Decide(it, verdict)
  BY DEF FetchSource
<1>2. it.uid = uid
  BY DEF IInv, RunOK, Items
<1>. HIDE DEF it, uid, verdict
<1>. QED  BY <1>1, <1>2, LoopGuarded, DecideMarked DEF Loop

LEMMA InspectGuarded == ASSUME IInv, GuardInv, InspectDestination  PROVE GuardInv'
<1>. DEFINE verdict == ReadVerdict(item.cur, dst[item.cur.dstHref].body)
<1>1. PICK it : /\ it.uid = item.uid
                /\ \/ item.data # None /\ Decide(it, verdict) /\ UNCHANGED seen
                   \/ seen' = seen \cup {item.uid} /\ Decide(it, verdict)
                   \/ pc' = "fetch"
  BY DEF InspectDestination, IInv, RunOK, Items
<1>2. pc = "inspect" /\ UNCHANGED <<saved, dstIdx>>
  BY DEF InspectDestination
<1>3. CASE pc' = "fetch"
  BY <1>2, <1>3, LoopGuarded DEF Loop
<1>4. CASE it.uid \in seen' /\ Decide(it, verdict)
  BY <1>2, <1>4, LoopGuarded, DecideMarked DEF Loop
<1>. QED  BY <1>1, <1>2, <1>3, <1>4 DEF GuardInv

LEMMA PutGuarded == ASSUME IInv, GuardInv, PutMirror  PROVE GuardInv'
<1>1. item'.uid = item.uid
  BY DEF PutMirror, IInv, RunOK, Items
<1>2. item.uid \in seen /\ pc = "put" /\ pc' = "readback"
      /\ UNCHANGED <<saved, dstIdx, seen>>
  BY DEF PutMirror, GuardInv
<1>. QED  BY <1>1, <1>2, LoopGuarded DEF Loop

LEMMA StepGuarded == ASSUME IInv, GuardInv, [Next]_vars  PROVE GuardInv'
<1>1. CASE Start \/ Finish \/ Crash \/ ResetState
  BY <1>1 DEF Start, Finish, Crash, ClearRun, ResetState, GuardInv, Loop
<1>2. CASE ListSource \/ SourceListsEmpty
  BY <1>2, AcceptSourceGuarded DEF ListSource, SourceListsEmpty
<1>3. CASE ListDestination \/ DestinationListsEmpty
  BY <1>3, AcceptDestinationGuarded DEF ListDestination, DestinationListsEmpty
<1>4. CASE InspectGone \/ InspectFails
  BY <1>4, LoopGuarded DEF InspectGone, InspectFails, SkipUnverified, Loop
<1>5. CASE ReadBack \/ ReadBackGone \/ ReadBackFails
  <2>1. /\ pc = "readback" /\ pc' = "next" /\ item.uid \in seen
        /\ UNCHANGED <<saved, dstIdx, seen>>
    BY <1>5 DEF ReadBack, ReadBackGone, ReadBackFails, RecordPut, GuardInv
  <2>. QED  BY <2>1, LoopGuarded DEF Loop
<1>6. ASSUME NEW uid \in Keys, SweepDelete(uid) \/ SweepForget(uid)  PROVE GuardInv'
  <2>1. pc = "next" /\ UNCHANGED <<saved, pc, todo, dstIdx, seen, filtered, item>>
    BY <1>6 DEF SweepDelete, SweepForget, Doomed
  <2>. QED  BY <2>1 DEF GuardInv, Guarded, Loop
<1>7. CASE \/ FetchSourceGone \/ Complete \/ CallFails \/ PutLost
           \/ \E uid \in Keys : SweepDeleteGone(uid) \/ DeleteLost(uid)
  BY <1>7, ReturnGuarded
     DEF FetchSourceGone, Complete, CallFails, PutLost, SweepDeleteGone, DeleteLost
<1>8. CASE UNCHANGED vars
  BY <1>8 DEF vars, engineVars, GuardInv, Guarded
<1>9. CASE \/ \E h \in SrcHrefs : SrcRemove(h) \/ \E b \in SrcBodies : SrcWrite(h, b)
           \/ \E h \in DstHrefs : DstRemove(h) \/ \E b \in DstBodies : DstWrite(h, b)
  <2>1. UNCHANGED engineVars
    BY <1>9 DEF SrcRemove, SrcWrite, DstRemove, DstWrite, UserEdit
  <2>. QED  BY <2>1 DEF engineVars, GuardInv, Guarded
<1>. QED
  BY <1>1, <1>2, <1>3, <1>4, <1>5, <1>6, <1>7, <1>8, <1>9, VisitGuarded, FetchGuarded,
     InspectGuarded, PutGuarded DEF Next, RunStep, FaultStep, UserStep

LEMMA GuardInvariant == Spec => []GuardInv
<1>1. Init => GuardInv
  BY DEF Init, GuardInv, Loop
<1>2. IInv /\ GuardInv /\ [Next]_vars => GuardInv'
  BY StepGuarded
<1>. QED  BY <1>1, <1>2, AlwaysInv, PTL DEF Spec

\* The two guards refuse to act on a side that lists nothing when the last run
\* knew vanishGuardThreshold items or more (dav.go:147-157), for any threshold:
\* past them, a run over such a state holds a destination listing with
\* something in it, and enters the deletion pass only with something to keep.
THEOREM VanishGuarded == Spec => []VanishGuard
<1>1. GuardInv => VanishGuard
  BY DEF GuardInv, VanishGuard, Guarded, Loop
<1>. QED  BY <1>1, GuardInvariant, PTL

-----------------------------------------------------------------------------
(* Recorded tags.  No write brings back a version somebody remembers, so   *)
(* what was recorded of a version holds for as long as it stands.          *)

\* What a half of an entry says of the version it recorded.
SrcHalf(c, e, k) ==
  Stands(c, e.srcHref, e.srcETag)
    => /\ UidOf(c[e.srcHref].body, e.srcHref) = k
       /\ e.srcHash # None => c[e.srcHref].body = e.srcHash
DstHalf(c, e) ==
  e.dstHash # None /\ Stands(c, e.dstHref, e.dstETag)
    => c[e.dstHref].body \in {e.dstHash, Stored(e.dstHash, Rewrites)}

InHand == {"inspect", "put", "readback"}
Vouched ==
  /\ \A k \in DOMAIN saved : SrcHalf(src, saved[k], k) /\ DstHalf(dst, saved[k])
  /\ \A k \in DOMAIN st : SrcHalf(src, st[k], k) /\ DstHalf(dst, st[k])
  /\ pc \in InHand => SrcHalf(src, item.cur, item.uid)
  /\ pc = "readback" /\ Stands(dst, item.cur.dstHref, item.ret)
       => dst[item.cur.dstHref].body = Stored(item.data, Rewrites)

SrcKept ==
  \A h : \A e \in UsedSrcTags(h) : Stands(src', h, e) => Stands(src, h, e) /\ src'[h] = src[h]
DstKept ==
  \A h : \A e \in UsedDstTags(h) : Stands(dst', h, e) => Stands(dst, h, e) /\ dst'[h] = dst[h]

\* The steps, by what they do to the servers.
SourceUser == \E h \in SrcHrefs : SrcRemove(h) \/ \E b \in SrcBodies : SrcWrite(h, b)
DestinationUser == \E h \in DstHrefs : DstRemove(h) \/ \E b \in DstBodies : DstWrite(h, b)
Putting == PutMirror \/ PutLost
Deleting == \E uid \in Keys : SweepDelete(uid) \/ DeleteLost(uid)

LEMMA ServerSteps ==
  ASSUME [Next]_vars
  PROVE  /\ src' = src \/ SourceUser
         /\ dst' = dst \/ DestinationUser \/ Putting \/ Deleting
<1>1. CASE RunStep
  BY <1>1 DEF RunStep, Start, ListSource, ListDestination, Visit, FetchSource, FetchSourceGone,
     InspectDestination, InspectGone, PutMirror, ReadBack, ReadBackGone, RecordPut, SweepDelete,
     SweepDeleteGone, SweepForget, Complete, Finish, Putting, Deleting
<1>2. CASE FaultStep
  BY <1>2 DEF FaultStep, CallFails, InspectFails, ReadBackFails, RecordPut, PutLost, DeleteLost,
     SourceListsEmpty, DestinationListsEmpty, Crash, Putting, Deleting
<1>3. CASE UserStep
  BY <1>3 DEF UserStep, SourceUser, DestinationUser, SrcRemove, SrcWrite, DstRemove, DstWrite,
     ResetState
<1>. QED  BY <1>1, <1>2, <1>3 DEF Next, vars

LEMMA NothingRevived == ASSUME [Next]_vars  PROVE SrcKept /\ DstKept
<1>1. SrcKept
  <2>1. CASE src' = src
    BY <2>1 DEF SrcKept, Stands
  <2>2. ASSUME NEW h \in SrcHrefs, SrcRemove(h)  PROVE SrcKept
    BY <2>2, DeleteStands DEF SrcRemove, SrcKept
  <2>3. ASSUME NEW h \in SrcHrefs, NEW b \in SrcBodies, SrcWrite(h, b)  PROVE SrcKept
    <3>1. PICK t \in NewTags(UsedSrcTags(h)) : src' = MapSet(src, h, [body |-> b, etag |-> t])
      BY <2>3 DEF SrcWrite
    <3>2. t \notin UsedSrcTags(h)
      BY <3>1, NewTagsFresh
    <3>. QED  BY <3>1, <3>2, SetStands DEF SrcKept
  <2>. QED  BY <2>1, <2>2, <2>3, ServerSteps DEF SourceUser
<1>2. DstKept
  <2>1. CASE dst' = dst
    BY <2>1 DEF DstKept, Stands
  <2>2. ASSUME NEW h, dst' = MapDelete(dst, h)  PROVE DstKept
    BY <2>2, DeleteStands DEF DstKept
  <2>3. ASSUME NEW h, NEW b, NEW t \in NewTags(UsedDstTags(h)),
               dst' = MapSet(dst, h, [body |-> b, etag |-> t])
        PROVE  DstKept
    <3>1. t \notin UsedDstTags(h)
      BY NewTagsFresh
    <3>. QED  BY <2>3, <3>1, SetStands DEF DstKept
  <2>4. CASE DestinationUser
    BY <2>2, <2>3, <2>4 DEF DestinationUser, DstRemove, DstWrite
  <2>5. CASE Putting
    BY <2>3, <2>5 DEF Putting, PutMirror, PutLost, StorePut
  <2>6. CASE Deleting
    BY <2>2, <2>6 DEF Deleting, SweepDelete, DeleteLost
  <2>. QED  BY <2>1, <2>4, <2>5, <2>6, ServerSteps
<1>. QED  BY <1>1, <1>2

\* An entry from before a step says after it what it said before.
OldEntry(e, k) == (k \in DOMAIN saved /\ e = saved[k]) \/ (k \in DOMAIN st /\ e = st[k])

LEMMA OldVouched ==
  ASSUME Vouched, [Next]_vars, NEW e, NEW k, OldEntry(e, k)
  PROVE  SrcHalf(src', e, k) /\ DstHalf(dst', e)
<1>1. e.srcETag \in UsedSrcTags(e.srcHref) /\ e.dstETag \in UsedDstTags(e.dstHref)
  BY DEF OldEntry, UsedSrcTags, UsedDstTags
<1>2. SrcHalf(src, e, k) /\ DstHalf(dst, e)
  BY DEF OldEntry, Vouched
<1>. QED  BY <1>1, <1>2, NothingRevived DEF SrcKept, DstKept, SrcHalf, DstHalf, Stands

\* The draft in hand and the tag of a PUT likewise.
LEMMA HeldVouched ==
  ASSUME Vouched, [Next]_vars, pc \in InHand
  PROVE  /\ SrcHalf(src', item.cur, item.uid)
         /\ pc = "readback" /\ Stands(dst', item.cur.dstHref, item.ret)
              => dst'[item.cur.dstHref].body = Stored(item.data, Rewrites)
<1>1. item.cur.srcETag \in UsedSrcTags(item.cur.srcHref) /\ item.ret \in UsedDstTags(item.cur.dstHref)
  BY DEF UsedSrcTags, UsedDstTags
<1>. QED  BY <1>1, NothingRevived DEF SrcKept, DstKept, SrcHalf, Stands, Vouched

\* A step that records nothing new and takes nothing new in hand.
LEMMA PlainVouched ==
  ASSUME Vouched, [Next]_vars,
         \A k \in DOMAIN saved' : OldEntry(saved'[k], k), \A k \in DOMAIN st' : OldEntry(st'[k], k),
         pc' \notin InHand \/ UNCHANGED <<pc, item>>
  PROVE  Vouched'
BY OldVouched, HeldVouched DEF Vouched, InHand

\* The rows recorded by a step of the loop: one entry, under one identity.
LEMMA RecordVouched ==
  ASSUME Vouched, [Next]_vars, saved' = saved, NEW k, NEW e, st' = MapSet(st, k, e),
         SrcHalf(src', e, k), DstHalf(dst', e), pc' \notin InHand
  PROVE  Vouched'
<1>1. \A j \in DOMAIN saved' : OldEntry(saved'[j], j)
  BY DEF OldEntry
<1>2. \A j \in DOMAIN st' : (j = k /\ st'[j] = e) \/ OldEntry(st'[j], j)
  BY DEF OldEntry, MapSet
<1>. QED  BY <1>1, <1>2, OldVouched DEF Vouched, InHand

\* The fast path records nothing new.
LEMMA VisitSame == ASSUME IInv, NEW h \in SrcHrefs, Visit(h)  PROVE st' = st
<1>. DEFINE uid == bySrc[h].uid
<1>1. \/ st' = st
      \/ /\ SourceUnchanged(h) /\ ListedVerdict(st[uid]) = "ok" /\ h \in DOMAIN todo
         /\ st' = [st EXCEPT ![uid].dstETag = dstIdx[st[uid].dstHref]]
  BY DEF Visit
<1>2. CASE /\ SourceUnchanged(h) /\ ListedVerdict(st[uid]) = "ok" /\ h \in DOMAIN todo
           /\ st' = [st EXCEPT ![uid].dstETag = dstIdx[st[uid].dstHref]]
  <2>1. todo # EmptyMap
    BY <1>2, EmptyMapType
  <2>2. uid \in DOMAIN st /\ st[uid] \in Entries
    BY <1>2, <2>1 DEF SourceUnchanged, IInv, RunOK, SnapshotOK, StateOK, IsMap
  <2>3. dstIdx[st[uid].dstHref] = st[uid].dstETag
    BY <1>2 DEF ListedVerdict, SameTag
  <2>. QED  BY <1>2, <2>2, <2>3 DEF Entries, IInv, RunOK, StateOK, IsMap
<1>. QED  BY <1>1, <1>2

LEMMA VisitVouched == ASSUME IInv, Vouched, NEW h \in SrcHrefs, Visit(h), [Next]_vars  PROVE Vouched'
<1>. DEFINE uid == bySrc[h].uid
            cur == st[uid]
<1>1. saved' = saved /\ pc = "next" /\ h \in DOMAIN todo /\ todo # EmptyMap
  BY EmptyMapType DEF Visit
<1>2. \A k \in DOMAIN saved' : OldEntry(saved'[k], k)
  BY <1>1 DEF OldEntry
<1>3. ASSUME SourceUnchanged(h)  PROVE uid \in DOMAIN st /\ cur \in Entries
  BY <1>1, <1>3 DEF SourceUnchanged, IInv, RunOK, SnapshotOK, StateOK, IsMap
<1>4. CASE UNCHANGED <<pc, item>>
  BY <1>2, <1>4, VisitSame, PlainVouched DEF OldEntry
<1>5. CASE pc' = "fetch" /\ st' = st
  BY <1>2, <1>5, PlainVouched DEF OldEntry, InHand
<1>6. CASE SourceUnchanged(h) /\ pc' = "inspect" /\ st' = st
           /\ item' = [[NoItem EXCEPT !.href = h, !.tag = todo[h]] EXCEPT !.uid = uid, !.cur = cur]
  <2>1. item'.cur = cur /\ item'.uid = uid
    BY <1>6 DEF NoItem
  <2>2. SrcHalf(src', cur, uid)
    BY <1>3, <1>6, OldVouched DEF OldEntry
  <2>3. \A k \in DOMAIN st' : OldEntry(st'[k], k)
    BY <1>6 DEF OldEntry
  <2>. QED  BY <1>2, <1>6, <2>1, <2>2, <2>3, OldVouched DEF Vouched
<1>. QED  BY <1>4, <1>5, <1>6 DEF Visit

LEMMA DecideVouched ==
  ASSUME Vouched, [Next]_vars, UNCHANGED <<saved, src, dst>>, NEW it, NEW v, Decide(it, v),
         SrcHalf(src, it.cur, it.uid), v \notin {"missing", "drifted"} => DstHalf(dst, it.cur)
  PROVE  Vouched'
<1>1. CASE pc' = "put" /\ item' = it /\ UNCHANGED st
  <2>1. /\ \A k \in DOMAIN saved' : OldEntry(saved'[k], k)
        /\ \A k \in DOMAIN st' : OldEntry(st'[k], k)
    BY <1>1 DEF OldEntry
  <2>. QED  BY <1>1, <2>1, OldVouched DEF Vouched
<1>2. CASE v \notin {"missing", "drifted"} /\ pc' = "next" /\ st' = MapSet(st, it.uid, it.cur)
  BY <1>2, RecordVouched DEF InHand
<1>. QED  BY <1>1, <1>2 DEF Decide

LEMMA FetchVouched == ASSUME IInv, Vouched, FetchSource, [Next]_vars  PROVE Vouched'
<1>. DEFINE body == src[item.href].body
            uid == UidOf(body, item.href)
            old == IF uid \in DOMAIN st THEN st[uid] ELSE ZeroEntry
            draft == SourceDraft(uid, body)
            verdict == IF item.uid = uid THEN item.verdict ELSE ListedVerdict(draft)
            cur == IF verdict = "ok"
                   THEN [draft EXCEPT !.dstETag = dstIdx[draft.dstHref]] ELSE draft
            it == [item EXCEPT !.uid = uid, !.data = body, !.cur = cur,
                     !.changed = SourceChanged(uid, body)]
<1>1. /\ item \in Items /\ item.href \in DOMAIN src
      /\ item.uid = None \/ item.verdict \in {"missing", "drifted"}
      /\ UNCHANGED <<saved, src, dst>>
  BY DEF FetchSource, IInv, RunOK, ItemOK
<1>2. uid # None /\ body \in Bodies
  <2>1. src[item.href] \in Resources /\ item.href \in SrcHrefs
    BY <1>1 DEF IInv, ServersOK, IsMap
  <2>2. body \in Bodies
    BY <2>1 DEF Resources
  <2>. QED  BY <2>1, <2>2, UidOfType, Constants
<1>3. old \in Drafts /\ DstHalf(dst, old)
  <2>1. CASE uid \in DOMAIN st
    BY <2>1, EntryIsDraft DEF IInv, RunOK, StateOK, IsMap, Vouched
  <2>2. CASE uid \notin DOMAIN st
    BY <2>2 DEF ZeroEntry, Drafts, Tags, DstHalf
  <2>. QED  BY <2>1, <2>2
<1>. HIDE DEF old, uid
<1>4. /\ draft \in Drafts
      /\ draft.srcHref = item.href /\ draft.srcETag = item.tag /\ draft.srcHash = body
      /\ draft.dstHref = old.dstHref /\ draft.dstETag = old.dstETag /\ draft.dstHash = old.dstHash
  <2>1. draft = [old EXCEPT !.srcHref = item.href, !.srcETag = item.tag, !.srcHash = body]
    BY DEF SourceDraft, old, uid
  <2>2. item.tag \in Tags /\ item.href \in SrcHrefs \cup {None}
    BY <1>1 DEF Items
  <2>. QED  BY <1>2, <1>3, <2>1, <2>2 DEF Drafts
<1>. HIDE DEF draft, body
<1>5. verdict = "ok" => dstIdx[draft.dstHref] = draft.dstETag
  BY <1>1, <1>2 DEF ListedVerdict, SameTag
<1>6. cur = draft
  BY <1>4, <1>5 DEF Drafts
<1>. HIDE DEF cur, verdict
<1>7. it.cur = draft /\ it.uid = uid
  BY <1>1, <1>6 DEF Items
<1>8. SrcHalf(src, draft, uid) /\ DstHalf(dst, draft)
  BY <1>3, <1>4 DEF SrcHalf, DstHalf, body, uid
<1>. HIDE DEF it
<1>9. \/ pc' = "next" /\ UNCHANGED st
      \/ pc' = "inspect" /\ item' = it /\ UNCHANGED st
      \/ Decide(it, verdict)
  BY DEF FetchSource, it, cur, verdict, draft, uid, body
<1>10. CASE UNCHANGED st /\ (pc' = "next" \/ (pc' = "inspect" /\ item' = it))
  <2>1. /\ \A k \in DOMAIN saved' : OldEntry(saved'[k], k)
        /\ \A k \in DOMAIN st' : OldEntry(st'[k], k)
    BY <1>1, <1>10 DEF OldEntry
  <2>. QED  BY <1>1, <1>7, <1>8, <1>10, <2>1, OldVouched DEF Vouched, InHand
<1>. QED  BY <1>1, <1>7, <1>8, <1>9, <1>10, DecideVouched

LEMMA InspectVouched == ASSUME IInv, Vouched, InspectDestination, [Next]_vars  PROVE Vouched'
<1>. DEFINE home == item.cur.dstHref
            verdict == ReadVerdict(item.cur, dst[home].body)
            etag == IF dstIdx[home] # NoTag THEN dstIdx[home]
                    ELSE Tagged(dst[home].etag, DstMode)
            it == IF verdict = "ok"
                  THEN [item EXCEPT !.cur.dstETag = etag, !.cur.dstHash = dst[home].body]
                  ELSE item
<1>1. /\ item \in Items /\ pc = "inspect" /\ home \in DOMAIN dst
      /\ item.cur \in Drafts
      /\ UNCHANGED <<saved, src, dst>>
  BY DEF InspectDestination, IInv, RunOK, Items
<1>2. SrcHalf(src, item.cur, item.uid)
  BY <1>1 DEF Vouched, InHand
<1>3. /\ SrcHalf(src, it.cur, it.uid)
      /\ verdict \notin {"missing", "drifted"} => DstHalf(dst, it.cur)
  <2>. HIDE DEF etag, verdict
  <2>1. CASE verdict = "ok"
    <3>1. /\ it.cur.srcHref = item.cur.srcHref /\ it.cur.srcETag = item.cur.srcETag
          /\ it.cur.srcHash = item.cur.srcHash /\ it.cur.dstHref = home
          /\ it.uid = item.uid
          /\ it.cur.dstHash = dst[home].body
      BY <1>1, <2>1 DEF Items, Drafts
    <3>. QED  BY <1>2, <3>1 DEF SrcHalf, DstHalf
  <2>2. CASE verdict # "ok"
    BY <1>2, <2>2 DEF ReadVerdict, verdict
  <2>. QED  BY <2>1, <2>2
<1>. HIDE DEF it, verdict
<1>4. Decide(it, verdict) \/ (pc' = "fetch" /\ UNCHANGED st)
  BY DEF InspectDestination, it, verdict
<1>5. CASE pc' = "fetch" /\ UNCHANGED st
  BY <1>1, <1>5, PlainVouched DEF OldEntry, InHand
<1>. QED  BY <1>1, <1>3, <1>4, <1>5, DecideVouched

LEMMA PutVouched == ASSUME IInv, Vouched, PutMirror, [Next]_vars  PROVE Vouched'
<1>1. PICK t \in NewTags(UsedDstTags(PutHref(item))) :
        /\ StorePut(t)
        /\ item' = [item EXCEPT !.cur.dstHref = PutHref(item), !.ret = Tagged(t, PutMode)]
  BY DEF PutMirror
<1>2. /\ item'.cur.srcHref = item.cur.srcHref /\ item'.cur.srcETag = item.cur.srcETag
      /\ item'.cur.srcHash = item.cur.srcHash /\ item'.cur.dstHref = PutHref(item)
      /\ item'.data = item.data /\ item'.uid = item.uid
  BY <1>1 DEF IInv, RunOK, Items, Drafts
<1>3. dst'[PutHref(item)].body = Stored(item.data, Rewrites)
  <2>. DEFINE h == PutHref(item)
              r == [body |-> Stored(item.data, Rewrites), etag |-> t]
  <2>1. dst' = MapSet(dst, h, r)
    BY <1>1 DEF StorePut
  <2>. HIDE DEF h
  <2>2. dst'[h] = r
    BY <2>1 DEF MapSet
  <2>. QED  BY <2>2 DEF h
<1>4. SrcHalf(src', item.cur, item.uid)
  BY HeldVouched DEF PutMirror, InHand
<1>5. SrcHalf(src', item'.cur, item'.uid)
  BY <1>2, <1>4 DEF SrcHalf
<1>6. /\ \A k \in DOMAIN saved' : OldEntry(saved'[k], k)
      /\ \A k \in DOMAIN st' : OldEntry(st'[k], k)
  BY DEF PutMirror, OldEntry
<1>. QED  BY <1>2, <1>3, <1>5, <1>6, OldVouched DEF Vouched, PutMirror

LEMMA ReadBackVouched ==
  ASSUME IInv, Vouched, ReadBack \/ ReadBackGone \/ ReadBackFails, [Next]_vars
  PROVE  Vouched'
<1>. DEFINE h == item.cur.dstHref
<1>1. pc = "readback" /\ item.cur \in Drafts /\ UNCHANGED <<src, dst, saved>>
  BY DEF ReadBack, ReadBackGone, ReadBackFails, RecordPut, IInv, RunOK, Items
<1>2. /\ SrcHalf(src, item.cur, item.uid)
      /\ Stands(dst, h, item.ret) => dst[h].body = Stored(item.data, Rewrites)
  BY <1>1 DEF Vouched, InHand
<1>3. PICK t, b : /\ RecordPut(t, b)
                  /\ Stands(dst, h, t) => dst[h].body \in {b, Stored(b, Rewrites)}
  <2>1. CASE ReadBackGone \/ ReadBackFails
    BY <1>2, <2>1 DEF ReadBackGone, ReadBackFails
  <2>2. CASE ReadBack
    BY <2>2 DEF ReadBack
  <2>. QED  BY <2>1, <2>2
<1>. DEFINE e == [item.cur EXCEPT !.dstETag = t, !.dstHash = b]
<1>4. /\ e.srcHref = item.cur.srcHref /\ e.srcETag = item.cur.srcETag
      /\ e.srcHash = item.cur.srcHash /\ e.dstHref = h /\ e.dstETag = t /\ e.dstHash = b
  BY <1>1 DEF Drafts
<1>5. st' = MapSet(st, item.uid, e) /\ pc' = "next"
  BY <1>3 DEF RecordPut
<1>. HIDE DEF e
<1>6. SrcHalf(src', e, item.uid) /\ DstHalf(dst', e)
  BY <1>1, <1>2, <1>3, <1>4 DEF SrcHalf, DstHalf
<1>. QED  BY <1>1, <1>5, <1>6, RecordVouched DEF InHand

LEMMA StepVouched == ASSUME IInv, Vouched, [Next]_vars  PROVE Vouched'
<1>1. ASSUME \A k \in DOMAIN saved' : OldEntry(saved'[k], k), \A k \in DOMAIN st' : OldEntry(st'[k], k),
             pc' \notin InHand \/ UNCHANGED <<pc, item>>
      PROVE  Vouched'
  BY <1>1, PlainVouched
<1>2. ASSUME UNCHANGED <<saved, st>>, pc' \notin InHand \/ UNCHANGED <<pc, item>>  PROVE Vouched'
  BY <1>1, <1>2 DEF OldEntry
<1>3. ASSUME NEW o, Return(o)  PROVE Vouched'
  BY <1>2, <1>3 DEF Return, InHand
<1>4. CASE Start \/ Finish \/ Crash \/ ResetState
  BY <1>1, <1>4, EmptyMapType
  DEF Start, Finish, Crash, ClearRun, ResetState, OldEntry, InHand
<1>5. CASE \/ ListSource \/ SourceListsEmpty \/ ListDestination \/ DestinationListsEmpty
           \/ InspectGone \/ InspectFails
  BY <1>2, <1>3, <1>5
  DEF ListSource, SourceListsEmpty, ListDestination, DestinationListsEmpty, AcceptSource,
      AcceptDestination, InspectGone, InspectFails, SkipUnverified, InHand
<1>6. CASE \/ FetchSourceGone \/ Complete \/ CallFails \/ PutLost
           \/ \E uid \in Keys : SweepDeleteGone(uid) \/ DeleteLost(uid)
  BY <1>3, <1>6 DEF FetchSourceGone, Complete, CallFails, PutLost, SweepDeleteGone, DeleteLost
<1>7. ASSUME NEW uid \in Keys, SweepDelete(uid) \/ SweepForget(uid)  PROVE Vouched'
  <2>1. st' = MapDelete(st, uid) /\ UNCHANGED <<saved, pc, item>>
    BY <1>7 DEF SweepDelete, SweepForget
  <2>. QED  BY <1>1, <2>1 DEF OldEntry, MapDelete
<1>8. CASE SourceUser \/ DestinationUser \/ UNCHANGED vars
  BY <1>2, <1>8 DEF SourceUser, DestinationUser, SrcRemove, SrcWrite, DstRemove, DstWrite, UserEdit,
                    engineVars, vars
<1>. QED
  BY <1>4, <1>5, <1>6, <1>7, <1>8, VisitVouched, FetchVouched, InspectVouched, PutVouched,
     ReadBackVouched
  DEF Next, RunStep, FaultStep, UserStep, SourceUser, DestinationUser

LEMMA InitVouched == Init => Vouched
<1>. SUFFICES ASSUME Init  PROVE Vouched
  OBVIOUS
<1>1. \A k \in DOMAIN saved : saved[k].dstHash = None
  <2>1. CASE ~Legacy
    BY <2>1, EmptyMapType DEF Init
  <2>2. CASE Legacy
    <3>1. PICK s \in {NoTag} \cup NewTags({}), d \in {NoTag} \cup NewTags({}) :
            saved = [u \in SrcUids(src) |->
                       LegacyEntry(CHOOSE h \in DOMAIN src : UidOf(src[h].body, h) = u, s, d)]
      BY <2>2, Zenon DEF Init, LegacySaved
    <3>2. \A h : LegacyEntry(h, s, d).dstHash = None
      BY DEF LegacyEntry, ZeroEntry
    <3>. QED  BY <3>1, <3>2
  <2>. QED  BY <2>1, <2>2
<1>2. \A k \in DOMAIN saved : SrcHalf(src, saved[k], k)
  <2>1. CASE ~Legacy
    BY <2>1, EmptyMapType DEF Init
  <2>2. CASE Legacy
    <3>1. PICK s \in {NoTag} \cup NewTags({}), d \in {NoTag} \cup NewTags({}) :
            saved = [u \in SrcUids(src) |->
                       LegacyEntry(CHOOSE h \in DOMAIN src : UidOf(src[h].body, h) = u, s, d)]
      BY <2>2, Zenon DEF Init, LegacySaved
    <3>2. \A h : LegacyEntry(h, s, d).srcHash = None /\ LegacyEntry(h, s, d).srcHref = h
      BY DEF LegacyEntry, ZeroEntry
    <3>3. ASSUME NEW u \in SrcUids(src)
          PROVE  /\ UidOf(src[saved[u].srcHref].body, saved[u].srcHref) = u
                 /\ saved[u].srcHash = None
      <4>. DEFINE g == CHOOSE h \in DOMAIN src : UidOf(src[h].body, h) = u
      <4>1. g \in DOMAIN src /\ UidOf(src[g].body, g) = u
        BY DEF SrcUids
      <4>2. saved[u] = LegacyEntry(g, s, d)
        BY <3>1
      <4>. HIDE DEF g
      <4>. QED  BY <3>2, <4>1, <4>2
    <3>4. DOMAIN saved = SrcUids(src)
      BY <3>1
    <3>. QED  BY <3>3, <3>4 DEF SrcHalf
  <2>. QED  BY <2>1, <2>2
<1>3. \A k \in DOMAIN saved : DstHalf(dst, saved[k])
  BY <1>1 DEF DstHalf
<1>4. pc = "idle" /\ DOMAIN st = {}
  BY EmptyMapType DEF Init
<1>. QED  BY <1>2, <1>3, <1>4 DEF Vouched, InHand

LEMMA VouchedInvariant == Spec => []Vouched
BY InitVouched, StepVouched, AlwaysInv, PTL DEF Spec

\* A recorded ETag vouches for the recorded fingerprint, on either side and
\* whatever the servers do with tags: a copy put and read back while a user
\* writes, a tag taken from a listing older than the body read (sync.go:189-219,
\* mirror.go:129-171).  The fast paths of syncOneWay and inspectDst rest on it.
THEOREM TagsTruthful == Spec => []RecordedTagsTruthful
<1>1. Vouched => RecordedTagsTruthful
  BY DEF Vouched, SrcHalf, DstHalf, Stands, RecordedTagsTruthful
<1>. QED  BY <1>1, VouchedInvariant, PTL

-----------------------------------------------------------------------------
(* Deletions.  An item that is in the source all through a run is waiting  *)
(* to be visited, held by the loop, or marked under the identity it has.   *)

\* The items of the source whose identity was never missing from it.
Lasting == {h \in DOMAIN src : UidOf(src[h].body, h) \notin gone}
Past == Loop \cup {"listDst"}
Holding == pc = "fetch" \/ (pc = "inspect" /\ item.data = None)
\* The snapshot names the identity its tag was recorded with; the fast path
\* will go, or went, by that name.
Named ==
  \A h \in DOMAIN bySrc : Stands(src, h, bySrc[h].etag) => UidOf(src[h].body, h) = bySrc[h].uid
Accounted ==
  /\ Keys \ SrcUids(src) \subseteq gone
  /\ \A h \in Lasting :
       /\ \/ h \in DOMAIN todo
          \/ UidOf(src[h].body, h) \in seen \cup filtered
          \/ Holding /\ item.href = h
       /\ h \in DOMAIN todo /\ SourceUnchanged(h) => bySrc[h].uid = UidOf(src[h].body, h)
       /\ pc = "inspect" /\ item.data = None /\ item.href = h
            => item.uid = UidOf(src[h].body, h)
DeleteInv == Named /\ (pc \in Past => Accounted)

\* What tells items apart: the source refuses a UID that is taken, and no UID
\* reads like the href of another item.
DistinctItems == UniqueUids /\ Uids \cap SrcHrefs = {}

LEMMA StepNamed ==
  ASSUME Vouched, Named, [Next]_vars, bySrc' = bySrc \/ Start \/ bySrc' = EmptyMap
  PROVE  Named'
<1>1. CASE bySrc' = bySrc
  <2>1. \A h \in DOMAIN bySrc : bySrc[h].etag \in UsedSrcTags(h)
    BY DEF UsedSrcTags
  <2>. QED  BY <1>1, <2>1, NothingRevived DEF Named, SrcKept, Stands
<1>2. CASE Start
  <2>1. src' = src /\ bySrc' \in SnapshotBySrcHref(saved)
    BY <1>2 DEF Start
  <2>. DEFINE homes == {saved[k].srcHref : k \in DOMAIN saved}
  <2>2. PICK f \in [homes -> DOMAIN saved] :
          /\ \A h \in homes : saved[f[h]].srcHref = h
          /\ bySrc' = [h \in homes |-> [uid |-> f[h], etag |-> saved[f[h]].srcETag]]
    BY <2>1 DEF SnapshotBySrcHref
  <2>. HIDE DEF homes
  <2>3. ASSUME NEW h \in homes, Stands(src, h, saved[f[h]].srcETag)
        PROVE  UidOf(src[h].body, h) = f[h]
    <3>1. f[h] \in DOMAIN saved /\ saved[f[h]].srcHref = h
      BY <2>2
    <3>. QED  BY <2>3, <3>1 DEF Vouched, SrcHalf
  <2>4. DOMAIN bySrc' = homes
    BY <2>2
  <2>5. \A h \in homes : bySrc'[h].uid = f[h] /\ bySrc'[h].etag = saved[f[h]].srcETag
    BY <2>2
  <2>. QED  BY <2>1, <2>3, <2>4, <2>5 DEF Named
<1>3. CASE bySrc' = EmptyMap
  BY <1>3, EmptyMapType DEF Named
<1>. QED  BY <1>1, <1>2, <1>3

\* An item created under a new href has an identity of its own.
LEMMA NewUid ==
  ASSUME DistinctItems, IInv, NEW g \in SrcHrefs, NEW b \in SrcBodies, SrcWrite(g, b),
         g \notin DOMAIN src
  PROVE  UidOf(b, g) \notin SrcUids(src)
<1>1. CASE b.uid # None
  BY <1>1 DEF SrcWrite, DistinctItems, UidOf
<1>2. CASE b.uid = None
  <2>1. UidOf(b, g) = g
    BY <1>2 DEF UidOf
  <2>2. \A x \in DOMAIN src : src[x].body.uid \in Uids \cup {None}
    BY DEF IInv, ServersOK, IsMap, Resources, Bodies
  <2>3. \A x \in DOMAIN src : UidOf(src[x].body, x) # g
    BY <2>2 DEF UidOf, DistinctItems
  <2>. QED  BY <2>1, <2>3 DEF SrcUids
<1>. QED  BY <1>1, <1>2

\* Whatever users do to the source, an identity that was ever missing from it
\* is in gone: an item created in the course of a run does not last.
LEMMA UsersAccounted ==
  ASSUME DistinctItems, IInv, Accounted, pc \in Past, SourceUser
  PROVE  Accounted'
<1>1. /\ UNCHANGED engineVars
      /\ gone' = gone \cup (Keys \ SrcUids(src'))
  BY DEF SourceUser, SrcRemove, SrcWrite, UserEdit, NoteGone, Past, Loop
<1>2. \A h \in Lasting' : h \in Lasting /\ UidOf(src'[h].body, h) = UidOf(src[h].body, h)
  <2>1. ASSUME NEW g \in SrcHrefs, SrcRemove(g), NEW h \in Lasting'
        PROVE  h \in Lasting /\ UidOf(src'[h].body, h) = UidOf(src[h].body, h)
    <3>1. h \in DOMAIN src /\ src'[h] = src[h]
      BY <2>1, MapDeleteValue DEF SrcRemove, Lasting
    <3>. QED  BY <1>1, <2>1, <3>1 DEF Lasting
  <2>2. ASSUME NEW g \in SrcHrefs, NEW b \in SrcBodies, SrcWrite(g, b), NEW h \in Lasting'
        PROVE  h \in Lasting /\ UidOf(src'[h].body, h) = UidOf(src[h].body, h)
    <3>1. PICK t : src' = MapSet(src, g, [body |-> b, etag |-> t])
      BY <2>2 DEF SrcWrite
    <3>2. CASE h # g
      <4>1. h \in DOMAIN src /\ src'[h] = src[h]
        BY <2>2, <3>1, <3>2 DEF Lasting, MapSet
      <4>. QED  BY <1>1, <2>2, <4>1 DEF Lasting
    <3>3. CASE h = g /\ g \in DOMAIN src
      <4>1. src'[h].body = b /\ b.uid = src[h].body.uid
        BY <2>2, <3>1, <3>3 DEF SrcWrite, MapSet
      <4>2. UidOf(src'[h].body, h) = UidOf(src[h].body, h)
        BY <4>1 DEF UidOf
      <4>. QED  BY <1>1, <2>2, <3>3, <4>2 DEF Lasting
    <3>4. CASE h = g /\ g \notin DOMAIN src
      <4>1. src'[h].body = b
        BY <3>1, <3>4 DEF MapSet
      <4>2. b \in Bodies
        BY Constants
      <4>3. UidOf(b, g) \notin SrcUids(src)
        BY <2>2, <3>4, NewUid
      <4>4. UidOf(b, g) \in gone
        BY <4>2, <4>3, UidOfType DEF Accounted
      <4>. QED  BY <1>1, <2>2, <3>4, <4>1, <4>4 DEF Lasting
    <3>. QED  BY <3>2, <3>3, <3>4
  <2>. QED  BY <2>1, <2>2 DEF SourceUser
<1>. QED  BY <1>1, <1>2 DEF Accounted, engineVars, Holding, SourceUnchanged

\* A step of the run that lets go of an item only once it is marked.
LEMMA KeepsAccounted ==
  ASSUME Accounted, UNCHANGED <<src, gone, bySrc>>,
         \A h \in DOMAIN todo' : h \in DOMAIN todo /\ todo'[h] = todo[h],
         \A h \in Lasting : \/ h \in DOMAIN todo'
                            \/ UidOf(src[h].body, h) \in seen' \cup filtered'
                            \/ Holding' /\ item'.href = h,
         pc' = "inspect" /\ item'.data = None
           => \A h \in Lasting : item'.href = h => item'.uid = UidOf(src[h].body, h)
  PROVE  Accounted'
<1>1. Lasting' = Lasting
  BY DEF Lasting
<1>. QED  BY <1>1 DEF Accounted, SourceUnchanged

LEMMA VisitAccounted ==
  ASSUME IInv, Accounted, NEW h \in SrcHrefs, Visit(h)
  PROVE  Accounted'
<1>. DEFINE uid == bySrc[h].uid
            meta == [NoItem EXCEPT !.href = h, !.tag = todo[h]]
            listed == [meta EXCEPT !.uid = uid, !.cur = st[uid]]
            missing == [meta EXCEPT !.uid = uid, !.verdict = "missing"]
<1>1. /\ h \in DOMAIN todo /\ pc = "next"
      /\ UNCHANGED <<src, gone, bySrc, filtered>>
      /\ todo' = MapDelete(todo, h)
  BY DEF Visit
<1>2. /\ \A g \in DOMAIN todo' : g \in DOMAIN todo /\ todo'[g] = todo[g]
      /\ \A g \in DOMAIN todo : g # h => g \in DOMAIN todo'
  BY <1>1 DEF MapDelete
<1>3. h \in Lasting /\ SourceUnchanged(h) => uid = UidOf(src[h].body, h)
  BY <1>1 DEF Accounted
<1>4. /\ meta.href = h /\ listed.href = h /\ missing.href = h
      /\ listed.data = None /\ listed.uid = uid
  BY DEF NoItem
<1>. HIDE DEF meta, listed, missing
<1>5. \/ /\ SourceUnchanged(h) /\ pc' = pc /\ seen' = seen \cup {uid}
      \/ /\ SourceUnchanged(h) /\ pc' = "inspect" /\ seen' = seen
         /\ item'.href = h /\ item'.data = None /\ item'.uid = uid
      \/ /\ pc' = "fetch" /\ seen' = seen /\ item'.href = h
  <2>1. \/ SourceUnchanged(h) /\ seen' = seen \cup {uid} /\ pc' = pc
        \/ SourceUnchanged(h) /\ pc' = "inspect" /\ item' = listed /\ seen' = seen
        \/ pc' = "fetch" /\ item' \in {missing, meta} /\ seen' = seen
    BY DEF Visit, meta, listed, missing
  <2>. QED  BY <1>4, <2>1
<1>6. seen \subseteq seen'
  BY <1>5
<1>7. \A g \in Lasting : \/ g \in DOMAIN todo \/ UidOf(src[g].body, g) \in seen \cup filtered
  BY <1>1 DEF Accounted, Holding
<1>8. \A g \in Lasting : \/ g \in DOMAIN todo'
                         \/ UidOf(src[g].body, g) \in seen' \cup filtered'
                         \/ Holding' /\ item'.href = g
  BY <1>1, <1>2, <1>3, <1>5, <1>6, <1>7 DEF Holding
<1>9. pc' = "inspect" => \A g \in Lasting : item'.href = g => item'.uid = UidOf(src[g].body, g)
  BY <1>1, <1>3, <1>5
<1>. QED  BY <1>1, <1>2, <1>8, <1>9, KeepsAccounted

\* What leaves the hands of the loop was marked under the identity it has.
LEMMA MarkedAccounted ==
  ASSUME Accounted, UNCHANGED <<src, gone, bySrc, todo>>,
         seen \subseteq seen', filtered \subseteq filtered',
         Holding => \/ Holding' /\ item'.href = item.href
                    \/ \A h \in Lasting :
                         item.href = h => UidOf(src[h].body, h) \in seen' \cup filtered',
         pc' = "inspect" => item'.data # None
  PROVE  Accounted'
BY KeepsAccounted DEF Accounted

LEMMA FetchAccounted == ASSUME IInv, Accounted, FetchSource  PROVE Accounted'
<1>. DEFINE body == src[item.href].body
            uid == UidOf(body, item.href)
            draft == SourceDraft(uid, body)
            verdict == IF item.uid = uid THEN item.verdict ELSE ListedVerdict(draft)
            cur == IF verdict = "ok"
                   THEN [draft EXCEPT !.dstETag = dstIdx[draft.dstHref]] ELSE draft
            it == [item EXCEPT !.uid = uid, !.data = body, !.cur = cur,
                     !.changed = SourceChanged(uid, body)]
<1>1. /\ item.href \in DOMAIN src /\ UNCHANGED <<src, gone, bySrc, todo>>
      /\ item \in Items
  BY DEF FetchSource, IInv, RunOK
<1>2. body \in Bodies
  BY <1>1 DEF IInv, ServersOK, IsMap, Resources
<1>. HIDE DEF draft, verdict, cur
<1>3. it.data = body
  BY <1>1 DEF Items
<1>. HIDE DEF it, body
<1>4. /\ seen \subseteq seen' /\ filtered \subseteq filtered'
      /\ uid \in seen' \cup filtered'
      /\ pc' = "inspect" => item' = it
  BY DEF FetchSource, Decide, it, cur, verdict, draft, body
<1>. QED  BY <1>1, <1>2, <1>3, <1>4, Constants, MarkedAccounted DEF body

LEMMA InspectAccounted == ASSUME IInv, Accounted, InspectDestination  PROVE Accounted'
<1>1. /\ pc = "inspect" /\ UNCHANGED <<src, gone, bySrc, todo, filtered>>
      /\ item \in Items
  BY DEF InspectDestination, IInv, RunOK
<1>2. /\ seen \subseteq seen' /\ pc' # "inspect"
      /\ item.data = None => \/ item.uid \in seen'
                             \/ pc' = "fetch" /\ item'.href = item.href
  BY <1>1 DEF InspectDestination, ReadVerdict, Decide, Items
<1>3. item.data = None => \A h \in Lasting : item.href = h => item.uid = UidOf(src[h].body, h)
  BY <1>1 DEF Accounted
<1>. QED  BY <1>1, <1>2, <1>3, MarkedAccounted DEF Holding

LEMMA SkipAccounted ==
  ASSUME Accounted, pc = "inspect", SkipUnverified, src' = src
  PROVE  Accounted'
<1>1. item.data = None => \A h \in Lasting : item.href = h => item.uid = UidOf(src[h].body, h)
  BY DEF Accounted
<1>. QED  BY <1>1, MarkedAccounted DEF Holding, SkipUnverified

\* A listing shows every item there is; an item that carries the tag the
\* snapshot recorded is the version recorded, and has its identity.
LEMMA AcceptAccounted ==
  ASSUME SrcMode # "none", IInv, Named, src' = src,
         NEW list, list = Listing(src, SrcMode) \/ list = EmptyMap,
         pc' = "listDst", todo' = list, bySrc' = bySrc,
         gone' = Keys \ {UidOf(src[h].body, h) : h \in DOMAIN list}
  PROVE  Accounted'
<1>1. DOMAIN list \subseteq DOMAIN src
  BY EmptyMapType DEF Listing
<1>2. Keys \ SrcUids(src') \subseteq gone'
  BY <1>1 DEF SrcUids
<1>3. \A h \in DOMAIN src : h \in SrcHrefs /\ src[h].body \in Bodies /\ src[h].etag \in ETags
  BY DEF IInv, ServersOK, IsMap, Resources
<1>4. CASE list = EmptyMap
  <2>1. gone' = Keys
    BY <1>4, EmptyMapType
  <2>2. Lasting' = {}
    BY <1>3, <2>1, UidOfType DEF Lasting
  <2>. QED  BY <1>2, <2>2 DEF Accounted
<1>5. CASE list = Listing(src, SrcMode)
  <2>1. DOMAIN list = DOMAIN src /\ \A h \in DOMAIN src : list[h] = Tagged(src[h].etag, SrcMode)
    BY <1>5 DEF Listing
  <2>2. ASSUME NEW h \in DOMAIN src, SourceUnchanged(h)'
        PROVE  bySrc[h].uid = UidOf(src[h].body, h)
    <3>1. h \in DOMAIN bySrc /\ bySrc[h].etag = list[h] /\ list[h] # Reissued
      BY <2>2 DEF SourceUnchanged, SameTag
    <3>2. list[h] = src[h].etag
      BY <2>1, <3>1, Constants DEF Tagged, TagModes
    <3>. QED  BY <3>1, <3>2 DEF Named, Stands
  <2>. QED  BY <1>2, <2>1, <2>2 DEF Accounted, Lasting
<1>. QED  BY <1>4, <1>5

LEMMA StepDeletes ==
  ASSUME SrcMode # "none", DistinctItems, IInv, Vouched, DeleteInv, [Next]_vars
  PROVE  DeleteInv'
<1>1. ASSUME NEW o, Return(o)  PROVE DeleteInv'
  <2>1. bySrc' = EmptyMap /\ pc' \notin Past
    BY <1>1 DEF Return, Past, Loop
  <2>. QED  BY <2>1, StepNamed DEF DeleteInv
<1>2. CASE Start \/ Finish \/ Crash \/ ResetState
  <2>1. pc' \notin Past /\ (bySrc' = bySrc \/ Start \/ bySrc' = EmptyMap)
    BY <1>2 DEF Start, Finish, Crash, ClearRun, ResetState, Past, Loop
  <2>. QED  BY <2>1, StepNamed DEF DeleteInv
<1>3. CASE ListSource \/ SourceListsEmpty
  <2>1. PICK list \in {Listing(src, SrcMode), EmptyMap} : AcceptSource(list)
    BY <1>3 DEF ListSource, SourceListsEmpty
  <2>2. src' = src
    BY <1>3 DEF ListSource, SourceListsEmpty
  <2>3. CASE bySrc' = bySrc /\ pc' = "listDst" /\ todo' = list
             /\ gone' = Keys \ {UidOf(src[h].body, h) : h \in DOMAIN list}
    BY <2>2, <2>3, StepNamed, AcceptAccounted DEF DeleteInv
  <2>. QED  BY <1>1, <2>1, <2>3 DEF AcceptSource
<1>4. ASSUME pc \in Past, bySrc' = bySrc, Accounted => Accounted'  PROVE DeleteInv'
  BY <1>4, StepNamed DEF DeleteInv
<1>5. CASE ListDestination \/ DestinationListsEmpty
  <2>1. PICK list : AcceptDestination(list)
    BY <1>5 DEF ListDestination, DestinationListsEmpty
  <2>2. pc = "listDst" /\ src' = src
    BY <1>5 DEF ListDestination, DestinationListsEmpty
  <2>3. CASE pc' = "next" /\ UNCHANGED <<bySrc, todo, seen, filtered, item, gone>>
    BY <1>4, <2>2, <2>3, MarkedAccounted DEF Past, Holding
  <2>. QED  BY <1>1, <2>1, <2>3 DEF AcceptDestination
<1>6. ASSUME NEW h \in SrcHrefs, Visit(h)  PROVE DeleteInv'
  BY <1>4, <1>6, VisitAccounted DEF Visit, Past, Loop
<1>7. CASE FetchSource
  BY <1>4, <1>7, FetchAccounted DEF FetchSource, Past, Loop
<1>8. CASE InspectDestination
  BY <1>4, <1>8, InspectAccounted DEF InspectDestination, Past, Loop
<1>9. CASE InspectGone \/ InspectFails
  BY <1>4, <1>9, SkipAccounted DEF InspectGone, InspectFails, SkipUnverified, Past, Loop
<1>10. CASE PutMirror \/ ReadBack \/ ReadBackGone \/ ReadBackFails
  <2>1. /\ pc \in {"put", "readback"} /\ pc' \in {"readback", "next"}
        /\ UNCHANGED <<src, gone, bySrc, todo, seen, filtered>>
    BY <1>10 DEF PutMirror, ReadBack, ReadBackGone, ReadBackFails, RecordPut
  <2>. QED  BY <1>4, <2>1, MarkedAccounted DEF Past, Loop, Holding
<1>11. ASSUME NEW uid \in Keys, SweepDelete(uid) \/ SweepForget(uid)  PROVE DeleteInv'
  <2>1. pc = "next" /\ UNCHANGED <<src, gone, bySrc, todo, seen, filtered, pc, item>>
    BY <1>11 DEF SweepDelete, SweepForget, Doomed
  <2>. QED  BY <1>4, <2>1, MarkedAccounted DEF Past, Loop, Holding
<1>12. CASE \/ FetchSourceGone \/ Complete \/ CallFails \/ PutLost
            \/ \E uid \in Keys : SweepDeleteGone(uid) \/ DeleteLost(uid)
  BY <1>1, <1>12 DEF FetchSourceGone, Complete, CallFails, PutLost, SweepDeleteGone, DeleteLost
<1>13. CASE SourceUser
  <2>1. UNCHANGED <<pc, bySrc>>
    BY <1>13 DEF SourceUser, SrcRemove, SrcWrite, UserEdit, engineVars
  <2>. QED  BY <1>13, <2>1, StepNamed, UsersAccounted DEF DeleteInv
<1>14. CASE DestinationUser \/ UNCHANGED vars
  <2>1. UNCHANGED <<src, gone, bySrc, todo, seen, filtered, pc, item>>
    BY <1>14 DEF DestinationUser, DstRemove, DstWrite, UserEdit, engineVars, vars
  <2>. QED  BY <2>1, StepNamed DEF DeleteInv, Accounted, Lasting, Holding, SourceUnchanged
<1>. QED
  BY <1>2, <1>3, <1>5, <1>6, <1>7, <1>8, <1>9, <1>10, <1>11, <1>12, <1>13, <1>14
  DEF Next, RunStep, FaultStep, UserStep, SourceUser, DestinationUser

LEMMA DoomedGone == IInv /\ DeleteInv => DeletesOnlyGone
<1>. SUFFICES ASSUME IInv, DeleteInv, NEW k \in Doomed, k \notin gone  PROVE FALSE
  BY DEF DeletesOnlyGone
<1>1. pc = "next" /\ todo = EmptyMap /\ k \in DOMAIN st /\ k \notin seen \cup filtered
  BY DEF Doomed
<1>2. k \in Keys /\ DOMAIN todo = {}
  BY <1>1, EmptyMapType DEF IInv, RunOK, StateOK, IsMap
<1>3. Accounted
  BY <1>1 DEF DeleteInv, Past, Loop
<1>4. PICK h \in DOMAIN src : UidOf(src[h].body, h) = k
  BY <1>2, <1>3 DEF Accounted, SrcUids
<1>. QED  BY <1>1, <1>2, <1>3, <1>4 DEF Accounted, Lasting, Holding

LEMMA DeleteInvariant ==
  ASSUME SrcMode # "none", DistinctItems
  PROVE  Spec => []DeleteInv
<1>1. Init => DeleteInv
  BY EmptyMapType DEF Init, DeleteInv, Named, Past, Loop
<1>2. IInv /\ Vouched /\ DeleteInv /\ [Next]_vars => DeleteInv'
  BY StepDeletes
<1>. QED  BY <1>1, <1>2, AlwaysInv, VouchedInvariant, PTL DEF Spec

\* The deletion pass removes only what the source's listing lacked, or the
\* source at some time since (sync.go:112, 135, 162, 226-240): no item that was
\* there all along, whatever could not be read, lies outside the window, or was
\* half done when an earlier run failed.  It needs a source that tags its items
\* (an entry without a tag is taken for unchanged, whatever item is there now)
\* and UIDs that tell its items apart.
THEOREM GoneDeleted ==
  ASSUME SrcMode # "none", DistinctItems
  PROVE  Spec => []DeletesOnlyGone
BY DeleteInvariant, DoomedGone, AlwaysInv, PTL

-----------------------------------------------------------------------------
(* Undisturbed runs.  Without an edit or a fault the servers change only by *)
(* what the run does, one identity at a time; identities do not share a    *)
(* copy, so what a turn of the loop achieved for an item stays achieved.   *)

Uid(h) == UidOf(src[h].body, h)
DistinctCopies == \A j, k \in Keys : DestHref[j] = DestHref[k] => j = k

\* The entry e describes the item at h and its copy as they are now: the copy
\* by its body, or by a tag that vouches for it.
Fits(e, h) ==
  /\ e.dstHref \in DOMAIN dst
  /\ e.srcHash \in {None, src[h].body}
  /\ \/ e.dstHash \in {None, dst[e.dstHref].body}
     \/ DstMode = "stable" /\ e.dstHash # None /\ dst[e.dstHref].etag = e.dstETag
Kept(m, h) == Uid(h) \in DOMAIN m /\ Fits(m[Uid(h)], h)
\* What a run leaves nothing to do on.
Quiet(m) ==
  /\ \A h \in DOMAIN src : src[h].body.in => Kept(m, h)
  /\ DOMAIN m \subseteq SrcUids(src)

\* The destination's listing still tells the truth about the copy of h.
Untouched(h) ==
  LET d == DestHref[Uid(h)]
  IN  /\ d \in DOMAIN dstIdx <=> d \in DOMAIN dst
      /\ d \in DOMAIN dst => dstIdx[d] = Tagged(dst[d].etag, DstMode)

Held == pc \in {"inspect", "fetch", "put", "readback"}
Progress ==
  /\ gone \cap SrcUids(src) = {}
  /\ \A h \in DOMAIN src : src[h].body.in =>
       Kept(st, h) \/ h \in DOMAIN todo \/ (Held /\ item.href = h) \/ unverified
  /\ seen \cup filtered \subseteq SrcUids(src)
  /\ \A h \in DOMAIN todo :
       /\ h \in DOMAIN src
       /\ SourceUnchanged(h) => bySrc[h].uid = Uid(h) /\ st[Uid(h)].srcHash \in {None, src[h].body}
       /\ pc \in Loop => Untouched(h)
InTurn ==
  Held =>
    /\ item.href \in DOMAIN src \ DOMAIN todo
    /\ pc # "readback" => Untouched(item.href)
    /\ pc # "fetch" => item.uid = Uid(item.href)
    /\ pc \in {"put", "readback"} \/ (pc = "inspect" /\ item.data # None) =>
         item.data = src[item.href].body /\ item.data.in /\ item.cur.srcHash = item.data
    /\ pc = "inspect" => item.cur.srcHash \in {None, src[item.href].body}
    /\ pc = "readback" => item.cur.dstHref \in DOMAIN dst
\* In a run after an undisturbed one, every verdict is "ok".
Still ==
  /\ pc \notin {"put", "readback"}
  /\ Quiet(IF pc = "idle" THEN saved ELSE st)
  /\ pc = "fetch" /\ src[item.href].body.in => item.uid = None
  /\ pc = "inspect" =>
       /\ ~item.changed
       /\ src[item.href].body.in => item.cur.dstHash \in {None, dst[item.cur.dstHref].body}
Snapped ==
  pc = "listSrc" =>
    \A h \in DOMAIN bySrc :
      /\ bySrc[h].uid \in DOMAIN st
      /\ st[bySrc[h].uid].srcHref = h /\ st[bySrc[h].uid].srcETag = bySrc[h].etag
Calm ==
  /\ calm # 0 /\ pc \in Past => Progress /\ InTurn
  /\ calm # 0 /\ pc = "finish" /\ status = "ok" => Quiet(st)
  /\ calm = 2 => Still
CalmInv == DistinctUids(src) /\ Snapped /\ Calm

LEMMA StepDistinct ==
  ASSUME DistinctItems, IInv, DistinctUids(src), [Next]_vars
  PROVE  DistinctUids(src')
<1>1. CASE src' = src
  BY <1>1
<1>2. ASSUME NEW g \in SrcHrefs, SrcRemove(g)  PROVE DistinctUids(src')
  BY <1>2 DEF SrcRemove, MapDelete, DistinctUids
<1>3. ASSUME NEW g \in SrcHrefs, NEW b \in SrcBodies, SrcWrite(g, b)  PROVE DistinctUids(src')
  <2>1. PICK t : src' = MapSet(src, g, [body |-> b, etag |-> t])
    BY <1>3 DEF SrcWrite
  <2>2. /\ DOMAIN src' = DOMAIN src \cup {g} /\ src'[g].body = b
        /\ \A h \in DOMAIN src : h # g => src'[h] = src[h]
    BY <2>1 DEF MapSet
  <2>3. \A h \in DOMAIN src : h # g => UidOf(src[h].body, h) # UidOf(b, g)
    <3>1. CASE g \in DOMAIN src
      <4>1. UidOf(b, g) = UidOf(src[g].body, g)
        BY <1>3, <3>1 DEF SrcWrite, UidOf
      <4>. QED  BY <3>1, <4>1 DEF DistinctUids
    <3>2. CASE g \notin DOMAIN src
      BY <1>3, <3>2, NewUid DEF SrcUids
    <3>. QED  BY <3>1, <3>2
  <2>. QED  BY <2>2, <2>3 DEF DistinctUids
<1>. QED  BY <1>1, <1>2, <1>3, ServerSteps DEF SourceUser

LEMMA StepSnapped == ASSUME IInv, Snapped, [Next]_vars  PROVE Snapped'
<1>1. CASE Start
  <2>1. st' = saved /\ bySrc' \in SnapshotBySrcHref(saved)
    BY <1>1 DEF Start
  <2>. DEFINE homes == {saved[k].srcHref : k \in DOMAIN saved}
  <2>2. PICK f \in [homes -> DOMAIN saved] :
          /\ \A h \in homes : saved[f[h]].srcHref = h
          /\ bySrc' = [h \in homes |-> [uid |-> f[h], etag |-> saved[f[h]].srcETag]]
    BY <2>1 DEF SnapshotBySrcHref
  <2>. HIDE DEF homes
  <2>3. \A h \in homes : f[h] \in DOMAIN saved /\ saved[f[h]].srcHref = h
    BY <2>2
  <2>4. DOMAIN bySrc' = homes
    BY <2>2
  <2>5. \A h \in homes : bySrc'[h].uid = f[h] /\ bySrc'[h].etag = saved[f[h]].srcETag
    BY <2>2
  <2>. QED  BY <2>1, <2>3, <2>4, <2>5 DEF Snapped
<1>2. CASE UNCHANGED <<pc, st, bySrc>>
  BY <1>2 DEF Snapped
<1>3. CASE pc' # "listSrc"
  BY <1>3 DEF Snapped
<1>. QED
  BY <1>1, <1>2, <1>3
  DEF Next, RunStep, FaultStep, UserStep, ListSource, ListDestination, AcceptSource,
      AcceptDestination, Visit, FetchSource, FetchSourceGone, InspectDestination, InspectGone,
      SkipUnverified, Decide, PutMirror, ReadBack, ReadBackGone, RecordPut, SweepDelete,
      SweepDeleteGone, SweepForget, Doomed, Complete, Finish, Return, CallFails, InspectFails,
      ReadBackFails, PutLost, DeleteLost, SourceListsEmpty, DestinationListsEmpty, Crash,
      SrcRemove, SrcWrite, DstRemove, DstWrite, UserEdit, ResetState, engineVars, vars

\* What the listing says of an entry of h, and what follows from it.
LEMMA ListedFits ==
  ASSUME NEW h, NEW e, Untouched(h), e.dstHref = DestHref[Uid(h)],
         e.srcHash \in {None, src[h].body}, ListedVerdict(e) = "ok"
  PROVE  Fits(e, h)
BY Constants DEF ListedVerdict, Untouched, Fits, SameTag, Tagged, TagModes

LEMMA FitsListed ==
  ASSUME IInv, NEW h, NEW e, Untouched(h), e.dstHref = DestHref[Uid(h)], Fits(e, h)
  PROVE  /\ ListedVerdict(e) \in {"ok", "unchecked"}
         /\ ListedVerdict(e) = "unchecked" => e.dstHash \in {None, dst[e.dstHref].body}
<1>1. e.dstHref \in DOMAIN dst /\ e.dstHref \in DOMAIN dstIdx
  BY DEF Fits, Untouched
<1>2. dst[e.dstHref].etag \in ETags
  BY <1>1 DEF IInv, ServersOK, IsMap, Resources
<1>. QED  BY <1>1, <1>2, ETagsReal DEF ListedVerdict, Untouched, Fits, SameTag, Tagged

\* A step that works on the identity k and leaves the rest alone.
Elsewhere(k) ==
  /\ k \in Keys /\ src' = src
  /\ \A j : j # k => /\ j \in DOMAIN st' <=> j \in DOMAIN st
                     /\ j \in DOMAIN st => st'[j] = st[j]
  /\ \A d : d # DestHref[k] => /\ d \in DOMAIN dst' <=> d \in DOMAIN dst
                               /\ d \in DOMAIN dst => dst'[d] = dst[d]

LEMMA KeptElsewhere ==
  ASSUME DistinctCopies, IInv, NEW k, Elsewhere(k), NEW h \in DOMAIN src, Uid(h) # k
  PROVE  Kept(st, h) => Kept(st, h)'
<1>1. Uid(h) \in Keys
  <2>1. h \in SrcHrefs /\ src[h].body \in Bodies
    BY DEF IInv, ServersOK, IsMap, Resources
  <2>. QED  BY <2>1, UidOfType DEF Uid
<1>2. Uid(h) \in DOMAIN st => st[Uid(h)].dstHref # DestHref[k]
  BY <1>1 DEF IInv, RunOK, HomesOK, DistinctCopies, Elsewhere
<1>. QED  BY <1>2 DEF Kept, Fits, Uid, Elsewhere

LEMMA UntouchedElsewhere ==
  ASSUME DistinctCopies, IInv, NEW k, Elsewhere(k), dstIdx' = dstIdx, NEW h \in DOMAIN src,
         Uid(h) # k, Untouched(h)
  PROVE  Untouched(h)'
<1>1. Uid(h) \in Keys
  <2>1. h \in SrcHrefs /\ src[h].body \in Bodies
    BY DEF IInv, ServersOK, IsMap, Resources
  <2>. QED  BY <2>1, UidOfType DEF Uid
<1>2. DestHref[Uid(h)] # DestHref[k]
  BY <1>1 DEF DistinctCopies, Elsewhere
<1>. QED  BY <1>2 DEF Untouched, Uid, Elsewhere

\* A turn of the loop: the item of k is kept, held or given up on after it.
LEMMA TurnProgress ==
  ASSUME DistinctCopies, IInv, Progress, pc \in Loop, pc' \in Loop,
         UNCHANGED <<bySrc, dstIdx, gone>>, unverified => unverified',
         NEW k, Elsewhere(k), Held => Uid(item.href) = k,
         \A h \in DOMAIN todo' : h \in DOMAIN todo /\ todo'[h] = todo[h] /\ Uid(h) # k,
         \A h \in DOMAIN todo : h \in DOMAIN todo' \/ Uid(h) = k,
         seen' \cup filtered' \subseteq seen \cup filtered \cup (SrcUids(src) \cap {k}),
         \A h \in DOMAIN src : Uid(h) = k /\ src[h].body.in =>
            Kept(st, h)' \/ (Held' /\ item'.href = h) \/ unverified'
  PROVE  Progress'
<1>1. src' = src /\ SrcUids(src') = SrcUids(src) /\ \A h : Uid(h)' = Uid(h)
  BY DEF Elsewhere, Uid
<1>2. gone' \cap SrcUids(src') = {} /\ seen' \cup filtered' \subseteq SrcUids(src')
  BY <1>1 DEF Progress
<1>3. ASSUME NEW h \in DOMAIN src, src[h].body.in
      PROVE  Kept(st, h)' \/ h \in DOMAIN todo' \/ (Held' /\ item'.href = h) \/ unverified'
  <2>1. CASE Uid(h) = k
    BY <1>3, <2>1
  <2>2. CASE Uid(h) # k
    BY <1>3, <2>2, KeptElsewhere DEF Progress
  <2>. QED  BY <2>1, <2>2
<1>4. ASSUME NEW h \in DOMAIN todo'
      PROVE  /\ h \in DOMAIN src
             /\ SourceUnchanged(h)' =>
                  bySrc[h].uid = Uid(h) /\ st'[Uid(h)].srcHash \in {None, src[h].body}
             /\ Untouched(h)'
  <2>1. h \in DOMAIN todo /\ todo'[h] = todo[h] /\ Uid(h) # k /\ h \in DOMAIN src
    BY <1>4 DEF Progress
  <2>2. SourceUnchanged(h)' <=> SourceUnchanged(h)
    BY <2>1 DEF SourceUnchanged
  <2>3. SourceUnchanged(h) => bySrc[h].uid \in DOMAIN st
    <3>1. todo # EmptyMap
      BY <2>1, EmptyMapType
    <3>. QED  BY <3>1 DEF SourceUnchanged, IInv, RunOK, SnapshotOK
  <2>4. SourceUnchanged(h) => /\ bySrc[h].uid = Uid(h)
                              /\ st'[Uid(h)].srcHash \in {None, src[h].body}
    BY <2>1, <2>3 DEF Progress, Elsewhere
  <2>5. Untouched(h)'
    BY <2>1, UntouchedElsewhere DEF Progress
  <2>. QED  BY <2>1, <2>2, <2>4, <2>5
<1>. QED  BY <1>1, <1>2, <1>3, <1>4 DEF Progress

\* The entry of k is left as it was, or says what the item and its copy are.
LEMMA QuietElsewhere ==
  ASSUME DistinctCopies, IInv, Quiet(st), NEW k, Elsewhere(k), DOMAIN st' \subseteq SrcUids(src),
         UNCHANGED <<st, dst>> \/ \A h \in DOMAIN src : Uid(h) = k => Kept(st, h)'
  PROVE  Quiet(st)'
<1>1. src' = src /\ SrcUids(src') = SrcUids(src) /\ \A h : Uid(h)' = Uid(h)
  BY DEF Elsewhere, Uid
<1>2. ASSUME NEW h \in DOMAIN src, Kept(st, h)  PROVE Kept(st, h)'
  <2>1. CASE UNCHANGED <<st, dst>>
    BY <1>1, <1>2, <2>1 DEF Kept, Fits
  <2>2. CASE \A g \in DOMAIN src : Uid(g) = k => Kept(st, g)'
    BY <1>2, <2>2, KeptElsewhere
  <2>. QED  BY <2>1, <2>2
<1>. QED  BY <1>1, <1>2 DEF Quiet

\* In an undisturbed run, the state of the loop at a turn that works on k.
Turn(k) ==
  /\ calm # 0 /\ pc \in Loop /\ pc' \in Loop
  /\ Elsewhere(k) /\ (Held => Uid(item.href) = k)
  /\ UNCHANGED <<saved, bySrc, dstIdx, gone, calm>>
  /\ unverified => unverified'
  /\ \A h \in DOMAIN todo' : h \in DOMAIN todo /\ todo'[h] = todo[h] /\ Uid(h) # k
  /\ \A h \in DOMAIN todo : h \in DOMAIN todo' \/ Uid(h) = k
  /\ seen' \cup filtered' \subseteq seen \cup filtered \cup (SrcUids(src) \cap {k})

\* The item of a turn is the only one of its identity, so no other turn
\* disturbs it.
LEMMA HeldAlone ==
  ASSUME DistinctUids(src), IInv, Progress, InTurn, pc \in Loop, Held
  PROVE  /\ item.href \in DOMAIN src /\ Uid(item.href) \in Keys
         /\ Uid(item.href) \in SrcUids(src)
         /\ \A h \in DOMAIN todo : Uid(h) # Uid(item.href)
         /\ \A h \in DOMAIN src : Uid(h) = Uid(item.href) => h = item.href
<1>1. item.href \in DOMAIN src /\ item.href \notin DOMAIN todo
  BY DEF InTurn
<1>2. item.href \in SrcHrefs /\ src[item.href].body \in Bodies
  BY <1>1 DEF IInv, ServersOK, IsMap, Resources
<1>3. \A h \in DOMAIN src : Uid(h) = Uid(item.href) => h = item.href
  BY <1>1 DEF DistinctUids, Uid
<1>. QED  BY <1>1, <1>2, <1>3, UidOfType DEF Progress, Uid, SrcUids

\* The step of the loop that ends a turn, or goes on with it.
LEMMA TurnCalm ==
  ASSUME DistinctCopies, IInv, Calm, NEW k, Turn(k), DistinctUids(src),
         \A h \in DOMAIN src : Uid(h) = k /\ src[h].body.in =>
            Kept(st, h)' \/ (Held' /\ item'.href = h) \/ unverified',
         InTurn',
         calm = 2 =>
           /\ pc' \notin {"put", "readback"}
           /\ DOMAIN st' \subseteq SrcUids(src)
           /\ UNCHANGED <<st, dst>> \/ \A h \in DOMAIN src : Uid(h) = k => Kept(st, h)'
           /\ pc' = "fetch" /\ src[item'.href].body.in => item'.uid = None
           /\ pc' = "inspect" =>
                /\ ~item'.changed
                /\ src[item'.href].body.in =>
                     item'.cur.dstHash \in {None, dst[item'.cur.dstHref].body}
                /\ dst' = dst
  PROVE  Calm'
<1>1. pc \in Past /\ pc' \in Past /\ pc' # "finish" /\ pc # "idle" /\ pc' # "idle"
  BY DEF Turn, Past, Loop
<1>2. Progress'
  BY <1>1, TurnProgress DEF Calm, Turn
<1>3. ASSUME calm = 2  PROVE Quiet(st)'
  <2>1. Quiet(st)
    BY <1>1, <1>3 DEF Calm, Still
  <2>. QED  BY <1>3, <2>1, QuietElsewhere DEF Turn
<1>4. calm = 2 => Still'
  BY <1>1, <1>3 DEF Still, Turn, Elsewhere
<1>. QED  BY <1>1, <1>2, <1>4 DEF Calm, Turn

LEMMA VisitCalm ==
  ASSUME DistinctCopies, IInv, Calm, DistinctUids(src), calm # 0, NEW h \in SrcHrefs, Visit(h)
  PROVE  Calm'
<1>. DEFINE uid == bySrc[h].uid
            k == Uid(h)
            meta == [NoItem EXCEPT !.href = h, !.tag = todo[h]]
            listed == [meta EXCEPT !.uid = uid, !.cur = st[uid]]
            missing == [meta EXCEPT !.uid = uid, !.verdict = "missing"]
<1>1. /\ h \in DOMAIN todo /\ pc = "next" /\ todo # EmptyMap
      /\ UNCHANGED <<src, dst, saved, bySrc, dstIdx, filtered, unverified, calm, gone>>
      /\ todo' = MapDelete(todo, h)
  BY EmptyMapType DEF Visit
<1>2. /\ \A g \in DOMAIN todo' : g \in DOMAIN todo /\ todo'[g] = todo[g] /\ g # h
      /\ \A g \in DOMAIN todo : g # h => g \in DOMAIN todo'
  BY <1>1 DEF MapDelete
<1>3. Progress /\ InTurn
  BY <1>1 DEF Calm, Past, Loop
<1>4. /\ h \in DOMAIN src /\ Untouched(h)
      /\ SourceUnchanged(h) => uid = k /\ st[k].srcHash \in {None, src[h].body}
  BY <1>1, <1>3 DEF Progress, Loop
<1>5. k \in Keys /\ k \in SrcUids(src)
  <2>1. src[h].body \in Bodies
    BY <1>4 DEF IInv, ServersOK, IsMap, Resources
  <2>. QED  BY <1>4, <2>1, UidOfType DEF Uid, SrcUids
<1>6. \A g \in DOMAIN src : Uid(g) = k => g = h
  BY <1>4 DEF DistinctUids, Uid
<1>7. SourceUnchanged(h) => /\ k \in DOMAIN st /\ st[k] \in Entries
                            /\ st[k].dstHref = DestHref[k]
  BY <1>1, <1>4
  DEF SourceUnchanged, IInv, RunOK, SnapshotOK, StateOK, IsMap, HomesOK
<1>8. /\ meta.href = h /\ listed.href = h /\ missing.href = h
      /\ listed.data = None /\ listed.uid = uid /\ listed.cur = st[uid] /\ ~listed.changed
      /\ meta.uid = None
  BY DEF NoItem
<1>. HIDE DEF meta, listed, missing
<1>9. \/ /\ SourceUnchanged(h) /\ ListedVerdict(st[uid]) = "ok" /\ pc' = pc
         /\ seen' = seen \cup {uid}
         /\ st' = [st EXCEPT ![uid].dstETag = dstIdx[st[uid].dstHref]]
      \/ /\ SourceUnchanged(h) /\ ListedVerdict(st[uid]) = "unchecked"
         /\ pc' = "inspect" /\ item' = listed /\ seen' = seen /\ st' = st
      \/ /\ SourceUnchanged(h) /\ ListedVerdict(st[uid]) = "missing"
         /\ pc' = "fetch" /\ item' = missing /\ seen' = seen /\ st' = st
      \/ /\ ~SourceUnchanged(h)
         /\ pc' = "fetch" /\ item' = meta /\ seen' = seen /\ st' = st
  BY DEF Visit, meta, listed, missing
<1>10. st' = st
  BY VisitSame
<1>. HIDE DEF k, uid
<1>11. Turn(k)
  <2>1. Elsewhere(k)
    BY <1>1, <1>5, <1>10 DEF Elsewhere
  <2>2. \A g \in DOMAIN todo' : Uid(g) # k
    <3>1. \A g \in DOMAIN todo' : g \in DOMAIN src
      BY <1>2, <1>3 DEF Progress
    <3>. QED  BY <1>2, <1>6, <3>1
  <2>3. \A g \in DOMAIN todo : g \in DOMAIN todo' \/ Uid(g) = k
    BY <1>2 DEF k
  <2>4. pc' \in Loop /\ seen' \subseteq seen \cup (SrcUids(src) \cap {k})
    BY <1>1, <1>4, <1>5, <1>9 DEF Loop
  <2>. QED  BY <1>1, <1>2, <2>1, <2>2, <2>3, <2>4 DEF Turn, Held, Loop
<1>12. SourceUnchanged(h) /\ ListedVerdict(st[uid]) = "ok" => Kept(st, h)'
  <2>1. SourceUnchanged(h) /\ ListedVerdict(st[uid]) = "ok" => Fits(st[k], h)
    BY <1>4, <1>7, ListedFits DEF k
  <2>. QED  BY <1>1, <1>7, <1>10, <2>1 DEF Kept, Fits, Uid, k
<1>13. Held' => item'.href = h /\ pc' \in {"inspect", "fetch"}
  BY <1>1, <1>8, <1>9 DEF Held
<1>14. InTurn'
  <2>1. Untouched(h)'
    BY <1>1, <1>4 DEF Untouched, Uid
  <2>2. h \notin DOMAIN todo'
    BY <1>2
  <2>3. pc' = "inspect" =>
          item'.uid = k /\ item'.data = None /\ item'.cur.srcHash \in {None, src[h].body}
    BY <1>1, <1>4, <1>8, <1>9
  <2>. QED  BY <1>1, <1>4, <1>13, <2>1, <2>2, <2>3 DEF InTurn, Held, Uid, k
<1>15. \A g \in DOMAIN src : Uid(g) = k /\ src[g].body.in =>
          Kept(st, g)' \/ (Held' /\ item'.href = g) \/ unverified'
  BY <1>6, <1>8, <1>9, <1>12 DEF Held
<1>16. ASSUME calm = 2
       PROVE  /\ DOMAIN st' \subseteq SrcUids(src)
              /\ pc' = "fetch" /\ src[item'.href].body.in => item'.uid = None
              /\ pc' = "inspect" =>
                   /\ ~item'.changed
                   /\ src[item'.href].body.in =>
                        item'.cur.dstHash \in {None, dst[item'.cur.dstHref].body}
  <2>1. Quiet(st)
    BY <1>1, <1>16 DEF Calm, Still
  <2>2. src[h].body.in => Fits(st[k], h)
    BY <1>4, <2>1 DEF Quiet, Kept, k
  <2>3. src[h].body.in /\ SourceUnchanged(h) =>
          /\ ListedVerdict(st[k]) # "missing"
          /\ ListedVerdict(st[k]) = "unchecked" =>
               st[k].dstHash \in {None, dst[st[k].dstHref].body}
    BY <1>4, <1>7, <2>2, FitsListed DEF k
  <2>4. DOMAIN st' \subseteq SrcUids(src)
    BY <1>10, <2>1 DEF Quiet
  <2>. QED  BY <1>1, <1>4, <1>8, <1>9, <2>3, <2>4
<1>17. UNCHANGED <<st, dst>> /\ pc' \notin {"put", "readback"}
  BY <1>1, <1>9, <1>10
<1>. QED  BY <1>11, <1>14, <1>15, <1>16, <1>17, TurnCalm

\* The item in hand is written, or its entry is brought up to date.
LEMMA DecideCalm ==
  ASSUME DistinctCopies, IInv, Calm, DistinctUids(src), calm # 0, pc \in {"fetch", "inspect"},
         UNCHANGED <<src, dst, saved, bySrc, todo, dstIdx, unverified, calm, gone>>,
         NEW it, NEW v, Decide(it, v), it.href = item.href, it.uid = Uid(item.href),
         seen' \cup filtered' \subseteq seen \cup filtered \cup {Uid(item.href)},
         v \notin {"missing", "drifted"} => Fits(it.cur, item.href),
         v \in {"missing", "drifted"} \/ it.changed =>
            /\ it.data = src[item.href].body /\ it.data.in /\ it.cur.srcHash = it.data
            /\ calm # 2
  PROVE  Calm'
<1>0. PICK h : h = item.href
  OBVIOUS
<1>. DEFINE k == Uid(h)
<1>1. Progress /\ InTurn /\ Held /\ pc \in Loop
  BY DEF Calm, Past, Loop, Held
<1>2. /\ h \in DOMAIN src /\ k \in Keys /\ k \in SrcUids(src)
      /\ \A g \in DOMAIN todo : Uid(g) # k
      /\ \A g \in DOMAIN src : Uid(g) = k => g = h
  BY <1>0, <1>1, HeldAlone
<1>3. Untouched(h) /\ h \notin DOMAIN todo
  BY <1>0, <1>1 DEF InTurn
<1>. HIDE DEF k
<1>4. ASSUME pc' = "put", item' = it, st' = st, v \in {"missing", "drifted"} \/ it.changed
      PROVE  Calm'
  <2>1. Turn(k)
    BY <1>0, <1>1, <1>2, <1>4 DEF Turn, Elsewhere, Held, Loop, k
  <2>2. Untouched(h)' /\ Uid(h)' = Uid(h)
    BY <1>3 DEF Untouched, Uid
  <2>3. InTurn'
    BY <1>0, <1>2, <1>3, <1>4, <2>2 DEF InTurn, Held, Uid
  <2>4. \A g \in DOMAIN src : Uid(g) = k => Held' /\ item'.href = g
    BY <1>0, <1>2, <1>4 DEF Held
  <2>. QED  BY <1>4, <2>1, <2>3, <2>4, TurnCalm
<1>5. ASSUME pc' = "next", st' = MapSet(st, k, it.cur), v \notin {"missing", "drifted"}
      PROVE  Calm'
  <2>1. /\ k \in DOMAIN st' /\ st'[k] = it.cur /\ DOMAIN st' = DOMAIN st \cup {k}
        /\ \A j : j # k => /\ j \in DOMAIN st' <=> j \in DOMAIN st
                           /\ j \in DOMAIN st => st'[j] = st[j]
    BY <1>5 DEF MapSet
  <2>2. Turn(k)
    BY <1>0, <1>1, <1>2, <1>5, <2>1 DEF Turn, Elsewhere, Held, Loop, k
  <2>3. InTurn'
    BY <1>5 DEF InTurn, Held
  <2>4. Kept(st, h)'
    BY <1>0, <1>5, <2>1 DEF Kept, Fits, Uid, k
  <2>5. \A g \in DOMAIN src : Uid(g) = k => Kept(st, g)'
    BY <1>2, <2>4
  <2>6. calm = 2 => DOMAIN st' \subseteq SrcUids(src)
    BY <1>1, <1>2, <2>1 DEF Calm, Still, Quiet, Loop
  <2>. QED  BY <1>5, <2>2, <2>3, <2>5, <2>6, TurnCalm
<1>. QED  BY <1>0, <1>4, <1>5 DEF Decide, k

\* The loop goes on with the item in hand.
LEMMA HoldCalm ==
  ASSUME DistinctCopies, IInv, Calm, DistinctUids(src), calm # 0, pc \in {"fetch", "inspect"},
         UNCHANGED <<src, dst, saved, st, bySrc, todo, dstIdx, unverified, calm, gone>>,
         seen' \cup filtered' \subseteq seen \cup filtered \cup {Uid(item.href)},
         pc' \in {"fetch", "inspect"}, item'.href = item.href,
         pc' = "inspect" =>
           /\ item'.uid = Uid(item.href)
           /\ item'.data = src[item.href].body /\ item'.data.in /\ item'.cur.srcHash = item'.data,
         calm = 2 =>
           /\ pc' = "fetch" /\ src[item.href].body.in => item'.uid = None
           /\ pc' = "inspect" =>
                /\ ~item'.changed
                /\ item'.cur.dstHash \in {None, dst[item'.cur.dstHref].body}
  PROVE  Calm'
<1>. DEFINE h == item.href
            k == Uid(h)
<1>1. Progress /\ InTurn /\ Held /\ pc \in Loop
  BY DEF Calm, Past, Loop, Held
<1>2. /\ h \in DOMAIN src /\ k \in Keys /\ k \in SrcUids(src)
      /\ \A g \in DOMAIN todo : Uid(g) # k
      /\ \A g \in DOMAIN src : Uid(g) = k => g = h
  BY <1>1, HeldAlone
<1>3. Untouched(h) /\ h \notin DOMAIN todo
  BY <1>1 DEF InTurn
<1>. HIDE DEF k
<1>4. Turn(k)
  BY <1>1, <1>2 DEF Turn, Elsewhere, Held, Loop, k
<1>5. Untouched(h)' /\ Uid(h)' = Uid(h)
  BY <1>3 DEF Untouched, Uid
<1>6. InTurn'
  BY <1>2, <1>3, <1>5 DEF InTurn, Held, Uid
<1>7. \A g \in DOMAIN src : Uid(g) = k => Held' /\ item'.href = g
  BY <1>2 DEF Held
<1>8. calm = 2 => DOMAIN st' \subseteq SrcUids(src)
  BY <1>1 DEF Calm, Still, Quiet, Loop
<1>. QED  BY <1>4, <1>6, <1>7, <1>8, TurnCalm

\* The loop is done with the item in hand without having touched anything.
LEMMA LeaveCalm ==
  ASSUME DistinctCopies, IInv, Calm, DistinctUids(src), calm # 0, pc \in {"fetch", "inspect"},
         UNCHANGED <<src, dst, saved, st, bySrc, todo, dstIdx, calm, gone>>,
         seen' \cup filtered' \subseteq seen \cup filtered \cup {Uid(item.href)},
         pc' = "next", unverified => unverified', unverified' \/ ~src[item.href].body.in
  PROVE  Calm'
<1>. DEFINE h == item.href
            k == Uid(h)
<1>1. Progress /\ InTurn /\ Held /\ pc \in Loop
  BY DEF Calm, Past, Loop, Held
<1>2. /\ h \in DOMAIN src /\ k \in Keys /\ k \in SrcUids(src)
      /\ \A g \in DOMAIN todo : Uid(g) # k
      /\ \A g \in DOMAIN src : Uid(g) = k => g = h
  BY <1>1, HeldAlone
<1>. HIDE DEF k
<1>3. Turn(k)
  BY <1>1, <1>2 DEF Turn, Elsewhere, Held, Loop, k
<1>4. InTurn'
  BY DEF InTurn, Held
<1>5. calm = 2 => DOMAIN st' \subseteq SrcUids(src)
  BY <1>1 DEF Calm, Still, Quiet, Loop
<1>. QED  BY <1>2, <1>3, <1>4, <1>5, TurnCalm

LEMMA FetchCalm ==
  ASSUME DistinctCopies, IInv, Calm, DistinctUids(src), calm # 0, FetchSource
  PROVE  Calm'
<1>. DEFINE h == item.href
            body == src[item.href].body
            uid == UidOf(body, item.href)
            old == IF uid \in DOMAIN st THEN st[uid] ELSE ZeroEntry
            draft == SourceDraft(uid, body)
            verdict == IF item.uid = uid THEN item.verdict ELSE ListedVerdict(draft)
            cur == IF verdict = "ok"
                   THEN [draft EXCEPT !.dstETag = dstIdx[draft.dstHref]] ELSE draft
            it == [item EXCEPT !.uid = uid, !.data = body, !.cur = cur,
                     !.changed = SourceChanged(uid, body)]
<1>1. /\ pc = "fetch" /\ h \in DOMAIN src /\ item \in Items
      /\ item.uid = None \/ item.verdict \in {"missing", "drifted"}
      /\ UNCHANGED <<src, dst, saved, bySrc, todo, dstIdx, unverified, calm, gone>>
  BY DEF FetchSource, IInv, RunOK, ItemOK
<1>2. Progress /\ InTurn /\ Untouched(h)
  BY <1>1 DEF Calm, Past, Loop, InTurn, Held
<1>3. uid # None /\ uid = Uid(h) /\ body \in Bodies
  <2>1. src[item.href] \in Resources /\ item.href \in SrcHrefs
    BY <1>1 DEF IInv, ServersOK, IsMap
  <2>2. body \in Bodies
    BY <2>1 DEF Resources
  <2>. QED  BY <2>1, <2>2, UidOfType, Constants DEF Uid
<1>4. old \in Drafts
  BY EntryIsDraft DEF ZeroEntry, Drafts, Tags, IInv, RunOK, StateOK, IsMap
<1>5. old.dstHref \in DOMAIN dstIdx => uid \in DOMAIN st /\ old.dstHref = DestHref[uid]
  <2>1. CASE uid \in DOMAIN st
    BY <2>1 DEF IInv, RunOK, HomesOK
  <2>2. CASE uid \notin DOMAIN st
    BY <2>2, Constants DEF ZeroEntry, IInv, RunOK, ListingsOK, IsMap
  <2>. QED  BY <2>1, <2>2
<1>6. calm = 2 /\ body.in =>
        /\ item.uid = None /\ uid \in DOMAIN st /\ Fits(old, h) /\ old.dstHref = DestHref[uid]
        /\ ~SourceChanged(uid, body)
  <2>. SUFFICES ASSUME calm = 2, body.in
                PROVE  /\ item.uid = None /\ uid \in DOMAIN st /\ Fits(old, h)
                       /\ old.dstHref = DestHref[uid] /\ ~SourceChanged(uid, body)
    OBVIOUS
  <2>1. item.uid = None /\ Kept(st, h)
    BY <1>1 DEF Calm, Still, Quiet
  <2>2. uid \in DOMAIN st /\ Fits(st[uid], h)
    BY <1>3, <2>1 DEF Kept
  <2>3. st[uid].dstHref = DestHref[uid]
    BY <2>2 DEF IInv, RunOK, HomesOK
  <2>. QED  BY <2>1, <2>2, <2>3 DEF SourceChanged, Fits
<1>. HIDE DEF old, uid
<1>7. /\ draft \in Drafts /\ draft.srcHash = body
      /\ draft.dstHref = old.dstHref /\ draft.dstETag = old.dstETag /\ draft.dstHash = old.dstHash
  <2>1. draft = [old EXCEPT !.srcHref = item.href, !.srcETag = item.tag, !.srcHash = body]
    BY DEF SourceDraft, old, uid
  <2>2. item.tag \in Tags /\ item.href \in SrcHrefs \cup {None}
    BY <1>1 DEF Items
  <2>. QED  BY <1>3, <1>4, <2>1, <2>2 DEF Drafts
<1>. HIDE DEF draft
<1>8. verdict \in {"missing", "drifted", "ok", "unchecked"}
  BY <1>1, <1>3 DEF ListedVerdict
<1>9. verdict \notin {"missing", "drifted"} => verdict = ListedVerdict(draft)
  BY <1>1, <1>3
<1>10. verdict = "ok" => Fits(draft, h) /\ dstIdx[draft.dstHref] = draft.dstETag
  <2>. SUFFICES ASSUME verdict = "ok"  PROVE Fits(draft, h) /\ dstIdx[draft.dstHref] = draft.dstETag
    OBVIOUS
  <2>1. ListedVerdict(draft) = "ok"
    BY <1>9
  <2>2. draft.dstHref \in DOMAIN dstIdx /\ dstIdx[draft.dstHref] = draft.dstETag
    BY <2>1 DEF ListedVerdict, SameTag
  <2>. QED  BY <1>2, <1>3, <1>5, <1>7, <2>1, <2>2, ListedFits
<1>11. calm = 2 /\ body.in =>
         /\ verdict \notin {"missing", "drifted"}
         /\ verdict = "unchecked" => draft.dstHash \in {None, dst[draft.dstHref].body}
  <2>. SUFFICES ASSUME calm = 2, body.in
                PROVE  /\ verdict \notin {"missing", "drifted"}
                       /\ verdict = "unchecked" => draft.dstHash \in {None, dst[draft.dstHref].body}
    OBVIOUS
  <2>1. Fits(draft, h) /\ draft.dstHref = DestHref[Uid(h)]
    BY <1>3, <1>6, <1>7 DEF Fits
  <2>2. verdict = ListedVerdict(draft)
    BY <1>3, <1>6
  <2>. QED  BY <1>2, <2>1, <2>2, FitsListed
<1>. HIDE DEF verdict
<1>12. cur = draft
  BY <1>7, <1>10 DEF Drafts
<1>. HIDE DEF cur, body
<1>13. /\ it.cur = draft /\ it.uid = uid /\ it.data = body /\ it.href = h
       /\ it.changed = SourceChanged(uid, body)
  BY <1>1, <1>12 DEF Items
<1>. HIDE DEF it
<1>14. \/ /\ ~body.in /\ filtered' = filtered \cup {uid} /\ seen' = seen
          /\ pc' = "next" /\ st' = st
       \/ /\ body.in /\ filtered' = filtered /\ seen' = seen \cup {uid}
          /\ verdict = "unchecked" /\ pc' = "inspect" /\ item' = it /\ st' = st
       \/ /\ body.in /\ filtered' = filtered /\ seen' = seen \cup {uid}
          /\ verdict # "unchecked" /\ Decide(it, verdict)
  BY DEF FetchSource, it, cur, verdict, draft, uid, body
<1>15. CASE ~body.in /\ filtered' = filtered \cup {uid} /\ seen' = seen /\ pc' = "next" /\ st' = st
  BY <1>1, <1>3, <1>15, LeaveCalm DEF body
<1>16. CASE /\ body.in /\ filtered' = filtered /\ seen' = seen \cup {uid}
            /\ verdict = "unchecked" /\ pc' = "inspect" /\ item' = it /\ st' = st
  BY <1>1, <1>3, <1>6, <1>7, <1>11, <1>13, <1>16, HoldCalm DEF body
<1>17. CASE /\ body.in /\ filtered' = filtered /\ seen' = seen \cup {uid}
            /\ verdict # "unchecked" /\ Decide(it, verdict)
  <2>1. verdict \notin {"missing", "drifted"} => Fits(it.cur, h)
    BY <1>8, <1>10, <1>13, <1>17
  <2>2. verdict \in {"missing", "drifted"} \/ it.changed => calm # 2
    BY <1>6, <1>11, <1>13, <1>17
  <2>. QED  BY <1>1, <1>3, <1>7, <1>13, <1>17, <2>1, <2>2, DecideCalm DEF body
<1>. QED  BY <1>14, <1>15, <1>16, <1>17

LEMMA InspectCalm ==
  ASSUME DistinctCopies, IInv, Calm, DistinctUids(src), calm # 0, InspectDestination
  PROVE  Calm'
<1>. DEFINE h == item.href
            home == item.cur.dstHref
            verdict == ReadVerdict(item.cur, dst[home].body)
            etag == IF dstIdx[home] # NoTag THEN dstIdx[home]
                    ELSE Tagged(dst[home].etag, DstMode)
            it == IF verdict = "ok"
                  THEN [item EXCEPT !.cur.dstETag = etag, !.cur.dstHash = dst[home].body]
                  ELSE item
            back == [item EXCEPT !.verdict = verdict, !.cur = ZeroEntry]
<1>1. /\ pc = "inspect" /\ home \in DOMAIN dst /\ item \in Items /\ item.cur \in Drafts
      /\ UNCHANGED <<src, dst, saved, bySrc, todo, dstIdx, filtered, unverified, calm, gone>>
      /\ item.data = None => ~item.changed
  BY DEF InspectDestination, IInv, RunOK, ItemOK, Items
<1>2. /\ item.uid = Uid(h)
      /\ item.cur.srcHash \in {None, src[h].body}
      /\ item.data # None =>
           item.data = src[h].body /\ item.data.in /\ item.cur.srcHash = item.data
  BY <1>1 DEF Calm, Past, Loop, InTurn, Held
<1>3. calm = 2 => ~item.changed /\ (src[h].body.in => verdict = "ok")
  BY <1>1 DEF Calm, Still, ReadVerdict
<1>. HIDE DEF etag
<1>4. /\ it.href = h /\ it.uid = item.uid /\ it.data = item.data /\ it.changed = item.changed
      /\ it.cur.srcHash = item.cur.srcHash
      /\ verdict = "ok" => it.cur.dstHref = home /\ it.cur.dstHash = dst[home].body
      /\ back.href = h
  <2>. HIDE DEF verdict
  <2>. QED  BY <1>1 DEF Items, Drafts
<1>5. verdict \in {"ok", "drifted"}
  BY DEF ReadVerdict
<1>. HIDE DEF it, back, verdict
<1>6. \/ item.data # None /\ Decide(it, verdict) /\ seen' = seen
      \/ item.data = None /\ verdict = "ok" /\ seen' = seen \cup {item.uid} /\ Decide(it, verdict)
      \/ /\ item.data = None /\ verdict = "drifted" /\ pc' = "fetch" /\ item' = back
         /\ seen' = seen /\ st' = st
  BY DEF InspectDestination, it, back, verdict, etag
<1>7. CASE /\ item.data = None /\ verdict = "drifted" /\ pc' = "fetch" /\ item' = back
           /\ seen' = seen /\ st' = st
  BY <1>1, <1>3, <1>4, <1>7, HoldCalm
<1>8. CASE /\ Decide(it, verdict) /\ seen' \subseteq seen \cup {item.uid}
           /\ item.data # None \/ verdict = "ok"
  <2>1. verdict \notin {"missing", "drifted"} => Fits(it.cur, h)
    BY <1>1, <1>2, <1>4, <1>5 DEF Fits
  <2>2. verdict \in {"missing", "drifted"} \/ it.changed =>
          /\ it.data = src[h].body /\ it.data.in /\ it.cur.srcHash = it.data
          /\ calm # 2
    BY <1>1, <1>2, <1>3, <1>4, <1>5, <1>8
  <2>. QED  BY <1>1, <1>2, <1>4, <1>8, <2>1, <2>2, DecideCalm
<1>. QED  BY <1>6, <1>7, <1>8

LEMMA SkipCalm ==
  ASSUME DistinctCopies, IInv, Calm, DistinctUids(src), calm # 0, InspectGone
  PROVE  Calm'
<1>1. pc = "inspect" /\ SkipUnverified /\ UNCHANGED <<src, dst, calm>>
  BY DEF InspectGone
<1>2. item.uid = Uid(item.href)
  BY <1>1 DEF Calm, Past, Loop, InTurn, Held
<1>. QED  BY <1>1, <1>2, LeaveCalm DEF SkipUnverified

LEMMA PutCalm ==
  ASSUME DistinctCopies, IInv, Calm, DistinctUids(src), calm # 0, PutMirror
  PROVE  Calm'
<1>0. PICK h : h = item.href
  OBVIOUS
<1>. DEFINE k == Uid(h)
<1>1. /\ pc = "put" /\ pc' = "readback" /\ item \in Items
      /\ UNCHANGED <<src, saved, st, bySrc, todo, dstIdx, seen, filtered, unverified, calm, gone>>
  BY DEF PutMirror, IInv, RunOK
<1>2. Progress /\ InTurn /\ Held /\ pc \in Loop
  BY <1>1 DEF Calm, Past, Loop, Held
<1>3. /\ h \in DOMAIN src /\ k \in Keys /\ k \in SrcUids(src)
      /\ \A g \in DOMAIN todo : Uid(g) # k
      /\ \A g \in DOMAIN src : Uid(g) = k => g = h
  BY <1>0, <1>2, HeldAlone
<1>4. /\ item.uid = k /\ h \notin DOMAIN todo
      /\ item.data = src[h].body /\ item.data.in /\ item.cur.srcHash = item.data
  BY <1>0, <1>1, <1>2 DEF InTurn
<1>. HIDE DEF k
<1>5. PutHref(item) = DestHref[k]
  BY <1>1, <1>4 DEF PutHref, IInv, RunOK, ItemOK
<1>6. PICK t : /\ dst' = MapSet(dst, DestHref[k], [body |-> Stored(item.data, Rewrites), etag |-> t])
               /\ item' = [item EXCEPT !.cur.dstHref = DestHref[k], !.ret = Tagged(t, PutMode)]
  BY <1>5 DEF PutMirror, StorePut
<1>7. /\ \A d : d # DestHref[k] => /\ d \in DOMAIN dst' <=> d \in DOMAIN dst
                                   /\ d \in DOMAIN dst => dst'[d] = dst[d]
      /\ DestHref[k] \in DOMAIN dst'
  BY <1>6 DEF MapSet
<1>8. /\ item'.href = h /\ item'.uid = k /\ item'.data = item.data
      /\ item'.cur.srcHash = item.cur.srcHash /\ item'.cur.dstHref = DestHref[k]
  BY <1>0, <1>1, <1>4, <1>6 DEF Items, Drafts
<1>9. Turn(k)
  BY <1>0, <1>1, <1>2, <1>3, <1>7 DEF Turn, Elsewhere, Held, Loop, k
<1>10. InTurn'
  BY <1>1, <1>3, <1>4, <1>7, <1>8 DEF InTurn, Held, Uid, k
<1>11. \A g \in DOMAIN src : Uid(g) = k => Held' /\ item'.href = g
  BY <1>1, <1>3, <1>8 DEF Held
<1>12. calm # 2
  BY <1>1 DEF Calm, Still
<1>. QED  BY <1>9, <1>10, <1>11, <1>12, TurnCalm

\* What was read back is what the entry says.  Nobody removed it.
LEMMA ReadBackCalm ==
  ASSUME DistinctCopies, IInv, Calm, DistinctUids(src), calm # 0, ReadBack \/ ReadBackGone
  PROVE  Calm'
<1>0. PICK h : h = item.href
  OBVIOUS
<1>. DEFINE k == Uid(h)
<1>1. /\ pc = "readback" /\ item \in Items /\ item.cur \in Drafts
  BY DEF ReadBack, ReadBackGone, IInv, RunOK, Items
<1>2. Progress /\ InTurn /\ Held /\ pc \in Loop
  BY <1>1 DEF Calm, Past, Loop, Held
<1>3. /\ h \in DOMAIN src /\ k \in Keys /\ k \in SrcUids(src)
      /\ \A g \in DOMAIN todo : Uid(g) # k
      /\ \A g \in DOMAIN src : Uid(g) = k => g = h
  BY <1>0, <1>2, HeldAlone
<1>4. /\ item.uid = k /\ h \notin DOMAIN todo /\ item.cur.dstHref \in DOMAIN dst
      /\ item.cur.srcHash = src[h].body
  BY <1>0, <1>1, <1>2 DEF InTurn
<1>. HIDE DEF k
<1>5. PICK t : RecordPut(t, dst[item.cur.dstHref].body)
  BY <1>4 DEF ReadBack, ReadBackGone
<1>6. calm' = calm
  BY <1>4 DEF ReadBack, ReadBackGone
<1>. DEFINE e == [item.cur EXCEPT !.dstETag = t, !.dstHash = dst[item.cur.dstHref].body]
<1>7. /\ pc' = "next" /\ st' = MapSet(st, k, e)
      /\ UNCHANGED <<src, dst, saved, bySrc, todo, dstIdx, seen, filtered, unverified, gone>>
  BY <1>4, <1>5 DEF RecordPut
<1>8. /\ e.dstHref = item.cur.dstHref /\ e.srcHash = src[h].body
      /\ e.dstHash = dst[item.cur.dstHref].body
  BY <1>1, <1>4 DEF Drafts
<1>. HIDE DEF e
<1>9. /\ k \in DOMAIN st' /\ st'[k] = e
      /\ \A j : j # k => /\ j \in DOMAIN st' <=> j \in DOMAIN st
                         /\ j \in DOMAIN st => st'[j] = st[j]
  BY <1>7 DEF MapSet
<1>10. Kept(st, h)'
  BY <1>4, <1>7, <1>8, <1>9 DEF Kept, Fits, Uid, k
<1>11. Turn(k)
  BY <1>0, <1>2, <1>3, <1>6, <1>7, <1>9 DEF Turn, Elsewhere, Held, Loop, k
<1>12. InTurn'
  BY <1>7 DEF InTurn, Held
<1>13. \A g \in DOMAIN src : Uid(g) = k => Kept(st, g)'
  BY <1>3, <1>10
<1>14. calm # 2
  BY <1>1 DEF Calm, Still
<1>. QED  BY <1>11, <1>12, <1>13, <1>14, TurnCalm

\* The deletion pass removes what no item of the source stands for; in a run
\* after an undisturbed one there is no such entry.
LEMMA DoomedCalm ==
  ASSUME IInv, DeleteInv, Calm, calm # 0, NEW k \in Doomed
  PROVE  /\ pc = "next" /\ todo = EmptyMap /\ Progress
         /\ k \in Keys /\ k \in DOMAIN st /\ k \notin SrcUids(src) /\ st[k].dstHref = DestHref[k]
         /\ calm # 2
<1>1. pc = "next" /\ todo = EmptyMap /\ k \in DOMAIN st
  BY DEF Doomed
<1>2. Progress
  BY <1>1 DEF Calm, Past, Loop
<1>3. k \in gone
  BY DoomedGone DEF DeletesOnlyGone
<1>4. k \in Keys /\ st[k].dstHref = DestHref[k]
  BY <1>1 DEF IInv, RunOK, StateOK, HomesOK, IsMap
<1>5. k \notin SrcUids(src)
  BY <1>2, <1>3 DEF Progress
<1>6. calm = 2 => DOMAIN st \subseteq SrcUids(src)
  BY <1>1 DEF Calm, Still, Quiet
<1>. QED  BY <1>1, <1>2, <1>4, <1>5, <1>6

LEMMA SweepCalm ==
  ASSUME DistinctCopies, IInv, DeleteInv, Calm, DistinctUids(src), calm # 0,
         NEW k \in Keys, SweepDelete(k) \/ SweepForget(k)
  PROVE  Calm'
<1>1. /\ k \in Doomed /\ st' = MapDelete(st, k)
      /\ dst' = dst \/ dst' = MapDelete(dst, st[k].dstHref)
      /\ UNCHANGED <<src, saved, pc, bySrc, todo, dstIdx, seen, filtered, unverified, item, calm, gone>>
  BY DEF SweepDelete, SweepForget
<1>2. /\ pc = "next" /\ DOMAIN todo = {} /\ Progress
      /\ k \notin SrcUids(src) /\ st[k].dstHref = DestHref[k] /\ calm # 2
  BY <1>1, DoomedCalm, EmptyMapType
<1>3. Elsewhere(k)
  BY <1>1, <1>2 DEF Elsewhere, MapDelete
<1>4. \A h \in DOMAIN src : Uid(h) # k
  BY <1>2 DEF SrcUids, Uid
<1>5. Turn(k)
  BY <1>1, <1>2, <1>3 DEF Turn, Held, Loop
<1>6. InTurn'
  BY <1>1, <1>2 DEF InTurn, Held
<1>. QED  BY <1>2, <1>4, <1>5, <1>6, TurnCalm

\* A return changes nothing; it says "ok" only of a run that saw to every item.
LEMMA ReturnCalm ==
  ASSUME Calm, calm # 0, NEW o, Return(o), UNCHANGED <<src, dst, calm>>,
         o = "ok" => Quiet(st), pc # "idle"
  PROVE  Calm'
<1>1. pc' = "finish" /\ status' = o /\ st' = st
  BY DEF Return
<1>2. Quiet(st) => Quiet(st)'
  BY <1>1 DEF Quiet, Kept, Fits, Uid
<1>3. calm = 2 => Still'
  BY <1>1, <1>2 DEF Calm, Still
<1>. QED  BY <1>1, <1>2, <1>3 DEF Calm, Past, Loop

LEMMA CompleteCalm ==
  ASSUME IInv, Calm, calm # 0, Complete
  PROVE  Calm'
<1>1. pc = "next" /\ DOMAIN todo = {} /\ Doomed = {} /\ UNCHANGED <<src, dst, calm>>
  BY EmptyMapType DEF Complete
<1>2. Progress
  BY <1>1 DEF Calm, Past, Loop
<1>3. DOMAIN st \subseteq seen \cup filtered
  BY <1>1 DEF Complete, Doomed
<1>4. ~unverified => Quiet(st)
  BY <1>1, <1>2, <1>3 DEF Progress, Quiet, Held
<1>. QED  BY <1>1, <1>4, ReturnCalm DEF Complete

LEMMA ListSourceCalm ==
  ASSUME SrcMode # "none", IInv, GuardInv, Vouched, Named, Snapped, Calm, calm # 0, ListSource
  PROVE  Calm'
<1>. DEFINE list == Listing(src, SrcMode)
<1>1. pc = "listSrc" /\ UNCHANGED <<src, dst, calm>> /\ AcceptSource(list)
  BY DEF ListSource
<1>2. ASSUME NEW o, Return(o), o = "blocked"  PROVE Calm'
  BY <1>1, <1>2, ReturnCalm
<1>3. CASE /\ pc' = "listDst" /\ todo' = list
           /\ gone' = Keys \ {UidOf(src[h].body, h) : h \in DOMAIN list}
           /\ UNCHANGED <<st, bySrc, seen, filtered, unverified, item>>
  <2>1. DOMAIN list = DOMAIN src /\ \A h \in DOMAIN src : list[h] = Tagged(src[h].etag, SrcMode)
    BY DEF Listing
  <2>. HIDE DEF list
  <2>2. gone' \cap SrcUids(src') = {}
    BY <1>1, <1>3, <2>1 DEF SrcUids
  <2>3. seen = {} /\ filtered = {}
    BY <1>1 DEF GuardInv, Loop
  <2>4. ASSUME NEW h \in DOMAIN src, SourceUnchanged(h)'
        PROVE  bySrc[h].uid = Uid(h) /\ st[Uid(h)].srcHash \in {None, src[h].body}
    <3>1. h \in DOMAIN bySrc /\ bySrc[h].etag = list[h] /\ list[h] # Reissued
      BY <1>3, <2>4 DEF SourceUnchanged, SameTag
    <3>2. list[h] = src[h].etag
      BY <2>1, <3>1, Constants DEF Tagged, TagModes
    <3>3. Stands(src, h, bySrc[h].etag)
      BY <3>1, <3>2 DEF Stands
    <3>4. bySrc[h].uid = Uid(h)
      BY <3>1, <3>3 DEF Named, Uid
    <3>5. Uid(h) \in DOMAIN st /\ st[Uid(h)].srcHref = h /\ st[Uid(h)].srcETag = bySrc[h].etag
      BY <1>1, <3>1, <3>4 DEF Snapped
    <3>. QED  BY <3>3, <3>4, <3>5 DEF Vouched, SrcHalf
  <2>5. Progress'
    BY <1>1, <1>3, <2>1, <2>2, <2>3, <2>4 DEF Progress, Loop, Uid
  <2>6. Quiet(st) => Quiet(st)'
    BY <1>1, <1>3 DEF Quiet, Kept, Fits, Uid
  <2>7. calm = 2 => Still'
    BY <1>1, <1>3, <2>6 DEF Calm, Still
  <2>. QED  BY <1>1, <1>3, <2>5, <2>7 DEF Calm, InTurn, Held
<1>. QED  BY <1>1, <1>2, <1>3 DEF AcceptSource

LEMMA ListDestinationCalm ==
  ASSUME IInv, Calm, calm # 0, ListDestination
  PROVE  Calm'
<1>. DEFINE list == Listing(dst, DstMode)
<1>1. pc = "listDst" /\ UNCHANGED <<src, dst, calm>> /\ AcceptDestination(list)
  BY DEF ListDestination
<1>2. ASSUME NEW o, Return(o), o = "blocked"  PROVE Calm'
  BY <1>1, <1>2, ReturnCalm
<1>3. CASE /\ pc' = "next" /\ dstIdx' = list
           /\ UNCHANGED <<st, bySrc, todo, seen, filtered, unverified, item, gone>>
  <2>1. DOMAIN list = DOMAIN dst /\ \A d \in DOMAIN dst : list[d] = Tagged(dst[d].etag, DstMode)
    BY DEF Listing
  <2>. HIDE DEF list
  <2>2. \A h : Untouched(h)'
    BY <1>1, <1>3, <2>1 DEF Untouched
  <2>3. Progress
    BY <1>1 DEF Calm, Past
  <2>4. Progress'
    BY <1>1, <1>3, <2>2, <2>3 DEF Progress, Kept, Fits, Uid, Held, SourceUnchanged
  <2>5. Quiet(st) => Quiet(st)'
    BY <1>1, <1>3 DEF Quiet, Kept, Fits, Uid
  <2>6. calm = 2 => Still'
    BY <1>1, <1>3, <2>5 DEF Calm, Still
  <2>. QED  BY <1>1, <1>3, <2>4, <2>6 DEF Calm, InTurn, Held
<1>. QED  BY <1>1, <1>2, <1>3 DEF AcceptDestination

\* Reading and writing the saved state.
LEMMA StartCalm == ASSUME Calm, Start  PROVE Calm'
<1>1. pc = "idle" /\ pc' = "listSrc" /\ st' = saved /\ UNCHANGED <<src, dst>>
      /\ calm' = (IF calm = 0 THEN 1 ELSE calm)
  BY DEF Start
<1>2. Quiet(saved) => Quiet(st)'
  BY <1>1 DEF Quiet, Kept, Fits, Uid
<1>3. calm' = 2 => Still'
  BY <1>1, <1>2 DEF Calm, Still
<1>. QED  BY <1>1, <1>3 DEF Calm, Past, Loop

LEMMA FinishCalm == ASSUME Calm, Finish  PROVE Calm'
<1>1. /\ pc = "finish" /\ pc' = "idle" /\ saved' = st /\ UNCHANGED <<src, dst>>
      /\ calm' = IF calm = 1 /\ status = "ok" THEN 2 ELSE calm
  BY DEF Finish
<1>2. calm' = 2 => Quiet(st)
  BY <1>1 DEF Calm, Still
<1>3. Quiet(st) => Quiet(saved)'
  BY <1>1 DEF Quiet, Kept, Fits, Uid
<1>. QED  BY <1>1, <1>2, <1>3 DEF Calm, Still, Past, Loop

LEMMA StepCalm ==
  ASSUME SrcMode # "none", DistinctCopies, IInv, GuardInv, Vouched, DeleteInv, CalmInv, [Next]_vars
  PROVE  Calm'
<1>. USE DEF CalmInv, DeleteInv
<1>1. CASE calm' = 0
  BY <1>1 DEF Calm
<1>2. CASE Start \/ Finish
  BY <1>2, StartCalm, FinishCalm
<1>3. CASE UNCHANGED vars
  BY <1>3 DEF vars, engineVars, Calm, Progress, InTurn, Still, Quiet, Kept, Fits, Untouched,
              Uid, Held, SourceUnchanged
<1>4. CASE calm # 0 /\ FetchSourceGone
  <2>1. item.href \in DOMAIN src
    BY <1>4 DEF FetchSourceGone, Calm, Past, Loop, InTurn, Held
  <2>. QED  BY <1>4, <2>1 DEF FetchSourceGone
<1>5. ASSUME calm # 0, NEW uid \in Keys, SweepDeleteGone(uid)  PROVE Calm'
  <2>1. pc = "next" /\ Return("error") /\ UNCHANGED <<src, dst, calm>>
    BY <1>5 DEF SweepDeleteGone, Doomed
  <2>. QED  BY <1>5, <2>1, ReturnCalm
<1>6. CASE FaultStep \/ UserStep
  BY <1>1, <1>6
  DEF FaultStep, UserStep, CallFails, InspectFails, ReadBackFails, PutLost, DeleteLost,
      SourceListsEmpty, DestinationListsEmpty, Crash, Fault, SrcRemove, SrcWrite, DstRemove,
      DstWrite, UserEdit, ResetState
<1>7. CASE calm = 0 /\ RunStep
  BY <1>1, <1>2, <1>7
  DEF RunStep, ListSource, ListDestination, Visit, FetchSource, FetchSourceGone,
      InspectDestination, InspectGone, PutMirror, ReadBack, ReadBackGone, SweepDelete,
      SweepDeleteGone, SweepForget, Complete
<1>8. CASE calm # 0 /\ RunStep
  BY <1>2, <1>4, <1>5, <1>8, ListSourceCalm, ListDestinationCalm, VisitCalm, FetchCalm,
     InspectCalm, SkipCalm, PutCalm, ReadBackCalm, SweepCalm, CompleteCalm
  DEF RunStep
<1>. QED  BY <1>3, <1>6, <1>7, <1>8 DEF Next

\* A state of an older release holds an entry without fingerprints, and a copy,
\* for every item of the source.
LEMMA LegacyEntries ==
  ASSUME Init, Legacy
  PROVE  /\ DOMAIN saved = SrcUids(src)
         /\ \A u \in DOMAIN saved :
              saved[u].srcHash = None /\ saved[u].dstHash = None /\ saved[u].dstHref \in DOMAIN dst
<1>1. PICK s \in {NoTag} \cup NewTags({}), d \in {NoTag} \cup NewTags({}) :
        saved = [u \in SrcUids(src) |->
                   LegacyEntry(CHOOSE h \in DOMAIN src : UidOf(src[h].body, h) = u, s, d)]
  BY Zenon DEF Init, LegacySaved
<1>2. \A h : LegacyEntry(h, s, d).srcHash = None /\ LegacyEntry(h, s, d).dstHash = None
  BY DEF LegacyEntry, ZeroEntry
<1>3. PICK t \in NewTags({}) :
        dst = [d0 \in {saved[u].dstHref : u \in DOMAIN saved} |-> LegacyCopy(d0, t)]
  BY Zenon DEF Init, LegacyCopies
<1>4. DOMAIN dst = {saved[u].dstHref : u \in DOMAIN saved}
  BY <1>3
<1>5. DOMAIN saved = SrcUids(src)
  BY <1>1
<1>6. \A u \in SrcUids(src) : saved[u].srcHash = None /\ saved[u].dstHash = None
  BY <1>1, <1>2
<1>. QED  BY <1>4, <1>5, <1>6

LEMMA CalmInvariant ==
  ASSUME SrcMode # "none", DistinctItems, DistinctCopies
  PROVE  Spec => []CalmInv
<1>1. Init => CalmInv
  <2>. SUFFICES ASSUME Init  PROVE CalmInv
    OBVIOUS
  <2>1. /\ DistinctUids(src) /\ pc = "idle"
        /\ calm = IF Legacy THEN 2 ELSE 0
    BY DEF Init, DistinctItems
  <2>2. ASSUME Legacy  PROVE Quiet(saved)
    BY <2>2, LegacyEntries DEF Quiet, Kept, Fits, Uid, SrcUids
  <2>. QED  BY <2>1, <2>2 DEF CalmInv, Snapped, Calm, Past, Loop, Still
<1>2. IInv /\ GuardInv /\ Vouched /\ DeleteInv /\ CalmInv /\ [Next]_vars => CalmInv'
  <2>. SUFFICES ASSUME IInv, GuardInv, Vouched, DeleteInv, CalmInv, [Next]_vars  PROVE CalmInv'
    OBVIOUS
  <2>1. DistinctUids(src)'
    BY StepDistinct DEF CalmInv, DistinctUids
  <2>. QED  BY <2>1, StepSnapped, StepCalm DEF CalmInv
<1>. QED
  BY <1>1, <1>2, AlwaysInv, GuardInvariant, VouchedInvariant, DeleteInvariant, PTL DEF Spec

\* "A run with nothing to do still writes nothing" (CHANGELOG.md:202): the runs
\* after an undisturbed one reach neither a PUT nor a DELETE, whatever the
\* destination does with ETags, and also when the state came from a release
\* that recorded no fingerprints.  Two items of one identity, or of one
\* destination href, would keep the job writing.
THEOREM IdleRuns ==
  ASSUME SrcMode # "none", DistinctItems, DistinctCopies
  PROVE  Spec => []NothingToDoWritesNothing
<1>1. IInv /\ DeleteInv /\ CalmInv => NothingToDoWritesNothing
  <2>. SUFFICES ASSUME IInv, DeleteInv, CalmInv, calm = 2
                PROVE  pc \notin {"put", "readback"} /\ Doomed = {}
    BY DEF NothingToDoWritesNothing
  <2>1. pc \notin {"put", "readback"}
    BY DEF CalmInv, Calm, Still
  <2>2. \A k \in Doomed : FALSE
    BY DoomedCalm DEF CalmInv
  <2>. QED  BY <2>1, <2>2
<1>. QED  BY <1>1, AlwaysInv, DeleteInvariant, CalmInvariant, PTL

-----------------------------------------------------------------------------
(* The mirror.  A run is quiet because the entries describe both sides; the *)
(* mirror is true because they also say the sides hold the same body.      *)

\* The fingerprints of an entry are of one body, up to the server's own form.
Coupled(e) ==
  /\ e.srcHash # None /\ e.dstHash # None
  /\ e.dstHash \in {e.srcHash, Stored(e.srcHash, Rewrites)}
\* The same of the item in hand.
HandPair ==
  /\ pc = "inspect" =>
       /\ item.cur.srcHash # None /\ item.cur.dstHash # None
       /\ item.changed \/ Coupled(item.cur)
       /\ item.data # None => item.cur.srcHash = item.data
  /\ pc \in {"put", "readback"} => item.cur.srcHash = item.data
  /\ pc = "readback" => /\ item.cur.dstHref \in DOMAIN dst
                        /\ dst[item.cur.dstHref].body = Stored(item.data, Rewrites)
PairInv ==
  /\ \A d \in DOMAIN dst : dst[d].body = Stored(dst[d].body, Rewrites)
  /\ \A k \in DOMAIN saved : Coupled(saved[k])
  /\ \A k \in DOMAIN st : Coupled(st[k])
  /\ HandPair

LEMMA StoredTwice ==
  ASSUME NEW b \in Bodies  PROVE Stored(Stored(b, Rewrites), Rewrites) = Stored(b, Rewrites)
BY DEF Stored, Bodies

LEMMA StepForms ==
  ASSUME IInv, PairInv, [Next]_vars, NEW d \in DOMAIN dst'
  PROVE  dst'[d].body = Stored(dst'[d].body, Rewrites)
<1>1. CASE dst' = dst
  BY <1>1 DEF PairInv
<1>2. ASSUME NEW h, dst' = MapDelete(dst, h)  PROVE dst'[d].body = Stored(dst'[d].body, Rewrites)
  BY <1>2 DEF MapDelete, PairInv
<1>3. ASSUME NEW h, NEW b \in Bodies, NEW t,
             dst' = MapSet(dst, h, [body |-> Stored(b, Rewrites), etag |-> t])
      PROVE  dst'[d].body = Stored(dst'[d].body, Rewrites)
  BY <1>3, StoredTwice DEF MapSet, PairInv
<1>4. CASE DestinationUser
  <2>1. ASSUME NEW h \in DstHrefs, DstRemove(h)  PROVE dst'[d].body = Stored(dst'[d].body, Rewrites)
    BY <1>2, <2>1 DEF DstRemove
  <2>2. ASSUME NEW h \in DstHrefs, NEW b \in DstBodies, DstWrite(h, b)
        PROVE  dst'[d].body = Stored(dst'[d].body, Rewrites)
    BY <1>3, <2>2, Constants DEF DstWrite
  <2>. QED  BY <1>4, <2>1, <2>2 DEF DestinationUser
<1>5. CASE Putting
  <2>1. item.data \in Bodies
    BY <1>5 DEF Putting, PutMirror, PutLost, IInv, RunOK, ItemOK
  <2>. QED  BY <1>3, <1>5, <2>1 DEF Putting, PutMirror, PutLost, StorePut
<1>6. CASE Deleting
  BY <1>2, <1>6 DEF Deleting, SweepDelete, DeleteLost
<1>. QED  BY <1>1, <1>4, <1>5, <1>6, ServerSteps

\* A step that records nothing new.
LEMMA PlainPair ==
  ASSUME IInv, PairInv, [Next]_vars,
         \A k \in DOMAIN saved' : OldEntry(saved'[k], k), \A k \in DOMAIN st' : OldEntry(st'[k], k),
         HandPair'
  PROVE  PairInv'
BY StepForms DEF PairInv, HandPair, OldEntry

LEMMA RecordPair ==
  ASSUME IInv, PairInv, [Next]_vars, saved' = saved, pc' = "next",
         NEW k, NEW e, st' = MapSet(st, k, e), Coupled(e)
  PROVE  PairInv'
<1>1. \A j \in DOMAIN st' : Coupled(st'[j])
  BY DEF MapSet, PairInv
<1>. QED  BY <1>1, StepForms DEF PairInv, HandPair

LEMMA DecidePair ==
  ASSUME IInv, PairInv, [Next]_vars, saved' = saved, NEW it, NEW v, Decide(it, v),
         v \notin {"missing", "drifted"} /\ ~it.changed => Coupled(it.cur),
         v \in {"missing", "drifted"} \/ it.changed => it.cur.srcHash = it.data
  PROVE  PairInv'
<1>1. CASE /\ v \in {"missing", "drifted"} \/ it.changed
           /\ pc' = "put" /\ item' = it /\ UNCHANGED st
  BY <1>1, PlainPair DEF HandPair, OldEntry
<1>2. CASE /\ ~(v \in {"missing", "drifted"} \/ it.changed)
           /\ pc' = "next" /\ st' = MapSet(st, it.uid, it.cur)
  BY <1>2, RecordPair
<1>. QED  BY <1>1, <1>2 DEF Decide

LEMMA VisitPair ==
  ASSUME IInv, PairInv, NEW h \in SrcHrefs, Visit(h), [Next]_vars
  PROVE  PairInv'
<1>. DEFINE uid == bySrc[h].uid
            listed == [[NoItem EXCEPT !.href = h, !.tag = todo[h]] EXCEPT !.uid = uid, !.cur = st[uid]]
<1>1. saved' = saved /\ st' = st /\ h \in DOMAIN todo /\ todo # EmptyMap
  BY VisitSame, EmptyMapType DEF Visit
<1>2. /\ \A k \in DOMAIN saved' : OldEntry(saved'[k], k)
      /\ \A k \in DOMAIN st' : OldEntry(st'[k], k)
  BY <1>1 DEF OldEntry
<1>3. listed.cur = st[uid] /\ listed.data = None
  BY DEF NoItem
<1>. HIDE DEF listed
<1>4. \/ pc' \in {"next", "fetch"}
      \/ pc' = "inspect" /\ SourceUnchanged(h) /\ item' = listed
  BY DEF Visit, listed
<1>5. SourceUnchanged(h) => Coupled(st[uid])
  BY <1>1 DEF SourceUnchanged, IInv, RunOK, SnapshotOK, PairInv
<1>6. HandPair'
  BY <1>3, <1>4, <1>5 DEF HandPair, Coupled
<1>. QED  BY <1>2, <1>6, PlainPair

LEMMA FetchPair == ASSUME IInv, PairInv, FetchSource, [Next]_vars  PROVE PairInv'
<1>. DEFINE body == src[item.href].body
            uid == UidOf(body, item.href)
            old == IF uid \in DOMAIN st THEN st[uid] ELSE ZeroEntry
            draft == SourceDraft(uid, body)
            verdict == IF item.uid = uid THEN item.verdict ELSE ListedVerdict(draft)
            cur == IF verdict = "ok"
                   THEN [draft EXCEPT !.dstETag = dstIdx[draft.dstHref]] ELSE draft
            it == [item EXCEPT !.uid = uid, !.data = body, !.cur = cur,
                     !.changed = SourceChanged(uid, body)]
<1>1. /\ item \in Items /\ item.href \in DOMAIN src
      /\ item.uid = None \/ item.verdict \in {"missing", "drifted"}
      /\ saved' = saved
  BY DEF FetchSource, IInv, RunOK, ItemOK
<1>2. uid # None /\ body \in Bodies /\ body # None
  <2>1. src[item.href] \in Resources /\ item.href \in SrcHrefs
    BY <1>1 DEF IInv, ServersOK, IsMap
  <2>2. body \in Bodies
    BY <2>1 DEF Resources
  <2>. QED  BY <2>1, <2>2, UidOfType, Constants
<1>3. old \in Drafts
  BY EntryIsDraft DEF ZeroEntry, Drafts, Tags, IInv, RunOK, StateOK, IsMap
<1>4. old.dstHref \in DOMAIN dstIdx =>
        /\ old.dstHash # None
        /\ SourceChanged(uid, body) \/ (old.srcHash = body /\ Coupled(old))
  <2>1. CASE uid \in DOMAIN st
    BY <2>1 DEF PairInv, Coupled, SourceChanged
  <2>2. CASE uid \notin DOMAIN st
    BY <2>2, Constants DEF ZeroEntry, IInv, RunOK, ListingsOK, IsMap
  <2>. QED  BY <2>1, <2>2
<1>. HIDE DEF old, uid
<1>5. /\ draft \in Drafts /\ draft.srcHash = body
      /\ draft.dstHref = old.dstHref /\ draft.dstETag = old.dstETag /\ draft.dstHash = old.dstHash
  <2>1. draft = [old EXCEPT !.srcHref = item.href, !.srcETag = item.tag, !.srcHash = body]
    BY DEF SourceDraft, old, uid
  <2>2. item.tag \in Tags /\ item.href \in SrcHrefs \cup {None}
    BY <1>1 DEF Items
  <2>. QED  BY <1>2, <1>3, <2>1, <2>2 DEF Drafts
<1>. HIDE DEF draft, body
<1>6. verdict \notin {"missing", "drifted"} =>
        /\ draft.dstHref \in DOMAIN dstIdx
        /\ verdict = "ok" => dstIdx[draft.dstHref] = draft.dstETag
  BY <1>1, <1>2 DEF ListedVerdict, SameTag
<1>7. cur = draft
  BY <1>5, <1>6 DEF Drafts
<1>8. verdict \notin {"missing", "drifted"} =>
        draft.dstHash # None /\ (SourceChanged(uid, body) \/ Coupled(draft))
  BY <1>4, <1>5, <1>6 DEF Coupled
<1>. HIDE DEF cur, verdict
<1>9. it.cur = draft /\ it.data = body /\ it.changed = SourceChanged(uid, body)
  BY <1>1, <1>7 DEF Items
<1>. HIDE DEF it
<1>10. \/ pc' = "next" /\ UNCHANGED st
       \/ verdict = "unchecked" /\ pc' = "inspect" /\ item' = it /\ UNCHANGED st
       \/ Decide(it, verdict)
  BY DEF FetchSource, it, cur, verdict, draft, uid, body
<1>11. CASE /\ UNCHANGED st
            /\ pc' = "next" \/ (verdict = "unchecked" /\ pc' = "inspect" /\ item' = it)
  <2>1. /\ \A k \in DOMAIN saved' : OldEntry(saved'[k], k)
        /\ \A k \in DOMAIN st' : OldEntry(st'[k], k)
    BY <1>1, <1>11 DEF OldEntry
  <2>2. HandPair'
    BY <1>2, <1>5, <1>8, <1>9, <1>11 DEF HandPair
  <2>. QED  BY <2>1, <2>2, PlainPair
<1>12. CASE Decide(it, verdict)
  BY <1>1, <1>5, <1>8, <1>9, <1>12, DecidePair
<1>. QED  BY <1>10, <1>11, <1>12

LEMMA InspectPair == ASSUME IInv, PairInv, InspectDestination, [Next]_vars  PROVE PairInv'
<1>. DEFINE home == item.cur.dstHref
            verdict == ReadVerdict(item.cur, dst[home].body)
            etag == IF dstIdx[home] # NoTag THEN dstIdx[home]
                    ELSE Tagged(dst[home].etag, DstMode)
            it == IF verdict = "ok"
                  THEN [item EXCEPT !.cur.dstETag = etag, !.cur.dstHash = dst[home].body]
                  ELSE item
<1>1. /\ item \in Items /\ item.cur \in Drafts /\ pc = "inspect" /\ saved' = saved
      /\ item.data = None => ~item.changed
  BY DEF InspectDestination, IInv, RunOK, ItemOK, Items
<1>2. /\ item.cur.dstHash # None /\ (item.changed \/ Coupled(item.cur))
      /\ item.data # None => item.cur.srcHash = item.data
  BY <1>1 DEF PairInv, HandPair
<1>3. verdict = "ok" => item.cur.dstHash = dst[home].body
  BY <1>2 DEF ReadVerdict
<1>4. verdict \in {"ok", "drifted"}
  BY DEF ReadVerdict
<1>. HIDE DEF etag, verdict
<1>5. /\ it.cur.srcHash = item.cur.srcHash /\ it.cur.dstHash = item.cur.dstHash
      /\ it.data = item.data /\ it.changed = item.changed
  BY <1>1, <1>3 DEF Items, Drafts
<1>. HIDE DEF it
<1>6. \/ Decide(it, verdict) /\ (item.data # None \/ verdict = "ok")
      \/ pc' = "fetch" /\ UNCHANGED st
  BY <1>4 DEF InspectDestination, it, verdict, etag
<1>7. CASE pc' = "fetch" /\ UNCHANGED st
  BY <1>1, <1>7, PlainPair DEF OldEntry, HandPair
<1>8. CASE Decide(it, verdict) /\ (item.data # None \/ verdict = "ok")
  BY <1>1, <1>2, <1>5, <1>8, DecidePair DEF Coupled
<1>. QED  BY <1>6, <1>7, <1>8

LEMMA PutPair == ASSUME IInv, PairInv, PutMirror, [Next]_vars  PROVE PairInv'
<1>1. PICK t \in NewTags(UsedDstTags(PutHref(item))) :
        /\ StorePut(t)
        /\ item' = [item EXCEPT !.cur.dstHref = PutHref(item), !.ret = Tagged(t, PutMode)]
  BY DEF PutMirror
<1>2. /\ pc = "put" /\ item'.cur.srcHash = item.cur.srcHash /\ item'.cur.dstHref = PutHref(item)
      /\ item'.data = item.data
  BY <1>1 DEF PutMirror, IInv, RunOK, Items, Drafts
<1>3. PutHref(item) \in DOMAIN dst' /\ dst'[PutHref(item)].body = Stored(item.data, Rewrites)
  BY <1>1 DEF StorePut, MapSet
<1>4. HandPair'
  BY <1>2, <1>3 DEF HandPair, PairInv, PutMirror
<1>5. /\ \A k \in DOMAIN saved' : OldEntry(saved'[k], k)
      /\ \A k \in DOMAIN st' : OldEntry(st'[k], k)
  BY DEF PutMirror, OldEntry
<1>. QED  BY <1>4, <1>5, PlainPair

LEMMA ReadBackPair ==
  ASSUME IInv, PairInv, ReadBack \/ ReadBackGone \/ ReadBackFails, [Next]_vars
  PROVE  PairInv'
<1>1. /\ pc = "readback" /\ item.cur \in Drafts /\ item.data \in Bodies
      /\ item.cur.srcHash = item.data /\ dst[item.cur.dstHref].body = Stored(item.data, Rewrites)
  BY DEF ReadBack, ReadBackGone, ReadBackFails, IInv, RunOK, ItemOK, Items, PairInv, HandPair
<1>2. PICK b \in {item.data, Stored(item.data, Rewrites)} : \E t : RecordPut(t, b)
  BY <1>1 DEF ReadBack, ReadBackGone, ReadBackFails
<1>3. PICK t : RecordPut(t, b)
  BY <1>2
<1>. DEFINE e == [item.cur EXCEPT !.dstETag = t, !.dstHash = b]
<1>4. e.srcHash = item.data /\ e.dstHash = b
  BY <1>1 DEF Drafts
<1>5. Coupled(e)
  BY <1>1, <1>2, <1>4, StoredType, Constants DEF Coupled
<1>. HIDE DEF e
<1>6. saved' = saved /\ pc' = "next" /\ st' = MapSet(st, item.uid, e)
  BY <1>3 DEF RecordPut, e
<1>. QED  BY <1>5, <1>6, RecordPair

LEMMA StepPair ==
  ASSUME "readback" \notin DstEditPcs, IInv, PairInv, [Next]_vars
  PROVE  PairInv'
<1>1. ASSUME \A k \in DOMAIN saved' : OldEntry(saved'[k], k),
             \A k \in DOMAIN st' : OldEntry(st'[k], k), HandPair'
      PROVE  PairInv'
  BY <1>1, PlainPair
<1>2. ASSUME UNCHANGED <<saved, st>>, pc' \notin InHand  PROVE PairInv'
  BY <1>1, <1>2 DEF OldEntry, HandPair, InHand
<1>3. ASSUME NEW o, Return(o)  PROVE PairInv'
  BY <1>2, <1>3 DEF Return, InHand
<1>4. CASE Start \/ Finish \/ Crash \/ ResetState
  BY <1>1, <1>4, EmptyMapType
  DEF Start, Finish, Crash, ClearRun, ResetState, OldEntry, HandPair
<1>5. CASE \/ ListSource \/ SourceListsEmpty \/ ListDestination \/ DestinationListsEmpty
           \/ InspectGone \/ InspectFails
  BY <1>2, <1>3, <1>5
  DEF ListSource, SourceListsEmpty, ListDestination, DestinationListsEmpty, AcceptSource,
      AcceptDestination, InspectGone, InspectFails, SkipUnverified, InHand
<1>6. CASE \/ FetchSourceGone \/ Complete \/ CallFails \/ PutLost
           \/ \E uid \in Keys : SweepDeleteGone(uid) \/ DeleteLost(uid)
  BY <1>3, <1>6 DEF FetchSourceGone, Complete, CallFails, PutLost, SweepDeleteGone, DeleteLost
<1>7. ASSUME NEW uid \in Keys, SweepDelete(uid) \/ SweepForget(uid)  PROVE PairInv'
  <2>1. st' = MapDelete(st, uid) /\ UNCHANGED <<saved, pc>> /\ pc = "next"
    BY <1>7 DEF SweepDelete, SweepForget, Doomed
  <2>. QED  BY <1>1, <2>1 DEF OldEntry, MapDelete, HandPair
<1>8. CASE SourceUser \/ DestinationUser \/ UNCHANGED vars
  <2>1. UNCHANGED engineVars
    BY <1>8 DEF SourceUser, DestinationUser, SrcRemove, SrcWrite, DstRemove, DstWrite, UserEdit,
                vars
  <2>2. pc = "readback" => dst' = dst
    BY <1>8 DEF SourceUser, DestinationUser, SrcRemove, SrcWrite, DstRemove, DstWrite, vars
  <2>3. HandPair'
    BY <2>1, <2>2 DEF HandPair, PairInv, engineVars, Coupled
  <2>. QED  BY <1>1, <2>1, <2>3 DEF OldEntry, engineVars
<1>. QED
  BY <1>4, <1>5, <1>6, <1>7, <1>8, VisitPair, FetchPair, InspectPair, PutPair, ReadBackPair
  DEF Next, RunStep, FaultStep, UserStep, SourceUser, DestinationUser

LEMMA PairInvariant ==
  ASSUME ~Legacy, "readback" \notin DstEditPcs
  PROVE  Spec => []PairInv
<1>1. Init => PairInv
  BY EmptyMapType DEF Init, PairInv, HandPair
<1>2. IInv /\ PairInv /\ [Next]_vars => PairInv'
  BY StepPair
<1>. QED  BY <1>1, <1>2, AlwaysInv, PTL DEF Spec

\* One undisturbed run makes the destination a true mirror (sync.go:34-36),
\* whatever edits, failing calls, lost answers, crashes and resets came before:
\* every item of the window has its copy, in the form the server gives it, and
\* no entry outlives its item.  It needs a source that tags its items, items
\* and copies told apart, a state with fingerprints, and a destination where
\* nobody writes between a PUT and its read-back: that edit would be
\* fingerprinted as the job's own copy (mirror.go:165).
THEOREM TrueMirror ==
  ASSUME SrcMode # "none", DistinctItems, DistinctCopies, ~Legacy, "readback" \notin DstEditPcs
  PROVE  Spec => []SettledMirrors
<1>1. IInv /\ Vouched /\ CalmInv /\ PairInv => SettledMirrors
  <2>. SUFFICES ASSUME IInv, Vouched, CalmInv, PairInv, calm = 2, pc = "idle"  PROVE Mirrors
    BY DEF SettledMirrors
  <2>1. Quiet(saved)
    BY DEF CalmInv, Calm, Still
  <2>2. ASSUME NEW h \in DOMAIN src, src[h].body.in
        PROVE  /\ Uid(h) \in DOMAIN saved /\ saved[Uid(h)].dstHref \in DOMAIN dst
               /\ dst[saved[Uid(h)].dstHref].body = Stored(src[h].body, Rewrites)
    <3>. DEFINE e == saved[Uid(h)]
                copy == dst[e.dstHref].body
    <3>1. Uid(h) \in DOMAIN saved /\ Fits(e, h)
      BY <2>1, <2>2 DEF Quiet, Kept
    <3>2. Coupled(e) /\ DstHalf(dst, e) /\ copy = Stored(copy, Rewrites)
      BY <3>1 DEF PairInv, Vouched, Fits
    <3>3. e.srcHash = src[h].body /\ src[h].body \in Bodies
      BY <3>1, <3>2 DEF Fits, Coupled, IInv, ServersOK, IsMap, Resources
    <3>4. copy \in {e.dstHash, Stored(e.dstHash, Rewrites)}
      BY <3>1, <3>2 DEF Fits, Coupled, DstHalf, Stands
    <3>. HIDE DEF e
    <3>5. copy \in {src[h].body, Stored(src[h].body, Rewrites)}
      BY <3>2, <3>3, <3>4, StoredTwice DEF Coupled
    <3>6. copy = Stored(src[h].body, Rewrites)
      BY <3>2, <3>5
    <3>. QED  BY <3>1, <3>6 DEF Fits, e
  <2>3. DOMAIN saved \subseteq SrcUids(src)
    BY <2>1 DEF Quiet
  <2>. QED  BY <2>2, <2>3 DEF Mirrors, Uid
<1>. QED  BY <1>1, AlwaysInv, VouchedInvariant, CalmInvariant, PairInvariant, PTL

-----------------------------------------------------------------------------
(* Orphans.  Every copy the job owns is on the books: a run that stops     *)
(* half-way keeps the entries it made, and the deletion pass drops an      *)
(* entry only with its copy.                                               *)

Books == IF pc = "idle" THEN saved ELSE st
Booked ==
  /\ \A d \in owned : \/ \E k \in DOMAIN Books : d = DestHref[k]
                      \/ pc = "readback" /\ d = DestHref[item.uid]
  /\ pc \in Loop => \A d \in owned : d \in DOMAIN dstIdx \/ \E k \in seen : d = DestHref[k]

LEMMA NoteOwnedFacts ==
  ASSUME NoteOwned
  PROVE  /\ owned' \subseteq DOMAIN dst'
         /\ pc # "put" \/ pc' # "readback" => owned' \subseteq owned
         /\ owned' \subseteq owned \cup {item'.cur.dstHref}
         /\ pc' = "idle" /\ (pc = "idle" \/ faults' # faults) => owned' \subseteq Homes(saved')
         /\ pc = "listDst" /\ pc' = "next" /\ faults' # faults => owned' = {}
BY DEF NoteOwned

\* A step that neither owns a copy nor drops an entry.
LEMMA PlainBooked ==
  ASSUME Booked, owned' \subseteq owned,
         DOMAIN Books \subseteq DOMAIN Books', pc # "readback" \/ UNCHANGED <<pc, item>>,
         pc' \in Loop => pc \in Loop /\ dstIdx' = dstIdx /\ seen \subseteq seen'
  PROVE  Booked'
BY DEF Booked

\* Between the runs: what the saved state names is on the books.
LEMMA SavedBooked ==
  ASSUME IInv, pc' = "idle", owned' \subseteq Homes(saved'), saved' = saved \/ saved' = EmptyMap
  PROVE  Booked'
<1>1. \A k \in DOMAIN saved' : saved'[k].dstHref = DestHref[k]
  BY EmptyMapType DEF IInv, RunOK, HomesOK
<1>2. \A d \in owned' : \E k \in DOMAIN saved' : d = saved'[k].dstHref
  BY DEF Homes
<1>. QED  BY <1>1, <1>2 DEF Booked, Books, Loop

LEMMA StepBooked ==
  ASSUME DistinctCopies, IInv, GuardInv, Booked, [CopiesNext]_copyVars
  PROVE  Booked'
<1>1. CASE UNCHANGED copyVars
  BY <1>1 DEF copyVars, vars, engineVars, Booked, Books
<1>. SUFFICES ASSUME CopiesNext  PROVE Booked'
  BY <1>1
<1>2. Next /\ NoteOwned
  BY DEF CopiesNext
<1>3. ASSUME pc # "put" \/ pc' # "readback", DOMAIN Books \subseteq DOMAIN Books',
             pc # "readback" \/ UNCHANGED <<pc, item>>,
             pc' \in Loop => pc \in Loop /\ dstIdx' = dstIdx /\ seen \subseteq seen'
      PROVE  Booked'
  BY <1>2, <1>3, NoteOwnedFacts, PlainBooked
<1>4. ASSUME NEW o, Return(o), pc \notin {"idle", "readback"}  PROVE Booked'
  BY <1>3, <1>4 DEF Return, Books, Loop
<1>5. CASE Start \/ Finish
  BY <1>3, <1>5 DEF Start, Finish, Books, Loop
<1>6. CASE ListSource \/ SourceListsEmpty
  <2>1. ASSUME NEW list, AcceptSource(list), pc = "listSrc"  PROVE Booked'
    BY <1>3, <1>4, <2>1 DEF AcceptSource, Books, Loop
  <2>. QED  BY <1>6, <2>1 DEF ListSource, SourceListsEmpty
<1>7. CASE ListDestination
  <2>1. CASE dst' = dst /\ st' = st /\ pc = "listDst" /\ pc' = "next" /\ dstIdx' = Listing(dst, DstMode)
    BY <1>2, <2>1, NoteOwnedFacts DEF Booked, Books, Listing
  <2>. QED  BY <1>4, <1>7, <2>1 DEF ListDestination, AcceptDestination
<1>8. CASE DestinationListsEmpty
  <2>1. pc = "listDst" /\ faults' # faults
    BY <1>8 DEF DestinationListsEmpty, Fault, IInv, CountersOK
  <2>2. CASE pc' = "next"
    BY <1>2, <2>1, <2>2, NoteOwnedFacts DEF Booked
  <2>. QED  BY <1>4, <1>8, <2>1, <2>2 DEF DestinationListsEmpty, AcceptDestination
<1>9. ASSUME NEW h \in SrcHrefs, Visit(h)  PROVE Booked'
  <2>1. pc = "next" /\ pc' \in Loop \ {"readback"} /\ dstIdx' = dstIdx /\ seen \subseteq seen'
    BY <1>9 DEF Visit, Loop
  <2>2. st' = st
    BY <1>9, VisitSame
  <2>. QED  BY <1>3, <2>1, <2>2 DEF Books, Loop
<1>10. CASE FetchSource \/ InspectDestination
  <2>1. /\ pc \in {"fetch", "inspect"} /\ dstIdx' = dstIdx /\ seen \subseteq seen'
        /\ pc' \in Loop \ {"readback"} /\ (st' = st \/ \E k, e : st' = MapSet(st, k, e))
    BY <1>10 DEF FetchSource, InspectDestination, Decide, Loop
  <2>2. DOMAIN st \subseteq DOMAIN st'
    BY <2>1 DEF MapSet
  <2>. QED  BY <1>3, <2>1, <2>2 DEF Books, Loop
<1>11. CASE InspectGone \/ InspectFails
  BY <1>3, <1>11 DEF InspectGone, InspectFails, SkipUnverified, Books, Loop
<1>12. CASE PutMirror
  <2>1. PICK t : item' = [item EXCEPT !.cur.dstHref = PutHref(item), !.ret = Tagged(t, PutMode)]
    BY <1>12 DEF PutMirror
  <2>2. /\ pc = "put" /\ pc' = "readback" /\ UNCHANGED <<saved, st, dstIdx, seen>>
        /\ item.uid \in seen /\ PutHref(item) = DestHref[item.uid]
    BY <1>12, PutHrefOK DEF PutMirror, GuardInv
  <2>3. item'.uid = item.uid /\ item'.cur.dstHref = PutHref(item)
    BY <2>1 DEF IInv, RunOK, Items, Drafts
  <2>4. owned' \subseteq owned \cup {DestHref[item.uid]}
    BY <1>2, <2>2, <2>3, NoteOwnedFacts
  <2>. QED  BY <2>2, <2>3, <2>4 DEF Booked, Books, Loop
<1>13. CASE ReadBack \/ ReadBackGone \/ ReadBackFails
  <2>1. /\ pc = "readback" /\ pc' = "next" /\ UNCHANGED <<dstIdx, seen>>
        /\ \E e : st' = MapSet(st, item.uid, e)
    BY <1>13 DEF ReadBack, ReadBackGone, ReadBackFails, RecordPut
  <2>2. DOMAIN st' = DOMAIN st \cup {item.uid}
    BY <2>1 DEF MapSet
  <2>3. owned' \subseteq owned
    BY <1>2, <2>1, NoteOwnedFacts
  <2>. QED  BY <2>1, <2>2, <2>3 DEF Booked, Books, Loop
<1>14. ASSUME NEW k \in Keys, SweepDelete(k) \/ SweepForget(k)  PROVE Booked'
  <2>1. /\ pc = "next" /\ k \in DOMAIN st /\ k \notin seen
        /\ st' = MapDelete(st, k) /\ UNCHANGED <<pc, dstIdx, seen>>
        /\ \/ dst' = MapDelete(dst, st[k].dstHref)
           \/ st[k].dstHref \notin DOMAIN dstIdx
    BY <1>14 DEF SweepDelete, SweepForget, Doomed
  <2>2. st[k].dstHref = DestHref[k] /\ seen \subseteq Keys
    BY <2>1 DEF IInv, RunOK, HomesOK, MarksOK
  <2>3. owned' \subseteq owned /\ owned' \subseteq DOMAIN dst'
    BY <1>2, <2>1, NoteOwnedFacts
  <2>4. DestHref[k] \notin owned'
    <3>1. CASE dst' = MapDelete(dst, st[k].dstHref)
      BY <2>2, <2>3, <3>1 DEF MapDelete
    <3>2. CASE st[k].dstHref \notin DOMAIN dstIdx
      BY <2>1, <2>2, <2>3, <3>2 DEF Booked, Loop, DistinctCopies
    <3>. QED  BY <2>1, <3>1, <3>2
  <2>5. DOMAIN st' = DOMAIN st \ {k}
    BY <2>1 DEF MapDelete
  <2>. QED  BY <2>1, <2>3, <2>4, <2>5 DEF Booked, Books, Loop
<1>15. CASE \/ FetchSourceGone \/ Complete \/ CallFails \/ PutLost
            \/ \E uid \in Keys : SweepDeleteGone(uid) \/ DeleteLost(uid)
  BY <1>4, <1>15 DEF FetchSourceGone, Complete, CallFails, PutLost, SweepDeleteGone, DeleteLost, Doomed
<1>16. CASE Crash
  <2>1. pc' = "idle" /\ faults' # faults /\ saved' = saved
    BY <1>16 DEF Crash, Fault, IInv, CountersOK
  <2>. QED  BY <1>2, <2>1, NoteOwnedFacts, SavedBooked
<1>17. CASE ResetState
  <2>1. pc = "idle" /\ pc' = "idle" /\ saved' = EmptyMap
    BY <1>17 DEF ResetState
  <2>. QED  BY <1>2, <2>1, NoteOwnedFacts, SavedBooked
<1>18. CASE SourceUser \/ DestinationUser
  <2>1. UNCHANGED engineVars
    BY <1>18 DEF SourceUser, DestinationUser, SrcRemove, SrcWrite, DstRemove, DstWrite, UserEdit
  <2>. QED  BY <1>3, <2>1 DEF engineVars, Books
<1>. QED
  BY <1>2, <1>5, <1>6, <1>7, <1>8, <1>9, <1>10, <1>11, <1>12, <1>13, <1>14, <1>15, <1>16, <1>17, <1>18
  DEF Next, RunStep, FaultStep, UserStep, SourceUser, DestinationUser

LEMMA CopiesMirror == CopiesSpec => Spec
<1>1. CopiesInit => Init
  BY DEF CopiesInit
<1>2. [CopiesNext]_copyVars => [Next]_vars
  BY DEF CopiesNext, copyVars
<1>. QED  BY <1>1, <1>2, PTL DEF CopiesSpec, Spec

\* A copy the job owns is never forgotten, also when calls failed, answers
\* were lost, runs stopped half-way or the process died (runner.go:133 and
\* 153-155), as long as destHref keeps the identities apart.
THEOREM NothingForgotten ==
  ASSUME DistinctCopies
  PROVE  CopiesSpec => []NoOrphans
<1>1. CopiesInit => Booked
  <2>. SUFFICES ASSUME CopiesInit  PROVE Booked
    OBVIOUS
  <2>1. pc = "idle" /\ owned = Homes(saved)
    BY DEF CopiesInit, Init
  <2>2. \A k \in DOMAIN saved : saved[k].dstHref = DestHref[k]
    BY InitOK DEF CopiesInit, IInv, RunOK, HomesOK
  <2>. QED  BY <2>1, <2>2 DEF Booked, Books, Homes, Loop
<1>2. IInv /\ GuardInv /\ Booked /\ [CopiesNext]_copyVars => Booked'
  BY StepBooked
<1>3. IInv /\ Booked => NoOrphans
  <2>. SUFFICES ASSUME IInv, Booked, pc = "idle", NEW d \in owned  PROVE d \in Homes(saved)
    BY DEF NoOrphans
  <2>1. PICK k \in DOMAIN saved : d = DestHref[k]
    BY DEF Booked, Books
  <2>2. saved[k].dstHref = DestHref[k]
    BY DEF IInv, RunOK, HomesOK
  <2>. QED  BY <2>1, <2>2 DEF Homes
<1>. QED
  BY <1>1, <1>2, <1>3, CopiesMirror, AlwaysInv, GuardInvariant, PTL DEF CopiesSpec
=============================================================================
