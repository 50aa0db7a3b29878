----------------------------- MODULE MirrorSync -----------------------------
(***************************************************************************)
(* The one-way mirror of one sync job: dav.syncOneWay with inspectDst and  *)
(* putMirror, run again and again over a persisted state while users of    *)
(* both servers edit.  Every call to a server is a step of its own, so an  *)
(* edit, a failing call or a crash falls between any two of them.          *)
(*                                                                         *)
(* The runner around it appears as Start, which reads the saved state, and *)
(* Finish, which writes it back; SyncRunner models what may interfere.     *)
(***************************************************************************)
EXTENDS DavCollection

CONSTANTS
  SrcHrefs, DstHrefs,   \* the resources of the two collections
  DestHref,             \* destHref(uid, suffix), for every identity
  SrcMode, DstMode,     \* TagModes of listings and reads of each side
  PutMode,              \* TagModes of the destination's PUT responses
  Rewrites,             \* the destination puts bodies in its own form
  UniqueUids,           \* the source refuses a second item with one UID
  SrcBodies, DstBodies, \* what users write on each side
  DstEditPcs,           \* the points of a run where destination users write
  FaultKinds,           \* {"call", "lost", "empty", "crash"} or fewer
  Threshold,            \* vanishGuardThreshold
  Resets,               \* the state may be reset between runs
  Legacy,               \* start from a state saved before fingerprints
  MaxEdits, MaxFaults   \* bounds: user edits and faults of a behaviour

Keys == Uids \cup SrcHrefs

ASSUME MirrorAssumption ==
  /\ IsFiniteSet(SrcHrefs) /\ IsFiniteSet(DstHrefs)
  /\ DestHref \in [Keys -> DstHrefs]
  /\ {SrcMode, DstMode, PutMode} \subseteq TagModes
  /\ {Rewrites, UniqueUids, Resets, Legacy} \subseteq BOOLEAN
  /\ SrcBodies \subseteq Bodies /\ DstBodies \subseteq Bodies
  /\ {Threshold, MaxEdits, MaxFaults} \subseteq Nat
  /\ None \notin Keys \cup DstHrefs

VARIABLES
  src, dst,      \* the two collections: href -> resource
  saved,         \* the job's persisted state.Items: uid -> entry
  pc,            \* the server call the run is at
  st,            \* state.Items of the run in progress
  bySrc,         \* stateBySrcHref: href -> uid and ETag recorded at the start
  todo,          \* srcList still to visit: href -> listed ETag
  dstIdx,        \* indexByHref(dstList): href -> listed ETag
  seen, filtered, unverified, \* as in syncOneWay
  item,          \* the source item being processed
  status,        \* how the last run ended
  edits, faults, \* counters behind the two bounds
  calm,          \* 2: a whole run ended ok without an edit or a fault in it and
                 \* nothing happened since; 1: the run in progress may be one
  gone           \* identities the listing lacked, or the source at some time since

engineVars == <<saved, pc, st, bySrc, todo, dstIdx, seen, filtered, unverified, item, status>>
vars == <<src, dst, engineVars, edits, faults, calm, gone>>

Entries == [srcHref : SrcHrefs, srcETag : Tags, srcHash : Bodies \cup {None},
            dstHref : DstHrefs, dstETag : Tags, dstHash : Bodies \cup {None}]
\* An ItemState in the making may have no home on either side yet.
Drafts == [srcHref : SrcHrefs \cup {None}, srcETag : Tags, srcHash : Bodies \cup {None},
           dstHref : DstHrefs \cup {None}, dstETag : Tags, dstHash : Bodies \cup {None}]
ZeroEntry == [srcHref |-> None, srcETag |-> NoTag, srcHash |-> None,
              dstHref |-> None, dstETag |-> NoTag, dstHash |-> None]

\* The locals of one turn of the loop: the listed meta, the identity under
\* which the destination copy was looked at (checkedUID) or will be stored,
\* the working copy cur, the fetched body and what inspectDst said.
Verdicts == {"unchecked", "ok", "missing", "drifted"}
Items == [href : SrcHrefs \cup {None}, tag : Tags, uid : Keys \cup {None},
          cur : Drafts, data : Bodies \cup {None}, changed : BOOLEAN,
          verdict : Verdicts, ret : Tags]
NoItem == [href |-> None, tag |-> NoTag, uid |-> None, cur |-> ZeroEntry,
           data |-> None, changed |-> FALSE, verdict |-> "unchecked", ret |-> NoTag]

Pcs == {"idle", "listSrc", "listDst", "next", "inspect", "fetch", "put",
        "readback", "finish"}

-----------------------------------------------------------------------------
(* The two servers and their users.                                        *)

\* Every tag some variable still remembers for a source, a destination href.
UsedSrcTags(h) ==
  {src[x].etag : x \in DOMAIN src \cap {h}}
    \cup {saved[k].srcETag : k \in {k \in DOMAIN saved : saved[k].srcHref = h}}
    \cup {st[k].srcETag : k \in {k \in DOMAIN st : st[k].srcHref = h}}
    \cup {bySrc[x].etag : x \in DOMAIN bySrc \cap {h}}
    \cup {todo[x] : x \in DOMAIN todo \cap {h}}
    \cup {item.tag, item.cur.srcETag}
UsedDstTags(h) ==
  {dst[x].etag : x \in DOMAIN dst \cap {h}}
    \cup {saved[k].dstETag : k \in {k \in DOMAIN saved : saved[k].dstHref = h}}
    \cup {st[k].dstETag : k \in {k \in DOMAIN st : st[k].dstHref = h}}
    \cup {dstIdx[x] : x \in DOMAIN dstIdx \cap {h}}
    \cup {item.cur.dstETag, item.ret}

SrcUids(s) == {UidOf(s[h].body, h) : h \in DOMAIN s}

\* A user edit: it disturbs whatever run is in progress.
UserEdit ==
  /\ edits < MaxEdits
  /\ edits' = edits + 1
  /\ calm' = 0
  /\ UNCHANGED <<engineVars, faults>>

NoteGone == gone' = IF pc \in {"idle", "listSrc", "finish"} THEN {} ELSE gone \cup (Keys \ SrcUids(src'))

\* A source user creates an item, changes one (its UID stays) or removes one.
SrcWrite(h, b) ==
  /\ h \in DOMAIN src => b.uid = src[h].body.uid /\ b # src[h].body
  /\ (UniqueUids /\ h \notin DOMAIN src /\ b.uid # None) => b.uid \notin SrcUids(src)
  /\ \E t \in NewTags(UsedSrcTags(h)) : src' = MapSet(src, h, [body |-> b, etag |-> t])
  /\ UserEdit /\ NoteGone
  /\ UNCHANGED dst

SrcRemove(h) ==
  /\ h \in DOMAIN src
  /\ src' = MapDelete(src, h)
  /\ UserEdit /\ NoteGone
  /\ UNCHANGED dst

DstWrite(h, b) ==
  /\ pc \in DstEditPcs
  /\ h \in DOMAIN dst => b # dst[h].body
  /\ \E t \in NewTags(UsedDstTags(h)) :
       dst' = MapSet(dst, h, [body |-> Stored(b, Rewrites), etag |-> t])
  /\ UserEdit
  /\ UNCHANGED <<src, gone>>

DstRemove(h) ==
  /\ pc \in DstEditPcs
  /\ h \in DOMAIN dst
  /\ dst' = MapDelete(dst, h)
  /\ UserEdit
  /\ UNCHANGED <<src, gone>>

-----------------------------------------------------------------------------
(* A run.                                                                  *)

\* Which state entry stateBySrcHref holds for each href: when two entries
\* name one href, map iteration order decides.
SnapshotBySrcHref(m) ==
  LET homes == {m[k].srcHref : k \in DOMAIN m}
  IN  {[h \in homes |-> [uid |-> f[h], etag |-> m[f[h]].srcETag]] :
         f \in {f \in [homes -> DOMAIN m] : \A h \in homes : m[f[h]].srcHref = h}}

\* The volatile part of a run, dropped when it ends.
ClearRun ==
  /\ st' = EmptyMap /\ bySrc' = EmptyMap /\ todo' = EmptyMap /\ dstIdx' = EmptyMap
  /\ seen' = {} /\ filtered' = {} /\ unverified' = FALSE
  /\ item' = NoItem /\ gone' = {}

Start ==
  /\ pc = "idle"
  /\ pc' = "listSrc"
  /\ st' = saved
  /\ bySrc' \in SnapshotBySrcHref(saved)
  /\ calm' = IF calm = 0 THEN 1 ELSE calm
  /\ UNCHANGED <<src, dst, saved, todo, dstIdx, seen, filtered, unverified, item, status,
                 edits, faults, gone>>

\* A return from syncOneWay: the runner persists whatever state it left.
Return(outcome) ==
  /\ pc' = "finish"
  /\ status' = outcome
  /\ bySrc' = EmptyMap /\ todo' = EmptyMap /\ dstIdx' = EmptyMap
  /\ seen' = {} /\ filtered' = {} /\ unverified' = FALSE
  /\ item' = NoItem /\ gone' = {}
  /\ UNCHANGED <<saved, st>>

\* The source answers a PROPFIND with list; guardVanished may refuse it.
AcceptSource(list) ==
  IF Vanished(Cardinality(DOMAIN list), Cardinality(DOMAIN st), Threshold)
  THEN Return("blocked")
  ELSE /\ pc' = "listDst"
       /\ todo' = list
       /\ gone' = Keys \ {UidOf(src[h].body, h) : h \in DOMAIN list}
       /\ UNCHANGED <<saved, st, bySrc, dstIdx, seen, filtered, unverified, item, status>>

ListSource ==
  /\ pc = "listSrc"
  /\ AcceptSource(Listing(src, SrcMode))
  /\ UNCHANGED <<src, dst, edits, faults, calm>>

\* knownDst counts the entries that name a destination copy.
AcceptDestination(list) ==
  IF Vanished(Cardinality(DOMAIN list),
              Cardinality({k \in DOMAIN st : st[k].dstHref # None}), Threshold)
  THEN Return("blocked")
  ELSE /\ pc' = "next"
       /\ dstIdx' = list
       /\ UNCHANGED <<saved, st, bySrc, todo, seen, filtered, unverified, item, status, gone>>

ListDestination ==
  /\ pc = "listDst"
  /\ AcceptDestination(Listing(dst, DstMode))
  /\ UNCHANGED <<src, dst, edits, faults, calm>>

\* What inspectDst can say from the listing alone.
ListedVerdict(cur) ==
  IF cur.dstHref \notin DOMAIN dstIdx THEN "missing"
  ELSE IF /\ dstIdx[cur.dstHref] # NoTag
          /\ SameTag(dstIdx[cur.dstHref], cur.dstETag)
          /\ cur.dstHash # None
       THEN "ok"
       ELSE "unchecked"

\* What inspectDst says once it has read the copy.
ReadVerdict(cur, body) == IF cur.dstHash \in {None, body} THEN "ok" ELSE "drifted"

\* The fast path: the source item carries the ETag recorded for its href.
SourceUnchanged(h) == h \in DOMAIN bySrc /\ SameTag(bySrc[h].etag, todo[h])

\* The loop turns to h.  The copy of an unchanged item is verified first,
\* from the listing when that is enough; anything else needs the body.
Visit(h) ==
  /\ pc = "next" /\ h \in DOMAIN todo
  /\ LET uid == bySrc[h].uid
         cur == st[uid]
         meta == [NoItem EXCEPT !.href = h, !.tag = todo[h]]
     IN  \/ /\ SourceUnchanged(h) /\ ListedVerdict(cur) = "ok"
            /\ seen' = seen \cup {uid}
            /\ st' = [st EXCEPT ![uid].dstETag = dstIdx[cur.dstHref]]
            /\ UNCHANGED <<pc, item>>
         \/ /\ SourceUnchanged(h) /\ ListedVerdict(cur) = "unchecked"
            /\ pc' = "inspect"
            /\ item' = [meta EXCEPT !.uid = uid, !.cur = cur]
            /\ UNCHANGED <<st, seen>>
         \/ /\ SourceUnchanged(h) /\ ListedVerdict(cur) = "missing"
            /\ pc' = "fetch"
            /\ item' = [meta EXCEPT !.uid = uid, !.verdict = "missing"]
            /\ UNCHANGED <<st, seen>>
         \/ /\ ~SourceUnchanged(h)
            /\ pc' = "fetch"
            /\ item' = meta
            /\ UNCHANGED <<st, seen>>
  /\ todo' = MapDelete(todo, h)
  /\ UNCHANGED <<src, dst, saved, bySrc, dstIdx, filtered, unverified, status,
                 edits, faults, calm, gone>>

\* The source item is in hand under the identity it.uid: write it, or only
\* refresh the fingerprints it.cur carries.
Decide(it, verdict) ==
  IF verdict \in {"missing", "drifted"} \/ it.changed
  THEN /\ pc' = "put"
       /\ item' = it
       /\ UNCHANGED st
  ELSE /\ pc' = "next"
       /\ st' = MapSet(st, it.uid, it.cur)
       /\ item' = NoItem

\* Mutations: the entry of the href instead of the one of the identity; the
\* first fingerprint is kept.
SourceDraftByHref(uid, body) ==
  [(IF item.href \in DOMAIN bySrc /\ bySrc[item.href].uid \in DOMAIN st
    THEN st[bySrc[item.href].uid] ELSE ZeroEntry) EXCEPT
     !.srcHref = item.href, !.srcETag = item.tag, !.srcHash = body]
SourceDraftFirstHash(uid, body) ==
  [(IF uid \in DOMAIN st THEN st[uid] ELSE ZeroEntry) EXCEPT
     !.srcHref = item.href, !.srcETag = item.tag, !.srcHash = IF @ = None THEN body ELSE @]
\* Mutation: a missing fingerprint counts as a change.
SourceChangedUnlessEqual(uid, body) == uid \in DOMAIN st /\ st[uid].srcHash # body

\* The entry of uid with the source half brought up to date.
SourceDraft(uid, body) ==
  [(IF uid \in DOMAIN st THEN st[uid] ELSE ZeroEntry) EXCEPT
     !.srcHref = item.href, !.srcETag = item.tag, !.srcHash = body]
\* No recorded fingerprint is no evidence of a change.
SourceChanged(uid, body) ==
  uid \in DOMAIN st /\ st[uid].srcHash \notin {None, body}

\* src.Get answers: the item leaves the loop when it lies outside the
\* window, else its copy is inspected unless that was done under this uid.
FetchSource ==
  /\ pc = "fetch" /\ item.href \in DOMAIN src
  /\ LET body == src[item.href].body
         uid == UidOf(body, item.href)
         draft == SourceDraft(uid, body)
         verdict == IF item.uid = uid THEN item.verdict ELSE ListedVerdict(draft)
         cur == IF verdict = "ok"
                THEN [draft EXCEPT !.dstETag = dstIdx[draft.dstHref]] ELSE draft
         it == [item EXCEPT !.uid = uid, !.data = body, !.cur = cur,
                  !.changed = SourceChanged(uid, body)]
     IN  \/ /\ ~body.in
            /\ filtered' = filtered \cup {uid}
            /\ pc' = "next" /\ item' = NoItem
            /\ UNCHANGED <<st, seen>>
         \/ /\ body.in
            /\ seen' = seen \cup {uid}
            /\ UNCHANGED filtered
            /\ \/ /\ verdict = "unchecked"
                  /\ pc' = "inspect" /\ item' = it
                  /\ UNCHANGED st
               \/ /\ verdict # "unchecked"
                  /\ Decide(it, verdict)
  /\ UNCHANGED <<src, dst, saved, bySrc, todo, dstIdx, unverified, status,
                 edits, faults, calm, gone>>

\* The item was removed after the listing: the GET fails and ends the run.
FetchSourceGone ==
  /\ pc = "fetch" /\ item.href \notin DOMAIN src
  /\ Return("error")
  /\ UNCHANGED <<src, dst, edits, faults, calm>>

\* dst.Get of a listed copy whose tag proves nothing.  item.data tells the
\* two calls of inspectDst apart: None on the fast path, where a drifted
\* copy still needs the source body.
InspectDestination ==
  /\ pc = "inspect" /\ item.cur.dstHref \in DOMAIN dst
  /\ LET home == item.cur.dstHref
         verdict == ReadVerdict(item.cur, dst[home].body)
         etag == IF dstIdx[home] # NoTag THEN dstIdx[home]
                 ELSE Tagged(dst[home].etag, DstMode)
         it == IF verdict = "ok"
               THEN [item EXCEPT !.cur.dstETag = etag, !.cur.dstHash = dst[home].body]
               ELSE item
     IN  \/ /\ item.data # None
            /\ Decide(it, verdict)
            /\ UNCHANGED seen
         \/ /\ item.data = None /\ verdict = "ok"
            /\ seen' = seen \cup {item.uid}
            /\ Decide(it, verdict)
         \/ /\ item.data = None /\ verdict = "drifted"
            /\ pc' = "fetch"
            /\ item' = [item EXCEPT !.verdict = verdict, !.cur = ZeroEntry]
            /\ UNCHANGED <<st, seen>>
  /\ UNCHANGED <<src, dst, saved, bySrc, todo, dstIdx, filtered, unverified, status,
                 edits, faults, calm, gone>>

\* Mutation: the item skipped is not protected from the deletion pass.
SkipUnverifiedUnseen ==
  /\ pc' = "next"
  /\ unverified' = TRUE
  /\ item' = NoItem
  /\ UNCHANGED <<saved, st, bySrc, todo, dstIdx, seen, filtered, status, gone>>

\* noteUnverified: the copy cannot be read, the item is skipped and kept.
SkipUnverified ==
  /\ pc' = "next"
  /\ unverified' = TRUE
  /\ seen' = seen \cup {item.uid}
  /\ item' = NoItem
  /\ UNCHANGED <<saved, st, bySrc, todo, dstIdx, filtered, status, gone>>

InspectGone ==
  /\ pc = "inspect" /\ item.cur.dstHref \notin DOMAIN dst
  /\ SkipUnverified
  /\ UNCHANGED <<src, dst, edits, faults, calm>>

\* Mutation: no href derived for a new item.
PutHrefRemembered(it) == it.cur.dstHref
\* Restore onto the remembered href when there is one, never a second copy.
PutHref(it) == IF it.cur.dstHref = None THEN DestHref[it.uid] ELSE it.cur.dstHref

\* The server stores what it is sent, in its own form, under a new tag.
StorePut(t) ==
  dst' = MapSet(dst, PutHref(item), [body |-> Stored(item.data, Rewrites), etag |-> t])

PutMirror ==
  /\ pc = "put"
  /\ \E t \in NewTags(UsedDstTags(PutHref(item))) :
       /\ StorePut(t)
       /\ item' = [item EXCEPT !.cur.dstHref = PutHref(item), !.ret = Tagged(t, PutMode)]
  /\ pc' = "readback"
  /\ UNCHANGED <<src, saved, st, bySrc, todo, dstIdx, seen, filtered, unverified, status,
                 edits, faults, calm, gone>>

\* The baseline becomes what the destination serves now; without an answer
\* it is the bytes that were sent and the tag the PUT returned.
RecordPut(etag, hash) ==
  /\ pc' = "next"
  /\ st' = MapSet(st, item.uid, [item.cur EXCEPT !.dstETag = etag, !.dstHash = hash])
  /\ item' = NoItem
  /\ UNCHANGED <<src, dst, saved, bySrc, todo, dstIdx, seen, filtered, unverified, status,
                 edits, gone>>

ReadBack ==
  /\ pc = "readback" /\ item.cur.dstHref \in DOMAIN dst
  /\ LET back == dst[item.cur.dstHref]
         etag == Tagged(back.etag, DstMode)
     IN  RecordPut(IF etag # NoTag THEN etag ELSE item.ret, back.body)
  /\ UNCHANGED <<faults, calm>>

ReadBackGone ==
  /\ pc = "readback" /\ item.cur.dstHref \notin DOMAIN dst
  /\ RecordPut(item.ret, item.data)
  /\ UNCHANGED <<faults, calm>>

\* The deletion pass: entries no listed source item stands for any more.
Doomed == IF pc = "next" /\ todo = EmptyMap THEN DOMAIN st \ (seen \cup filtered) ELSE {}

SweepDelete(uid) ==
  /\ uid \in Doomed /\ st[uid].dstHref \in DOMAIN dstIdx
  /\ st[uid].dstHref \in DOMAIN dst
  /\ dst' = MapDelete(dst, st[uid].dstHref)
  /\ st' = MapDelete(st, uid)
  /\ UNCHANGED <<src, saved, pc, bySrc, todo, dstIdx, seen, filtered, unverified, item,
                 status, edits, faults, calm, gone>>

\* Someone removed the copy after the listing: DELETE fails, the run ends.
SweepDeleteGone(uid) ==
  /\ uid \in Doomed /\ st[uid].dstHref \in DOMAIN dstIdx
  /\ st[uid].dstHref \notin DOMAIN dst
  /\ Return("error")
  /\ UNCHANGED <<src, dst, edits, faults, calm>>

\* Mutation: DELETE of a copy that is gone already, which answers 404.
SweepForgetFails(uid) ==
  /\ uid \in Doomed /\ st[uid].dstHref \notin DOMAIN dstIdx
  /\ Return("error")
  /\ UNCHANGED <<src, dst, edits, faults, calm>>

SweepForget(uid) ==
  /\ uid \in Doomed /\ st[uid].dstHref \notin DOMAIN dstIdx
  /\ st' = MapDelete(st, uid)
  /\ UNCHANGED <<src, dst, saved, pc, bySrc, todo, dstIdx, seen, filtered, unverified, item,
                 status, edits, faults, calm, gone>>

\* Failures to verify are reported only after everything else was done.
Complete ==
  /\ pc = "next" /\ todo = EmptyMap /\ Doomed = {}
  /\ Return(IF unverified THEN "error" ELSE "ok")
  /\ UNCHANGED <<src, dst, edits, faults, calm>>

\* Mutation: only a run that succeeds is recorded.
FinishIfOk ==
  /\ pc = "finish"
  /\ pc' = "idle"
  /\ saved' = IF status = "ok" THEN st ELSE saved
  /\ st' = EmptyMap
  /\ calm' = IF calm = 1 /\ status = "ok" THEN 2 ELSE calm
  /\ UNCHANGED <<src, dst, bySrc, todo, dstIdx, seen, filtered, unverified, item, status,
                 edits, faults, gone>>

\* The runner writes the state back.
Finish ==
  /\ pc = "finish"
  /\ pc' = "idle"
  /\ saved' = st
  /\ st' = EmptyMap
  /\ calm' = IF calm = 1 /\ status = "ok" THEN 2 ELSE calm
  /\ UNCHANGED <<src, dst, bySrc, todo, dstIdx, seen, filtered, unverified, item, status,
                 edits, faults, gone>>

-----------------------------------------------------------------------------
(* Faults, crashes and the way out of a block.                             *)

Fault(kind) ==
  /\ kind \in FaultKinds /\ faults < MaxFaults
  /\ faults' = faults + 1
  /\ calm' = 0

\* A call that must succeed fails: the run returns with the state as it is.
CallFails ==
  /\ pc \in {"listSrc", "listDst", "fetch", "put"} \/ \E uid \in Doomed : st[uid].dstHref \in DOMAIN dstIdx
  /\ Fault("call")
  /\ Return("error")
  /\ UNCHANGED <<src, dst, edits>>

InspectFails ==
  /\ pc = "inspect"
  /\ Fault("call")
  /\ SkipUnverified
  /\ UNCHANGED <<src, dst, edits>>

ReadBackFails ==
  /\ pc = "readback"
  /\ Fault("call")
  /\ RecordPut(item.ret, item.data)

\* The server did it, but the answer is lost.
PutLost ==
  /\ pc = "put"
  /\ Fault("lost")
  /\ \E t \in NewTags(UsedDstTags(PutHref(item))) : StorePut(t)
  /\ Return("error")
  /\ UNCHANGED <<src, edits>>

DeleteLost(uid) ==
  /\ uid \in Doomed /\ st[uid].dstHref \in DOMAIN dstIdx \cap DOMAIN dst
  /\ Fault("lost")
  /\ dst' = MapDelete(dst, st[uid].dstHref)
  /\ Return("error")
  /\ UNCHANGED <<src, edits>>

\* A broken endpoint answers a PROPFIND with nothing at all.
SourceListsEmpty ==
  /\ pc = "listSrc" /\ src # EmptyMap
  /\ Fault("empty")
  /\ AcceptSource(EmptyMap)
  /\ UNCHANGED <<src, dst, edits>>

DestinationListsEmpty ==
  /\ pc = "listDst" /\ dst # EmptyMap
  /\ Fault("empty")
  /\ AcceptDestination(EmptyMap)
  /\ UNCHANGED <<src, dst, edits>>

\* The process dies: the run's memory is gone, the saved state is not.
Crash ==
  /\ pc # "idle"
  /\ Fault("crash")
  /\ pc' = "idle"
  /\ ClearRun
  /\ UNCHANGED <<src, dst, saved, status, edits>>

\* POST /api/sync/{id}/reset while no run is in flight.
ResetState ==
  /\ Resets /\ pc = "idle"
  /\ edits < MaxEdits
  /\ edits' = edits + 1
  /\ saved' = EmptyMap
  /\ status' = "none"
  /\ calm' = 0
  /\ UNCHANGED <<src, dst, pc, st, bySrc, todo, dstIdx, seen, filtered, unverified, item,
                 faults, gone>>

-----------------------------------------------------------------------------

\* A first run finds an empty state.  Legacy: every source item has its copy,
\* recorded by a release that kept ETags but no fingerprints; the tags of
\* both sides may have moved since.
LegacyEntry(h, s, d) ==
  [ZeroEntry EXCEPT !.srcHref = h, !.srcETag = s,
     !.dstHref = DestHref[UidOf(src[h].body, h)], !.dstETag = d]

LegacyCopy(d, t) ==
  LET h == CHOOSE h \in DOMAIN src : DestHref[UidOf(src[h].body, h)] = d
  IN  [body |-> Stored(src[h].body, Rewrites), etag |-> t]

LegacySaved ==
  \E s, d \in {NoTag} \cup NewTags({}) :
    saved = [u \in SrcUids(src) |->
               LegacyEntry(CHOOSE h \in DOMAIN src : UidOf(src[h].body, h) = u, s, d)]
LegacyCopies ==
  \E t \in NewTags({}) :
    dst = [d \in {saved[u].dstHref : u \in DOMAIN saved} |-> LegacyCopy(d, t)]

DistinctUids(s) == \A g, h \in DOMAIN s : UidOf(s[g].body, g) = UidOf(s[h].body, h) => g = h

Init ==
  /\ src \in {s \in Maps(SrcHrefs, [body : SrcBodies, etag : NewTags({})]) :
                UniqueUids => DistinctUids(s)}
  /\ IF Legacy THEN LegacySaved /\ LegacyCopies ELSE saved = EmptyMap /\ dst = EmptyMap
  /\ pc = "idle" /\ status = "none"
  /\ st = EmptyMap /\ bySrc = EmptyMap /\ todo = EmptyMap /\ dstIdx = EmptyMap
  /\ seen = {} /\ filtered = {} /\ unverified = FALSE
  /\ item = NoItem /\ gone = {}
  /\ edits = 0 /\ faults = 0
  /\ calm = IF Legacy THEN 2 ELSE 0

RunStep ==
  \/ Start \/ ListSource \/ ListDestination
  \/ \E h \in SrcHrefs : Visit(h)
  \/ FetchSource \/ FetchSourceGone
  \/ InspectDestination \/ InspectGone
  \/ PutMirror \/ ReadBack \/ ReadBackGone
  \/ \E uid \in Keys : SweepDelete(uid) \/ SweepDeleteGone(uid) \/ SweepForget(uid)
  \/ Complete \/ Finish

FaultStep ==
  \/ CallFails \/ InspectFails \/ ReadBackFails \/ PutLost
  \/ \E uid \in Keys : DeleteLost(uid)
  \/ SourceListsEmpty \/ DestinationListsEmpty \/ Crash

UserStep ==
  \/ \E h \in SrcHrefs : SrcRemove(h) \/ \E b \in SrcBodies : SrcWrite(h, b)
  \/ \E h \in DstHrefs : DstRemove(h) \/ \E b \in DstBodies : DstWrite(h, b)
  \/ ResetState

Next == RunStep \/ FaultStep \/ UserStep

Spec == Init /\ [][Next]_vars
\* The scheduler starts a due job again and again, and every call to a
\* server is answered or times out (davHTTPClient).
FairSpec == Spec /\ WF_vars(RunStep)
-----------------------------------------------------------------------------
(* Properties.                                                             *)

ServersOK == IsMap(src, SrcHrefs, Resources) /\ IsMap(dst, DstHrefs, Resources)
CountersOK == edits \in 0 .. MaxEdits /\ faults \in 0 .. MaxFaults /\ calm \in 0 .. 2
StateOK == IsMap(saved, Keys, Entries) /\ IsMap(st, Keys, Entries)
ListingsOK ==
  /\ IsMap(bySrc, SrcHrefs, [uid : Keys, etag : Tags])
  /\ IsMap(todo, SrcHrefs, Tags) /\ IsMap(dstIdx, DstHrefs, Tags)
MarksOK ==
  /\ seen \subseteq Keys /\ filtered \subseteq Keys /\ gone \subseteq Keys
  /\ unverified \in BOOLEAN
  /\ pc \in Pcs /\ status \in {"none", "ok", "error", "blocked"}

\* Type correctness of the collections, the state and the run's locals.
TypeOK == ServersOK /\ CountersOK /\ StateOK /\ ListingsOK /\ MarksOK /\ item \in Items

\* Two identities never claim one destination copy (sync.go:168-174: restore
\* onto the remembered href, "never a duplicate"), whatever failed or crashed
\* before, as long as destHref keeps them apart.
OneCopyPerItem ==
  \A m \in {saved, st} : \A j, k \in DOMAIN m : m[j].dstHref = m[k].dstHref => j = k

\* The deletion pass removes only what the source's listing lacked, or the
\* source at some time since: not what could not be read on the destination, not what
\* lies outside the window, not what a failed or half-done run left behind
\* (sync.go:112, 135, 162).
DeletesOnlyGone == Doomed \subseteq gone

\* A side that lists nothing never meets a state of Threshold items or more
\* past its guard: the deletion pass is not let loose on an empty listing,
\* nor the restore on an empty destination (sync.go:59, 67-72).
VanishGuard ==
  (pc \in {"next", "inspect", "fetch", "put", "readback"} /\ Cardinality(DOMAIN saved) >= Threshold)
    => /\ dstIdx # EmptyMap
       /\ pc = "next" /\ todo = EmptyMap => seen \cup filtered # {}

\* "A run with nothing to do still writes nothing" (CHANGELOG.md:202): after
\* an undisturbed run, the next ones neither put nor delete.  Two items of one
\* UID take turns at their entry and its copy (sync.go:140-156).
NothingToDoWritesNothing ==
  calm = 2 /\ DistinctUids(src) =>
    /\ pc \notin {"put", "readback"}
    /\ \A uid \in Doomed : st[uid].dstHref \notin DOMAIN dstIdx

\* For every source item in the window the destination holds, where the entry
\* of its identity points, the copy of an item of that identity, and no entry
\* outlives its source item.
Mirrors ==
  /\ \A h \in DOMAIN src : src[h].body.in =>
       LET uid == UidOf(src[h].body, h)
       IN  /\ uid \in DOMAIN saved
           /\ saved[uid].dstHref \in DOMAIN dst
           /\ \E g \in DOMAIN src :
                /\ UidOf(src[g].body, g) = uid
                /\ dst[saved[uid].dstHref].body = Stored(src[g].body, Rewrites)
  /\ DOMAIN saved \subseteq SrcUids(src)

\* One undisturbed run makes the mirror true, whatever edits, failures and
\* crashes came before it (sync.go:34-36: "a true mirror, not a change feed").
SettledMirrors == calm = 2 /\ pc = "idle" => Mirrors

\* A recorded ETag vouches for the recorded fingerprint: while a server still
\* carries the tag, the body is the fingerprinted one (up to the server's own
\* form, which a failed read-back cannot learn).  The fast paths of
\* syncOneWay and inspectDst rest on it.
RecordedTagsTruthful ==
  \A uid \in DOMAIN saved :
    LET e == saved[uid]
    IN  /\ (/\ SrcMode = "stable" /\ e.srcHash # None
            /\ e.srcHref \in DOMAIN src /\ src[e.srcHref].etag = e.srcETag)
             => src[e.srcHref].body = e.srcHash
        /\ (/\ DstMode = "stable" /\ e.dstHash # None
            /\ e.dstHref \in DOMAIN dst /\ dst[e.dstHref].etag = e.dstETag)
             => dst[e.dstHref].body \in {e.dstHash, Stored(e.dstHash, Rewrites)}

\* Once users and faults stop, the job reaches an undisturbed run and stays
\* there, or stands blocked by the vanish guard until a human looks.
Converges == <>[](calm = 2 \/ status = "blocked")
=============================================================================
