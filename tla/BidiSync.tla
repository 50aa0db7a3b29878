------------------------------ MODULE BidiSync ------------------------------
(***************************************************************************)
(* The bidirectional job: dav.syncBidirectional with resolveSide, copyItem *)
(* and winnerIsA, run again and again over a persisted state while users   *)
(* of both servers edit.  Every call to a server is a step of its own.     *)
(*                                                                         *)
(* The two sides are "A" and "B": an entry's Src fields are its "A" half,  *)
(* its Dst fields its "B" half.                                            *)
(***************************************************************************)
EXTENDS SyncPreview

CONSTANTS
  Hrefs,                \* names of resources, the same on both servers
  DestHref,             \* destHref(uid, suffix), for every identity
  UserHomes,            \* <<uid, href>>: where users create an item
  UserBodies,           \* what users write
  Policies,             \* the jobs' conflict policies: TRUE is source-wins
  ListModes,            \* for both sides, the TagModes of their listings
  PutMode,              \* side -> TagModes of its PUT responses
  EditPcs,              \* the points of a run where users write
  FaultKinds,           \* {"call", "lost", "empty", "crash"} or fewer
  Threshold,            \* vanishGuardThreshold
  Resets,               \* the state may be reset between runs
  MaxEdits, MaxFaults   \* bounds: user edits and faults of a behaviour

Sides == {"A", "B"}
Other(s) == IF s = "A" THEN "B" ELSE "A"
Keys == Uids \cup Hrefs

ASSUME BidiAssumption ==
  /\ DestHref \in [Keys -> Hrefs]
  /\ UserHomes \subseteq (Uids \cup {None}) \X Hrefs
  /\ UserBodies \subseteq Bodies
  /\ Modified \in [Revs -> Nat]
  /\ Policies \subseteq BOOLEAN /\ Resets \in BOOLEAN
  /\ ListModes \subseteq [Sides -> TagModes]
  /\ PutMode \in [Sides -> TagModes]
  /\ {Threshold, MaxEdits, MaxFaults} \subseteq Nat
  /\ None \notin Keys

VARIABLES
  sourceWins,    \* the job's conflict policy, else newest-wins
  listMode,      \* side -> how its listings name versions, see TagModes
  coll,          \* side -> collection: href -> resource
  saved,         \* the job's persisted state.Items: uid -> entry
  pc,            \* the server call the run is at
  st,            \* state.Items of the run in progress
  known,         \* side -> aKnown, bKnown: href -> uid and ETag
  todo,          \* side -> listing still to resolve: href -> version
  resolved,      \* side -> aSide, bSide: uid -> item
  filtered,      \* identities outside the window
  left,          \* identities still to reconcile
  status,        \* how the last run ended
  edits, faults, \* counters behind the two bounds
  calm,          \* 2: a whole run ended ok without an edit or a fault in it and
                 \* nothing happened since; 1: the run in progress may be one
  base,          \* uid -> side -> the version both sides last agreed on, as a
                 \* witness that loses nothing would remember it
  agreed,        \* identities copied and not deleted since, as it would know
  missed         \* identities whose last copy the state never learned of: the
                 \* answer to the PUT was lost, or the run's memory

runVars == <<pc, st, known, todo, resolved, filtered, left, status>>
jobVars == <<sourceWins, listMode>>
vars == <<jobVars, coll, saved, runVars, edits, faults, calm, base, agreed, missed>>

Entries == [href : [Sides -> Hrefs], etag : [Sides -> Tags]]
SideItems == [href : Hrefs, version : ETags, changed : BOOLEAN, body : Bodies \cup {None}]
Pcs == {"idle", "listA", "listB", "resolveA", "resolveB", "merge", "finish"}

Each(m) == [s \in Sides |-> m]

-----------------------------------------------------------------------------
(* The two servers and their users.                                        *)

\* Every tag some variable still remembers for an href of a side.
UsedTags(s, h) ==
  {coll[s][x].etag : x \in DOMAIN coll[s] \cap {h}}
    \cup {saved[k].etag[s] : k \in {k \in DOMAIN saved : saved[k].href[s] = h}}
    \cup {st[k].etag[s] : k \in {k \in DOMAIN st : st[k].href[s] = h}}
    \cup {known[s][x].etag : x \in DOMAIN known[s] \cap {h}}
    \cup {todo[s][x] : x \in DOMAIN todo[s] \cap {h}}
    \cup {resolved[s][k].version : k \in {k \in DOMAIN resolved[s] : resolved[s][k].href = h}}
    \cup {base[k][s].etag : k \in {k \in DOMAIN base : base[k][s].href = h}}

UidsOf(c) == {UidOf(c[h].body, h) : h \in DOMAIN c}

Store(s, h, body, t) == coll' = [coll EXCEPT ![s] = MapSet(@, h, [body |-> body, etag |-> t])]
Unstore(s, h) == coll' = [coll EXCEPT ![s] = MapDelete(@, h)]

\* An edit before a run's first listing does not disturb it.
UserEdit ==
  /\ pc \in EditPcs
  /\ edits < MaxEdits
  /\ edits' = edits + 1
  /\ calm' = IF pc = "listA" THEN 1 ELSE 0
  /\ UNCHANGED <<saved, runVars, faults, base, agreed, missed>>

\* A user creates an item, changes one (its UID stays) or removes one.
Write(s, h, b) ==
  /\ IF h \in DOMAIN coll[s]
     THEN b.uid = coll[s][h].body.uid /\ b # coll[s][h].body
     ELSE <<b.uid, h>> \in UserHomes /\ UidOf(b, h) \notin UidsOf(coll[s])
  /\ \E t \in NewTags(UsedTags(s, h)) : Store(s, h, b, t)
  /\ UserEdit

Remove(s, h) ==
  /\ h \in DOMAIN coll[s]
  /\ Unstore(s, h)
  /\ UserEdit

-----------------------------------------------------------------------------
(* A run.                                                                  *)

\* The entries by the href they name on one side; when two name the same,
\* map iteration order decides.
KnownBy(m, s) ==
  LET homes == {m[k].href[s] : k \in DOMAIN m}
  IN  {[h \in homes |-> [uid |-> f[h], etag |-> m[f[h]].etag[s]]] :
         f \in {f \in [homes -> DOMAIN m] : \A h \in homes : m[f[h]].href[s] = h}}

Start ==
  /\ pc = "idle"
  /\ pc' = "listA"
  /\ st' = saved
  /\ \E ka \in KnownBy(saved, "A"), kb \in KnownBy(saved, "B") :
       known' = [s \in Sides |-> IF s = "A" THEN ka ELSE kb]
  /\ calm' = IF calm = 0 THEN 1 ELSE calm
  /\ UNCHANGED <<coll, saved, todo, resolved, filtered, left, status, edits, faults, base, agreed, missed>>

\* A return from syncBidirectional: the runner persists the state it left.
Return(outcome) ==
  /\ pc' = "finish"
  /\ status' = outcome
  /\ known' = Each(EmptyMap) /\ todo' = Each(EmptyMap) /\ resolved' = Each(EmptyMap)
  /\ filtered' = {} /\ left' = {}
  /\ UNCHANGED saved

\* List.  A version is known by the ETag the server has for it; what the
\* listing says of one, and the engine compares and records, is ListedTag.
Versions(c) == [h \in DOMAIN c |-> c[h].etag]
ListedTag(s, version) == Tagged(version, listMode[s])

AcceptA(list) ==
  /\ pc' = "listB"
  /\ todo' = [todo EXCEPT !["A"] = list]
  /\ UNCHANGED <<saved, st, known, resolved, filtered, left, status>>

ListA ==
  /\ pc = "listA"
  /\ AcceptA(Versions(coll["A"]))
  /\ UNCHANGED <<coll, edits, faults, calm, base, agreed, missed>>

\* Mutation: only side A is guarded.
AcceptBUnguarded(list) ==
  IF Vanished(Cardinality(DOMAIN todo["A"]), Cardinality(DOMAIN known["A"]), Threshold)
  THEN Return("blocked") /\ UNCHANGED st
  ELSE /\ pc' = "resolveA"
       /\ todo' = [todo EXCEPT !["B"] = list]
       /\ UNCHANGED <<saved, st, known, resolved, filtered, left, status>>

\* Both guards come after both listings.
AcceptB(list) ==
  IF \/ Vanished(Cardinality(DOMAIN todo["A"]), Cardinality(DOMAIN known["A"]), Threshold)
     \/ Vanished(Cardinality(DOMAIN list), Cardinality(DOMAIN known["B"]), Threshold)
  THEN Return("blocked") /\ UNCHANGED st
  ELSE /\ pc' = "resolveA"
       /\ todo' = [todo EXCEPT !["B"] = list]
       /\ UNCHANGED <<saved, st, known, resolved, filtered, left, status>>

ListB ==
  /\ pc = "listB"
  /\ AcceptB(Versions(coll["B"]))
  /\ UNCHANGED <<coll, edits, faults, calm, base, agreed, missed>>

Resolving(s) == pc = (IF s = "A" THEN "resolveA" ELSE "resolveB")

\* Mutation: what the state does not know counts as unchanged.
ResolveOnlyKnown(s, uid, it) ==
  resolved' = [resolved EXCEPT ![s] =
                 MapSet(@, uid, [it EXCEPT !.changed = it.changed /\ uid \in DOMAIN st])]

Resolve(s, uid, it) == resolved' = [resolved EXCEPT ![s] = MapSet(@, uid, it)]

\* An item whose href and ETag the state knows is not read.
ResolveKnown(s, h) ==
  /\ Resolving(s) /\ h \in DOMAIN todo[s]
  /\ h \in DOMAIN known[s] /\ SameTag(known[s][h].etag, ListedTag(s, todo[s][h]))
  /\ Resolve(s, known[s][h].uid,
             [href |-> h, version |-> todo[s][h], changed |-> FALSE, body |-> None])
  /\ todo' = [todo EXCEPT ![s] = MapDelete(@, h)]
  /\ UNCHANGED <<coll, saved, pc, st, known, filtered, left, status, edits, faults, calm, base, agreed, missed>>

MustRead(s, h) ==
  /\ Resolving(s) /\ h \in DOMAIN todo[s]
  /\ ~(h \in DOMAIN known[s] /\ SameTag(known[s][h].etag, ListedTag(s, todo[s][h])))

\* A new or changed item is read; outside the window it is only noted.
ResolveRead(s, h) ==
  /\ MustRead(s, h) /\ h \in DOMAIN coll[s]
  /\ LET body == coll[s][h].body
         uid == UidOf(body, h)
     IN  \/ /\ ~body.in
            /\ filtered' = filtered \cup {uid}
            /\ UNCHANGED resolved
         \/ /\ body.in
            /\ Resolve(s, uid, [href |-> h, version |-> todo[s][h], changed |-> TRUE, body |-> body])
            /\ UNCHANGED filtered
  /\ todo' = [todo EXCEPT ![s] = MapDelete(@, h)]
  /\ UNCHANGED <<coll, saved, pc, st, known, left, status, edits, faults, calm, base, agreed, missed>>

ResolveGone(s, h) ==
  /\ MustRead(s, h) /\ h \notin DOMAIN coll[s]
  /\ Return("error")
  /\ UNCHANGED <<coll, st, edits, faults, calm, base, agreed, missed>>

Resolved(s) ==
  /\ Resolving(s) /\ todo[s] = EmptyMap
  /\ IF s = "A" THEN pc' = "resolveB" /\ UNCHANGED left
     ELSE /\ pc' = "merge"
          /\ left' = (DOMAIN resolved["A"] \cup DOMAIN resolved["B"] \cup DOMAIN st) \ filtered
  /\ UNCHANGED <<coll, saved, st, known, todo, resolved, filtered, status,
                 edits, faults, calm, base, agreed, missed>>

On(s, uid) == uid \in DOMAIN resolved[s]
Changed(s, uid) == On(s, uid) /\ resolved[s][uid].changed

\* Mutation: the older version wins.
AWinsOlder(uid) ==
  \/ sourceWins
  \/ Modified[resolved["A"][uid].body.rev] < Modified[resolved["B"][uid].body.rev]

\* winnerIsA, when both sides changed: A wins a tie.
AWins(uid) ==
  \/ sourceWins
  \/ Modified[resolved["A"][uid].body.rev] >= Modified[resolved["B"][uid].body.rev]

\* Mutations: the identity itself as href; the derived href, also for an item
\* the other side has under another one.
CopyHrefRaw(uid, s) == IF On(Other(s), uid) THEN resolved[Other(s)][uid].href ELSE uid
CopyHrefDerived(uid, s) == DestHref[uid]

\* The side the item is copied from, and the href it is copied to.
Copies(uid, s) ==
  IF On(s, uid) /\ On(Other(s), uid)
  THEN /\ Changed(s, uid)
       /\ Changed(Other(s), uid) => (AWins(uid) <=> s = "A")
  ELSE /\ On(s, uid)
       /\ Changed(s, uid) \/ uid \notin DOMAIN st
CopyHref(uid, s) ==
  IF On(Other(s), uid) THEN resolved[Other(s)][uid].href ELSE DestHref[uid]

\* Mutation: a delete beats a change.
DeletesChanged(uid, s) == On(s, uid) /\ ~On(Other(s), uid) /\ uid \in DOMAIN st

\* The other half is gone and this one did not change: the delete wins.
Deletes(uid, s) ==
  /\ On(s, uid) /\ ~On(Other(s), uid)
  /\ ~Changed(s, uid) /\ uid \in DOMAIN st

BothAgree(uid) ==
  \/ On("A", uid) /\ On("B", uid) /\ ~Changed("A", uid) /\ ~Changed("B", uid)
  \/ ~On("A", uid) /\ ~On("B", uid)

InHand(uid) == pc = "merge" /\ uid \in left

\* Mutation: the ETag the other side had before the PUT.
HalvesBeforePut(uid, s, tag) ==
  LET home(x) == IF x = s THEN resolved[s][uid].href ELSE CopyHref(uid, s)
      etag(x) == IF On(x, uid) THEN ListedTag(x, resolved[x][uid].version) ELSE tag
  IN  [href |-> [x \in Sides |-> home(x)], etag |-> [x \in Sides |-> etag(x)]]

\* Both halves of an entry: this side as listed, the other as stored.
Halves(uid, s, tag) ==
  LET home(x) == IF x = s THEN resolved[s][uid].href ELSE CopyHref(uid, s)
      etag(x) == IF x = s THEN ListedTag(s, resolved[s][uid].version) ELSE tag
  IN  [href |-> [x \in Sides |-> home(x)], etag |-> [x \in Sides |-> etag(x)]]

\* What really is on both sides once uid has been copied from s.
Agree(uid, s, t) ==
  LET from == [href |-> resolved[s][uid].href, etag |-> resolved[s][uid].version]
      to == [href |-> CopyHref(uid, s), etag |-> t]
  IN  base' = MapSet(base, uid, [x \in Sides |-> IF x = s THEN from ELSE to])

\* One PUT of the body in hand, and what it stored.
PutCopy(uid, s, t) ==
  /\ Store(Other(s), CopyHref(uid, s), resolved[s][uid].body, t)
  /\ Agree(uid, s, t)
  /\ agreed' = agreed \cup {uid}

\* A server keeps UIDs unique (RFC 4791, no-uid-conflict): it refuses to
\* create a second item with one somebody stored after the listing.
Refused(uid, s) ==
  /\ CopyHref(uid, s) \notin DOMAIN coll[Other(s)]
  /\ uid \in UidsOf(coll[Other(s)])

CopyItem(uid, s) ==
  /\ InHand(uid) /\ Copies(uid, s) /\ ~Refused(uid, s)
  /\ \E t \in NewTags(UsedTags(Other(s), CopyHref(uid, s))) :
       /\ PutCopy(uid, s, t)
       /\ st' = MapSet(st, uid, Halves(uid, s, Tagged(t, PutMode[Other(s)])))
  /\ missed' = missed \ {uid}
  /\ left' = left \ {uid}
  /\ UNCHANGED <<saved, pc, known, todo, resolved, filtered, status, edits, faults, calm>>

CopyItemRefused(uid, s) ==
  /\ InHand(uid) /\ Copies(uid, s) /\ Refused(uid, s)
  /\ Return("error")
  /\ UNCHANGED <<coll, st, edits, faults, calm, base, agreed, missed>>

DeleteItem(uid, s) ==
  /\ InHand(uid) /\ Deletes(uid, s)
  /\ resolved[s][uid].href \in DOMAIN coll[s]
  /\ Unstore(s, resolved[s][uid].href)
  /\ st' = MapDelete(st, uid)
  /\ agreed' = agreed \ {uid}
  /\ left' = left \ {uid}
  /\ UNCHANGED <<saved, pc, known, todo, resolved, filtered, status, edits, faults, calm, base,
                 missed>>

\* Someone removed it after the listing: DELETE fails and ends the run.
DeleteItemGone(uid, s) ==
  /\ InHand(uid) /\ Deletes(uid, s)
  /\ resolved[s][uid].href \notin DOMAIN coll[s]
  /\ Return("error")
  /\ UNCHANGED <<coll, st, edits, faults, calm, base, agreed, missed>>

\* In sync, or gone from both sides.
Settle(uid) ==
  /\ InHand(uid) /\ BothAgree(uid)
  /\ IF On("A", uid) THEN UNCHANGED <<st, agreed>>
     ELSE st' = MapDelete(st, uid) /\ agreed' = agreed \ {uid}
  /\ left' = left \ {uid}
  /\ UNCHANGED <<coll, saved, pc, known, todo, resolved, filtered, status, edits, faults, calm,
                 base, missed>>

Complete ==
  /\ pc = "merge" /\ left = {}
  /\ Return("ok")
  /\ UNCHANGED <<coll, st, edits, faults, calm, base, agreed, missed>>

\* The runner writes the state back.
Finish ==
  /\ pc = "finish"
  /\ pc' = "idle"
  /\ saved' = st
  /\ st' = EmptyMap
  /\ calm' = IF calm = 1 /\ status = "ok" THEN 2 ELSE calm
  /\ UNCHANGED <<coll, known, todo, resolved, filtered, left, status, edits, faults, base, agreed, missed>>

-----------------------------------------------------------------------------
(* Faults, crashes and the way out of a block.                             *)

Fault(kind) ==
  /\ kind \in FaultKinds /\ faults < MaxFaults
  /\ faults' = faults + 1
  /\ calm' = 0

\* A call fails: the run returns with the state as it is.
CallFails ==
  /\ \/ pc \in {"listA", "listB"}
     \/ \E s \in Sides, h \in Hrefs : MustRead(s, h)
     \/ \E uid \in left, s \in Sides : Copies(uid, s) \/ Deletes(uid, s)
  /\ Fault("call")
  /\ Return("error")
  /\ UNCHANGED <<coll, st, edits, base, agreed, missed>>

\* The server did it, but the answer is lost.
PutLost(uid, s) ==
  /\ InHand(uid) /\ Copies(uid, s) /\ ~Refused(uid, s)
  /\ Fault("lost")
  /\ \E t \in NewTags(UsedTags(Other(s), CopyHref(uid, s))) : PutCopy(uid, s, t)
  /\ missed' = missed \cup {uid}
  /\ Return("error")
  /\ UNCHANGED <<st, edits>>

DeleteLost(uid, s) ==
  /\ InHand(uid) /\ Deletes(uid, s)
  /\ resolved[s][uid].href \in DOMAIN coll[s]
  /\ Fault("lost")
  /\ Unstore(s, resolved[s][uid].href)
  /\ agreed' = agreed \ {uid}
  /\ Return("error")
  /\ UNCHANGED <<st, edits, base, missed>>

\* A broken endpoint answers a PROPFIND with nothing at all.
ListsEmptyA ==
  /\ pc = "listA" /\ coll["A"] # EmptyMap
  /\ Fault("empty")
  /\ AcceptA(EmptyMap)
  /\ UNCHANGED <<coll, edits, base, agreed, missed>>

ListsEmptyB ==
  /\ pc = "listB" /\ coll["B"] # EmptyMap
  /\ Fault("empty")
  /\ AcceptB(EmptyMap)
  /\ UNCHANGED <<coll, edits, base, agreed, missed>>

\* The process dies: the run's memory is gone, the saved state is not.
Crash ==
  /\ pc # "idle"
  /\ Fault("crash")
  /\ pc' = "idle"
  /\ st' = EmptyMap /\ filtered' = {} /\ left' = {}
  /\ known' = Each(EmptyMap) /\ todo' = Each(EmptyMap) /\ resolved' = Each(EmptyMap)
  /\ missed' = missed \cup {uid \in agreed : uid \notin DOMAIN saved \/ saved[uid] # st[uid]}
  /\ UNCHANGED <<coll, saved, status, edits, base, agreed>>

\* POST /api/sync/{id}/reset while no run is in flight: both sides are new.
ResetState ==
  /\ Resets /\ pc = "idle"
  /\ edits < MaxEdits
  /\ edits' = edits + 1
  /\ saved' = EmptyMap /\ base' = EmptyMap /\ agreed' = {} /\ missed' = {}
  /\ status' = "none"
  /\ calm' = 0
  /\ UNCHANGED <<coll, pc, st, known, todo, resolved, filtered, left, faults>>

-----------------------------------------------------------------------------

\* A side before the first run: each user's items, one per identity.
Fresh(c) ==
  /\ \A h \in DOMAIN c : <<c[h].body.uid, h>> \in UserHomes
  /\ \A g, h \in DOMAIN c : UidOf(c[g].body, g) = UidOf(c[h].body, h) => g = h

Init ==
  /\ coll \in [Sides -> {c \in Maps(Hrefs, [body : UserBodies, etag : NewTags({})]) : Fresh(c)}]
  /\ saved = EmptyMap /\ st = EmptyMap
  /\ pc = "idle" /\ status = "none"
  /\ known = Each(EmptyMap) /\ todo = Each(EmptyMap) /\ resolved = Each(EmptyMap)
  /\ filtered = {} /\ left = {}
  /\ edits = 0 /\ faults = 0 /\ calm = 0
  /\ base = EmptyMap /\ agreed = {} /\ missed = {}
  /\ sourceWins \in Policies /\ listMode \in ListModes

RunStep ==
  /\ \/ Start \/ ListA \/ ListB
     \/ \E s \in Sides :
          \/ \E h \in Hrefs : ResolveKnown(s, h) \/ ResolveRead(s, h) \/ ResolveGone(s, h)
          \/ Resolved(s)
          \/ \E uid \in Keys : \/ CopyItem(uid, s) \/ CopyItemRefused(uid, s)
                               \/ DeleteItem(uid, s) \/ DeleteItemGone(uid, s)
     \/ \E uid \in Keys : Settle(uid)
     \/ Complete \/ Finish
  /\ UNCHANGED jobVars

FaultStep ==
  /\ \/ CallFails \/ ListsEmptyA \/ ListsEmptyB \/ Crash
     \/ \E uid \in Keys, s \in Sides : PutLost(uid, s) \/ DeleteLost(uid, s)
  /\ UNCHANGED jobVars

UserStep ==
  /\ \/ \E s \in Sides, h \in Hrefs : Remove(s, h) \/ \E b \in UserBodies : Write(s, h, b)
     \/ ResetState
  /\ UNCHANGED jobVars

Next == RunStep \/ FaultStep \/ UserStep

Spec == Init /\ [][Next]_vars
\* The scheduler starts a due job again and again, and every call to a
\* server is missed or times out (davHTTPClient).
FairSpec == Spec /\ WF_vars(RunStep)

-----------------------------------------------------------------------------
(* What the proofs ask of the hrefs and of the servers.                    *)

\* Every item carries a UID, and the engine files it under hrefs that users
\* of no other item use.
OwnsHrefs(o) ==
  /\ \A u \in Uids : o[DestHref[u]] = u
  /\ \A home \in UserHomes : home[1] \in Uids /\ o[home[2]] = home[1]
HrefsNameItems == \E o \in [Hrefs -> Uids] : OwnsHrefs(o)

\* Every listing names the versions, be it by another ETag each time.  Where a
\* side lists none, "" equals "" (sync_bidi.go:28): an item the state knows is
\* never read again and its edits count for nothing.
TagsListed == \A m \in ListModes, s \in Sides : m[s] # "none"

-----------------------------------------------------------------------------
(* Properties.                                                             *)

\* Type correctness of the collections, the state and the run's locals.
TypeOK ==
  /\ \A s \in Sides :
       /\ IsMap(coll[s], Hrefs, Resources)
       /\ IsMap(known[s], Hrefs, [uid : Keys, etag : Tags])
       /\ IsMap(todo[s], Hrefs, ETags)
       /\ IsMap(resolved[s], Keys, SideItems)
  /\ IsMap(saved, Keys, Entries) /\ IsMap(st, Keys, Entries)
  /\ IsMap(base, Keys, [Sides -> [href : Hrefs, etag : ETags]])
  /\ filtered \subseteq Keys /\ left \subseteq Keys /\ agreed \subseteq Keys
  /\ missed \subseteq Keys /\ sourceWins \in Policies /\ listMode \in ListModes
  /\ pc \in Pcs /\ status \in {"none", "ok", "error", "blocked"}
  /\ edits \in 0 .. MaxEdits /\ faults \in 0 .. MaxFaults /\ calm \in 0 .. 2

\* The version of uid the run saw on side s is the one both sides agreed on.
SeenAgreed(uid, s) ==
  /\ uid \in agreed
  /\ resolved[s][uid].href = base[uid][s].href
  /\ resolved[s][uid].version = base[uid][s].etag

\* The version of h on side s now is the one both sides agreed on for uid.
NowAgreed(uid, s, h) == uid \in DOMAIN base /\ [href |-> h, etag |-> coll[s][h].etag] = base[uid][s]

\* "Unchanged items are skipped" (README.md:47): an item whose last copy the
\* state knows of is copied only from a side where someone really changed it
\* since, unless that side lists another ETag for the same version every time.
\* Anything else echoes the engine's own write back, and turns the other side's
\* lone edit into a conflict it may lose.
CopiesOnlyChanges ==
  \A uid \in left \ missed, s \in Sides :
    InHand(uid) /\ Copies(uid, s) /\ listMode[s] = "stable" => ~SeenAgreed(uid, s)

\* "A change always beats a delete" (sync_bidi.go:91-92): between servers that
\* list ETags (TagsListed), whatever happened in earlier runs, one that nobody
\* disturbs propagates a delete only onto the very version both sides had
\* agreed on.
DeletesOnlyUnchanged ==
  calm # 0 => \A uid \in left, s \in Sides :
    InHand(uid) /\ Deletes(uid, s) /\ resolved[s][uid].href \in DOMAIN coll[s]
      => NowAgreed(uid, s, resolved[s][uid].href)

\* Under newest-wins (README.md:45) a copy in such a run, between such servers,
\* never replaces a newer version somebody wrote on the other side.
NewestSurvives ==
  calm # 0 /\ ~sourceWins => \A uid \in left, s \in Sides :
    LET o == Other(s)
        h == CopyHref(uid, s)
    IN  (InHand(uid) /\ Copies(uid, s) /\ h \in DOMAIN coll[o] /\ ~NowAgreed(uid, o, h))
          => Modified[resolved[s][uid].body.rev] >= Modified[coll[o][h].body.rev]

\* A side that listed nothing never meets a state of Threshold items or more
\* in the merge, where every one of them would count as deleted there.
VanishGuard ==
  pc = "merge" /\ Cardinality(DOMAIN saved) >= Threshold
    => \A s \in Sides : DOMAIN resolved[s] \cup filtered # {}

\* One undisturbed run between servers that list ETags brings both sides
\* together: an item all of whose versions lie in the window is on both, in one
\* version.
InSync ==
  \A s \in Sides, g \in DOMAIN coll["A"] \cup DOMAIN coll["B"] :
    g \in DOMAIN coll[s] =>
      LET uid == UidOf(coll[s][g].body, g)
          there == {h \in DOMAIN coll[Other(s)] : UidOf(coll[Other(s)][h].body, h) = uid}
      IN  coll[s][g].body.in /\ (\A h \in there : coll[Other(s)][h].body.in)
            => \E h \in there : coll[Other(s)][h].body = coll[s][g].body
SettledInSync == calm = 2 /\ pc = "idle" => InSync

\* "The preview must apply the same rule as the real run" (preview.go:85-87):
\* as long as nobody interferes, no step of a first run changes what the
\* preview of the two sides shows.  With SettledInSync, both sides then hold
\* what it had shown.
PreviewKept ==
  calm = 1 /\ saved = EmptyMap /\ calm' # 0 /\ edits' = edits
    => PreviewMerge(coll'["A"], coll'["B"], sourceWins) = PreviewMerge(coll["A"], coll["B"], sourceWins)
PreviewHolds == [][PreviewKept]_vars

\* Once users and faults stop, the job reaches an undisturbed run and stays
\* there, or stands blocked by the vanish guard until a human looks.
Converges == <>[](calm = 2 \/ status = "blocked")
=============================================================================
