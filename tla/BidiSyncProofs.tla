--------------------------- MODULE BidiSyncProofs ---------------------------
(***************************************************************************)
(* BidiSync proved for every set of identities, hrefs and ETags, every     *)
(* kind of server and any number of edits and faults: types, the vanish    *)
(* guard, what is copied and deleted, what an undisturbed run reaches and  *)
(* what its preview shows.  Where a theorem rests on the engine noticing a *)
(* change it assumes servers that list ETags, stable or reissued           *)
(* (TagsListed): of one that lists none the engine notices nothing.        *)
(*                                                                         *)
(* The argument is about versions.  No write brings back a version that    *)
(* somebody remembers (NothingRevived), so whatever an entry, a noted item *)
(* or the witness recorded of a version holds for as long as the version   *)
(* stands, whatever users and faults do (ReadTruth, PairTruth, NotedTrue,  *)
(* Truthful).  An undisturbed run moreover has seen every version there is *)
(* (Seen), which is what a decision taken from the listings needs.         *)
(***************************************************************************)
EXTENDS BidiSync, DavCollectionProofs

-----------------------------------------------------------------------------
(* Types.                                                                  *)

PerSide(f) == f = [s \in Sides |-> f[s]]

LEMMA Constants ==
  /\ DestHref \in [Keys -> Hrefs] /\ UserBodies \subseteq Bodies
  /\ PutMode \in [Sides -> TagModes] /\ "stable" \in TagModes
  /\ ListModes \subseteq [Sides -> TagModes]
  /\ Threshold \in Nat /\ MaxEdits \in Nat /\ MaxFaults \in Nat
  /\ Modified \in [Revs -> Nat] /\ Policies \subseteq BOOLEAN
  /\ None \notin Keys /\ None \notin Bodies
BY BidiAssumption, NoneAssumption DEF TagModes

LEMMA TwoSides ==
  ASSUME NEW s \in Sides
  PROVE  /\ Other(s) \in Sides /\ Other(s) # s /\ Other(Other(s)) = s
         /\ \A x \in Sides : x = s \/ x = Other(s)
BY DEF Sides, Other

LEMMA UidOfType == ASSUME NEW b \in Bodies, NEW h \in Hrefs  PROVE UidOf(b, h) \in Keys
BY DEF UidOf, Bodies, Keys

ServersOK == PerSide(coll) /\ \A s \in Sides : IsMap(coll[s], Hrefs, Resources)

StateOK ==
  /\ IsMap(saved, Keys, Entries) /\ IsMap(st, Keys, Entries)
  /\ IsMap(base, Keys, [Sides -> [href : Hrefs, etag : ETags]]) /\ agreed \subseteq Keys

CountersOK ==
  edits \in 0 .. MaxEdits /\ faults \in 0 .. MaxFaults /\ calm \in 0 .. 2

\* The entries behind known exist until the merge starts to drop them.
Listing0 == {"listA", "listB", "resolveA", "resolveB"}
KnownOK ==
  /\ PerSide(known)
  /\ \A s \in Sides :
       /\ IsMap(known[s], Hrefs, [uid : Keys, etag : Tags])
       /\ pc \in Listing0 => \A h \in DOMAIN known[s] : known[s][h].uid \in DOMAIN st

TodoOK ==
  /\ PerSide(todo)
  /\ \A s \in Sides : IsMap(todo[s], Hrefs, ETags)
  /\ pc \in {"idle", "listA", "merge", "finish"} => \A s \in Sides : todo[s] = EmptyMap
  /\ pc = "listB" => todo["B"] = EmptyMap
  /\ pc = "resolveB" => todo["A"] = EmptyMap

\* An item read in this run has its body; one that was not is in the state
\* until it is reconciled.
ItemOK(k, r) ==
  /\ r.version \in ETags
  /\ r.changed => r.body \in Bodies
  /\ ~r.changed => k \in DOMAIN st \/ (pc = "merge" /\ k \notin left)
ResolvedOK ==
  /\ PerSide(resolved)
  /\ \A s \in Sides :
       /\ IsMap(resolved[s], Keys, SideItems)
       /\ pc \in {"idle", "listA", "listB", "finish"} => resolved[s] = EmptyMap
       /\ \A k \in DOMAIN resolved[s] : ItemOK(k, resolved[s][k])

MarksOK ==
  /\ filtered \subseteq Keys /\ left \subseteq Keys
  /\ pc \in Pcs /\ status \in {"none", "ok", "error", "blocked"}
  /\ pc \in {"idle", "listA", "listB", "finish"} => filtered = {}
  /\ pc # "merge" => left = {}
  /\ left \cap filtered = {}
  /\ pc = "idle" => st = EmptyMap

RunOK == KnownOK /\ TodoOK /\ ResolvedOK /\ MarksOK
TypeInv == ServersOK /\ StateOK /\ CountersOK /\ RunOK

\* The witness of unanswered copies, the policy and how the servers list.
WitnessOK == missed \subseteq Keys /\ sourceWins \in Policies /\ listMode \in ListModes

\* The job's policy and how its servers list do not change.
LEMMA JobKept == ASSUME [Next]_vars  PROVE UNCHANGED jobVars
BY DEF Next, RunStep, FaultStep, UserStep, vars

LEMMA TypeInvTypes == TypeInv /\ WitnessOK => TypeOK
BY DEF TypeInv, WitnessOK, TypeOK, ServersOK, StateOK, CountersOK, RunOK, KnownOK, TodoOK, ResolvedOK, MarksOK

LEMMA NothingYet ==
  ASSUME NEW K, NEW V  PROVE PerSide(Each(EmptyMap)) /\ \A s \in Sides : Each(EmptyMap)[s] = EmptyMap
BY DEF PerSide, Each

\* A return, or the death of the process, leaves nothing of the run.
LEMMA ClearedOK ==
  ASSUME TypeInv, pc' \in {"finish", "idle"}, status' \in {"none", "ok", "error", "blocked"},
         known' = Each(EmptyMap), todo' = Each(EmptyMap), resolved' = Each(EmptyMap),
         filtered' = {}, left' = {}, pc' = "idle" => st' = EmptyMap
  PROVE  RunOK'
<1>1. KnownOK'
  BY NothingYet, EmptyMapType DEF KnownOK, Listing0, PerSide
<1>2. TodoOK'
  BY NothingYet, EmptyMapType DEF TodoOK, PerSide
<1>3. ResolvedOK'
  BY NothingYet, EmptyMapType DEF ResolvedOK, PerSide
<1>4. MarksOK'
  BY DEF MarksOK, Pcs
<1>. QED  BY <1>1, <1>2, <1>3, <1>4 DEF RunOK

LEMMA ReturnOK ==
  ASSUME TypeInv, NEW o \in {"ok", "error", "blocked"}, Return(o)
  PROVE  RunOK'
BY ClearedOK DEF Return

\* What one write to a side leaves there.
LEMMA StoreOK ==
  ASSUME ServersOK, NEW s \in Sides, NEW h \in Hrefs, NEW b \in Bodies, NEW t \in ETags,
         Store(s, h, b, t)
  PROVE  /\ ServersOK'
         /\ DOMAIN coll'[s] = DOMAIN coll[s] \cup {h}
         /\ coll'[s][h] = [body |-> b, etag |-> t]
         /\ \A g \in DOMAIN coll[s] : g # h => coll'[s][g] = coll[s][g]
         /\ \A x \in Sides : x # s => coll'[x] = coll[x]
<1>1. [body |-> b, etag |-> t] \in Resources
  BY DEF Resources
<1>2. /\ coll' = [x \in Sides |-> IF x = s THEN MapSet(coll[s], h, [body |-> b, etag |-> t])
                                  ELSE coll[x]]
  BY DEF Store, ServersOK, PerSide
<1>3. \A x \in Sides : IsMap(coll'[x], Hrefs, Resources)
  BY <1>1, <1>2, MapSetType DEF ServersOK
<1>4. coll'[s] = MapSet(coll[s], h, [body |-> b, etag |-> t])
  BY <1>2
<1>5. ServersOK'
  BY <1>2, <1>3 DEF ServersOK, PerSide
<1>6. \A x \in Sides : x # s => coll'[x] = coll[x]
  BY <1>2
<1>. QED  BY <1>4, <1>5, <1>6 DEF MapSet

LEMMA UnstoreOK ==
  ASSUME ServersOK, NEW s \in Sides, NEW h, Unstore(s, h)
  PROVE  /\ ServersOK'
         /\ DOMAIN coll'[s] = DOMAIN coll[s] \ {h}
         /\ \A g \in DOMAIN coll'[s] : coll'[s][g] = coll[s][g]
         /\ \A x \in Sides : x # s => coll'[x] = coll[x]
<1>1. coll' = [x \in Sides |-> IF x = s THEN MapDelete(coll[s], h) ELSE coll[x]]
  BY DEF Unstore, ServersOK, PerSide
<1>2. \A x \in Sides : IsMap(coll'[x], Hrefs, Resources)
  BY <1>1, MapDeleteType DEF ServersOK
<1>3. coll'[s] = MapDelete(coll[s], h)
  BY <1>1
<1>4. ServersOK'
  BY <1>1, <1>2 DEF ServersOK, PerSide
<1>5. \A x \in Sides : x # s => coll'[x] = coll[x]
  BY <1>1
<1>. QED  BY <1>3, <1>4, <1>5 DEF MapDelete

\* The run as it is, whatever the servers hold.
LEMMA RunSame ==
  ASSUME RunOK, UNCHANGED runVars
  PROVE  RunOK'
BY DEF RunOK, runVars, KnownOK, TodoOK, ResolvedOK, MarksOK, ItemOK

-----------------------------------------------------------------------------
(* Types: users, the runner and faults.                                    *)

LEMMA UsersOK ==
  ASSUME TypeInv, NEW s \in Sides, NEW h \in Hrefs,
         Remove(s, h) \/ \E b \in UserBodies : Write(s, h, b)
  PROVE  TypeInv'
<1>1. UserEdit
  BY DEF Remove, Write
<1>2. CountersOK' /\ StateOK' /\ RunOK'
  BY <1>1, Constants, RunSame DEF UserEdit, TypeInv, CountersOK, StateOK, runVars
<1>3. CASE Remove(s, h)
  BY <1>2, <1>3, UnstoreOK DEF Remove, TypeInv
<1>4. ASSUME NEW b \in UserBodies, Write(s, h, b)  PROVE TypeInv'
  <2>1. PICK t \in NewTags(UsedTags(s, h)) : Store(s, h, b, t)
    BY <1>4 DEF Write
  <2>. QED  BY <1>2, <2>1, StoreOK, NewTagsType, Constants DEF TypeInv
<1>. QED  BY <1>3, <1>4

LEMMA ResetOK == ASSUME TypeInv, ResetState  PROVE TypeInv'
<1>1. CountersOK' /\ StateOK' /\ ServersOK'
  BY Constants, EmptyMapType DEF ResetState, TypeInv, CountersOK, StateOK, ServersOK
<1>2. RunOK'
  BY DEF ResetState, TypeInv, RunOK, KnownOK, TodoOK, ResolvedOK, MarksOK, ItemOK
<1>. QED  BY <1>1, <1>2 DEF TypeInv

LEMMA KnownByType ==
  ASSUME NEW m, IsMap(m, Keys, Entries), NEW s \in Sides, NEW ks \in KnownBy(m, s)
  PROVE  /\ IsMap(ks, Hrefs, [uid : Keys, etag : Tags])
         /\ \A h \in DOMAIN ks :
              /\ ks[h].uid \in DOMAIN m /\ m[ks[h].uid].href[s] = h
              /\ ks[h].etag = m[ks[h].uid].etag[s]
         /\ \A k \in DOMAIN m : m[k].href[s] \in DOMAIN ks
<1>. DEFINE homes == {m[k].href[s] : k \in DOMAIN m}
<1>1. PICK f \in [homes -> DOMAIN m] :
        /\ \A h \in homes : m[f[h]].href[s] = h
        /\ ks = [h \in homes |-> [uid |-> f[h], etag |-> m[f[h]].etag[s]]]
  BY DEF KnownBy
<1>2. \A k \in DOMAIN m : k \in Keys /\ m[k].href[s] \in Hrefs /\ m[k].etag[s] \in Tags
  BY DEF IsMap, Entries
<1>3. IsMap(ks, Hrefs, [uid : Keys, etag : Tags])
  BY <1>1, <1>2 DEF IsMap
<1>. QED  BY <1>1, <1>3

LEMMA StartOK == ASSUME TypeInv, Start  PROVE TypeInv'
<1>1. ServersOK' /\ StateOK' /\ CountersOK'
  BY DEF Start, TypeInv, ServersOK, StateOK, CountersOK
<1>2. PICK ka \in KnownBy(saved, "A"), kb \in KnownBy(saved, "B") :
        known' = [s \in Sides |-> IF s = "A" THEN ka ELSE kb]
  BY DEF Start
<1>3. PerSide(known') /\ \A s \in Sides : known'[s] \in KnownBy(saved, s)
  BY <1>2 DEF PerSide, Sides
<1>4. KnownOK'
  BY <1>3, KnownByType DEF KnownOK, PerSide, Start, TypeInv, StateOK
<1>5. TodoOK' /\ ResolvedOK' /\ MarksOK'
  BY EmptyMapType DEF Start, TypeInv, RunOK, TodoOK, ResolvedOK, MarksOK, Pcs
<1>. QED  BY <1>1, <1>4, <1>5 DEF TypeInv, RunOK

LEMMA FinishOK == ASSUME TypeInv, Finish  PROVE TypeInv'
<1>1. ServersOK' /\ StateOK' /\ CountersOK'
  BY EmptyMapType DEF Finish, TypeInv, ServersOK, StateOK, CountersOK
<1>2. RunOK'
  BY EmptyMapType DEF Finish, TypeInv, RunOK, KnownOK, Listing0, TodoOK, ResolvedOK, MarksOK, Pcs
<1>. QED  BY <1>1, <1>2 DEF TypeInv

LEMMA CrashOK == ASSUME TypeInv, Crash  PROVE TypeInv'
<1>1. ServersOK' /\ StateOK' /\ CountersOK'
  BY Constants, EmptyMapType DEF Crash, Fault, TypeInv, ServersOK, StateOK, CountersOK
<1>2. RunOK'
  BY ClearedOK DEF Crash, TypeInv, RunOK, MarksOK
<1>. QED  BY <1>1, <1>2 DEF TypeInv

\* The ends of a run that touch no server.
EndsRun == \E o \in {"ok", "error", "blocked"} : Return(o)
LEMMA EndsOK ==
  ASSUME TypeInv, EndsRun, UNCHANGED <<coll, st, base, agreed>>, CountersOK'
  PROVE  TypeInv'
BY ReturnOK DEF EndsRun, Return, TypeInv, ServersOK, StateOK

LEMMA PlainEndsOK ==
  ASSUME TypeInv,
         \/ CallFails \/ Complete
         \/ \E s \in Sides, h \in Hrefs : ResolveGone(s, h)
         \/ \E uid \in Keys, s \in Sides : CopyItemRefused(uid, s) \/ DeleteItemGone(uid, s)
  PROVE  TypeInv'
<1>1. EndsRun /\ UNCHANGED <<coll, st, base, agreed>>
  BY DEF CallFails, Complete, ResolveGone, CopyItemRefused, DeleteItemGone, EndsRun
<1>2. CountersOK'
  BY Constants DEF CallFails, Complete, ResolveGone, CopyItemRefused, DeleteItemGone, Fault,
                   TypeInv, CountersOK
<1>. QED  BY <1>1, <1>2, EndsOK

-----------------------------------------------------------------------------
(* Types: the listings.                                                    *)

LEMMA VersionsListed ==
  ASSUME NEW c, IsMap(c, Hrefs, Resources)
  PROVE  /\ IsMap(Versions(c), Hrefs, ETags)
         /\ DOMAIN Versions(c) = DOMAIN c
         /\ \A h \in DOMAIN c : Versions(c)[h] = c[h].etag
BY DEF IsMap, Versions, Resources

\* One side's listing is taken over.
LEMMA TodoSet ==
  ASSUME PerSide(todo), NEW s \in Sides, NEW list, todo' = [todo EXCEPT ![s] = list]
  PROVE  PerSide(todo') /\ todo'[s] = list /\ \A x \in Sides : x # s => todo'[x] = todo[x]
BY DEF PerSide

LEMMA AcceptAOK ==
  ASSUME TypeInv, pc = "listA", NEW list, IsMap(list, Hrefs, ETags), AcceptA(list)
  PROVE  RunOK' /\ UNCHANGED <<saved, st>>
<1>1. TodoOK'
  <2>1. PerSide(todo') /\ todo'["A"] = list /\ \A x \in Sides : x # "A" => todo'[x] = todo[x]
    BY TodoSet DEF AcceptA, TypeInv, RunOK, TodoOK, Sides
  <2>. QED  BY <2>1 DEF AcceptA, TypeInv, RunOK, TodoOK, Sides, PerSide
<1>2. KnownOK' /\ ResolvedOK' /\ MarksOK'
  BY DEF AcceptA, TypeInv, RunOK, KnownOK, Listing0, ResolvedOK, ItemOK, MarksOK, Pcs
<1>. QED  BY <1>1, <1>2 DEF RunOK, AcceptA

\* What the second listing leads to when no guard stops the run.
Accepted(list) ==
  /\ pc' = "resolveA"
  /\ todo' = [todo EXCEPT !["B"] = list]
  /\ UNCHANGED <<saved, st, known, resolved, filtered, left, status>>

LEMMA AcceptBCases ==
  ASSUME NEW list, AcceptB(list)
  PROVE  (Return("blocked") /\ UNCHANGED st) \/ Accepted(list)
BY DEF AcceptB, Accepted

LEMMA AcceptBOK ==
  ASSUME TypeInv, pc = "listB", NEW list, IsMap(list, Hrefs, ETags), AcceptB(list)
  PROVE  RunOK' /\ UNCHANGED <<saved, st>>
<1>1. CASE Return("blocked") /\ UNCHANGED st
  BY <1>1, ReturnOK DEF Return
<1>2. CASE Accepted(list)
  <2>1. TodoOK'
    <3>1. PerSide(todo') /\ todo'["B"] = list /\ \A x \in Sides : x # "B" => todo'[x] = todo[x]
      BY <1>2, TodoSet DEF Accepted, TypeInv, RunOK, TodoOK, Sides
    <3>. QED  BY <1>2, <3>1 DEF Accepted, TypeInv, RunOK, TodoOK, Sides, PerSide
  <2>2. KnownOK' /\ ResolvedOK' /\ MarksOK'
    BY <1>2 DEF Accepted, TypeInv, RunOK, KnownOK, Listing0, ResolvedOK, ItemOK, MarksOK, Pcs
  <2>. QED  BY <1>2, <2>1, <2>2 DEF RunOK, Accepted
<1>. QED  BY <1>1, <1>2, AcceptBCases

LEMMA ListingsOK ==
  ASSUME TypeInv, ListA \/ ListB \/ ListsEmptyA \/ ListsEmptyB
  PROVE  TypeInv'
<1>1. ServersOK' /\ CountersOK'
  BY Constants DEF ListA, ListB, ListsEmptyA, ListsEmptyB, Fault, TypeInv, ServersOK, CountersOK
<1>2. RunOK' /\ UNCHANGED <<saved, st>>
  <2>1. CASE ListA
    BY <2>1, VersionsListed, AcceptAOK DEF ListA, TypeInv, ServersOK, Sides
  <2>2. CASE ListB
    BY <2>2, VersionsListed, AcceptBOK DEF ListB, TypeInv, ServersOK, Sides
  <2>3. CASE ListsEmptyA
    BY <2>3, EmptyMapType, AcceptAOK DEF ListsEmptyA
  <2>4. CASE ListsEmptyB
    BY <2>4, EmptyMapType, AcceptBOK DEF ListsEmptyB
  <2>. QED  BY <2>1, <2>2, <2>3, <2>4
<1>3. StateOK'
  BY <1>2 DEF ListA, ListB, ListsEmptyA, ListsEmptyB, TypeInv, StateOK
<1>. QED  BY <1>1, <1>2, <1>3 DEF TypeInv

-----------------------------------------------------------------------------
(* Types: resolving a side.                                                *)

LEMMA ResolveEffect ==
  ASSUME ResolvedOK, NEW s \in Sides, NEW k \in Keys, NEW r \in SideItems, Resolve(s, k, r)
  PROVE  /\ PerSide(resolved')
         /\ \A x \in Sides : IsMap(resolved'[x], Keys, SideItems)
         /\ resolved'[s] = MapSet(resolved[s], k, r)
         /\ DOMAIN resolved'[s] = DOMAIN resolved[s] \cup {k}
         /\ \A j \in DOMAIN resolved'[s] : resolved'[s][j] = IF j = k THEN r ELSE resolved[s][j]
         /\ \A x \in Sides : x # s => resolved'[x] = resolved[x]
<1>1. resolved' = [x \in Sides |-> IF x = s THEN MapSet(resolved[s], k, r) ELSE resolved[x]]
  BY DEF Resolve, ResolvedOK, PerSide
<1>. QED  BY <1>1, MapSetType DEF ResolvedOK, PerSide

\* One href less to resolve.
LEMMA TodoDrop ==
  ASSUME TodoOK, NEW s \in Sides, NEW h, todo' = [todo EXCEPT ![s] = MapDelete(@, h)]
  PROVE  /\ PerSide(todo')
         /\ \A x \in Sides : IsMap(todo'[x], Hrefs, ETags)
         /\ todo'[s] = MapDelete(todo[s], h) /\ DOMAIN todo'[s] = DOMAIN todo[s] \ {h}
         /\ \A g \in DOMAIN todo'[s] : todo'[s][g] = todo[s][g]
         /\ \A x \in Sides : x # s => todo'[x] = todo[x]
<1>1. todo' = [x \in Sides |-> IF x = s THEN MapDelete(todo[s], h) ELSE todo[x]]
  BY DEF TodoOK, PerSide
<1>2. \A x \in Sides : IsMap(todo[x], Hrefs, ETags)
  BY DEF TodoOK
<1>3. /\ IsMap(MapDelete(todo[s], h), Hrefs, ETags)
      /\ DOMAIN MapDelete(todo[s], h) = DOMAIN todo[s] \ {h}
      /\ \A g \in DOMAIN todo[s] \ {h} : MapDelete(todo[s], h)[g] = todo[s][g]
  BY <1>2 DEF IsMap, MapDelete
<1>. QED  BY <1>1, <1>2, <1>3 DEF PerSide

LEMMA TodoDropOK ==
  ASSUME TodoOK, NEW s \in Sides, NEW h, Resolving(s), h \in DOMAIN todo[s],
         todo' = [todo EXCEPT ![s] = MapDelete(@, h)], pc' = pc
  PROVE  TodoOK'
<1>1. /\ PerSide(todo')
      /\ \A x \in Sides : IsMap(todo'[x], Hrefs, ETags)
      /\ todo'[s] = MapDelete(todo[s], h)
      /\ \A x \in Sides : x # s => todo'[x] = todo[x]
  BY TodoDrop
<1>2. DOMAIN EmptyMap = {}
  BY DEF EmptyMap
<1>. QED  BY <1>1, <1>2 DEF TodoOK, Resolving, Sides, PerSide

LEMMA ResolveKnownOK ==
  ASSUME TypeInv, NEW s \in Sides, NEW h \in Hrefs, ResolveKnown(s, h)
  PROVE  TypeInv'
<1>. DEFINE k == known[s][h].uid
            r == [href |-> h, version |-> todo[s][h], changed |-> FALSE, body |-> None]
<1>1. /\ Resolving(s) /\ h \in DOMAIN todo[s] /\ h \in DOMAIN known[s]
      /\ Resolve(s, k, r) /\ todo' = [todo EXCEPT ![s] = MapDelete(@, h)]
      /\ UNCHANGED <<coll, saved, pc, st, known, filtered, left, status, edits, faults, calm, base,
                     agreed>>
  BY DEF ResolveKnown
<1>2. ServersOK' /\ StateOK' /\ CountersOK' /\ KnownOK' /\ MarksOK' /\ TodoOK'
  BY <1>1, TodoDropOK DEF TypeInv, RunOK, ServersOK, StateOK, CountersOK, KnownOK, MarksOK
<1>3. k \in Keys /\ r \in SideItems /\ r.version \in ETags /\ k \in DOMAIN st
  BY <1>1, ETagsReal DEF TypeInv, RunOK, KnownOK, Listing0, TodoOK, Resolving, SideItems, IsMap
<1>4. /\ PerSide(resolved')
      /\ \A x \in Sides : IsMap(resolved'[x], Keys, SideItems)
      /\ \A j \in DOMAIN resolved'[s] : resolved'[s][j] = IF j = k THEN r ELSE resolved[s][j]
      /\ DOMAIN resolved'[s] = DOMAIN resolved[s] \cup {k}
      /\ \A x \in Sides : x # s => resolved'[x] = resolved[x]
  BY <1>1, <1>3, ResolveEffect DEF TypeInv, RunOK
<1>5. ResolvedOK'
  BY <1>1, <1>3, <1>4 DEF TypeInv, RunOK, ResolvedOK, ItemOK, Resolving, PerSide
<1>. QED  BY <1>2, <1>5 DEF TypeInv, RunOK

LEMMA ResolveReadOK ==
  ASSUME TypeInv, NEW s \in Sides, NEW h \in Hrefs, ResolveRead(s, h)
  PROVE  TypeInv'
<1>. DEFINE body == coll[s][h].body
            k == UidOf(body, h)
            r == [href |-> h, version |-> todo[s][h], changed |-> TRUE, body |-> body]
<1>1. /\ Resolving(s) /\ h \in DOMAIN todo[s] /\ h \in DOMAIN coll[s]
      /\ todo' = [todo EXCEPT ![s] = MapDelete(@, h)]
      /\ UNCHANGED <<coll, saved, pc, st, known, left, status, edits, faults, calm, base,
                     agreed>>
  BY DEF ResolveRead, MustRead
<1>2. \/ filtered' = filtered \cup {k} /\ UNCHANGED resolved
      \/ Resolve(s, k, r) /\ UNCHANGED filtered
  BY DEF ResolveRead
<1>3. ServersOK' /\ StateOK' /\ CountersOK' /\ KnownOK' /\ TodoOK'
  BY <1>1, TodoDropOK DEF TypeInv, RunOK, ServersOK, StateOK, CountersOK, KnownOK
<1>4. body \in Bodies
  BY <1>1 DEF TypeInv, ServersOK, IsMap, Resources
<1>5. k \in Keys /\ todo[s][h] \in ETags
  BY <1>1, <1>4, UidOfType DEF TypeInv, RunOK, TodoOK, IsMap
<1>6. r \in SideItems
  BY <1>4, <1>5, ETagsReal DEF SideItems
<1>7. MarksOK'
  BY <1>1, <1>2, <1>5 DEF TypeInv, RunOK, MarksOK, Resolve, Resolving
<1>8. ResolvedOK'
  <2>1. CASE UNCHANGED resolved
    BY <1>1, <2>1 DEF TypeInv, RunOK, ResolvedOK, ItemOK
  <2>2. CASE Resolve(s, k, r)
    <3>1. /\ PerSide(resolved')
          /\ \A x \in Sides : IsMap(resolved'[x], Keys, SideItems)
          /\ \A j \in DOMAIN resolved'[s] : resolved'[s][j] = IF j = k THEN r ELSE resolved[s][j]
          /\ DOMAIN resolved'[s] = DOMAIN resolved[s] \cup {k}
          /\ \A x \in Sides : x # s => resolved'[x] = resolved[x]
      BY <1>5, <1>6, <2>2, ResolveEffect DEF TypeInv, RunOK
    <3>. QED  BY <1>1, <1>4, <1>5, <3>1 DEF TypeInv, RunOK, ResolvedOK, ItemOK, Resolving, PerSide
  <2>. QED  BY <1>2, <2>1, <2>2
<1>. QED  BY <1>3, <1>7, <1>8 DEF TypeInv, RunOK

LEMMA ResolvedSideOK == ASSUME TypeInv, NEW s \in Sides, Resolved(s)  PROVE TypeInv'
<1>1. ServersOK' /\ StateOK' /\ CountersOK'
  BY DEF Resolved, TypeInv, ServersOK, StateOK, CountersOK
<1>2. KnownOK' /\ TodoOK'
  BY DEF Resolved, Resolving, TypeInv, RunOK, KnownOK, Listing0, TodoOK, Sides, PerSide
<1>3. ResolvedOK'
  BY DEF Resolved, Resolving, TypeInv, RunOK, ResolvedOK, ItemOK, PerSide, MarksOK
<1>4. MarksOK'
  BY DEF Resolved, Resolving, TypeInv, RunOK, ResolvedOK, MarksOK, StateOK, IsMap, Pcs, Sides
<1>. QED  BY <1>1, <1>2, <1>3, <1>4 DEF TypeInv, RunOK

-----------------------------------------------------------------------------
(* Types: the merge.                                                       *)

\* What is about to be copied was read, and has a href on either side.
LEMMA CopyTypes ==
  ASSUME TypeInv, NEW uid \in Keys, NEW s \in Sides, InHand(uid), Copies(uid, s)
  PROVE  /\ uid \in DOMAIN resolved[s] /\ resolved[s][uid].changed
         /\ resolved[s][uid].body \in Bodies
         /\ resolved[s][uid].href \in Hrefs /\ resolved[s][uid].version \in ETags
         /\ CopyHref(uid, s) \in Hrefs
<1>1. /\ \A x \in Sides : IsMap(resolved[x], Keys, SideItems)
      /\ \A x \in Sides : \A k \in DOMAIN resolved[x] : ItemOK(k, resolved[x][k])
  BY DEF TypeInv, RunOK, ResolvedOK
<1>2. \A x \in Sides : \A k \in DOMAIN resolved[x] : resolved[x][k] \in SideItems
  BY <1>1 DEF IsMap
<1>3. uid \in DOMAIN resolved[s] /\ (resolved[s][uid].changed \/ uid \notin DOMAIN st)
  BY DEF Copies, Changed, On
<1>4. resolved[s][uid].changed
  BY <1>1, <1>3 DEF ItemOK, InHand
<1>5. CopyHref(uid, s) \in Hrefs
  BY <1>2, TwoSides, Constants DEF CopyHref, On, SideItems
<1>. QED  BY <1>1, <1>2, <1>3, <1>4, <1>5 DEF ItemOK, SideItems

\* What a listing says of a version.
LEMMA ListedType ==
  ASSUME NEW s \in Sides, NEW v \in ETags
  PROVE  ListedTag(s, v) \in Tags /\ ListedTag(s, v) \in {v, NoTag, Reissued}
BY DEF ListedTag, Tagged, Tags

LEMMA HalvesType ==
  ASSUME TypeInv, NEW uid \in Keys, NEW s \in Sides, InHand(uid), Copies(uid, s), NEW tag \in Tags
  PROVE  /\ Halves(uid, s, tag) \in Entries
         /\ Halves(uid, s, tag).href[s] = resolved[s][uid].href
         /\ Halves(uid, s, tag).etag[s] = ListedTag(s, resolved[s][uid].version)
         /\ Halves(uid, s, tag).href[Other(s)] = CopyHref(uid, s)
         /\ Halves(uid, s, tag).etag[Other(s)] = tag
BY CopyTypes, TwoSides, ListedType DEF Halves, Entries

LEMMA AgreeType ==
  ASSUME TypeInv, NEW uid \in Keys, NEW s \in Sides, InHand(uid), Copies(uid, s), NEW t \in ETags,
         Agree(uid, s, t)
  PROVE  /\ IsMap(base', Keys, [Sides -> [href : Hrefs, etag : ETags]])
         /\ DOMAIN base' = DOMAIN base \cup {uid}
         /\ \A k \in DOMAIN base : k # uid => base'[k] = base[k]
         /\ base'[uid][s] = [href |-> resolved[s][uid].href, etag |-> resolved[s][uid].version]
         /\ base'[uid][Other(s)] = [href |-> CopyHref(uid, s), etag |-> t]
<1>. DEFINE from == [href |-> resolved[s][uid].href, etag |-> resolved[s][uid].version]
            to == [href |-> CopyHref(uid, s), etag |-> t]
            both == [x \in Sides |-> IF x = s THEN from ELSE to]
            V == [Sides -> [href : Hrefs, etag : ETags]]
<1>1. base' = MapSet(base, uid, both)
  BY DEF Agree
<1>2. from \in [href : Hrefs, etag : ETags] /\ to \in [href : Hrefs, etag : ETags]
  BY CopyTypes
<1>3. both \in V /\ both[s] = from /\ both[Other(s)] = to
  BY <1>2, TwoSides
<1>4. IsMap(base, Keys, V)
  BY DEF TypeInv, StateOK
<1>. HIDE DEF V, both
<1>5. /\ IsMap(base', Keys, V)
      /\ DOMAIN base' = DOMAIN base \cup {uid}
      /\ base'[uid] = both
      /\ \A k \in DOMAIN base : k # uid => base'[k] = base[k]
  BY <1>1, <1>3, <1>4 DEF MapSet, IsMap
<1>. QED  BY <1>3, <1>5 DEF V

LEMMA CopyOK ==
  ASSUME TypeInv, NEW uid \in Keys, NEW s \in Sides, CopyItem(uid, s) \/ PutLost(uid, s)
  PROVE  TypeInv'
<1>1. InHand(uid) /\ Copies(uid, s) /\ saved' = saved
  BY DEF CopyItem, PutLost, Return
<1>2. PICK t \in NewTags(UsedTags(Other(s), CopyHref(uid, s))) : PutCopy(uid, s, t)
  BY DEF CopyItem, PutLost
<1>3. t \in ETags
  BY <1>2, NewTagsType
<1>4. /\ ServersOK' /\ IsMap(base', Keys, [Sides -> [href : Hrefs, etag : ETags]])
      /\ agreed' \subseteq Keys
  BY <1>1, <1>2, <1>3, CopyTypes, TwoSides, StoreOK, AgreeType DEF PutCopy, TypeInv, StateOK
<1>5. CASE PutLost(uid, s)
  <2>1. RunOK' /\ UNCHANGED st
    BY <1>5, ReturnOK DEF PutLost
  <2>2. CountersOK'
    BY <1>5, Constants DEF PutLost, Fault, TypeInv, CountersOK
  <2>. QED  BY <1>1, <1>4, <2>1, <2>2 DEF TypeInv, StateOK
<1>6. CASE CopyItem(uid, s)
  <2>1. PICK tag \in ETags : st' = MapSet(st, uid, Halves(uid, s, Tagged(tag, PutMode[Other(s)])))
    BY <1>6, NewTagsType DEF CopyItem
  <2>2. Tagged(tag, PutMode[Other(s)]) \in Tags
    BY TaggedType, TwoSides, Constants
  <2>3. IsMap(st', Keys, Entries) /\ DOMAIN st' = DOMAIN st \cup {uid}
    <3>1. Halves(uid, s, Tagged(tag, PutMode[Other(s)])) \in Entries
      BY <1>1, <2>2, HalvesType
    <3>2. IsMap(st, Keys, Entries)
      BY DEF TypeInv, StateOK
    <3>. QED  BY <2>1, <3>1, <3>2, MapSetType
  <2>4. StateOK' /\ CountersOK'
    BY <1>1, <1>4, <1>6, <2>3 DEF CopyItem, TypeInv, StateOK, CountersOK
  <2>5. RunOK'
    BY <1>1, <1>6, <2>3 DEF CopyItem, TypeInv, RunOK, KnownOK, Listing0, TodoOK, ResolvedOK,
                            ItemOK, MarksOK, InHand
  <2>. QED  BY <1>4, <2>4, <2>5 DEF TypeInv
<1>. QED  BY <1>5, <1>6

\* Reconciled, with nothing left to remember.
LEMMA ForgetOK ==
  ASSUME TypeInv, NEW uid \in Keys, pc = "merge", left' = left \ {uid}, ServersOK',
         \/ st' = MapDelete(st, uid) /\ agreed' = agreed \ {uid}
         \/ UNCHANGED <<st, agreed>>,
         UNCHANGED <<saved, pc, known, todo, resolved, filtered, status, edits, faults, calm, base>>
  PROVE  TypeInv'
<1>1. /\ IsMap(st', Keys, Entries) /\ agreed' \subseteq Keys
      /\ DOMAIN st \ {uid} \subseteq DOMAIN st'
  <2>1. CASE UNCHANGED <<st, agreed>>
    BY <2>1 DEF TypeInv, StateOK
  <2>2. CASE st' = MapDelete(st, uid) /\ agreed' = agreed \ {uid}
    BY <2>2 DEF TypeInv, StateOK, IsMap, MapDelete
  <2>. QED  BY <2>1, <2>2
<1>2. StateOK' /\ CountersOK'
  BY <1>1 DEF TypeInv, StateOK, CountersOK
<1>3. KnownOK' /\ TodoOK' /\ ResolvedOK' /\ MarksOK'
  BY <1>1 DEF TypeInv, RunOK, KnownOK, Listing0, TodoOK, ResolvedOK, ItemOK, MarksOK
<1>. QED  BY <1>2, <1>3 DEF TypeInv, RunOK

LEMMA DeleteOK ==
  ASSUME TypeInv, NEW uid \in Keys, NEW s \in Sides, DeleteItem(uid, s) \/ DeleteLost(uid, s)
  PROVE  TypeInv'
<1>1. ServersOK'
  BY UnstoreOK DEF DeleteItem, DeleteLost, TypeInv
<1>2. CASE DeleteItem(uid, s)
  BY <1>1, <1>2, ForgetOK DEF DeleteItem, InHand
<1>3. CASE DeleteLost(uid, s)
  <2>1. RunOK' /\ CountersOK'
    BY <1>3, ReturnOK, Constants DEF DeleteLost, Fault, TypeInv, CountersOK
  <2>2. StateOK'
    BY <1>3 DEF DeleteLost, Return, TypeInv, StateOK
  <2>. QED  BY <1>1, <2>1, <2>2 DEF TypeInv
<1>. QED  BY <1>2, <1>3

LEMMA SettleOK == ASSUME TypeInv, NEW uid \in Keys, Settle(uid)  PROVE TypeInv'
BY ForgetOK DEF Settle, InHand, TypeInv, ServersOK

\* Init: only what users put there, under the first tag.
LEMMA InitOK == Init => TypeInv
<1>. SUFFICES ASSUME Init  PROVE TypeInv
  OBVIOUS
<1>1. ServersOK
  <2>1. [body : UserBodies, etag : NewTags({})] \subseteq Resources
    BY NewTagsType, Constants DEF Resources
  <2>2. coll = [s \in Sides |-> coll[s]]
    BY DEF Init
  <2>3. ASSUME NEW s \in Sides  PROVE IsMap(coll[s], Hrefs, Resources)
    BY <2>1 DEF Init, Maps, IsMap
  <2>. QED  BY <2>2, <2>3 DEF ServersOK, PerSide
<1>2. StateOK /\ CountersOK
  BY EmptyMapType, Constants DEF Init, StateOK, CountersOK
<1>3. KnownOK /\ TodoOK /\ ResolvedOK /\ MarksOK
  BY EmptyMapType, NothingYet DEF Init, KnownOK, TodoOK, ResolvedOK, MarksOK, Pcs
<1>. QED  BY <1>1, <1>2, <1>3 DEF TypeInv, RunOK

LEMMA StepOK == TypeInv /\ [Next]_vars => TypeInv'
<1>. SUFFICES ASSUME TypeInv, [Next]_vars  PROVE TypeInv'
  OBVIOUS
<1>1. CASE RunStep
  BY <1>1, StartOK, ListingsOK, ResolveKnownOK, ResolveReadOK, PlainEndsOK, ResolvedSideOK,
     CopyOK, DeleteOK, SettleOK, FinishOK
  DEF RunStep
<1>2. CASE FaultStep
  BY <1>2, PlainEndsOK, ListingsOK, CrashOK, CopyOK, DeleteOK DEF FaultStep
<1>3. CASE UserStep
  BY <1>3, UsersOK, ResetOK DEF UserStep
<1>4. CASE UNCHANGED vars
  BY <1>4, RunSame DEF vars, runVars, TypeInv, ServersOK, StateOK, CountersOK
<1>. QED  BY <1>1, <1>2, <1>3, <1>4 DEF Next

LEMMA TypeInvariant == Spec => []TypeInv
BY InitOK, StepOK, PTL DEF Spec

\* Collections, state and the run's locals keep their types through every
\* order of calls, edits and faults.
THEOREM TypeCorrect == Spec => []TypeOK
<1>1. Init => WitnessOK
  BY DEF Init, WitnessOK
<1>2. ASSUME TypeInv, WitnessOK, [Next]_vars  PROVE WitnessOK'
  <2>1. UNCHANGED jobVars
    BY <1>2, JobKept
  <2>2. ASSUME NEW uid \in Keys, missed' \subseteq missed \cup {uid}  PROVE WitnessOK'
    BY <1>2, <2>1, <2>2 DEF WitnessOK, jobVars
  <2>3. CASE UNCHANGED missed
    BY <1>2, <2>1, <2>3 DEF WitnessOK, jobVars
  <2>4. CASE Crash \/ ResetState
    BY <1>2, <2>1, <2>4 DEF WitnessOK, jobVars, TypeInv, StateOK, Crash, ResetState
  <2>5. ASSUME NEW uid \in Keys, NEW s \in Sides, CopyItem(uid, s) \/ PutLost(uid, s)
        PROVE  missed' \subseteq missed \cup {uid}
    BY <2>5 DEF CopyItem, PutLost
  <2>6. \/ UNCHANGED missed \/ Crash \/ ResetState
        \/ \E uid \in Keys, s \in Sides : CopyItem(uid, s) \/ PutLost(uid, s)
    BY <1>2 DEF Next, RunStep, FaultStep, UserStep, vars, runVars, Start, ListA, ListB, ResolveKnown,
                ResolveRead, ResolveGone, Resolved, CopyItemRefused, DeleteItem, DeleteItemGone,
                Settle, Complete, Finish, CallFails, ListsEmptyA, ListsEmptyB, DeleteLost, Remove,
                Write, UserEdit
  <2>. QED  BY <2>2, <2>3, <2>4, <2>5, <2>6
<1>. QED  BY <1>1, <1>2, TypeInvariant, TypeInvTypes, PTL DEF Spec

-----------------------------------------------------------------------------
(* Whose an href is.                                                       *)

Owner == CHOOSE o \in [Hrefs -> Uids] : OwnsHrefs(o)

LEMMA OwnerFacts ==
  ASSUME HrefsNameItems
  PROVE  /\ Owner \in [Hrefs -> Uids]
         /\ \A u \in Uids : Owner[DestHref[u]] = u
         /\ \A home \in UserHomes : home[1] \in Uids /\ Owner[home[2]] = home[1]
         /\ \A h \in Hrefs : Owner[h] \in Keys /\ Owner[h] # None
<1>1. Owner \in [Hrefs -> Uids] /\ OwnsHrefs(Owner)
  BY DEF HrefsNameItems, Owner
<1>. QED  BY <1>1, Constants DEF OwnsHrefs, Keys

\* Each href holds its owner's item only, and a side holds an item once.
OwnedSide(c) ==
  /\ \A h \in DOMAIN c : c[h].body.uid = Owner[h]
  /\ \A g, h \in DOMAIN c : Owner[g] = Owner[h] => g = h
OwnedState(m) == \A k \in DOMAIN m, s \in Sides : Owner[m[k].href[s]] = k
OwnedRun ==
  \A s \in Sides :
    /\ \A h \in DOMAIN known[s] : known[s][h].uid = Owner[h]
    /\ \A k \in DOMAIN resolved[s] :
         /\ Owner[resolved[s][k].href] = k
         /\ resolved[s][k].changed => resolved[s][k].body.uid = k
Owned == (\A s \in Sides : OwnedSide(coll[s])) /\ OwnedState(saved) /\ OwnedState(st) /\ OwnedRun

LEMMA OwnedUids ==
  ASSUME HrefsNameItems, NEW c, DOMAIN c \subseteq Hrefs, OwnedSide(c)
  PROVE  /\ \A h \in DOMAIN c : UidOf(c[h].body, h) = Owner[h]
         /\ UidsOf(c) = {Owner[h] : h \in DOMAIN c}
BY OwnerFacts DEF OwnedSide, UidOf, UidsOf

\* One write of an item to a href of its own.
LEMMA StoreOwned ==
  ASSUME HrefsNameItems, ServersOK, \A s \in Sides : OwnedSide(coll[s]),
         NEW s \in Sides, NEW h \in Hrefs, NEW b \in Bodies, NEW t \in ETags, Store(s, h, b, t),
         b.uid = Owner[h], h \in DOMAIN coll[s] \/ Owner[h] \notin UidsOf(coll[s])
  PROVE  \A x \in Sides : OwnedSide(coll'[x])
<1>1. /\ DOMAIN coll'[s] = DOMAIN coll[s] \cup {h}
      /\ coll'[s][h] = [body |-> b, etag |-> t]
      /\ \A g \in DOMAIN coll[s] : g # h => coll'[s][g] = coll[s][g]
      /\ \A x \in Sides : x # s => coll'[x] = coll[x]
  BY StoreOK
<1>2. UidsOf(coll[s]) = {Owner[g] : g \in DOMAIN coll[s]}
  BY OwnedUids DEF ServersOK, IsMap
<1>3. \A g \in DOMAIN coll[s] : Owner[g] = Owner[h] => g = h
  BY <1>2 DEF OwnedSide
<1>4. OwnedSide(coll'[s])
  BY <1>1, <1>3 DEF OwnedSide
<1>. QED  BY <1>1, <1>4

LEMMA UnstoreOwned ==
  ASSUME ServersOK, \A s \in Sides : OwnedSide(coll[s]), NEW s \in Sides, NEW h, Unstore(s, h)
  PROVE  \A x \in Sides : OwnedSide(coll'[x])
<1>1. /\ DOMAIN coll'[s] = DOMAIN coll[s] \ {h}
      /\ \A g \in DOMAIN coll'[s] : coll'[s][g] = coll[s][g]
      /\ \A x \in Sides : x # s => coll'[x] = coll[x]
  BY UnstoreOK
<1>2. OwnedSide(coll'[s])
  BY <1>1 DEF OwnedSide
<1>. QED  BY <1>1, <1>2

LEMMA ClearedOwned ==
  ASSUME known' = Each(EmptyMap), resolved' = Each(EmptyMap)
  PROVE  OwnedRun'
BY NothingYet, EmptyMapType DEF OwnedRun

LEMMA EmptyOwned == OwnedState(EmptyMap)
BY EmptyMapType DEF OwnedState

LEMMA SetOwned ==
  ASSUME NEW m, NEW k, NEW e, OwnedState(m), \A s \in Sides : Owner[e.href[s]] = k
  PROVE  OwnedState(MapSet(m, k, e))
BY DEF OwnedState, MapSet

LEMMA DropOwned == ASSUME NEW m, NEW k, OwnedState(m)  PROVE OwnedState(MapDelete(m, k))
BY DEF OwnedState, MapDelete

\* The item in hand and the hrefs it is copied between are uid's.
LEMMA CopyOwned ==
  ASSUME HrefsNameItems, TypeInv, Owned, NEW uid \in Keys, NEW s \in Sides, InHand(uid),
         Copies(uid, s)
  PROVE  /\ uid \in Uids
         /\ resolved[s][uid].body.uid = uid
         /\ Owner[resolved[s][uid].href] = uid /\ Owner[CopyHref(uid, s)] = uid
<1>1. /\ uid \in DOMAIN resolved[s] /\ resolved[s][uid].changed
      /\ resolved[s][uid].href \in Hrefs
  BY CopyTypes
<1>2. uid \in Uids
  BY <1>1, OwnerFacts DEF Owned, OwnedRun
<1>. QED  BY <1>1, <1>2, OwnerFacts, TwoSides DEF Owned, OwnedRun, CopyHref, On

LEMMA UsersOwned ==
  ASSUME HrefsNameItems, TypeInv, Owned, NEW s \in Sides, NEW h \in Hrefs,
         Remove(s, h) \/ \E b \in UserBodies : Write(s, h, b)
  PROVE  Owned'
<1>1. UNCHANGED <<saved, st, known, resolved>>
  BY DEF Remove, Write, UserEdit, runVars
<1>2. \A x \in Sides : OwnedSide(coll'[x])
  <2>1. CASE Remove(s, h)
    BY <2>1, UnstoreOwned DEF Remove, TypeInv, Owned
  <2>2. ASSUME NEW b \in UserBodies, Write(s, h, b)  PROVE \A x \in Sides : OwnedSide(coll'[x])
    <3>1. PICK t \in NewTags(UsedTags(s, h)) : Store(s, h, b, t)
      BY <2>2 DEF Write
    <3>2. CASE h \in DOMAIN coll[s]
      <4>1. b.uid = Owner[h]
        BY <2>2, <3>2 DEF Write, Owned, OwnedSide
      <4>. QED  BY <3>1, <3>2, <4>1, StoreOwned, NewTagsType, Constants DEF TypeInv, Owned
    <3>3. CASE h \notin DOMAIN coll[s]
      <4>1. b.uid = Owner[h] /\ b.uid # None /\ UidOf(b, h) \notin UidsOf(coll[s])
        BY <2>2, <3>3, OwnerFacts DEF Write
      <4>2. Owner[h] \notin UidsOf(coll[s])
        BY <4>1 DEF UidOf
      <4>. QED  BY <3>1, <4>1, <4>2, StoreOwned, NewTagsType, Constants DEF TypeInv, Owned
    <3>. QED  BY <3>2, <3>3
  <2>. QED  BY <2>1, <2>2
<1>. QED  BY <1>1, <1>2 DEF Owned, OwnedState, OwnedRun

LEMMA StartOwned == ASSUME TypeInv, Owned, Start  PROVE Owned'
<1>1. \A s \in Sides : known'[s] \in KnownBy(saved, s)
  BY DEF Start, Sides
<1>2. ASSUME NEW s \in Sides, NEW h \in DOMAIN known'[s]  PROVE known'[s][h].uid = Owner[h]
  <2>1. IsMap(saved, Keys, Entries) /\ OwnedState(saved)
    BY DEF TypeInv, StateOK, Owned
  <2>2. PICK ks \in KnownBy(saved, s) : ks = known'[s]
    BY <1>1
  <2>3. \A g \in DOMAIN ks : ks[g].uid \in DOMAIN saved /\ saved[ks[g].uid].href[s] = g
    BY <2>1, <2>2, KnownByType
  <2>4. known'[s][h].uid \in DOMAIN saved /\ saved[known'[s][h].uid].href[s] = h
    BY <1>2, <2>2, <2>3
  <2>. QED  BY <2>1, <2>4 DEF OwnedState
<1>. QED  BY <1>2 DEF Start, Owned, OwnedState, OwnedRun

LEMMA ResolveKnownOwned ==
  ASSUME HrefsNameItems, TypeInv, Owned, NEW s \in Sides, NEW h \in Hrefs, ResolveKnown(s, h)
  PROVE  Owned'
<1>. DEFINE k == known[s][h].uid
            r == [href |-> h, version |-> todo[s][h], changed |-> FALSE, body |-> None]
<1>1. k = Owner[h] /\ k \in Keys /\ r \in SideItems /\ Resolve(s, k, r)
  BY ETagsReal DEF ResolveKnown, Owned, OwnedRun, TypeInv, RunOK, KnownOK, TodoOK, IsMap, SideItems
<1>2. /\ \A j \in DOMAIN resolved'[s] : resolved'[s][j] = IF j = k THEN r ELSE resolved[s][j]
      /\ DOMAIN resolved'[s] = DOMAIN resolved[s] \cup {k}
      /\ \A x \in Sides : x # s => resolved'[x] = resolved[x]
  BY <1>1, ResolveEffect DEF TypeInv, RunOK
<1>3. OwnedRun'
  BY <1>1, <1>2 DEF ResolveKnown, Owned, OwnedRun
<1>. QED  BY <1>3 DEF ResolveKnown, Owned, OwnedState

LEMMA ResolveReadOwned ==
  ASSUME HrefsNameItems, TypeInv, Owned, NEW s \in Sides, NEW h \in Hrefs, ResolveRead(s, h)
  PROVE  Owned'
<1>. DEFINE body == coll[s][h].body
            k == UidOf(body, h)
            r == [href |-> h, version |-> todo[s][h], changed |-> TRUE, body |-> body]
<1>1. h \in DOMAIN coll[s] /\ h \in DOMAIN todo[s] /\ (Resolve(s, k, r) \/ UNCHANGED resolved)
  BY DEF ResolveRead, MustRead
<1>2. body.uid = Owner[h] /\ k = Owner[h]
  BY <1>1, OwnedUids DEF Owned, OwnedSide, TypeInv, ServersOK, IsMap
<1>3. k \in Keys /\ r \in SideItems
  BY <1>1, <1>2, OwnerFacts, ETagsReal
  DEF TypeInv, ServersOK, RunOK, TodoOK, IsMap, SideItems, Resources
<1>4. OwnedRun'
  <2>1. CASE UNCHANGED resolved
    BY <2>1 DEF ResolveRead, Owned, OwnedRun
  <2>2. CASE Resolve(s, k, r)
    <3>1. /\ \A j \in DOMAIN resolved'[s] : resolved'[s][j] = IF j = k THEN r ELSE resolved[s][j]
          /\ DOMAIN resolved'[s] = DOMAIN resolved[s] \cup {k}
          /\ \A x \in Sides : x # s => resolved'[x] = resolved[x]
      BY <1>3, <2>2, ResolveEffect DEF TypeInv, RunOK
    <3>. QED  BY <1>2, <3>1 DEF ResolveRead, Owned, OwnedRun
  <2>. QED  BY <1>1, <2>1, <2>2
<1>. QED  BY <1>4 DEF ResolveRead, Owned, OwnedState

LEMMA CopyKeepsOwned ==
  ASSUME HrefsNameItems, TypeInv, Owned, NEW uid \in Keys, NEW s \in Sides,
         CopyItem(uid, s) \/ PutLost(uid, s)
  PROVE  Owned'
<1>1. InHand(uid) /\ Copies(uid, s) /\ ~Refused(uid, s) /\ saved' = saved
  BY DEF CopyItem, PutLost, Return
<1>2. PICK t \in NewTags(UsedTags(Other(s), CopyHref(uid, s))) : PutCopy(uid, s, t)
  BY DEF CopyItem, PutLost
<1>3. /\ Owner[resolved[s][uid].href] = uid /\ Owner[CopyHref(uid, s)] = uid
      /\ resolved[s][uid].body.uid = uid
      /\ CopyHref(uid, s) \in Hrefs /\ resolved[s][uid].body \in Bodies
  BY <1>1, CopyOwned, CopyTypes
<1>4. \A x \in Sides : OwnedSide(coll'[x])
  BY <1>1, <1>2, <1>3, StoreOwned, TwoSides, NewTagsType DEF PutCopy, TypeInv, Owned, Refused
<1>5. CASE PutLost(uid, s)
  BY <1>1, <1>4, <1>5, ClearedOwned DEF PutLost, Return, Owned, OwnedState
<1>6. CASE CopyItem(uid, s)
  <2>1. PICK tag \in ETags : st' = MapSet(st, uid, Halves(uid, s, Tagged(tag, PutMode[Other(s)])))
    BY <1>6, NewTagsType DEF CopyItem
  <2>. DEFINE e == Halves(uid, s, Tagged(tag, PutMode[Other(s)]))
  <2>2. e.href[s] = resolved[s][uid].href /\ e.href[Other(s)] = CopyHref(uid, s)
    BY <1>1, HalvesType, TaggedType, TwoSides, Constants
  <2>3. \A x \in Sides : Owner[e.href[x]] = uid
    BY <1>3, <2>2, TwoSides
  <2>4. OwnedState(st')
    BY <2>1, <2>3, SetOwned DEF Owned
  <2>. QED  BY <1>1, <1>4, <1>6, <2>4 DEF CopyItem, Owned, OwnedState, OwnedRun
<1>. QED  BY <1>5, <1>6

LEMMA OwnedStep ==
  ASSUME HrefsNameItems, TypeInv, Owned, [Next]_vars
  PROVE  Owned'
<1>1. CASE \/ ListA \/ ListB \/ ListsEmptyA \/ ListsEmptyB \/ CallFails \/ Complete
           \/ \E s \in Sides, h \in Hrefs : ResolveGone(s, h)
           \/ \E s \in Sides : Resolved(s)
           \/ \E uid \in Keys, s \in Sides : CopyItemRefused(uid, s) \/ DeleteItemGone(uid, s)
           \/ UNCHANGED vars
  <2>1. UNCHANGED <<coll, saved, st>>
    BY <1>1 DEF ListA, ListB, ListsEmptyA, ListsEmptyB, CallFails, Complete, ResolveGone, Resolved,
                CopyItemRefused, DeleteItemGone, AcceptA, AcceptB, Return, vars, runVars
  <2>2. \/ UNCHANGED <<known, resolved>>
        \/ known' = Each(EmptyMap) /\ resolved' = Each(EmptyMap)
    BY <1>1 DEF ListA, ListB, ListsEmptyA, ListsEmptyB, CallFails, Complete, ResolveGone, Resolved,
                CopyItemRefused, DeleteItemGone, AcceptA, AcceptB, Return, vars, runVars
  <2>3. OwnedRun'
    BY <2>2, ClearedOwned DEF Owned, OwnedRun
  <2>. QED  BY <2>1, <2>3 DEF Owned, OwnedState
<1>2. CASE Crash
  BY <1>2, ClearedOwned, EmptyOwned DEF Crash, Owned
<1>3. CASE Finish
  BY <1>3, EmptyOwned DEF Finish, Owned, OwnedRun
<1>4. CASE ResetState
  BY <1>4, EmptyOwned DEF ResetState, Owned, OwnedRun
<1>5. ASSUME NEW uid \in Keys, NEW s \in Sides, DeleteItem(uid, s)  PROVE Owned'
  BY <1>5, UnstoreOwned, DropOwned DEF DeleteItem, TypeInv, Owned, OwnedRun
<1>6. ASSUME NEW uid \in Keys, NEW s \in Sides, DeleteLost(uid, s)  PROVE Owned'
  BY <1>6, UnstoreOwned, ClearedOwned DEF DeleteLost, Return, TypeInv, Owned
<1>7. ASSUME NEW uid \in Keys, Settle(uid)  PROVE Owned'
  BY <1>7, DropOwned DEF Settle, Owned, OwnedRun
<1>. QED
  BY <1>1, <1>2, <1>3, <1>4, <1>5, <1>6, <1>7, StartOwned, ResolveKnownOwned, ResolveReadOwned,
     CopyKeepsOwned, UsersOwned
  DEF Next, RunStep, FaultStep, UserStep

LEMMA OwnedInit == ASSUME HrefsNameItems, Init  PROVE Owned
<1>1. \A s \in Sides : OwnedSide(coll[s])
  <2>1. ASSUME NEW s \in Sides  PROVE OwnedSide(coll[s])
    <3>1. DOMAIN coll[s] \subseteq Hrefs /\ Fresh(coll[s])
      BY DEF Init, Maps
    <3>2. \A h \in DOMAIN coll[s] : coll[s][h].body.uid = Owner[h]
      BY <3>1, OwnerFacts DEF Fresh
    <3>. QED  BY <3>1, <3>2, OwnerFacts DEF OwnedSide, Fresh, UidOf
  <2>. QED  BY <2>1
<1>. QED  BY <1>1, EmptyOwned, NothingYet, EmptyMapType DEF Init, Owned, OwnedRun

LEMMA OwnedInvariant == ASSUME HrefsNameItems  PROVE Spec => [](TypeInv /\ Owned)
<1>1. Init => TypeInv /\ Owned
  BY InitOK, OwnedInit
<1>2. (TypeInv /\ Owned) /\ [Next]_vars => (TypeInv /\ Owned)'
  BY StepOK, OwnedStep
<1>. QED  BY <1>1, <1>2, PTL DEF Spec

-----------------------------------------------------------------------------
(* The steps of a run by what they do to its locals.                       *)

Cleared ==
  /\ known' = Each(EmptyMap) /\ todo' = Each(EmptyMap) /\ resolved' = Each(EmptyMap)
  /\ filtered' = {} /\ left' = {}

\* The run returns; what it did to the state and the servers stays.
Ends == Cleared /\ pc' = "finish" /\ UNCHANGED <<saved, st>>

\* The calls that end it, refused or failed.
EndStep ==
  \/ CallFails \/ Complete
  \/ \E s \in Sides, h \in Hrefs : ResolveGone(s, h)
  \/ \E uid \in Keys, s \in Sides :
       CopyItemRefused(uid, s) \/ DeleteItemGone(uid, s) \/ PutLost(uid, s) \/ DeleteLost(uid, s)

LEMMA EndStepEnds == EndStep => Ends
BY DEF EndStep, CallFails, Complete, ResolveGone, CopyItemRefused, DeleteItemGone, PutLost,
       DeleteLost, Return, Ends, Cleared

\* A listing is taken over, or a guard stops the run.
ListStep == ListA \/ ListB \/ ListsEmptyA \/ ListsEmptyB
LEMMA ListStepCases ==
  ASSUME ListStep
  PROVE  \/ Ends /\ pc = "listB"
         \/ /\ pc = "listA" /\ \E list : AcceptA(list)
         \/ /\ pc = "listB" /\ \E list : Accepted(list)
<1>1. ASSUME NEW list, AcceptB(list)  PROVE Ends \/ Accepted(list)
  BY <1>1, AcceptBCases DEF Return, Ends, Cleared
<1>. QED  BY <1>1 DEF ListStep, ListA, ListB, ListsEmptyA, ListsEmptyB

\* One identity is reconciled with its entry kept or dropped.
DropStep(uid) == (\E s \in Sides : DeleteItem(uid, s)) \/ Settle(uid)
LEMMA DropStepEffect ==
  ASSUME NEW uid, DropStep(uid)
  PROVE  /\ pc = "merge" /\ uid \in left /\ left' = left \ {uid}
         /\ UNCHANGED <<saved, pc, known, todo, resolved, filtered, status, edits, faults, calm, base>>
         /\ \/ st' = MapDelete(st, uid) /\ agreed' = agreed \ {uid}
            \/ UNCHANGED <<st, agreed>>
BY DEF DropStep, DeleteItem, Settle, InHand

LEMMA DropStepMissed == ASSUME NEW uid, DropStep(uid)  PROVE UNCHANGED missed
BY DEF DropStep, DeleteItem, Settle

UserWrite == \E s \in Sides, h \in Hrefs : Remove(s, h) \/ \E b \in UserBodies : Write(s, h, b)
LEMMA UserWriteEffect ==
  UserWrite => UserEdit /\ UNCHANGED <<saved, pc, st, known, todo, resolved, filtered, left, status,
                                       faults, base, agreed, missed>>
BY DEF UserWrite, Remove, Write, UserEdit, runVars

LEMMA NextCases ==
  ASSUME [Next]_vars
  PROVE  \/ Start \/ ListStep \/ EndStep \/ Finish \/ Crash \/ ResetState \/ UserWrite
         \/ \E s \in Sides, h \in Hrefs : ResolveKnown(s, h) \/ ResolveRead(s, h)
         \/ \E s \in Sides : Resolved(s)
         \/ \E uid \in Keys : DropStep(uid) \/ \E s \in Sides : CopyItem(uid, s)
         \/ UNCHANGED vars
BY DEF Next, RunStep, FaultStep, UserStep, ListStep, EndStep, DropStep, UserWrite

-----------------------------------------------------------------------------
(* What known remembers.                                                   *)

\* known has the entry of k under its href on s.
Remembers(s, k) ==
  /\ st[k].href[s] \in DOMAIN known[s]
  /\ known[s][st[k].href[s]].uid = k
  /\ known[s][st[k].href[s]].etag = st[k].etag[s]

\* Until its turn in the merge comes.
Open(k) == pc = "merge" => k \in left

Knows ==
  /\ pc \in Listing0 => st = saved
  /\ pc \in Listing0 \cup {"merge"} =>
       \A s \in Sides : \A h \in DOMAIN known[s] :
         known[s][h].uid \in DOMAIN saved /\ saved[known[s][h].uid].href[s] = h
  /\ pc \in Listing0 \cup {"merge"} =>
       \A k \in DOMAIN st : Open(k) => \A s \in Sides : Remembers(s, k)

LEMMA StartKnows ==
  ASSUME HrefsNameItems, TypeInv, Owned, Start
  PROVE  Knows'
<1>1. IsMap(saved, Keys, Entries) /\ OwnedState(saved) /\ st' = saved /\ pc' = "listA"
  BY DEF Start, TypeInv, StateOK, Owned
<1>2. ASSUME NEW s \in Sides
      PROVE  /\ \A h \in DOMAIN known'[s] : /\ known'[s][h].uid \in DOMAIN saved
                                              /\ saved[known'[s][h].uid].href[s] = h
             /\ \A k \in DOMAIN saved :
                  /\ saved[k].href[s] \in DOMAIN known'[s]
                  /\ known'[s][saved[k].href[s]].uid = k
                  /\ known'[s][saved[k].href[s]].etag = saved[k].etag[s]
  <2>1. PICK ks \in KnownBy(saved, s) : ks = known'[s]
    BY DEF Start, Sides
  <2>2. /\ \A h \in DOMAIN ks : /\ ks[h].uid \in DOMAIN saved /\ saved[ks[h].uid].href[s] = h
                                /\ ks[h].etag = saved[ks[h].uid].etag[s]
        /\ \A k \in DOMAIN saved : saved[k].href[s] \in DOMAIN ks
    BY <1>1, <2>1, KnownByType
  <2>3. \A k \in DOMAIN saved : ks[saved[k].href[s]].uid = k
    BY <1>1, <2>2 DEF OwnedState
  <2>. QED  BY <2>1, <2>2, <2>3
<1>3. saved' = saved
  BY DEF Start
<1>. QED  BY <1>1, <1>2, <1>3 DEF Knows, Open, Remembers

LEMMA KnowsStep ==
  ASSUME HrefsNameItems, TypeInv, Owned, Knows, [Next]_vars
  PROVE  Knows'
<1>1. ASSUME pc' \in {"idle", "finish"}  PROVE Knows'
  BY <1>1 DEF Knows, Listing0
<1>2. CASE ListStep
  <2>1. CASE Ends
    BY <1>1, <2>1 DEF Ends
  <2>2. ASSUME NEW list, pc = "listA", AcceptA(list)  PROVE Knows'
    BY <2>2 DEF AcceptA, Knows, Listing0, Open, Remembers
  <2>3. ASSUME NEW list, pc = "listB", Accepted(list)  PROVE Knows'
    BY <2>3 DEF Accepted, Knows, Listing0, Open, Remembers
  <2>. QED  BY <1>2, <2>1, <2>2, <2>3, ListStepCases, Zenon
<1>3. ASSUME NEW s \in Sides, NEW h \in Hrefs, ResolveKnown(s, h) \/ ResolveRead(s, h)
      PROVE  Knows'
  BY <1>3 DEF ResolveKnown, ResolveRead, MustRead, Resolving, Knows, Listing0, Open, Remembers
<1>4. ASSUME NEW s \in Sides, Resolved(s)  PROVE Knows'
  BY <1>4 DEF Resolved, Resolving, Knows, Listing0, Open, Remembers
<1>5. ASSUME NEW uid \in Keys, DropStep(uid)  PROVE Knows'
  <2>1. \A k \in DOMAIN st' : k # uid => k \in DOMAIN st /\ st'[k] = st[k]
    BY <1>5, DropStepEffect DEF MapDelete
  <2>. QED  BY <1>5, <2>1, DropStepEffect DEF Knows, Listing0, Open, Remembers
<1>6. ASSUME NEW uid \in Keys, NEW s \in Sides, CopyItem(uid, s)  PROVE Knows'
  <2>1. \A k \in DOMAIN st' : k # uid => k \in DOMAIN st /\ st'[k] = st[k]
    BY <1>6 DEF CopyItem, MapSet
  <2>2. pc = "merge" /\ left' = left \ {uid} /\ UNCHANGED <<pc, known, saved>>
    BY <1>6 DEF CopyItem, InHand
  <2>. QED  BY <2>1, <2>2 DEF Knows, Listing0, Open, Remembers
<1>7. CASE UserWrite \/ UNCHANGED vars
  BY <1>7, UserWriteEffect DEF vars, runVars, Knows, Listing0, Open, Remembers
<1>8. CASE EndStep \/ Finish \/ Crash \/ ResetState
  BY <1>1, <1>8, EndStepEnds DEF Ends, Finish, Crash, ResetState
<1>. QED  BY <1>2, <1>3, <1>4, <1>5, <1>6, <1>7, <1>8, StartKnows, NextCases

-----------------------------------------------------------------------------
(* The vanish guard.                                                       *)

\* A run that got past the listings of a state of Threshold items or more
\* has seen something on either side.
Guarded ==
  /\ IsFiniteSet(DOMAIN saved) /\ IsFiniteSet(DOMAIN st)
  /\ pc \in {"resolveA", "resolveB", "merge"} /\ Cardinality(DOMAIN saved) >= Threshold =>
       \A s \in Sides : DOMAIN todo[s] # {} \/ DOMAIN resolved[s] \cup filtered # {}

\* known counts as many items as the state.
LEMMA KnownCount ==
  ASSUME TypeInv, Knows, pc \in Listing0, IsFiniteSet(DOMAIN saved), NEW s \in Sides
  PROVE  Cardinality(DOMAIN known[s]) = Cardinality(DOMAIN saved)
<1>. DEFINE f == [k \in DOMAIN saved |-> saved[k].href[s]]
<1>1. /\ st = saved
      /\ \A h \in DOMAIN known[s] : known[s][h].uid \in DOMAIN saved /\ saved[known[s][h].uid].href[s] = h
      /\ \A k \in DOMAIN saved : saved[k].href[s] \in DOMAIN known[s] /\ known[s][saved[k].href[s]].uid = k
  BY DEF Knows, Listing0, Open, Remembers, TypeInv, RunOK, KnownOK
<1>2. f \in Injection(DOMAIN saved, DOMAIN known[s])
  BY <1>1 DEF Injection, IsInjective
<1>3. ASSUME NEW h \in DOMAIN known[s]  PROVE \E k \in DOMAIN saved : f[k] = h
  BY <1>1, <1>3
<1>4. f \in Surjection(DOMAIN saved, DOMAIN known[s])
  BY <1>2, <1>3 DEF Injection, Surjection
<1>5. ExistsBijection(DOMAIN saved, DOMAIN known[s])
  BY <1>2, <1>4, Zenon DEF Bijection, ExistsBijection
<1>. QED  BY <1>5, FS_Bijection

LEMMA AcceptBGuarded ==
  ASSUME TypeInv, Knows, Guarded, pc = "listB", NEW list, AcceptB(list), ~Ends
  PROVE  Guarded'
<1>1. Accepted(list)
  BY AcceptBCases DEF Return, Ends, Cleared
<1>2. /\ todo'["B"] = list /\ todo'["A"] = todo["A"]
  BY <1>1, TodoSet DEF Accepted, TypeInv, RunOK, TodoOK, Sides
<1>3. /\ ~Vanished(Cardinality(DOMAIN todo["A"]), Cardinality(DOMAIN known["A"]), Threshold)
      /\ ~Vanished(Cardinality(DOMAIN list), Cardinality(DOMAIN known["B"]), Threshold)
  BY DEF AcceptB, Return, Ends, Cleared
<1>4. \A s \in Sides : Cardinality(DOMAIN known[s]) = Cardinality(DOMAIN saved)
  BY KnownCount DEF Guarded, Listing0
<1>5. ASSUME Cardinality(DOMAIN saved) >= Threshold
      PROVE  DOMAIN todo["A"] # {} /\ DOMAIN list # {}
  BY <1>3, <1>4, <1>5, FS_EmptySet DEF Vanished, Sides
<1>. QED  BY <1>1, <1>2, <1>5 DEF Guarded, Accepted, Sides

LEMMA GuardedStep ==
  ASSUME TypeInv, TypeInv', Knows, Guarded, [Next]_vars
  PROVE  Guarded'
<1>1. ASSUME pc' \in {"idle", "finish", "listA", "listB"}, IsFiniteSet(DOMAIN saved'),
             IsFiniteSet(DOMAIN st')
      PROVE  Guarded'
  BY <1>1 DEF Guarded
<1>2. IsFiniteSet(DOMAIN EmptyMap)
  BY EmptyMapType, FS_EmptySet
<1>3. CASE ListStep
  <2>1. CASE Ends
    BY <1>1, <2>1 DEF Ends, Guarded
  <2>2. ASSUME NEW list, AcceptA(list)  PROVE Guarded'
    BY <1>1, <2>2 DEF AcceptA, Guarded
  <2>. QED  BY <1>3, <2>1, <2>2, AcceptBGuarded DEF ListStep, ListA, ListB, ListsEmptyA, ListsEmptyB
<1>4. ASSUME NEW s \in Sides, NEW h \in Hrefs, ResolveKnown(s, h)  PROVE Guarded'
  <2>. DEFINE k == known[s][h].uid
              r == [href |-> h, version |-> todo[s][h], changed |-> FALSE, body |-> None]
  <2>1. k \in Keys /\ r \in SideItems /\ Resolve(s, k, r)
    BY <1>4, ETagsReal DEF ResolveKnown, TypeInv, RunOK, KnownOK, TodoOK, IsMap, SideItems
  <2>2. /\ DOMAIN resolved'[s] = DOMAIN resolved[s] \cup {k}
        /\ \A x \in Sides : x # s => resolved'[x] = resolved[x] /\ todo'[x] = todo[x]
    BY <1>4, <2>1, ResolveEffect, TodoDrop DEF ResolveKnown, TypeInv, RunOK
  <2>. QED  BY <1>4, <2>2 DEF ResolveKnown, Guarded
<1>5. ASSUME NEW s \in Sides, NEW h \in Hrefs, ResolveRead(s, h)  PROVE Guarded'
  <2>. DEFINE body == coll[s][h].body
              k == UidOf(body, h)
              r == [href |-> h, version |-> todo[s][h], changed |-> TRUE, body |-> body]
  <2>1. \/ filtered' = filtered \cup {k} /\ UNCHANGED resolved
        \/ Resolve(s, k, r) /\ UNCHANGED filtered
    BY <1>5 DEF ResolveRead
  <2>2. \A x \in Sides : x # s => todo'[x] = todo[x]
    BY <1>5, TodoDrop DEF ResolveRead, TypeInv, RunOK
  <2>3. k \in Keys /\ r \in SideItems
    BY <1>5, UidOfType, ETagsReal
    DEF ResolveRead, MustRead, TypeInv, ServersOK, RunOK, TodoOK, IsMap, SideItems, Resources
  <2>4. ASSUME Resolve(s, k, r)
        PROVE  /\ DOMAIN resolved'[s] = DOMAIN resolved[s] \cup {k}
               /\ \A x \in Sides : x # s => resolved'[x] = resolved[x]
    BY <2>3, <2>4, ResolveEffect DEF TypeInv, RunOK
  <2>. QED  BY <1>5, <2>1, <2>2, <2>4 DEF ResolveRead, Guarded
<1>6. ASSUME NEW s \in Sides, Resolved(s)  PROVE Guarded'
  BY <1>6 DEF Resolved, Resolving, Guarded
<1>7. ASSUME NEW uid \in Keys, DropStep(uid)  PROVE Guarded'
  <2>1. DOMAIN st' = DOMAIN st \ {uid} \/ DOMAIN st' = DOMAIN st
    BY <1>7, DropStepEffect DEF MapDelete
  <2>2. IsFiniteSet(DOMAIN st \ {uid}) /\ IsFiniteSet(DOMAIN st)
    BY FS_RemoveElement DEF Guarded
  <2>3. IsFiniteSet(DOMAIN st')
    BY <2>1, <2>2
  <2>. QED  BY <1>7, <2>3, DropStepEffect DEF Guarded
<1>8. ASSUME NEW uid \in Keys, NEW s \in Sides, CopyItem(uid, s)  PROVE Guarded'
  <2>1. DOMAIN st' = DOMAIN st \cup {uid}
    BY <1>8 DEF CopyItem, MapSet
  <2>2. IsFiniteSet(DOMAIN st \cup {uid})
    BY FS_AddElement DEF Guarded
  <2>3. IsFiniteSet(DOMAIN st')
    BY <2>1, <2>2
  <2>. QED  BY <1>8, <2>3 DEF CopyItem, Guarded
<1>9. CASE Start \/ EndStep \/ Finish \/ Crash \/ ResetState
  BY <1>1, <1>2, <1>9, EndStepEnds DEF Start, Ends, Finish, Crash, ResetState, Guarded
<1>10. CASE UserWrite \/ UNCHANGED vars
  BY <1>10, UserWriteEffect DEF vars, runVars, Guarded
<1>. QED  BY <1>3, <1>4, <1>5, <1>6, <1>7, <1>8, <1>9, <1>10, NextCases

\* A listing that comes back empty against a state of Threshold items or more
\* never gets as far as the merge, where it would delete them on the other
\* side.
THEOREM VanishGuarded == ASSUME HrefsNameItems  PROVE Spec => []VanishGuard
<1>. DEFINE Inv == TypeInv /\ Owned /\ Knows /\ Guarded
<1>1. Init => Inv
  BY InitOK, OwnedInit, EmptyMapType, FS_EmptySet DEF Init, Knows, Listing0, Guarded
<1>2. Inv /\ [Next]_vars => Inv'
  BY StepOK, OwnedStep, KnowsStep, GuardedStep
<1>3. Inv => VanishGuard
  BY EmptyMapType DEF Guarded, VanishGuard, TypeInv, RunOK, TodoOK
<1>. QED  BY <1>1, <1>2, <1>3, PTL DEF Spec

-----------------------------------------------------------------------------
(* Only changes are copied.                                                *)

\* Every PUT answers with the ETag of what it stored.
TagsAnswered == \A s \in Sides : PutMode[s] = "stable"

\* What both sides agreed on is what the state records, where it learned of it
\* and the side names its versions.
Agreed(m) ==
  /\ agreed \subseteq DOMAIN base
  /\ \A k \in agreed \ missed :
       /\ k \in DOMAIN m
       /\ \A s \in Sides :
            /\ base[k][s].href = m[k].href[s]
            /\ listMode[s] = "stable" => base[k][s].etag = m[k].etag[s]
Lockstep == Agreed(IF pc = "idle" THEN saved ELSE st)

\* Read is what known did not have under this href and tag.
ReadUnlessKnown ==
  \A s \in Sides : \A k \in DOMAIN resolved[s] :
    LET r == resolved[s][k]
    IN  r.changed <=> ~(r.href \in DOMAIN known[s] /\ SameTag(known[s][r.href].etag, ListedTag(s, r.version)))

LEMMA ReadStep ==
  ASSUME TypeInv, ReadUnlessKnown, [Next]_vars
  PROVE  ReadUnlessKnown'
<1>. USE JobKept DEF jobVars, ListedTag
<1>1. ASSUME \A s \in Sides : resolved'[s] = EmptyMap  PROVE ReadUnlessKnown'
  BY <1>1, EmptyMapType DEF ReadUnlessKnown
<1>2. ASSUME UNCHANGED <<known, resolved>>  PROVE ReadUnlessKnown'
  BY <1>2 DEF ReadUnlessKnown
<1>3. Cleared => ReadUnlessKnown'
  BY <1>1, NothingYet DEF Cleared
<1>4. ASSUME NEW s \in Sides, NEW h \in Hrefs, ResolveKnown(s, h)  PROVE ReadUnlessKnown'
  <2>. DEFINE k == known[s][h].uid
              r == [href |-> h, version |-> todo[s][h], changed |-> FALSE, body |-> None]
  <2>1. /\ h \in DOMAIN known[s] /\ SameTag(known[s][h].etag, ListedTag(s, r.version))
        /\ Resolve(s, k, r) /\ UNCHANGED known /\ h \in DOMAIN todo[s]
    BY <1>4 DEF ResolveKnown
  <2>2. k \in Keys /\ r \in SideItems
    BY <2>1, ETagsReal DEF TypeInv, RunOK, KnownOK, TodoOK, IsMap, SideItems
  <2>3. /\ \A j \in DOMAIN resolved'[s] : resolved'[s][j] = IF j = k THEN r ELSE resolved[s][j]
        /\ DOMAIN resolved'[s] = DOMAIN resolved[s] \cup {k}
        /\ \A x \in Sides : x # s => resolved'[x] = resolved[x]
    BY <2>1, <2>2, ResolveEffect DEF TypeInv, RunOK
  <2>. QED  BY <2>1, <2>3 DEF ReadUnlessKnown
<1>5. ASSUME NEW s \in Sides, NEW h \in Hrefs, ResolveRead(s, h)  PROVE ReadUnlessKnown'
  <2>. DEFINE body == coll[s][h].body
              k == UidOf(body, h)
              r == [href |-> h, version |-> todo[s][h], changed |-> TRUE, body |-> body]
  <2>1. /\ ~(h \in DOMAIN known[s] /\ SameTag(known[s][h].etag, ListedTag(s, r.version)))
        /\ Resolve(s, k, r) \/ UNCHANGED resolved
        /\ UNCHANGED known /\ h \in DOMAIN todo[s] /\ h \in DOMAIN coll[s]
    BY <1>5 DEF ResolveRead, MustRead
  <2>2. k \in Keys /\ r \in SideItems
    BY <2>1, UidOfType, ETagsReal
    DEF TypeInv, ServersOK, RunOK, TodoOK, IsMap, SideItems, Resources
  <2>3. ASSUME Resolve(s, k, r)
        PROVE  /\ \A j \in DOMAIN resolved'[s] : resolved'[s][j] = IF j = k THEN r ELSE resolved[s][j]
               /\ DOMAIN resolved'[s] = DOMAIN resolved[s] \cup {k}
               /\ \A x \in Sides : x # s => resolved'[x] = resolved[x]
    BY <2>2, <2>3, ResolveEffect DEF TypeInv, RunOK
  <2>4. CASE Resolve(s, k, r)
    BY <2>1, <2>3, <2>4 DEF ReadUnlessKnown
  <2>. QED  BY <1>2, <2>1, <2>4
<1>6. CASE Start
  BY <1>1, <1>6 DEF Start, TypeInv, RunOK, ResolvedOK
<1>7. CASE ListStep
  BY <1>2, <1>3, <1>7, ListStepCases DEF Ends, AcceptA, Accepted
<1>8. CASE EndStep \/ Crash
  BY <1>3, <1>8, EndStepEnds DEF Ends, Crash, Cleared
<1>9. ASSUME NEW uid \in Keys, DropStep(uid) \/ \E s \in Sides : CopyItem(uid, s)
      PROVE  ReadUnlessKnown'
  BY <1>2, <1>9, DropStepEffect DEF CopyItem
<1>10. CASE Finish \/ ResetState \/ UserWrite \/ UNCHANGED vars \/ \E s \in Sides : Resolved(s)
  BY <1>2, <1>10, UserWriteEffect DEF Finish, ResetState, Resolved, vars, runVars
<1>. QED  BY <1>4, <1>5, <1>6, <1>7, <1>8, <1>9, <1>10, NextCases

LEMMA LockstepStep ==
  ASSUME TagsAnswered, TypeInv, Lockstep, [Next]_vars
  PROVE  Lockstep'
<1>. USE JobKept DEF jobVars
<1>1. ASSUME (IF pc' = "idle" THEN saved' ELSE st') = (IF pc = "idle" THEN saved ELSE st),
             UNCHANGED <<base, agreed, missed>>
      PROVE  Lockstep'
  BY <1>1 DEF Lockstep, Agreed
<1>2. CASE EndStep
  <2>1. Ends /\ pc # "idle"
    BY <1>2, EndStepEnds
    DEF EndStep, CallFails, Complete, ResolveGone, MustRead, Resolving, CopyItemRefused, PutLost,
        DeleteLost, DeleteItemGone, InHand, TypeInv, RunOK, MarksOK
  <2>2. CASE UNCHANGED <<base, agreed, missed>>
    BY <1>1, <2>1, <2>2 DEF Ends
  <2>3. ASSUME NEW uid \in Keys, NEW s \in Sides, PutLost(uid, s)  PROVE Lockstep'
    <3>1. PICK t \in NewTags(UsedTags(Other(s), CopyHref(uid, s))) : PutCopy(uid, s, t)
      BY <2>3 DEF PutLost
    <3>2. /\ DOMAIN base' = DOMAIN base \cup {uid} /\ agreed' = agreed \cup {uid}
          /\ \A k \in DOMAIN base : k # uid => base'[k] = base[k]
      BY <3>1 DEF PutCopy, Agree, MapSet
    <3>3. missed' = missed \cup {uid}
      BY <2>3 DEF PutLost
    <3>. QED  BY <2>1, <3>2, <3>3 DEF Lockstep, Agreed, Ends
  <2>4. ASSUME NEW uid \in Keys, NEW s \in Sides, DeleteLost(uid, s)  PROVE Lockstep'
    <3>1. agreed' = agreed \ {uid} /\ UNCHANGED <<base, missed>>
      BY <2>4 DEF DeleteLost
    <3>. QED  BY <2>1, <3>1 DEF Lockstep, Agreed, Ends
  <2>5. \/ UNCHANGED <<base, agreed, missed>>
        \/ \E uid \in Keys, s \in Sides : PutLost(uid, s) \/ DeleteLost(uid, s)
    BY <1>2 DEF EndStep, CallFails, Complete, ResolveGone, CopyItemRefused, DeleteItemGone
  <2>. QED  BY <2>2, <2>3, <2>4, <2>5
<1>3. CASE ListStep
  <2>1. UNCHANGED <<base, agreed, missed>>
    BY <1>3 DEF ListStep, ListA, ListB, ListsEmptyA, ListsEmptyB
  <2>2. pc # "idle" /\ pc' # "idle" /\ UNCHANGED st
    BY <1>3, ListStepCases DEF Ends, AcceptA, Accepted
  <2>. QED  BY <1>1, <2>1, <2>2
<1>4. CASE Crash
  BY <1>4 DEF Crash, Lockstep, Agreed
<1>5. ASSUME NEW s \in Sides, NEW h \in Hrefs, ResolveKnown(s, h) \/ ResolveRead(s, h)
      PROVE  Lockstep'
  BY <1>1, <1>5 DEF ResolveKnown, ResolveRead
<1>6. ASSUME NEW uid \in Keys, DropStep(uid)  PROVE Lockstep'
  <2>1. CASE UNCHANGED <<st, agreed>>
    BY <1>1, <1>6, <2>1, DropStepEffect, DropStepMissed
  <2>2. CASE st' = MapDelete(st, uid) /\ agreed' = agreed \ {uid}
    BY <1>6, <2>2, DropStepEffect, DropStepMissed DEF Lockstep, Agreed, MapDelete
  <2>. QED  BY <1>6, <2>1, <2>2, DropStepEffect
<1>7. ASSUME NEW uid \in Keys, NEW s \in Sides, CopyItem(uid, s)  PROVE Lockstep'
  <2>1. pc = "merge" /\ pc' = "merge" /\ InHand(uid) /\ Copies(uid, s)
    BY <1>7 DEF CopyItem, InHand
  <2>2. PICK t \in NewTags(UsedTags(Other(s), CopyHref(uid, s))) :
          /\ PutCopy(uid, s, t)
          /\ st' = MapSet(st, uid, Halves(uid, s, Tagged(t, PutMode[Other(s)])))
    BY <1>7 DEF CopyItem
  <2>3. t \in ETags /\ Tagged(t, PutMode[Other(s)]) = t
    BY <2>2, NewTagsType, TwoSides DEF TagsAnswered, Tagged
  <2>. DEFINE e == Halves(uid, s, t)
  <2>4. /\ e.href[s] = resolved[s][uid].href
        /\ listMode[s] = "stable" => e.etag[s] = resolved[s][uid].version
        /\ e.href[Other(s)] = CopyHref(uid, s) /\ e.etag[Other(s)] = t
    BY <2>1, <2>3, HalvesType, ETagsReal DEF ListedTag, Tagged
  <2>5. /\ DOMAIN base' = DOMAIN base \cup {uid} /\ agreed' = agreed \cup {uid}
        /\ \A k \in DOMAIN base : k # uid => base'[k] = base[k]
        /\ base'[uid][s] = [href |-> resolved[s][uid].href, etag |-> resolved[s][uid].version]
        /\ base'[uid][Other(s)] = [href |-> CopyHref(uid, s), etag |-> t]
    BY <2>1, <2>2, <2>3, AgreeType DEF PutCopy
  <2>6. /\ DOMAIN st' = DOMAIN st \cup {uid} /\ st'[uid] = e
        /\ \A k \in DOMAIN st : k # uid => st'[k] = st[k]
    <3>1. st' = MapSet(st, uid, e)
      BY <2>2, <2>3
    <3>. HIDE DEF e
    <3>. QED  BY <3>1 DEF MapSet
  <2>8. missed' = missed \ {uid}
    BY <1>7 DEF CopyItem
  <2>7. \A x \in Sides : /\ base'[uid][x].href = e.href[x]
                         /\ listMode[x] = "stable" => base'[uid][x].etag = e.etag[x]
    BY <2>4, <2>5, TwoSides
  <2>. HIDE DEF e
  <2>. QED  BY <2>1, <2>5, <2>6, <2>7, <2>8 DEF Lockstep, Agreed
<1>8. CASE ResetState
  BY <1>8, EmptyMapType DEF ResetState, Lockstep, Agreed
<1>9. CASE Start \/ Finish \/ UserWrite \/ UNCHANGED vars \/ \E s \in Sides : Resolved(s)
  BY <1>1, <1>9, UserWriteEffect DEF Start, Finish, Resolved, Resolving, vars, runVars
<1>. QED  BY <1>2, <1>3, <1>4, <1>5, <1>6, <1>7, <1>8, <1>9, NextCases

\* Where PUTs answer with the ETag of what they stored, no run copies a version
\* both sides already had from a side that lists it under that ETag, unless the
\* answer to the last copy was lost: the engine does not take its own writes for
\* changes, whatever failed or crashed.
THEOREM CopiesChangesOnly ==
  ASSUME HrefsNameItems, TagsAnswered
  PROVE  Spec => []CopiesOnlyChanges
<1>. DEFINE Inv == TypeInv /\ Owned /\ Knows /\ ReadUnlessKnown /\ Lockstep
<1>1. Init => Inv
  BY InitOK, OwnedInit, NothingYet, EmptyMapType
  DEF Init, Knows, Listing0, ReadUnlessKnown, Lockstep, Agreed
<1>2. Inv /\ [Next]_vars => Inv'
  BY StepOK, OwnedStep, KnowsStep, ReadStep, LockstepStep
<1>3. Inv => CopiesOnlyChanges
  <2>. SUFFICES ASSUME Inv, NEW uid \in left \ missed, NEW s \in Sides, InHand(uid),
                       Copies(uid, s), listMode[s] = "stable", SeenAgreed(uid, s)
                PROVE  FALSE
    BY DEF CopiesOnlyChanges
  <2>. DEFINE r == resolved[s][uid]
  <2>1. uid \in Keys
    BY DEF TypeInv, RunOK, MarksOK
  <2>2. uid \in DOMAIN resolved[s] /\ r.changed /\ r.version \in ETags
    BY <2>1, CopyTypes
  <2>3. uid \in DOMAIN st /\ st[uid].href[s] = r.href /\ st[uid].etag[s] = r.version
    <3>1. uid \in agreed \ missed /\ Agreed(st)
      BY DEF SeenAgreed, Lockstep, InHand
    <3>. QED  BY <3>1 DEF SeenAgreed, Agreed
  <2>4. r.href \in DOMAIN known[s] /\ known[s][r.href].etag = r.version
    BY <2>3 DEF Knows, Open, Remembers, InHand
  <2>. QED  BY <2>2, <2>4, ETagsReal DEF ReadUnlessKnown, SameTag, ListedTag, Tagged
<1>. QED  BY <1>1, <1>2, <1>3, PTL DEF Spec

-----------------------------------------------------------------------------
(* Versions: no write brings back one that somebody remembers.             *)

Remembered(s, h, e) ==
  \/ \E k \in DOMAIN saved : saved[k].href[s] = h /\ saved[k].etag[s] = e
  \/ \E k \in DOMAIN st : st[k].href[s] = h /\ st[k].etag[s] = e
  \/ \E k \in DOMAIN resolved[s] : resolved[s][k].href = h /\ resolved[s][k].version = e

NoneRevived ==
  \A s \in Sides : \A h, e :
    Remembered(s, h, e) /\ Stands(coll'[s], h, e) => Stands(coll[s], h, e) /\ coll'[s][h] = coll[s][h]

LEMMA RememberedTags ==
  ASSUME NEW s \in Sides, NEW h, NEW e, Remembered(s, h, e)
  PROVE  e \in UsedTags(s, h)
BY DEF Remembered, UsedTags

\* A step leaves the servers alone, removes an item or writes one under a new
\* tag.
LEMMA CollCases ==
  ASSUME TypeInv, [Next]_vars
  PROVE  \/ UNCHANGED coll
         \/ \E s \in Sides, h \in Hrefs : Unstore(s, h)
         \/ \E s \in Sides, h \in Hrefs, b \in Bodies : \E t \in NewTags(UsedTags(s, h)) :
              Store(s, h, b, t)
<1>. DEFINE Stored1 == \E s \in Sides, h \in Hrefs, b \in Bodies :
                         \E t \in NewTags(UsedTags(s, h)) : Store(s, h, b, t)
            Unstored1 == \E s \in Sides, h \in Hrefs : Unstore(s, h)
<1>1. ASSUME NEW uid \in Keys, NEW s \in Sides, CopyItem(uid, s) \/ PutLost(uid, s)
      PROVE  Stored1
  <2>1. InHand(uid) /\ Copies(uid, s)
    BY <1>1 DEF CopyItem, PutLost
  <2>2. PICK t \in NewTags(UsedTags(Other(s), CopyHref(uid, s))) :
          Store(Other(s), CopyHref(uid, s), resolved[s][uid].body, t)
    BY <1>1 DEF CopyItem, PutLost, PutCopy
  <2>3. CopyHref(uid, s) \in Hrefs /\ resolved[s][uid].body \in Bodies /\ Other(s) \in Sides
    BY <2>1, CopyTypes, TwoSides
  <2>. QED  BY <2>2, <2>3
<1>2. ASSUME NEW s \in Sides, NEW h \in Hrefs, NEW b \in UserBodies, Write(s, h, b)
      PROVE  Stored1
  BY <1>2, Constants DEF Write
<1>3. ASSUME NEW uid \in Keys, NEW s \in Sides, DeleteItem(uid, s) \/ DeleteLost(uid, s)
      PROVE  Unstored1
  <2>1. DOMAIN coll[s] \subseteq Hrefs
    BY DEF TypeInv, ServersOK, IsMap
  <2>. QED  BY <1>3, <2>1 DEF DeleteItem, DeleteLost
<1>4. ASSUME NEW s \in Sides, NEW h \in Hrefs, Remove(s, h)  PROVE Unstored1
  BY <1>4 DEF Remove
<1>. HIDE DEF Stored1, Unstored1
<1>5. ASSUME \/ Start \/ ListStep \/ Finish \/ Crash \/ ResetState \/ UNCHANGED vars
             \/ \E s \in Sides, h \in Hrefs : ResolveKnown(s, h) \/ ResolveRead(s, h)
             \/ \E s \in Sides : Resolved(s)
      PROVE  UNCHANGED coll
  BY <1>5 DEF Start, ListStep, ListA, ListB, ListsEmptyA, ListsEmptyB, Finish, Crash, ResetState,
              ResolveKnown, ResolveRead, Resolved, vars
<1>6. ASSUME EndStep  PROVE UNCHANGED coll \/ Unstored1 \/ Stored1
  BY <1>1, <1>3, <1>6 DEF EndStep, CallFails, Complete, ResolveGone, CopyItemRefused, DeleteItemGone
<1>7. ASSUME NEW uid \in Keys, DropStep(uid)  PROVE Unstored1 \/ UNCHANGED coll
  BY <1>3, <1>7 DEF DropStep, Settle
<1>8. ASSUME UserWrite  PROVE Stored1 \/ Unstored1
  BY <1>2, <1>4, <1>8 DEF UserWrite
<1>9. UNCHANGED coll \/ Unstored1 \/ Stored1
  BY <1>1, <1>5, <1>6, <1>7, <1>8, NextCases
<1>. QED  BY <1>9 DEF Stored1, Unstored1

LEMMA NothingRevived == ASSUME TypeInv, [Next]_vars  PROVE NoneRevived
<1>1. CASE UNCHANGED coll
  BY <1>1 DEF NoneRevived, Stands
<1>2. ASSUME NEW s \in Sides, NEW h \in Hrefs, Unstore(s, h)  PROVE NoneRevived
  <2>1. /\ DOMAIN coll'[s] = DOMAIN coll[s] \ {h}
        /\ \A g \in DOMAIN coll'[s] : coll'[s][g] = coll[s][g]
        /\ \A x \in Sides : x # s => coll'[x] = coll[x]
    BY <1>2, UnstoreOK DEF TypeInv
  <2>. QED  BY <2>1 DEF NoneRevived, Stands
<1>3. ASSUME NEW s \in Sides, NEW h \in Hrefs, NEW b \in Bodies, NEW t \in NewTags(UsedTags(s, h)),
             Store(s, h, b, t)
      PROVE  NoneRevived
  <2>1. t \in ETags /\ t \notin UsedTags(s, h)
    BY NewTagsFresh
  <2>2. /\ DOMAIN coll'[s] = DOMAIN coll[s] \cup {h}
        /\ coll'[s][h] = [body |-> b, etag |-> t]
        /\ \A g \in DOMAIN coll[s] : g # h => coll'[s][g] = coll[s][g]
        /\ \A x \in Sides : x # s => coll'[x] = coll[x]
    BY <1>3, <2>1, StoreOK DEF TypeInv
  <2>3. \A e : Remembered(s, h, e) => e # t
    BY <2>1, RememberedTags
  <2>. QED  BY <2>2, <2>3 DEF NoneRevived, Stands
<1>. QED  BY <1>1, <1>2, <1>3, CollCases

-----------------------------------------------------------------------------
(* Entries and read items, old and new.                                    *)

\* An entry after a step is one from before it, or what a copy recorded.
OldEntry(e, k) ==
  \/ k \in DOMAIN saved /\ e = saved[k]
  \/ k \in DOMAIN st /\ e = st[k]
CopiedNow(k) == k \in Keys /\ \E s \in Sides : CopyItem(k, s)

LEMMA EntriesOld ==
  ASSUME TypeInv, [Next]_vars
  PROVE  /\ \A k \in DOMAIN saved' : OldEntry(saved'[k], k)
         /\ \A k \in DOMAIN st' : OldEntry(st'[k], k) \/ CopiedNow(k)
<1>1. CASE UNCHANGED <<saved, st>>
  BY <1>1 DEF OldEntry
<1>2. CASE Start
  BY <1>2 DEF Start, OldEntry
<1>3. CASE Finish \/ Crash \/ ResetState
  BY <1>3, EmptyMapType DEF Finish, Crash, ResetState, OldEntry
<1>4. ASSUME NEW uid \in Keys, DropStep(uid)
      PROVE  /\ \A k \in DOMAIN saved' : OldEntry(saved'[k], k)
             /\ \A k \in DOMAIN st' : OldEntry(st'[k], k)
  BY <1>4, DropStepEffect DEF OldEntry, MapDelete
<1>5. ASSUME NEW uid \in Keys, NEW s \in Sides, CopyItem(uid, s)
      PROVE  /\ \A k \in DOMAIN saved' : OldEntry(saved'[k], k)
             /\ \A k \in DOMAIN st' : OldEntry(st'[k], k) \/ CopiedNow(k)
  <2>1. /\ saved' = saved
        /\ \A k \in DOMAIN st' : k = uid \/ (k \in DOMAIN st /\ st'[k] = st[k])
    BY <1>5 DEF CopyItem, MapSet
  <2>. QED  BY <1>5, <2>1 DEF OldEntry, CopiedNow
<1>6. CASE ListStep \/ EndStep
  BY <1>1, <1>6, ListStepCases, EndStepEnds DEF AcceptA, Accepted, Ends
<1>7. CASE \/ UNCHANGED vars \/ UserWrite
           \/ \E s \in Sides, h \in Hrefs : ResolveKnown(s, h) \/ ResolveRead(s, h)
           \/ \E s \in Sides : Resolved(s)
  BY <1>1, <1>7, UserWriteEffect DEF ResolveKnown, ResolveRead, Resolved, vars, runVars
<1>. QED  BY <1>2, <1>3, <1>4, <1>5, <1>6, <1>7, NextCases

\* What ResolveKnown and ResolveRead note of an item.
KnownItem(s, h) == [href |-> h, version |-> todo[s][h], changed |-> FALSE, body |-> None]
ReadItem(s, h) == [href |-> h, version |-> todo[s][h], changed |-> TRUE, body |-> coll[s][h].body]

NotedKnown(s, k) ==
  \E h \in Hrefs : ResolveKnown(s, h) /\ k = known[s][h].uid /\ resolved'[s][k] = KnownItem(s, h)
NotedRead(s, k) ==
  \E h \in Hrefs : /\ ResolveRead(s, h) /\ coll[s][h].body.in
                   /\ k = UidOf(coll[s][h].body, h) /\ resolved'[s][k] = ReadItem(s, h)

LEMMA ResolvedOld ==
  ASSUME TypeInv, [Next]_vars, NEW s \in Sides, NEW k \in DOMAIN resolved'[s]
  PROVE  \/ k \in DOMAIN resolved[s] /\ resolved'[s][k] = resolved[s][k]
         \/ NotedKnown(s, k) \/ NotedRead(s, k)
<1>. DEFINE Old == k \in DOMAIN resolved[s] /\ resolved'[s][k] = resolved[s][k]
            Goal == Old \/ NotedKnown(s, k) \/ NotedRead(s, k)
<1>1. CASE UNCHANGED resolved
  BY <1>1
<1>2. CASE Cleared
  BY <1>2, NothingYet, EmptyMapType DEF Cleared
<1>3. ASSUME NEW x \in Sides, NEW h \in Hrefs, ResolveKnown(x, h)  PROVE Goal
  <2>1. h \in DOMAIN known[x] /\ h \in DOMAIN todo[x] /\ Resolve(x, known[x][h].uid, KnownItem(x, h))
    BY <1>3 DEF ResolveKnown, KnownItem
  <2>2. known[x][h].uid \in Keys /\ KnownItem(x, h) \in SideItems
    BY <2>1, ETagsReal DEF TypeInv, RunOK, KnownOK, TodoOK, IsMap, SideItems, KnownItem
  <2>3. /\ DOMAIN resolved'[x] = DOMAIN resolved[x] \cup {known[x][h].uid}
        /\ \A j \in DOMAIN resolved'[x] :
             resolved'[x][j] = IF j = known[x][h].uid THEN KnownItem(x, h) ELSE resolved[x][j]
        /\ \A y \in Sides : y # x => resolved'[y] = resolved[y]
    BY <2>1, <2>2, ResolveEffect DEF TypeInv, RunOK
  <2>. QED  BY <1>3, <2>3 DEF NotedKnown
<1>4. ASSUME NEW x \in Sides, NEW h \in Hrefs, ResolveRead(x, h)  PROVE Goal
  <2>. DEFINE j0 == UidOf(coll[x][h].body, h)
  <2>1. CASE coll[x][h].body.in /\ Resolve(x, j0, ReadItem(x, h))
    <3>1. h \in DOMAIN coll[x] /\ h \in DOMAIN todo[x]
      BY <1>4 DEF ResolveRead, MustRead
    <3>2. j0 \in Keys /\ ReadItem(x, h) \in SideItems
      BY <3>1, UidOfType, ETagsReal
      DEF TypeInv, ServersOK, RunOK, TodoOK, IsMap, Resources, SideItems, ReadItem
    <3>3. /\ DOMAIN resolved'[x] = DOMAIN resolved[x] \cup {j0}
          /\ \A j \in DOMAIN resolved'[x] : resolved'[x][j] = IF j = j0 THEN ReadItem(x, h) ELSE resolved[x][j]
          /\ \A y \in Sides : y # x => resolved'[y] = resolved[y]
      BY <2>1, <3>2, ResolveEffect DEF TypeInv, RunOK
    <3>. QED  BY <1>4, <2>1, <3>3 DEF NotedRead
  <2>. QED  BY <1>1, <1>4, <2>1 DEF ResolveRead, ReadItem
<1>. HIDE DEF Goal
<1>5. ASSUME ListStep \/ EndStep  PROVE Goal
  BY <1>1, <1>2, <1>5, ListStepCases, EndStepEnds DEF AcceptA, Accepted, Ends, Goal
<1>6. ASSUME NEW uid \in Keys, DropStep(uid) \/ \E x \in Sides : CopyItem(uid, x)  PROVE Goal
  BY <1>1, <1>6, DropStepEffect DEF CopyItem, Goal
<1>7. ASSUME \/ Start \/ Finish \/ Crash \/ ResetState \/ UserWrite \/ UNCHANGED vars
             \/ \E x \in Sides : Resolved(x)
      PROVE  Goal
  BY <1>1, <1>2, <1>7, UserWriteEffect
  DEF Start, Finish, Crash, Cleared, ResetState, Resolved, vars, runVars, Goal
<1>8. Goal
  BY <1>3, <1>4, <1>5, <1>6, <1>7, NextCases
<1>. QED  BY <1>8 DEF Goal

-----------------------------------------------------------------------------
(* What copies and deletes do to the servers.                              *)

\* uid's item is written from s to the other side under the tag t.
PutEffect(uid, s, t) ==
  LET o == Other(s)
      h == CopyHref(uid, s)
  IN  /\ t \in ETags /\ t \notin UsedTags(o, h)
      /\ DOMAIN coll'[o] = DOMAIN coll[o] \cup {h}
      /\ coll'[o][h] = [body |-> resolved[s][uid].body, etag |-> t]
      /\ \A g \in DOMAIN coll[o] : g # h => coll'[o][g] = coll[o][g]
      /\ coll'[s] = coll[s]
      /\ DOMAIN base' = DOMAIN base \cup {uid}
      /\ \A k \in DOMAIN base : k # uid => base'[k] = base[k]
      /\ base'[uid][s] = [href |-> resolved[s][uid].href, etag |-> resolved[s][uid].version]
      /\ base'[uid][o] = [href |-> h, etag |-> t]

LEMMA PutCopyEffect ==
  ASSUME TypeInv, NEW uid \in Keys, NEW s \in Sides, InHand(uid), Copies(uid, s),
         NEW t \in NewTags(UsedTags(Other(s), CopyHref(uid, s))), PutCopy(uid, s, t)
  PROVE  PutEffect(uid, s, t)
<1>1. t \in ETags /\ t \notin UsedTags(Other(s), CopyHref(uid, s))
  BY NewTagsFresh
<1>2. /\ CopyHref(uid, s) \in Hrefs /\ resolved[s][uid].body \in Bodies
      /\ Other(s) \in Sides /\ Other(s) # s
  BY CopyTypes, TwoSides
<1>3. Store(Other(s), CopyHref(uid, s), resolved[s][uid].body, t) /\ Agree(uid, s, t)
  BY DEF PutCopy
<1>4. /\ DOMAIN coll'[Other(s)] = DOMAIN coll[Other(s)] \cup {CopyHref(uid, s)}
      /\ coll'[Other(s)][CopyHref(uid, s)] = [body |-> resolved[s][uid].body, etag |-> t]
      /\ \A g \in DOMAIN coll[Other(s)] :
           g # CopyHref(uid, s) => coll'[Other(s)][g] = coll[Other(s)][g]
      /\ coll'[s] = coll[s]
  BY <1>1, <1>2, <1>3, StoreOK DEF TypeInv
<1>5. /\ DOMAIN base' = DOMAIN base \cup {uid}
      /\ \A k \in DOMAIN base : k # uid => base'[k] = base[k]
      /\ base'[uid][s] = [href |-> resolved[s][uid].href, etag |-> resolved[s][uid].version]
      /\ base'[uid][Other(s)] = [href |-> CopyHref(uid, s), etag |-> t]
  BY <1>1, <1>3, AgreeType
<1>. QED  BY <1>1, <1>4, <1>5 DEF PutEffect

\* A copy that came back with an answer, in the state too.
CopyEffect(uid, s, t) ==
  /\ PutEffect(uid, s, t)
  /\ DOMAIN st' = DOMAIN st \cup {uid}
  /\ \A k \in DOMAIN st : k # uid => st'[k] = st[k]
  /\ st'[uid].href[s] = resolved[s][uid].href
  /\ st'[uid].etag[s] \in {resolved[s][uid].version, NoTag, Reissued}
  /\ st'[uid].href[Other(s)] = CopyHref(uid, s)
  /\ st'[uid].etag[Other(s)] \in {t, NoTag, Reissued}

LEMMA CopyItemEffect ==
  ASSUME TypeInv, NEW uid \in Keys, NEW s \in Sides, CopyItem(uid, s)
  PROVE  \E t : CopyEffect(uid, s, t)
<1>1. InHand(uid) /\ Copies(uid, s)
  BY DEF CopyItem
<1>2. PICK t \in NewTags(UsedTags(Other(s), CopyHref(uid, s))) :
        /\ PutCopy(uid, s, t)
        /\ st' = MapSet(st, uid, Halves(uid, s, Tagged(t, PutMode[Other(s)])))
  BY DEF CopyItem
<1>3. PutEffect(uid, s, t)
  BY <1>1, <1>2, PutCopyEffect
<1>. DEFINE tag == Tagged(t, PutMode[Other(s)])
            e == Halves(uid, s, tag)
<1>4. PutMode[Other(s)] \in TagModes /\ t \in ETags
  BY <1>2, NewTagsType, TwoSides, Constants
<1>5. tag \in {t, NoTag, Reissued} /\ tag \in Tags
  BY <1>4, TaggedType DEF Tagged, TagModes
<1>6. /\ e.href[s] = resolved[s][uid].href
      /\ e.etag[s] \in {resolved[s][uid].version, NoTag, Reissued}
      /\ e.href[Other(s)] = CopyHref(uid, s) /\ e.etag[Other(s)] = tag
  BY <1>1, <1>5, HalvesType, CopyTypes, ListedType
<1>. HIDE DEF e
<1>7. DOMAIN st' = DOMAIN st \cup {uid} /\ st'[uid] = e /\ \A k \in DOMAIN st : k # uid => st'[k] = st[k]
  BY <1>2 DEF MapSet, e
<1>. QED  BY <1>3, <1>5, <1>6, <1>7 DEF CopyEffect

\* uid's item is removed from s.
DeleteEffect(uid, s) ==
  /\ DOMAIN coll'[s] = DOMAIN coll[s] \ {resolved[s][uid].href}
  /\ \A g \in DOMAIN coll'[s] : coll'[s][g] = coll[s][g]
  /\ coll'[Other(s)] = coll[Other(s)]
  /\ base' = base

LEMMA DeleteItemEffect ==
  ASSUME TypeInv, NEW uid \in Keys, NEW s \in Sides, DeleteItem(uid, s) \/ DeleteLost(uid, s)
  PROVE  DeleteEffect(uid, s)
<1>1. Unstore(s, resolved[s][uid].href) /\ base' = base
  BY DEF DeleteItem, DeleteLost
<1>2. /\ DOMAIN coll'[s] = DOMAIN coll[s] \ {resolved[s][uid].href}
      /\ \A g \in DOMAIN coll'[s] : coll'[s][g] = coll[s][g]
      /\ coll'[Other(s)] = coll[Other(s)]
  BY <1>1, UnstoreOK, TwoSides DEF TypeInv
<1>. QED  BY <1>1, <1>2 DEF DeleteEffect

-----------------------------------------------------------------------------
(* Tags and what they stand for.                                           *)

\* An item read in this run lies in the window and has the body its version has.
ReadTruth ==
  \A s \in Sides : \A k \in DOMAIN resolved[s] :
    LET r == resolved[s][k]
    IN  r.changed => /\ r.body.in
                     /\ Stands(coll[s], r.href, r.version) => coll[s][r.href].body = r.body

LEMMA ReadTruthStep ==
  ASSUME TypeInv, ReadTruth, [Next]_vars
  PROVE  ReadTruth'
<1>. SUFFICES ASSUME NEW s \in Sides, NEW k \in DOMAIN resolved'[s], resolved'[s][k].changed
              PROVE  /\ resolved'[s][k].body.in
                     /\ Stands(coll'[s], resolved'[s][k].href, resolved'[s][k].version) =>
                          coll'[s][resolved'[s][k].href].body = resolved'[s][k].body
  BY DEF ReadTruth, Stands
<1>1. CASE k \in DOMAIN resolved[s] /\ resolved'[s][k] = resolved[s][k]
  <2>. DEFINE r == resolved[s][k]
  <2>1. Remembered(s, r.href, r.version)
    BY <1>1 DEF Remembered
  <2>2. Stands(coll'[s], r.href, r.version) => Stands(coll[s], r.href, r.version) /\ coll'[s][r.href] = coll[s][r.href]
    BY <2>1, NothingRevived DEF NoneRevived
  <2>. QED  BY <1>1, <2>2 DEF ReadTruth, Stands
<1>2. CASE NotedKnown(s, k)
  BY <1>2 DEF NotedKnown, KnownItem
<1>3. CASE NotedRead(s, k)
  BY <1>3 DEF NotedRead, ReadItem, ResolveRead
<1>. QED  BY <1>1, <1>2, <1>3, ResolvedOld

\* The two halves of an entry, where both still stand, are one version.
OnePair(c, e) ==
  (\A s \in Sides : Stands(c[s], e.href[s], e.etag[s])) =>
    c["A"][e.href["A"]].body = c["B"][e.href["B"]].body
PairTruth ==
  /\ \A k \in DOMAIN saved : OnePair(coll, saved[k])
  /\ \A k \in DOMAIN st : OnePair(coll, st[k])

LEMMA OldPair ==
  ASSUME TypeInv, PairTruth, [Next]_vars, NEW k, NEW e, OldEntry(e, k),
         \A s \in Sides : Stands(coll'[s], e.href[s], e.etag[s])
  PROVE  coll'["A"][e.href["A"]].body = coll'["B"][e.href["B"]].body
<1>1. \A s \in Sides : Remembered(s, e.href[s], e.etag[s])
  BY DEF OldEntry, Remembered
<1>2. \A s \in Sides : Stands(coll[s], e.href[s], e.etag[s]) /\ coll'[s][e.href[s]] = coll[s][e.href[s]]
  BY <1>1, NothingRevived DEF NoneRevived
<1>3. OnePair(coll, e)
  BY DEF OldEntry, PairTruth
<1>. QED  BY <1>2, <1>3 DEF OnePair, Sides

LEMMA PairTruthStep ==
  ASSUME TypeInv, ReadTruth, PairTruth, [Next]_vars
  PROVE  PairTruth'
<1>1. ASSUME NEW k, CopiedNow(k), \A x \in Sides : Stands(coll'[x], st'[k].href[x], st'[k].etag[x])
      PROVE  coll'["A"][st'[k].href["A"]].body = coll'["B"][st'[k].href["B"]].body
  <2>1. PICK s \in Sides : CopyItem(k, s)
    BY <1>1 DEF CopiedNow
  <2>2. PICK t : CopyEffect(k, s, t)
    BY <1>1, <2>1, CopyItemEffect DEF CopiedNow
  <2>. DEFINE r == resolved[s][k]
  <2>3. k \in DOMAIN resolved[s] /\ r.changed
    BY <1>1, <2>1, CopyTypes DEF CopyItem, CopiedNow
  <2>4. Stands(coll[s], r.href, r.version) /\ coll'[s][r.href].body = r.body
    <3>1. coll'[s][r.href].etag \in ETags
      BY <1>1, <2>2, StepOK DEF CopyEffect, Stands, TypeInv, ServersOK, IsMap, Resources
    <3>2. Stands(coll[s], r.href, r.version)
      BY <1>1, <2>2, <3>1, ETagsReal DEF CopyEffect, PutEffect, Stands
    <3>. QED  BY <2>2, <2>3, <3>2 DEF ReadTruth, CopyEffect, PutEffect
  <2>5. coll'[Other(s)][CopyHref(k, s)].body = r.body
    BY <2>2 DEF CopyEffect, PutEffect
  <2>6. coll'[s][st'[k].href[s]].body = coll'[Other(s)][st'[k].href[Other(s)]].body
    BY <2>2, <2>4, <2>5 DEF CopyEffect
  <2>. QED  BY <2>6 DEF Sides, Other
<1>2. \A k \in DOMAIN saved' : OnePair(coll', saved'[k])
  BY EntriesOld, OldPair DEF OnePair
<1>3. \A k \in DOMAIN st' : OnePair(coll', st'[k])
  BY <1>1, EntriesOld, OldPair DEF OnePair
<1>. QED  BY <1>2, <1>3 DEF PairTruth

-----------------------------------------------------------------------------
(* A run nobody disturbs.                                                  *)

\* Nobody wrote since the run's first listing, and no call failed or lied.
Quiet == calm # 0

LEMMA QuietBefore ==
  ASSUME [Next]_vars, Quiet', ~Quiet
  PROVE  Start \/ UserWrite
<1>1. calm = 0 /\ calm' # 0
  BY DEF Quiet
<1>2. ~(ResetState \/ Crash)
  BY <1>1 DEF ResetState, Crash, Fault
<1>3. ~(ListStep \/ EndStep)
  BY <1>1 DEF ListStep, ListA, ListB, ListsEmptyA, ListsEmptyB, EndStep, CallFails, Complete,
              ResolveGone, CopyItemRefused, DeleteItemGone, PutLost, DeleteLost, Fault
<1>4. ~Finish /\ vars' # vars
  BY <1>1 DEF Finish, vars
<1>5. \A s \in Sides : ~Resolved(s) /\ \A h \in Hrefs : ~ResolveKnown(s, h) /\ ~ResolveRead(s, h)
  BY <1>1 DEF Resolved, ResolveKnown, ResolveRead
<1>6. \A uid \in Keys : ~DropStep(uid) /\ \A s \in Sides : ~CopyItem(uid, s)
  BY <1>1, DropStepEffect DEF CopyItem
<1>. QED  BY <1>2, <1>3, <1>4, <1>5, <1>6, NextCases

\* A user's write in a quiet run comes before its first listing.
LEMMA QuietWrite ==
  ASSUME UserWrite, Quiet'
  PROVE  pc = "listA" /\ pc' = "listA" /\ calm' = 1
BY UserWriteEffect DEF UserEdit, Quiet

\* A reconciled item's own hrefs are the only ones the merge touches.
OnlyOwn(uid) ==
  \A s \in Sides :
    /\ \A h \in DOMAIN coll[s] :
         Owner[h] # uid => h \in DOMAIN coll'[s] /\ coll'[s][h] = coll[s][h]
    /\ \A h \in DOMAIN coll'[s] : Owner[h] # uid => h \in DOMAIN coll[s]

LEMMA MergeTouchesOwn ==
  ASSUME HrefsNameItems, TypeInv, Owned, NEW uid \in Keys,
         DropStep(uid) \/ \E s \in Sides : CopyItem(uid, s)
  PROVE  OnlyOwn(uid)
<1>1. ASSUME NEW s \in Sides, CopyItem(uid, s)  PROVE OnlyOwn(uid)
  <2>1. PICK t : CopyEffect(uid, s, t)
    BY <1>1, CopyItemEffect
  <2>2. Owner[CopyHref(uid, s)] = uid
    BY <1>1, CopyOwned DEF CopyItem
  <2>. QED  BY <2>1, <2>2, TwoSides DEF CopyEffect, PutEffect, OnlyOwn
<1>2. ASSUME NEW s \in Sides, DeleteItem(uid, s)  PROVE OnlyOwn(uid)
  <2>1. DeleteEffect(uid, s)
    BY <1>2, DeleteItemEffect
  <2>2. Owner[resolved[s][uid].href] = uid
    BY <1>2 DEF DeleteItem, Deletes, On, Owned, OwnedRun
  <2>. QED  BY <2>1, <2>2, TwoSides DEF DeleteEffect, OnlyOwn
<1>3. CASE Settle(uid)
  BY <1>3 DEF Settle, OnlyOwn
<1>. QED  BY <1>1, <1>2, <1>3 DEF DropStep

\* A side whose listing the run has: every tag still to resolve or resolved is
\* the one the side has now, and every item there is accounted for.
SeenSide(s) ==
  /\ \A h \in DOMAIN todo[s] : Stands(coll[s], h, todo[s][h])
  /\ \A k \in DOMAIN resolved[s] :
       Open(k) => Stands(coll[s], resolved[s][k].href, resolved[s][k].version)
  /\ \A h \in DOMAIN coll[s] :
       h \in DOMAIN todo[s] \/ (Open(Owner[h]) => Owner[h] \in DOMAIN resolved[s] \cup filtered)
Listed(s) == pc \in {"resolveA", "resolveB", "merge"} \/ (pc = "listB" /\ s = "A")
Seen == Quiet => \A s \in Sides : Listed(s) => SeenSide(s)

LEMMA ListSeen ==
  ASSUME TypeInv, Seen, ListStep, Quiet, Quiet'
  PROVE  Seen'
<1>1. ASSUME NEW s \in Sides, pc \in {"listA", "listB"}, UNCHANGED resolved,
             todo'[s] = Versions(coll[s]), coll' = coll
      PROVE  SeenSide(s)'
  <2>1. IsMap(coll[s], Hrefs, Resources) /\ resolved[s] = EmptyMap
    BY <1>1 DEF TypeInv, ServersOK, RunOK, ResolvedOK
  <2>2. /\ DOMAIN todo'[s] = DOMAIN coll[s]
        /\ \A h \in DOMAIN coll[s] : todo'[s][h] = coll[s][h].etag
    BY <1>1, <2>1, VersionsListed
  <2>. QED  BY <1>1, <2>1, <2>2, EmptyMapType DEF SeenSide, Stands
<1>2. CASE ListA
  <2>1. todo' = [todo EXCEPT !["A"] = Versions(coll["A"])]
    BY <1>2 DEF ListA, AcceptA
  <2>2. todo'["A"] = Versions(coll["A"])
    BY <2>1, TodoSet DEF Sides, TypeInv, RunOK, TodoOK
  <2>3. SeenSide("A")'
    BY <1>1, <1>2, <2>2 DEF ListA, AcceptA, Sides
  <2>. QED  BY <1>2, <2>3 DEF ListA, AcceptA, Seen, Listed
<1>3. CASE ListB
  <2>1. CASE Ends
    BY <2>1 DEF Ends, Seen, Listed
  <2>2. CASE Accepted(Versions(coll["B"]))
    <3>1. todo'["B"] = Versions(coll["B"]) /\ todo'["A"] = todo["A"]
      BY <2>2, TodoSet DEF Sides, Accepted, TypeInv, RunOK, TodoOK
    <3>2. pc = "listB" /\ pc' = "resolveA" /\ UNCHANGED <<coll, resolved, filtered>>
      BY <1>3, <2>2 DEF ListB, Accepted
    <3>3. SeenSide("B")'
      BY <1>1, <3>1, <3>2 DEF Sides
    <3>4. SeenSide("A")'
      <4>1. SeenSide("A")
        BY <3>2 DEF Seen, Listed, Sides
      <4>. QED  BY <3>1, <3>2, <4>1 DEF SeenSide, Open
    <3>. QED  BY <3>3, <3>4 DEF Seen, Sides
  <2>. QED  BY <1>3, <2>1, <2>2, AcceptBCases DEF ListB, Return, Ends, Cleared
<1>4. ~ListsEmptyA /\ ~ListsEmptyB
  BY DEF ListsEmptyA, ListsEmptyB, Fault, Quiet
<1>. QED  BY <1>2, <1>3, <1>4 DEF ListStep

LEMMA ResolveSeen ==
  ASSUME HrefsNameItems, TypeInv, Owned, Seen, Quiet, NEW s \in Sides, NEW h \in Hrefs,
         [Next]_vars, ResolveKnown(s, h) \/ ResolveRead(s, h)
  PROVE  Seen'
<1>1. /\ Resolving(s) /\ h \in DOMAIN todo[s] /\ UNCHANGED <<coll, pc, left, calm>>
      /\ todo' = [todo EXCEPT ![s] = MapDelete(@, h)]
  BY DEF ResolveKnown, ResolveRead, MustRead
<1>2. /\ DOMAIN todo'[s] = DOMAIN todo[s] \ {h}
      /\ \A g \in DOMAIN todo'[s] : todo'[s][g] = todo[s][g]
      /\ \A x \in Sides : x # s => todo'[x] = todo[x]
  BY <1>1, TodoDrop DEF TypeInv, RunOK
<1>3. \A x \in Sides : SeenSide(x)
  BY <1>1 DEF Seen, Listed, Resolving
<1>4. \A x \in Sides : \A k \in DOMAIN resolved'[x] :
        \/ k \in DOMAIN resolved[x] /\ resolved'[x][k] = resolved[x][k]
        \/ x = s /\ resolved'[x][k].href = h /\ resolved'[x][k].version = todo[s][h]
  <2>2. ASSUME NEW x \in Sides, NEW k \in DOMAIN resolved'[x], NotedKnown(x, k)
        PROVE  x = s /\ resolved'[x][k].href = h /\ resolved'[x][k].version = todo[s][h]
    <3>1. PICK g \in Hrefs : ResolveKnown(x, g) /\ resolved'[x][k] = KnownItem(x, g)
      BY <2>2 DEF NotedKnown
    <3>2. x = s
      BY <1>1, <3>1 DEF ResolveKnown, Resolving, Sides
    <3>3. g \in DOMAIN todo[s] /\ todo' = [todo EXCEPT ![s] = MapDelete(@, g)]
      BY <3>1, <3>2 DEF ResolveKnown
    <3>4. DOMAIN todo'[s] = DOMAIN todo[s] \ {g}
      BY <3>3, TodoDrop DEF TypeInv, RunOK
    <3>5. g = h
      BY <1>1, <1>2, <3>3, <3>4
    <3>. QED  BY <3>1, <3>2, <3>5 DEF KnownItem
  <2>3. ASSUME NEW x \in Sides, NEW k \in DOMAIN resolved'[x], NotedRead(x, k)
        PROVE  x = s /\ resolved'[x][k].href = h /\ resolved'[x][k].version = todo[s][h]
    <3>1. PICK g \in Hrefs : ResolveRead(x, g) /\ resolved'[x][k] = ReadItem(x, g)
      BY <2>3 DEF NotedRead
    <3>2. x = s
      BY <1>1, <3>1 DEF ResolveRead, MustRead, Resolving, Sides
    <3>3. g \in DOMAIN todo[s] /\ todo' = [todo EXCEPT ![s] = MapDelete(@, g)]
      BY <3>1, <3>2 DEF ResolveRead, MustRead
    <3>4. DOMAIN todo'[s] = DOMAIN todo[s] \ {g}
      BY <3>3, TodoDrop DEF TypeInv, RunOK
    <3>5. g = h
      BY <1>1, <1>2, <3>3, <3>4
    <3>. QED  BY <3>1, <3>2, <3>5 DEF ReadItem
  <2>. QED  BY <2>2, <2>3, ResolvedOld
<1>5. /\ Owner[h] \in DOMAIN resolved'[s] \cup filtered'
      /\ \A x \in Sides : DOMAIN resolved[x] \cup filtered \subseteq DOMAIN resolved'[x] \cup filtered'
  <2>1. CASE ResolveKnown(s, h)
    <3>1. /\ h \in DOMAIN known[s] /\ filtered' = filtered
          /\ Resolve(s, known[s][h].uid, KnownItem(s, h))
      BY <2>1 DEF ResolveKnown, KnownItem
    <3>2. known[s][h].uid \in Keys /\ KnownItem(s, h) \in SideItems /\ known[s][h].uid = Owner[h]
      BY <1>1, <3>1, ETagsReal
      DEF TypeInv, RunOK, KnownOK, TodoOK, IsMap, SideItems, KnownItem, Owned, OwnedRun
    <3>3. /\ DOMAIN resolved'[s] = DOMAIN resolved[s] \cup {known[s][h].uid}
          /\ \A x \in Sides : x # s => resolved'[x] = resolved[x]
      BY <3>1, <3>2, ResolveEffect DEF TypeInv, RunOK
    <3>. QED  BY <3>1, <3>2, <3>3
  <2>2. CASE ResolveRead(s, h)
    <3>1. h \in DOMAIN coll[s]
      BY <2>2 DEF ResolveRead, MustRead
    <3>2. UidOf(coll[s][h].body, h) = Owner[h]
      BY <3>1, OwnedUids DEF Owned, TypeInv, ServersOK, IsMap
    <3>3. \/ filtered' = filtered \cup {Owner[h]} /\ UNCHANGED resolved
          \/ Resolve(s, Owner[h], ReadItem(s, h)) /\ UNCHANGED filtered
      BY <2>2, <3>2 DEF ResolveRead, ReadItem
    <3>4. Owner[h] \in Keys /\ ReadItem(s, h) \in SideItems
      BY <1>1, <3>1, OwnerFacts, ETagsReal
      DEF TypeInv, ServersOK, RunOK, TodoOK, IsMap, Resources, SideItems, ReadItem
    <3>5. ASSUME Resolve(s, Owner[h], ReadItem(s, h))
          PROVE  /\ DOMAIN resolved'[s] = DOMAIN resolved[s] \cup {Owner[h]}
                 /\ \A x \in Sides : x # s => resolved'[x] = resolved[x]
      BY <3>4, <3>5, ResolveEffect DEF TypeInv, RunOK
    <3>. QED  BY <3>3, <3>5
  <2>. QED  BY <2>1, <2>2
<1>6. ASSUME NEW x \in Sides  PROVE SeenSide(x)'
  <2>1. \A g \in DOMAIN todo'[x] : Stands(coll[x], g, todo'[x][g])
    BY <1>2, <1>3 DEF SeenSide
  <2>2. \A k \in DOMAIN resolved'[x] :
          Open(k) => Stands(coll[x], resolved'[x][k].href, resolved'[x][k].version)
    BY <1>1, <1>3, <1>4 DEF SeenSide
  <2>3. \A g \in DOMAIN coll[x] :
          g \in DOMAIN todo'[x] \/ (Open(Owner[g]) => Owner[g] \in DOMAIN resolved'[x] \cup filtered')
    BY <1>2, <1>3, <1>5 DEF SeenSide
  <2>. QED  BY <1>1, <2>1, <2>2, <2>3 DEF SeenSide, Open
<1>. QED  BY <1>6 DEF Seen

LEMMA MergeSeen ==
  ASSUME HrefsNameItems, TypeInv, Owned, Seen, Quiet, NEW uid \in Keys,
         DropStep(uid) \/ \E s \in Sides : CopyItem(uid, s)
  PROVE  Seen'
<1>1. /\ pc = "merge" /\ left' = left \ {uid}
      /\ UNCHANGED <<pc, todo, resolved, filtered>>
  BY DropStepEffect DEF CopyItem, InHand
<1>2. OnlyOwn(uid)
  BY MergeTouchesOwn
<1>3. ASSUME NEW s \in Sides  PROVE SeenSide(s)'
  <2>1. SeenSide(s) /\ todo[s] = EmptyMap
    BY <1>1 DEF Seen, Listed, TypeInv, RunOK, TodoOK
  <2>2. \A h \in DOMAIN todo[s] : Stands(coll'[s], h, todo[s][h])
    BY <2>1, EmptyMapType
  <2>3. ASSUME NEW k \in DOMAIN resolved[s], k \in left, k # uid
        PROVE  Stands(coll'[s], resolved[s][k].href, resolved[s][k].version)
    <3>1. Stands(coll[s], resolved[s][k].href, resolved[s][k].version) /\ Owner[resolved[s][k].href] = k
      BY <2>1, <2>3 DEF SeenSide, Open, Owned, OwnedRun
    <3>. QED  BY <1>2, <2>3, <3>1 DEF OnlyOwn, Stands
  <2>4. ASSUME NEW h \in DOMAIN coll'[s], Owner[h] \in left, Owner[h] # uid
        PROVE  Owner[h] \in DOMAIN resolved[s] \cup filtered
    <3>1. h \in DOMAIN coll[s]
      BY <1>2, <2>4 DEF OnlyOwn
    <3>. QED  BY <2>1, <2>4, <3>1, EmptyMapType DEF SeenSide, Open
  <2>. QED  BY <1>1, <2>2, <2>3, <2>4 DEF SeenSide, Open
<1>. QED  BY <1>3 DEF Seen

LEMMA SeenStep ==
  ASSUME HrefsNameItems, TypeInv, Owned, Seen, [Next]_vars
  PROVE  Seen'
<1>. SUFFICES ASSUME Quiet'  PROVE Seen'
  BY DEF Seen
<1>1. CASE pc' \in {"idle", "listA", "finish"}
  BY <1>1 DEF Seen, Listed
<1>2. CASE Quiet
  <2>1. ASSUME NEW s \in Sides, Resolved(s)  PROVE Seen'
    BY <1>2, <2>1, EmptyMapType
    DEF Resolved, Resolving, Seen, Listed, SeenSide, Open, TypeInv, RunOK, TodoOK, MarksOK
  <2>2. CASE UserWrite
    BY <1>1, <2>2, QuietWrite, UserWriteEffect
  <2>3. CASE UNCHANGED vars
    BY <1>2, <2>3 DEF vars, runVars, Seen, Listed, SeenSide, Open
  <2>. QED
    BY <1>1, <1>2, <2>1, <2>2, <2>3, ListSeen, ResolveSeen, MergeSeen, EndStepEnds, NextCases
    DEF Start, Ends, Finish, Crash, ResetState
<1>. QED  BY <1>1, <1>2, QuietBefore, QuietWrite DEF Start

\* Who is filtered has a version outside the window.
FilteredReal ==
  Quiet => \A k \in filtered : \E s \in Sides : \E h \in DOMAIN coll[s] :
             Owner[h] = k /\ ~coll[s][h].body.in

LEMMA FilteredStep ==
  ASSUME HrefsNameItems, TypeInv, Owned, FilteredReal, [Next]_vars
  PROVE  FilteredReal'
<1>. SUFFICES ASSUME Quiet'  PROVE FilteredReal'
  BY DEF FilteredReal
<1>1. CASE filtered' = {}
  BY <1>1 DEF FilteredReal
<1>2. CASE Start \/ Finish \/ Crash \/ ResetState \/ EndStep
  BY <1>1, <1>2, EndStepEnds
  DEF Start, Finish, Crash, ResetState, Ends, Cleared, TypeInv, RunOK, MarksOK
<1>3. CASE UserWrite
  BY <1>1, <1>3, QuietWrite, UserWriteEffect DEF TypeInv, RunOK, MarksOK
<1>4. CASE ListStep
  BY <1>1, <1>4, ListStepCases DEF Ends, Cleared, AcceptA, Accepted, TypeInv, RunOK, MarksOK
<1>5. ASSUME Quiet, UNCHANGED <<coll, filtered>>  PROVE FilteredReal'
  BY <1>5 DEF FilteredReal
<1>6. ASSUME NEW s \in Sides, Quiet, Resolved(s)  PROVE FilteredReal'
  BY <1>5, <1>6 DEF Resolved
<1>7. ASSUME NEW s \in Sides, NEW h \in Hrefs, Quiet, ResolveKnown(s, h)  PROVE FilteredReal'
  BY <1>5, <1>7 DEF ResolveKnown
<1>8. ASSUME NEW s \in Sides, NEW h \in Hrefs, Quiet, ResolveRead(s, h)  PROVE FilteredReal'
  <2>1. h \in DOMAIN coll[s] /\ UNCHANGED coll
    BY <1>8 DEF ResolveRead, MustRead
  <2>2. UidOf(coll[s][h].body, h) = Owner[h]
    BY <2>1, OwnedUids DEF Owned, TypeInv, ServersOK, IsMap
  <2>3. \/ ~coll[s][h].body.in /\ filtered' = filtered \cup {Owner[h]}
        \/ UNCHANGED filtered
    BY <1>8, <2>2 DEF ResolveRead
  <2>. QED  BY <1>5, <1>8, <2>1, <2>3 DEF FilteredReal
<1>9. ASSUME NEW uid \in Keys, Quiet, DropStep(uid) \/ \E s \in Sides : CopyItem(uid, s)
      PROVE  FilteredReal'
  <2>1. uid \in left /\ UNCHANGED filtered
    BY <1>9, DropStepEffect DEF CopyItem, InHand
  <2>2. uid \notin filtered
    BY <2>1 DEF TypeInv, RunOK, MarksOK
  <2>3. OnlyOwn(uid)
    BY <1>9, MergeTouchesOwn
  <2>. QED  BY <1>9, <2>1, <2>2, <2>3 DEF FilteredReal, OnlyOwn
<1>10. CASE UNCHANGED vars
  BY <1>10 DEF vars, runVars, FilteredReal, Quiet
<1>. QED  BY <1>2, <1>3, <1>4, <1>6, <1>7, <1>8, <1>9, <1>10, QuietBefore, NextCases

-----------------------------------------------------------------------------
(* The item in hand, in a run nobody disturbs.                             *)

\* All that is known of a run but what the servers hold.
Book == TypeInv /\ Owned /\ Knows /\ ReadUnlessKnown /\ listMode \in ListModes

LEMMA BookStep == ASSUME HrefsNameItems, Book, [Next]_vars  PROVE Book'
BY StepOK, OwnedStep, KnowsStep, ReadStep, JobKept DEF Book, jobVars

LEMMA BookInit == ASSUME HrefsNameItems, Init  PROVE Book
BY InitOK, OwnedInit, NothingYet, EmptyMapType DEF Init, Book, Knows, Listing0, ReadUnlessKnown

\* An item that was not read is the one its entry names.
LEMMA UnreadIsEntry ==
  ASSUME TagsListed, Book, NEW uid, InHand(uid), NEW s \in Sides, On(s, uid), ~Changed(s, uid)
  PROVE  /\ uid \in DOMAIN st
         /\ st[uid].href[s] = resolved[s][uid].href
         /\ st[uid].etag[s] = resolved[s][uid].version
<1>. DEFINE r == resolved[s][uid]
<1>1. uid \in DOMAIN resolved[s] /\ ~r.changed /\ pc = "merge" /\ uid \in left
  BY DEF On, Changed, InHand
<1>2. uid \in DOMAIN st
  BY <1>1 DEF Book, TypeInv, RunOK, ResolvedOK, ItemOK
<1>3. r.href \in DOMAIN known[s] /\ known[s][r.href].etag = r.version /\ known[s][r.href].uid = uid
  <2>1. r.href \in DOMAIN known[s] /\ SameTag(known[s][r.href].etag, ListedTag(s, r.version))
    BY <1>1 DEF Book, ReadUnlessKnown
  <2>2. listMode[s] \in {"stable", "reissued"}
    BY Constants DEF Book, TagsListed, TagModes
  <2>3. known[s][r.href].etag = r.version
    BY <2>1, <2>2 DEF SameTag, ListedTag, Tagged
  <2>. QED  BY <1>1, <2>1, <2>3 DEF Book, Owned, OwnedRun
<1>4. saved[uid].href[s] = r.href
  BY <1>1, <1>3 DEF Book, Knows
<1>5. /\ st[uid].href[s] \in DOMAIN known[s] /\ known[s][st[uid].href[s]].uid = uid
      /\ known[s][st[uid].href[s]].etag = st[uid].etag[s]
  BY <1>1, <1>2 DEF Book, Knows, Open, Remembers
<1>6. saved[uid].href[s] = st[uid].href[s]
  BY <1>1, <1>5 DEF Book, Knows
<1>. QED  BY <1>2, <1>3, <1>4, <1>5, <1>6

\* A side the run did not find the item on does not hold it; one it did holds
\* that very version.
LEMMA InHandSeen ==
  ASSUME Book, Seen, Quiet, NEW uid, InHand(uid), NEW s \in Sides
  PROVE  /\ \A h \in DOMAIN coll[s] : Owner[h] = uid => On(s, uid) /\ h = resolved[s][uid].href
         /\ On(s, uid) => Stands(coll[s], resolved[s][uid].href, resolved[s][uid].version)
<1>1. pc = "merge" /\ uid \in left /\ uid \notin filtered /\ todo[s] = EmptyMap
  BY DEF InHand, Book, TypeInv, RunOK, MarksOK, TodoOK
<1>2. SeenSide(s)
  BY <1>1 DEF Seen, Listed
<1>3. On(s, uid) => Stands(coll[s], resolved[s][uid].href, resolved[s][uid].version)
  BY <1>1, <1>2 DEF SeenSide, Open, On
<1>4. ASSUME NEW h \in DOMAIN coll[s], Owner[h] = uid
      PROVE  On(s, uid) /\ h = resolved[s][uid].href
  <2>1. uid \in DOMAIN resolved[s]
    BY <1>1, <1>2, <1>4, EmptyMapType DEF SeenSide, Open
  <2>2. resolved[s][uid].href \in DOMAIN coll[s] /\ Owner[resolved[s][uid].href] = uid
    BY <1>3, <2>1 DEF On, Stands, Book, Owned, OwnedRun
  <2>. QED  BY <1>4, <2>1, <2>2 DEF On, Book, Owned, OwnedSide
<1>. QED  BY <1>3, <1>4

\* Neither a copy nor a delete is refused when nobody interferes.
LEMMA NeverRefused ==
  ASSUME HrefsNameItems, Book, Seen, Quiet, NEW uid \in Keys, NEW s \in Sides
  PROVE  ~CopyItemRefused(uid, s) /\ ~DeleteItemGone(uid, s)
<1>1. ASSUME InHand(uid), Copies(uid, s), Refused(uid, s)  PROVE FALSE
  <2>1. DOMAIN coll[Other(s)] \subseteq Hrefs /\ Other(s) \in Sides
    BY TwoSides DEF Book, TypeInv, ServersOK, IsMap
  <2>2. PICK h \in DOMAIN coll[Other(s)] : Owner[h] = uid
    BY <1>1, <2>1, OwnedUids DEF Refused, Book, Owned
  <2>3. On(Other(s), uid) /\ h = resolved[Other(s)][uid].href
    BY <1>1, <2>1, <2>2, InHandSeen
  <2>. QED  BY <1>1, <2>2, <2>3 DEF Refused, CopyHref
<1>2. ASSUME InHand(uid), Deletes(uid, s), resolved[s][uid].href \notin DOMAIN coll[s]  PROVE FALSE
  BY <1>2, InHandSeen DEF Deletes, Stands
<1>. QED  BY <1>1, <1>2 DEF CopyItemRefused, DeleteItemGone

-----------------------------------------------------------------------------
(* Both sides in one version.                                              *)

\* What InSync says of one identity.
Together(c, uid) ==
  \A s \in Sides : \A g \in DOMAIN c[s] :
    /\ Owner[g] = uid /\ c[s][g].body.in
    /\ \A h \in DOMAIN c[Other(s)] : Owner[h] = uid => c[Other(s)][h].body.in
    => \E h \in DOMAIN c[Other(s)] : Owner[h] = uid /\ c[Other(s)][h].body = c[s][g].body

Truth == ReadTruth /\ PairTruth /\ Seen /\ FilteredReal

LEMMA MergeTogether ==
  ASSUME HrefsNameItems, TagsListed, Book, Truth, Quiet, NEW uid \in Keys,
         DropStep(uid) \/ \E s \in Sides : CopyItem(uid, s)
  PROVE  Together(coll', uid)
<1>1. ASSUME NEW s \in Sides, CopyItem(uid, s)  PROVE Together(coll', uid)
  <2>1. PICK t : CopyEffect(uid, s, t)
    BY <1>1, CopyItemEffect DEF Book
  <2>2. InHand(uid) /\ Copies(uid, s) /\ On(s, uid) /\ resolved[s][uid].changed
    BY <1>1, CopyTypes DEF CopyItem, On, Book
  <2>3. Owner[resolved[s][uid].href] = uid /\ Owner[CopyHref(uid, s)] = uid
    BY <2>2, CopyOwned DEF Book
  <2>4. /\ resolved[s][uid].href \in DOMAIN coll'[s]
        /\ coll'[s][resolved[s][uid].href].body = resolved[s][uid].body
        /\ \A h \in DOMAIN coll'[s] : Owner[h] = uid => h = resolved[s][uid].href
    BY <2>1, <2>2, InHandSeen
    DEF CopyEffect, PutEffect, Truth, ReadTruth, On, Stands
  <2>5. /\ CopyHref(uid, s) \in DOMAIN coll'[Other(s)]
        /\ coll'[Other(s)][CopyHref(uid, s)].body = resolved[s][uid].body
    BY <2>1 DEF CopyEffect, PutEffect
  <2>6. \A h \in DOMAIN coll'[Other(s)] : Owner[h] = uid => h = CopyHref(uid, s)
    <3>1. \A h \in DOMAIN coll[Other(s)] :
            Owner[h] = uid => On(Other(s), uid) /\ h = resolved[Other(s)][uid].href
      BY <2>2, InHandSeen, TwoSides DEF Truth
    <3>. QED  BY <2>1, <3>1 DEF CopyEffect, PutEffect, CopyHref
  <2>. QED  BY <2>3, <2>4, <2>5, <2>6, TwoSides DEF Together
<1>2. ASSUME NEW s \in Sides, DeleteItem(uid, s)  PROVE Together(coll', uid)
  <2>1. DeleteEffect(uid, s) /\ InHand(uid) /\ Deletes(uid, s)
    BY <1>2, DeleteItemEffect DEF DeleteItem, Book
  <2>2. \A h \in DOMAIN coll'[s] : Owner[h] # uid
    BY <2>1, InHandSeen DEF DeleteEffect, Truth
  <2>3. \A h \in DOMAIN coll'[Other(s)] : Owner[h] # uid
    BY <2>1, InHandSeen, TwoSides DEF DeleteEffect, Deletes, Truth
  <2>. QED  BY <2>2, <2>3, TwoSides DEF Together
<1>3. ASSUME Settle(uid)  PROVE Together(coll', uid)
  <2>1. InHand(uid) /\ BothAgree(uid) /\ coll' = coll
    BY <1>3 DEF Settle
  <2>2. CASE ~On("A", uid) /\ ~On("B", uid)
    BY <2>1, <2>2, InHandSeen DEF Sides, Together, Truth
  <2>3. CASE On("A", uid) /\ On("B", uid) /\ ~Changed("A", uid) /\ ~Changed("B", uid)
    <3>1. \A s \in Sides : On(s, uid) /\ ~Changed(s, uid)
      BY <2>3 DEF Sides
    <3>2. \A s \in Sides : /\ uid \in DOMAIN st
                           /\ st[uid].href[s] = resolved[s][uid].href
                           /\ st[uid].etag[s] = resolved[s][uid].version
      BY <2>1, <3>1, UnreadIsEntry
    <3>3. \A s \in Sides : /\ Stands(coll[s], st[uid].href[s], st[uid].etag[s])
                           /\ \A h \in DOMAIN coll[s] : Owner[h] = uid => h = st[uid].href[s]
      BY <2>1, <3>1, <3>2, InHandSeen DEF Truth
    <3>4. coll["A"][st[uid].href["A"]].body = coll["B"][st[uid].href["B"]].body
      BY <3>2, <3>3 DEF Truth, PairTruth, OnePair, Sides
    <3>5. \A s \in Sides : Owner[st[uid].href[s]] = uid
      BY <3>2 DEF Book, Owned, OwnedState
    <3>. QED  BY <2>1, <3>3, <3>4, <3>5 DEF Together, Stands, Sides, Other
  <2>. QED  BY <2>1, <2>2, <2>3 DEF BothAgree
<1>. QED  BY <1>1, <1>2, <1>3 DEF DropStep

\* Nobody else's item moves.
LEMMA OthersTogether ==
  ASSUME NEW uid, OnlyOwn(uid), NEW k, k # uid, Together(coll, k)
  PROVE  Together(coll', k)
BY TwoSides DEF OnlyOwn, Together

\* Who has nothing to reconcile is on no side, or out of the window on one.
LEMMA UnlistedTogether ==
  ASSUME HrefsNameItems, Book, Truth, Quiet, Resolved("B"), NEW k \in Uids, k \notin left'
  PROVE  Together(coll, k)
<1>1. /\ pc = "resolveB" /\ todo["A"] = EmptyMap /\ todo["B"] = EmptyMap
      /\ k \notin DOMAIN resolved["A"] \cup DOMAIN resolved["B"] \/ k \in filtered
  BY DEF Resolved, Resolving, Book, TypeInv, RunOK, TodoOK
<1>2. CASE k \in filtered
  <2>1. PICK s \in Sides : \E h \in DOMAIN coll[s] : Owner[h] = k /\ ~coll[s][h].body.in
    BY <1>2 DEF Truth, FilteredReal
  <2>2. \A h \in DOMAIN coll[s] : Owner[h] = k => ~coll[s][h].body.in
    BY <2>1 DEF Book, Owned, OwnedSide
  <2>. QED  BY <2>1, <2>2, TwoSides DEF Together
<1>3. CASE k \notin filtered
  <2>1. \A s \in Sides : SeenSide(s) /\ todo[s] = EmptyMap
    BY <1>1 DEF Truth, Seen, Listed, Sides
  <2>2. \A s \in Sides : \A h \in DOMAIN coll[s] : Owner[h] # k
    BY <1>1, <1>3, <2>1, EmptyMapType DEF SeenSide, Open, Sides
  <2>. QED  BY <2>2 DEF Together
<1>. QED  BY <1>2, <1>3

Reached ==
  /\ calm # 0 /\ pc = "merge" => \A k \in Uids \ left : Together(coll, k)
  /\ calm = 2 /\ pc # "merge" => \A k \in Uids : Together(coll, k)
  /\ calm # 0 /\ pc = "finish" /\ status = "ok" => \A k \in Uids : Together(coll, k)

LEMMA ReachedStep ==
  ASSUME TagsListed, HrefsNameItems, Book, Truth, Reached, [Next]_vars
  PROVE  Reached'
<1>. SUFFICES ASSUME calm' # 0  PROVE Reached'
  BY DEF Reached
<1>1. CASE Start
  BY <1>1 DEF Start, Reached, Book, TypeInv, CountersOK
<1>2. CASE UserWrite
  BY <1>2, QuietWrite DEF Quiet, Reached
<1>3. ASSUME ~Start, ~UserWrite  PROVE Reached'
  <2>1. Quiet
    BY <1>3, QuietBefore DEF Quiet
  <2>2. CASE ListStep
    <3>1. ~ListsEmptyA /\ ~ListsEmptyB
      BY DEF ListsEmptyA, ListsEmptyB, Fault
    <3>2. UNCHANGED <<coll, calm>>
      BY <2>2, <3>1 DEF ListStep, ListA, ListB
    <3>3. \/ pc' = "finish" /\ status' = "blocked"
          \/ pc' \in {"listB", "resolveA"}
      BY <2>2, <3>1, AcceptBCases DEF ListStep, ListA, ListB, AcceptA, Accepted, Return
    <3>4. pc \in {"listA", "listB"}
      BY <2>2, <3>1 DEF ListStep, ListA, ListB
    <3>. QED  BY <3>2, <3>3, <3>4 DEF Reached
  <2>3. ASSUME NEW s \in Sides, NEW h \in Hrefs, ResolveKnown(s, h) \/ ResolveRead(s, h)
        PROVE  Reached'
    BY <2>3 DEF ResolveKnown, ResolveRead, MustRead, Resolving, Reached
  <2>4. ASSUME NEW s \in Sides, Resolved(s)  PROVE Reached'
    <3>1. CASE s = "A"
      BY <2>4, <3>1 DEF Resolved, Resolving, Reached
    <3>2. CASE s = "B"
      <4>1. \A k \in Uids \ left' : Together(coll, k)
        BY <2>1, <2>4, <3>2, UnlistedTogether
      <4>. QED  BY <2>4, <3>2, <4>1 DEF Resolved, Resolving, Reached
    <3>. QED  BY <3>1, <3>2 DEF Sides
  <2>5. CASE EndStep
    <3>1. ~CallFails /\ \A uid \in Keys, s \in Sides : ~PutLost(uid, s) /\ ~DeleteLost(uid, s)
      BY DEF CallFails, PutLost, DeleteLost, Fault
    <3>2. ASSUME NEW s \in Sides, NEW h \in Hrefs, ResolveGone(s, h)  PROVE FALSE
      BY <2>1, <3>2 DEF ResolveGone, MustRead, Resolving, Truth, Seen, Listed, SeenSide, Stands, Sides
    <3>3. Complete
      BY <2>1, <2>5, <3>1, <3>2, NeverRefused DEF EndStep, Truth
    <3>. QED  BY <3>3 DEF Complete, Return, Reached
  <2>6. ASSUME NEW uid \in Keys, DropStep(uid) \/ \E s \in Sides : CopyItem(uid, s)
        PROVE  Reached'
    <3>1. pc = "merge" /\ pc' = "merge" /\ left' = left \ {uid} /\ calm' = calm
      BY <2>6, DropStepEffect DEF CopyItem, InHand
    <3>2. Together(coll', uid)
      BY <2>1, <2>6, MergeTogether
    <3>3. OnlyOwn(uid)
      BY <2>6, MergeTouchesOwn DEF Book
    <3>4. \A k \in Uids \ left' : Together(coll', k)
      BY <3>1, <3>2, <3>3, OthersTogether DEF Reached
    <3>. QED  BY <3>1, <3>4 DEF Reached
  <2>7. CASE Finish
    BY <2>7 DEF Finish, Reached, Book, TypeInv, CountersOK
  <2>8. ~Crash /\ ~ResetState
    BY DEF Crash, ResetState, Fault
  <2>9. CASE UNCHANGED vars
    BY <2>9 DEF vars, runVars, Reached
  <2>. QED  BY <1>3, <2>2, <2>3, <2>4, <2>5, <2>6, <2>7, <2>8, <2>9, NextCases
<1>. QED  BY <1>1, <1>2, <1>3

LEMMA TruthStep ==
  ASSUME HrefsNameItems, Book, Truth, [Next]_vars
  PROVE  Truth'
BY ReadTruthStep, PairTruthStep, SeenStep, FilteredStep DEF Truth, Book

LEMMA TruthInit == ASSUME Init  PROVE Truth
BY NothingYet, EmptyMapType DEF Init, Truth, ReadTruth, PairTruth, Seen, Listed, FilteredReal

LEMMA AllTogether ==
  ASSUME HrefsNameItems, Book, \A k \in Uids : Together(coll, k)
  PROVE  InSync
<1>1. ASSUME NEW s \in Sides
      PROVE  \A h \in DOMAIN coll[s] : UidOf(coll[s][h].body, h) = Owner[h] /\ Owner[h] \in Uids
  BY OwnedUids, OwnerFacts DEF Book, Owned, TypeInv, ServersOK, IsMap
<1>. SUFFICES ASSUME NEW s \in Sides, NEW g \in DOMAIN coll[s], coll[s][g].body.in,
                     \A h \in DOMAIN coll[Other(s)] :
                       UidOf(coll[Other(s)][h].body, h) = UidOf(coll[s][g].body, g) =>
                         coll[Other(s)][h].body.in
              PROVE  \E h \in DOMAIN coll[Other(s)] :
                       /\ UidOf(coll[Other(s)][h].body, h) = UidOf(coll[s][g].body, g)
                       /\ coll[Other(s)][h].body = coll[s][g].body
  BY DEF InSync
<1>. QED  BY <1>1, TwoSides DEF Together

\* Between servers that list ETags one run without an edit or a fault, whatever
\* went before it, brings both sides together: every item all of whose versions lie in the window is on
\* both, in one version.
THEOREM Settled == ASSUME HrefsNameItems, TagsListed  PROVE Spec => []SettledInSync
<1>. DEFINE Inv == Book /\ Truth /\ Reached
<1>1. Init => Inv
  <2>. SUFFICES ASSUME Init PROVE Inv
    OBVIOUS
  <2>1. Reached
    BY DEF Init, Reached
  <2>. QED  BY <2>1, BookInit, TruthInit
<1>2. Inv /\ [Next]_vars => Inv'
  BY BookStep, TruthStep, ReachedStep
<1>3. Inv => SettledInSync
  BY AllTogether DEF Reached, SettledInSync
<1>. QED  BY <1>1, <1>2, <1>3, PTL DEF Spec

-----------------------------------------------------------------------------
(* The preview of a first run.                                             *)

\* What a preview shows of a side that holds each item once.
LEMMA CollectValue ==
  ASSUME HrefsNameItems, NEW c, DOMAIN c \subseteq Hrefs, OwnedSide(c)
  PROVE  /\ \A h \in DOMAIN c : c[h].body.in => /\ Owner[h] \in DOMAIN Collect(c)
                                                /\ Collect(c)[Owner[h]] = Summarize(c[h].body)
         /\ \A u \in DOMAIN Collect(c) : \E h \in DOMAIN c : Owner[h] = u /\ c[h].body.in
<1>. DEFINE shown == {h \in DOMAIN c : c[h].body.in}
<1>1. \A h \in DOMAIN c : UidOf(c[h].body, h) = Owner[h]
  BY OwnedUids
<1>2. DOMAIN Collect(c) = {UidOf(c[h].body, h) : h \in shown}
  BY DEF Collect
<1>3. \A u \in DOMAIN Collect(c) :
        Collect(c)[u] = Summarize(c[CHOOSE h \in shown : UidOf(c[h].body, h) = u].body)
  BY DEF Collect
<1>4. ASSUME NEW h \in shown
      PROVE  Owner[h] \in DOMAIN Collect(c) /\ Collect(c)[Owner[h]] = Summarize(c[h].body)
  <2>1. Owner[h] \in DOMAIN Collect(c)
    BY <1>1, <1>2
  <2>. DEFINE g == CHOOSE x \in shown : UidOf(c[x].body, x) = Owner[h]
  <2>2. g \in shown /\ UidOf(c[g].body, g) = Owner[h]
    BY <1>1
  <2>3. g = h
    BY <1>1, <2>2 DEF OwnedSide
  <2>. QED  BY <1>3, <2>1, <2>3
<1>5. ASSUME NEW u \in DOMAIN Collect(c)  PROVE \E h \in DOMAIN c : Owner[h] = u /\ c[h].body.in
  BY <1>1, <1>2
<1>. QED  BY <1>4, <1>5

\* The line of the merge for one identity.
MergedLine(p, q, uid) ==
  CASE uid \notin DOMAIN p -> q[uid]
    [] uid \notin DOMAIN q -> p[uid]
    [] OTHER -> IF Yields(p[uid], q[uid], sourceWins) THEN q[uid] ELSE p[uid]

LEMMA SamePreview ==
  ASSUME NEW a, NEW b, NEW a2, NEW b2,
         DOMAIN Collect(a2) \cup DOMAIN Collect(b2) = DOMAIN Collect(a) \cup DOMAIN Collect(b),
         \A uid \in DOMAIN Collect(a) \cup DOMAIN Collect(b) :
           MergedLine(Collect(a2), Collect(b2), uid) = MergedLine(Collect(a), Collect(b), uid)
  PROVE  PreviewMerge(a2, b2, sourceWins) = PreviewMerge(a, b, sourceWins)
<1>1. ASSUME NEW x, NEW y
      PROVE  PreviewMerge(x, y, sourceWins) = [uid \in DOMAIN Collect(x) \cup DOMAIN Collect(y) |->
                                     MergedLine(Collect(x), Collect(y), uid)]
  BY DEF PreviewMerge, MergedLine
<1>2. /\ PreviewMerge(a, b, sourceWins) = [uid \in DOMAIN Collect(a) \cup DOMAIN Collect(b) |->
                                            MergedLine(Collect(a), Collect(b), uid)]
      /\ PreviewMerge(a2, b2, sourceWins) = [uid \in DOMAIN Collect(a2) \cup DOMAIN Collect(b2) |->
                                              MergedLine(Collect(a2), Collect(b2), uid)]
  BY <1>1
<1>. QED  BY <1>2

\* A job without a state reads every item.
LEMMA FirstRunReads ==
  ASSUME Book, saved = EmptyMap, NEW uid, InHand(uid), NEW s \in Sides, On(s, uid)
  PROVE  Changed(s, uid)
<1>1. SUFFICES ASSUME ~Changed(s, uid)  PROVE FALSE
  OBVIOUS
<1>. DEFINE r == resolved[s][uid]
<1>2. uid \in DOMAIN resolved[s] /\ ~r.changed /\ pc = "merge"
  BY <1>1 DEF On, Changed, InHand
<1>3. r.href \in DOMAIN known[s]
  BY <1>2 DEF Book, ReadUnlessKnown
<1>4. known[s][r.href].uid \in DOMAIN saved
  BY <1>2, <1>3 DEF Book, Knows
<1>. QED  BY <1>4, EmptyMapType

\* What a side shows of the items nobody touched stays.
LEMMA OthersShown ==
  ASSUME HrefsNameItems, Book, Book', NEW uid, OnlyOwn(uid), NEW s \in Sides, NEW k, k # uid
  PROVE  /\ k \in DOMAIN Collect(coll'[s]) <=> k \in DOMAIN Collect(coll[s])
         /\ k \in DOMAIN Collect(coll[s]) => Collect(coll'[s])[k] = Collect(coll[s])[k]
<1>1. DOMAIN coll[s] \subseteq Hrefs /\ OwnedSide(coll[s])
  BY DEF Book, TypeInv, ServersOK, IsMap, Owned
<1>2. DOMAIN coll'[s] \subseteq Hrefs /\ OwnedSide(coll'[s])
  BY DEF Book, TypeInv, ServersOK, IsMap, Owned, OwnedSide
<1>3. ASSUME k \in DOMAIN Collect(coll[s])
      PROVE  k \in DOMAIN Collect(coll'[s]) /\ Collect(coll'[s])[k] = Collect(coll[s])[k]
  <2>1. PICK h \in DOMAIN coll[s] : Owner[h] = k /\ coll[s][h].body.in
    BY <1>1, <1>3, CollectValue
  <2>2. h \in DOMAIN coll'[s] /\ coll'[s][h] = coll[s][h]
    BY <2>1 DEF OnlyOwn
  <2>3. Collect(coll[s])[k] = Summarize(coll[s][h].body)
    BY <1>1, <2>1, CollectValue
  <2>4. k \in DOMAIN Collect(coll'[s]) /\ Collect(coll'[s])[k] = Summarize(coll'[s][h].body)
    BY <1>2, <2>1, <2>2, CollectValue
  <2>. QED  BY <2>2, <2>3, <2>4
<1>4. ASSUME k \in DOMAIN Collect(coll'[s])  PROVE k \in DOMAIN Collect(coll[s])
  <2>1. PICK h \in DOMAIN coll'[s] : Owner[h] = k /\ coll'[s][h].body.in
    BY <1>2, <1>4, CollectValue
  <2>2. h \in DOMAIN coll[s] /\ coll'[s][h] = coll[s][h]
    BY <2>1 DEF OnlyOwn
  <2>. QED  BY <1>1, <2>1, <2>2, CollectValue
<1>. QED  BY <1>3, <1>4

\* A copy gives both sides the line the preview had chosen.
LEMMA CopyKeepsPreview ==
  ASSUME HrefsNameItems, Book, Book', Truth, Quiet, saved = EmptyMap,
         NEW uid \in Keys, NEW s \in Sides, CopyItem(uid, s)
  PROVE  PreviewMerge(coll'["A"], coll'["B"], sourceWins)
                         = PreviewMerge(coll["A"], coll["B"], sourceWins)
<1>. DEFINE o == Other(s)
            r == resolved[s][uid]
            line == Summarize(r.body)
            P(x) == Collect(coll[x])
            Q(x) == Collect(coll'[x])
            Before == MergedLine(P("A"), P("B"), uid)
            After == MergedLine(Q("A"), Q("B"), uid)
<1>1. PICK t : CopyEffect(uid, s, t)
  BY CopyItemEffect DEF Book
<1>2. InHand(uid) /\ Copies(uid, s) /\ On(s, uid) /\ Changed(s, uid) /\ o \in Sides
  BY CopyTypes, TwoSides DEF CopyItem, On, Changed, Book
<1>3. ASSUME NEW x \in Sides
      PROVE  /\ DOMAIN coll[x] \subseteq Hrefs /\ OwnedSide(coll[x])
             /\ DOMAIN coll'[x] \subseteq Hrefs /\ OwnedSide(coll'[x])
  BY <1>3 DEF Book, TypeInv, ServersOK, IsMap, Owned, OwnedSide
<1>4. ASSUME NEW x \in Sides, On(x, uid)
      PROVE  uid \in DOMAIN P(x) /\ P(x)[uid] = Summarize(resolved[x][uid].body)
  <2>1. Stands(coll[x], resolved[x][uid].href, resolved[x][uid].version)
    BY <1>2, <1>4, InHandSeen DEF Truth
  <2>2. Changed(x, uid)
    BY <1>2, <1>4, FirstRunReads
  <2>3. /\ coll[x][resolved[x][uid].href].body = resolved[x][uid].body
        /\ resolved[x][uid].body.in
    BY <2>1, <2>2 DEF Truth, ReadTruth, Changed, On
  <2>4. Owner[resolved[x][uid].href] = uid
    BY <2>2 DEF Book, Owned, OwnedRun, Changed, On
  <2>. QED  BY <1>3, <2>1, <2>3, <2>4, CollectValue DEF Stands
<1>5. ASSUME NEW x \in Sides, ~On(x, uid)  PROVE uid \notin DOMAIN P(x)
  <2>1. \A h \in DOMAIN coll[x] : Owner[h] # uid
    BY <1>2, <1>5, InHandSeen DEF Truth
  <2>. QED  BY <1>3, <2>1, CollectValue
<1>6. \A x \in Sides : uid \in DOMAIN Q(x) /\ Q(x)[uid] = line
  <2>1. /\ Stands(coll[s], r.href, r.version)
        /\ coll[s][r.href].body = r.body /\ r.body.in /\ Owner[r.href] = uid
    <3>1. Stands(coll[s], r.href, r.version)
      BY <1>2, InHandSeen DEF Truth
    <3>. QED  BY <1>2, <3>1 DEF Truth, ReadTruth, Changed, On, Book, Owned, OwnedRun
  <2>2. r.href \in DOMAIN coll'[s] /\ coll'[s][r.href].body = r.body
    BY <1>1, <2>1 DEF CopyEffect, PutEffect, Stands
  <2>3. /\ CopyHref(uid, s) \in DOMAIN coll'[o] /\ coll'[o][CopyHref(uid, s)].body = r.body
        /\ Owner[CopyHref(uid, s)] = uid
    BY <1>1, <1>2, CopyOwned DEF CopyEffect, PutEffect, Book
  <2>4. uid \in DOMAIN Q(s) /\ Q(s)[uid] = line
    BY <1>3, <2>1, <2>2, CollectValue
  <2>5. uid \in DOMAIN Q(o) /\ Q(o)[uid] = line
    BY <1>2, <1>3, <2>1, <2>3, CollectValue
  <2>. QED  BY <2>4, <2>5, TwoSides
<1>7. After = line
  BY <1>6 DEF MergedLine, Sides
<1>8. Before = line /\ uid \in DOMAIN P("A") \cup DOMAIN P("B")
  <2>1. uid \in DOMAIN P(s) /\ P(s)[uid] = line
    BY <1>2, <1>4
  <2>2. CASE ~On(o, uid)
    <3>1. uid \notin DOMAIN P(o)
      BY <1>2, <1>5, <2>2
    <3>. QED  BY <2>1, <3>1 DEF MergedLine, Sides, Other
  <2>3. CASE On(o, uid)
    <3>1. AWins(uid) <=> s = "A"
      BY <1>2, <2>3, FirstRunReads DEF Copies
    <3>2. \A x \in Sides : /\ uid \in DOMAIN P(x)
                           /\ P(x)[uid] = Summarize(resolved[x][uid].body)
                           /\ Modified[resolved[x][uid].body.rev] \in Nat
      <4>1. \A x \in Sides : On(x, uid) /\ Changed(x, uid)
        BY <1>2, <2>3, FirstRunReads, TwoSides
      <4>2. \A x \in Sides : resolved[x][uid].body \in Bodies
        BY <4>1 DEF Book, TypeInv, RunOK, ResolvedOK, ItemOK, Changed, On
      <4>. QED  BY <1>4, <4>1, <4>2, BidiAssumption DEF Bodies
    <3>. DEFINE a == resolved["A"][uid].body.rev
                b == resolved["B"][uid].body.rev
    <3>3. Yields(P("A")[uid], P("B")[uid], sourceWins) <=> ~AWins(uid)
      <4>1. P("A")[uid].rev = a /\ P("B")[uid].rev = b /\ Modified[a] \in Nat /\ Modified[b] \in Nat
        BY <3>2 DEF Summarize, Sides
      <4>. QED  BY <4>1 DEF Yields, AWins
    <3>. QED  BY <2>1, <3>1, <3>2, <3>3 DEF MergedLine, Sides
  <2>. QED  BY <2>1, <2>2, <2>3 DEF Sides
<1>9. OnlyOwn(uid)
  BY MergeTouchesOwn DEF Book
<1>10. ASSUME NEW k, k # uid
       PROVE  /\ k \in DOMAIN Q("A") <=> k \in DOMAIN P("A")
              /\ k \in DOMAIN Q("B") <=> k \in DOMAIN P("B")
              /\ k \in DOMAIN P("A") => Q("A")[k] = P("A")[k]
              /\ k \in DOMAIN P("B") => Q("B")[k] = P("B")[k]
  BY <1>9, <1>10, OthersShown DEF Sides
<1>11. DOMAIN Q("A") \cup DOMAIN Q("B") = DOMAIN P("A") \cup DOMAIN P("B")
  BY <1>6, <1>8, <1>10 DEF Sides
<1>12. \A k \in DOMAIN P("A") \cup DOMAIN P("B") :
         MergedLine(Q("A"), Q("B"), k) = MergedLine(P("A"), P("B"), k)
  <2>1. ASSUME NEW k \in DOMAIN P("A") \cup DOMAIN P("B"), k # uid
        PROVE  MergedLine(Q("A"), Q("B"), k) = MergedLine(P("A"), P("B"), k)
    BY <1>10, <2>1 DEF MergedLine
  <2>. QED  BY <1>7, <1>8, <2>1
<1>. QED  BY <1>11, <1>12, SamePreview

\* The preview of a first run is what the run does: while nobody interferes no
\* step changes what the preview of the two sides would show.
THEOREM PreviewHeld == ASSUME HrefsNameItems  PROVE Spec => PreviewHolds
<1>. DEFINE Inv == Book /\ Truth
<1>1. Init => Inv
  <2>. SUFFICES ASSUME Init PROVE Inv
    OBVIOUS
  <2>. QED  BY BookInit, TruthInit
<1>2. Inv /\ [Next]_vars => Inv'
  BY BookStep, TruthStep
<1>3. Inv /\ [Next]_vars => PreviewKept
  <2>. SUFFICES ASSUME Inv, [Next]_vars, calm = 1, saved = EmptyMap, calm' # 0, edits' = edits
                PROVE  PreviewMerge(coll'["A"], coll'["B"], sourceWins)
                         = PreviewMerge(coll["A"], coll["B"], sourceWins)
    BY DEF PreviewKept
  <2>1. Book' /\ Quiet
    BY BookStep DEF Quiet
  <2>2. ASSUME NEW uid \in Keys, NEW s \in Sides, DeleteItem(uid, s)  PROVE FALSE
    BY <2>2, FirstRunReads DEF DeleteItem, Deletes
  <2>3. ASSUME NEW uid \in Keys, NEW s \in Sides, CopyItem(uid, s)
        PROVE  PreviewMerge(coll'["A"], coll'["B"], sourceWins)
                         = PreviewMerge(coll["A"], coll["B"], sourceWins)
    BY <2>1, <2>3, CopyKeepsPreview
  <2>4. ASSUME EndStep  PROVE coll' = coll
    BY <2>4 DEF EndStep, CallFails, Complete, ResolveGone, CopyItemRefused, DeleteItemGone,
                PutLost, DeleteLost, Fault
  <2>5. ~UserWrite
    BY UserWriteEffect DEF UserEdit, Book, TypeInv, CountersOK
  <2>6. ASSUME \/ Start \/ ListStep \/ Finish \/ Crash \/ ResetState \/ UNCHANGED vars
               \/ \E s \in Sides, h \in Hrefs : ResolveKnown(s, h) \/ ResolveRead(s, h)
               \/ \E s \in Sides : Resolved(s)
        PROVE  coll' = coll
    BY <2>6 DEF Start, ListStep, ListA, ListB, ListsEmptyA, ListsEmptyB, Finish, Crash, ResetState,
                ResolveKnown, ResolveRead, Resolved, vars
  <2>7. ASSUME NEW uid \in Keys, DropStep(uid)  PROVE coll' = coll
    BY <2>2, <2>7 DEF DropStep, Settle
  <2>. QED  BY <2>3, <2>4, <2>5, <2>6, <2>7, NextCases
<1>. QED  BY <1>1, <1>2, <1>3, PTL DEF Spec, PreviewHolds

-----------------------------------------------------------------------------
(* What an entry says of a side it does not know to have changed.          *)

\* The half of an entry that still stands is what both sides agreed on.
HalfAgreed(e, k) ==
  \A s \in Sides : Stands(coll[s], e.href[s], e.etag[s]) =>
    k \in DOMAIN base /\ base[k][s] = [href |-> e.href[s], etag |-> e.etag[s]]
Truthful ==
  /\ \A k \in DOMAIN saved : HalfAgreed(saved[k], k)
  /\ \A k \in DOMAIN st : HalfAgreed(st[k], k)

\* An entry whose half still stands, where both the half and what both sides
\* agreed on outlive the step.
LEMMA OldHalf ==
  ASSUME TypeInv, Truthful, [Next]_vars, NEW k, NEW e, OldEntry(e, k),
         NEW s \in Sides, Stands(coll'[s], e.href[s], e.etag[s])
  PROVE  /\ Stands(coll[s], e.href[s], e.etag[s])
         /\ k \in DOMAIN base /\ base[k][s] = [href |-> e.href[s], etag |-> e.etag[s]]
<1>1. Remembered(s, e.href[s], e.etag[s])
  BY DEF OldEntry, Remembered
<1>2. Stands(coll[s], e.href[s], e.etag[s])
  BY <1>1, NothingRevived DEF NoneRevived
<1>. QED  BY <1>2 DEF OldEntry, Truthful, HalfAgreed

\* The witness changes only for the item a copy or a delete is about.
BaseKept(k) == k \in DOMAIN base => k \in DOMAIN base' /\ base'[k] = base[k]

LEMMA BaseCases ==
  ASSUME [Next]_vars
  PROVE  \/ UNCHANGED base
         \/ ResetState
         \/ \E uid \in Keys, s \in Sides : CopyItem(uid, s) \/ PutLost(uid, s)
<1>1. CASE EndStep
  BY <1>1 DEF EndStep, CallFails, Complete, ResolveGone, CopyItemRefused, DeleteItemGone, DeleteLost
<1>2. CASE \/ Start \/ ListStep \/ Finish \/ Crash \/ UserWrite \/ UNCHANGED vars
           \/ \E s \in Sides, h \in Hrefs : ResolveKnown(s, h) \/ ResolveRead(s, h)
           \/ \E s \in Sides : Resolved(s)
           \/ \E uid \in Keys : DropStep(uid)
  BY <1>2, UserWriteEffect, DropStepEffect
  DEF Start, ListStep, ListA, ListB, ListsEmptyA, ListsEmptyB, Finish, Crash, ResolveKnown,
      ResolveRead, Resolved, vars
<1>. QED  BY <1>1, <1>2, NextCases

\* An entry that is not uid's names hrefs that are not uid's.
LEMMA EntryOwner ==
  ASSUME Book, NEW k, NEW e, OldEntry(e, k), NEW s \in Sides
  PROVE  Owner[e.href[s]] = k
BY DEF OldEntry, Book, Owned, OwnedState


\* What the run noted of an item whose entry still stands is that very entry:
\* its href on the side, under its tag.
NotedAs(e, k, s) ==
  /\ \A h \in DOMAIN todo[s] : Owner[h] = k => h = e.href[s] /\ todo[s][h] = e.etag[s]
  /\ k \in DOMAIN resolved[s] /\ Open(k) =>
       resolved[s][k].href = e.href[s] /\ resolved[s][k].version = e.etag[s]
NotedTrue ==
  \A k, e : OldEntry(e, k) =>
    \A s \in Sides : Stands(coll[s], e.href[s], e.etag[s]) => NotedAs(e, k, s)

\* An entry that stands after a step stood before it, unless a copy wrote it.
LEMMA EntryBefore ==
  ASSUME TypeInv, [Next]_vars, NEW k, NEW e, OldEntry(e, k)', NEW s \in Sides,
         Stands(coll'[s], e.href[s], e.etag[s])
  PROVE  \/ OldEntry(e, k) /\ Stands(coll[s], e.href[s], e.etag[s])
         \/ CopiedNow(k)
<1>1. OldEntry(e, k) \/ CopiedNow(k)
  BY EntriesOld DEF OldEntry
<1>2. OldEntry(e, k) => Remembered(s, e.href[s], e.etag[s])
  BY DEF OldEntry, Remembered
<1>. QED  BY <1>1, <1>2, NothingRevived DEF NoneRevived

\* A listing shows the entry's item under the entry's href and tag.
LEMMA ListNoted ==
  ASSUME HrefsNameItems, Book, ListStep, NEW k, NEW e, OldEntry(e, k), NEW s \in Sides,
         Stands(coll[s], e.href[s], e.etag[s]), NotedAs(e, k, s)
  PROVE  NotedAs(e, k, s)'
<1>1. Owner[e.href[s]] = k
  BY EntryOwner
<1>2. IsMap(coll[s], Hrefs, Resources)
  BY DEF Book, TypeInv, ServersOK
<1>3. ASSUME NEW x \in Sides, NEW list, todo' = [todo EXCEPT ![x] = list], UNCHANGED resolved,
             list = Versions(coll[x]) \/ list = EmptyMap,
             pc \in {"listA", "listB"}
      PROVE  NotedAs(e, k, s)'
  <2>1. todo'[x] = list /\ \A y \in Sides : y # x => todo'[y] = todo[y]
    BY <1>3, TodoSet DEF Book, TypeInv, RunOK, TodoOK
  <2>2. Open(k)
    BY <1>3 DEF Open
  <2>3. CASE s = x /\ list = Versions(coll[x])
    <3>1. /\ DOMAIN todo'[s] = DOMAIN coll[s]
          /\ \A h \in DOMAIN coll[s] : todo'[s][h] = coll[s][h].etag
      BY <1>2, <2>1, <2>3, VersionsListed
    <3>2. \A h \in DOMAIN coll[s] : Owner[h] = k => h = e.href[s]
      BY <1>1 DEF Book, Owned, OwnedSide, Stands
    <3>3. \A h \in DOMAIN todo'[s] : Owner[h] = k => h = e.href[s] /\ todo'[s][h] = e.etag[s]
      BY <3>1, <3>2 DEF Stands
    <3>. QED  BY <1>3, <2>2, <3>3 DEF NotedAs
  <2>4. CASE s = x /\ list = EmptyMap
    BY <1>3, <2>1, <2>2, <2>4, EmptyMapType DEF NotedAs
  <2>5. CASE s # x
    BY <1>3, <2>1, <2>2, <2>5 DEF NotedAs
  <2>. QED  BY <1>3, <2>3, <2>4, <2>5
<1>4. ASSUME Ends  PROVE NotedAs(e, k, s)'
  BY <1>4, NothingYet, EmptyMapType DEF Ends, Cleared, NotedAs
<1>5. CASE ListA \/ ListsEmptyA
  BY <1>3, <1>5 DEF ListA, ListsEmptyA, AcceptA, Sides
<1>6. ASSUME NEW list, AcceptB(list), pc = "listB",
             list = Versions(coll["B"]) \/ list = EmptyMap
      PROVE  NotedAs(e, k, s)'
  <2>1. CASE Accepted(list)
    BY <1>3, <1>6, <2>1 DEF Accepted, Sides
  <2>. QED  BY <1>4, <1>6, <2>1, AcceptBCases DEF Return, Ends, Cleared
<1>. QED  BY <1>5, <1>6 DEF ListStep, ListB, ListsEmptyB

\* An item is noted under the href and the tag of the listing.
LEMMA ResolveNoted ==
  ASSUME HrefsNameItems, Book, [Next]_vars, NEW x \in Sides, NEW h \in Hrefs,
         ResolveKnown(x, h) \/ ResolveRead(x, h),
         NEW k, NEW e, NEW s \in Sides, NotedAs(e, k, s)
  PROVE  NotedAs(e, k, s)'
<1>1. /\ todo' = [todo EXCEPT ![x] = MapDelete(@, h)] /\ UNCHANGED <<pc, left>>
      /\ pc # "merge"
  BY DEF ResolveKnown, ResolveRead, MustRead, Resolving, Sides
<1>2. \A g \in DOMAIN todo'[s] : g \in DOMAIN todo[s] /\ todo'[s][g] = todo[s][g]
  BY <1>1, TodoDrop DEF Book, TypeInv, RunOK
<1>3. ASSUME k \in DOMAIN resolved'[s]
      PROVE  resolved'[s][k].href = e.href[s] /\ resolved'[s][k].version = e.etag[s]
  <2>1. CASE k \in DOMAIN resolved[s] /\ resolved'[s][k] = resolved[s][k]
    BY <1>1, <2>1 DEF NotedAs, Open
  <2>2. CASE NotedKnown(s, k)
    <3>1. PICK g \in Hrefs : /\ ResolveKnown(s, g) /\ k = known[s][g].uid
                             /\ resolved'[s][k] = KnownItem(s, g)
      BY <2>2 DEF NotedKnown
    <3>2. g \in DOMAIN todo[s] /\ Owner[g] = k
      BY <3>1 DEF ResolveKnown, Book, Owned, OwnedRun
    <3>. QED  BY <3>1, <3>2 DEF NotedAs, KnownItem
  <2>3. CASE NotedRead(s, k)
    <3>1. PICK g \in Hrefs : /\ ResolveRead(s, g) /\ k = UidOf(coll[s][g].body, g)
                             /\ resolved'[s][k] = ReadItem(s, g)
      BY <2>3 DEF NotedRead
    <3>2. g \in DOMAIN todo[s] /\ g \in DOMAIN coll[s]
      BY <3>1 DEF ResolveRead, MustRead
    <3>3. Owner[g] = k
      BY <3>1, <3>2, OwnedUids DEF Book, Owned, TypeInv, ServersOK, IsMap
    <3>. QED  BY <3>1, <3>2, <3>3 DEF NotedAs, ReadItem
  <2>. QED  BY <1>3, <2>1, <2>2, <2>3, ResolvedOld DEF Book
<1>. QED  BY <1>2, <1>3 DEF NotedAs

LEMMA NotedStep ==
  ASSUME HrefsNameItems, Book, NotedTrue, [Next]_vars
  PROVE  NotedTrue'
<1>. SUFFICES ASSUME NEW k, NEW e, OldEntry(e, k)', NEW s \in Sides,
                     Stands(coll'[s], e.href[s], e.etag[s])
              PROVE  NotedAs(e, k, s)'
  BY DEF NotedTrue
<1>1. ASSUME NEW x \in Sides, CopyItem(k, x)  PROVE NotedAs(e, k, s)'
  <2>1. pc' = "merge" /\ left' = left \ {k} /\ todo'[s] = EmptyMap
    BY <1>1 DEF CopyItem, InHand, Book, TypeInv, RunOK, TodoOK
  <2>. QED  BY <2>1, EmptyMapType DEF NotedAs, Open
<1>2. CASE CopiedNow(k)
  BY <1>1, <1>2 DEF CopiedNow
<1>3. CASE OldEntry(e, k) /\ Stands(coll[s], e.href[s], e.etag[s])
  <2>1. NotedAs(e, k, s)
    BY <1>3 DEF NotedTrue
  <2>2. ASSUME UNCHANGED <<todo, resolved>>, Open(k)' => Open(k)  PROVE NotedAs(e, k, s)'
    BY <2>1, <2>2 DEF NotedAs
  <2>3. ASSUME Cleared  PROVE NotedAs(e, k, s)'
    BY <2>3, NothingYet, EmptyMapType DEF Cleared, NotedAs
  <2>4. CASE EndStep \/ Crash
    BY <2>3, <2>4, EndStepEnds DEF Ends, Crash, Cleared
  <2>5. CASE Start \/ Finish \/ ResetState \/ UserWrite \/ UNCHANGED vars
    BY <2>2, <2>5, UserWriteEffect DEF Start, Finish, ResetState, vars, runVars, Open
  <2>6. ASSUME NEW x \in Sides, Resolved(x)  PROVE NotedAs(e, k, s)'
    BY <2>2, <2>6 DEF Resolved, Resolving, Open
  <2>7. ASSUME NEW uid \in Keys, DropStep(uid) \/ \E x \in Sides : CopyItem(uid, x)
        PROVE  NotedAs(e, k, s)'
    BY <2>2, <2>7, DropStepEffect DEF CopyItem, InHand, Open
  <2>8. CASE ListStep
    BY <1>3, <2>1, <2>8, ListNoted
  <2>9. ASSUME NEW x \in Sides, NEW h \in Hrefs, ResolveKnown(x, h) \/ ResolveRead(x, h)
        PROVE  NotedAs(e, k, s)'
    BY <2>1, <2>9, ResolveNoted
  <2>. QED  BY <2>4, <2>5, <2>6, <2>7, <2>8, <2>9, NextCases
<1>. QED  BY <1>2, <1>3, EntryBefore DEF Book

\* A copy, answered or not, leaves the old entry of its item true: the half it
\* read is the one it agrees on, the half it replaces stands no longer.
LEMMA PutHalf ==
  ASSUME HrefsNameItems, Book, NotedTrue, NEW uid \in Keys, NEW s \in Sides, InHand(uid),
         Copies(uid, s), ~Refused(uid, s), NEW t, PutEffect(uid, s, t), [Next]_vars,
         NEW e, OldEntry(e, uid), NEW x \in Sides, Stands(coll'[x], e.href[x], e.etag[x])
  PROVE  uid \in DOMAIN base' /\ base'[uid][x] = [href |-> e.href[x], etag |-> e.etag[x]]
<1>1. Remembered(x, e.href[x], e.etag[x]) /\ Owner[e.href[x]] = uid
  BY EntryOwner DEF OldEntry, Remembered
<1>2. Stands(coll[x], e.href[x], e.etag[x])
  BY <1>1, NothingRevived DEF NoneRevived, Book
<1>3. uid \in DOMAIN resolved[x] => resolved[x][uid].href = e.href[x] /\ resolved[x][uid].version = e.etag[x]
  BY <1>2 DEF NotedTrue, NotedAs, Open, InHand
<1>4. uid \in DOMAIN resolved[s] /\ Owner[CopyHref(uid, s)] = uid
  BY CopyTypes, CopyOwned DEF Book
<1>5. CASE x = s
  BY <1>3, <1>4, <1>5 DEF PutEffect
<1>6. CASE x = Other(s)
  <2>1. ASSUME e.href[x] = CopyHref(uid, s)  PROVE FALSE
    <3>1. e.etag[x] = t
      BY <1>6, <2>1 DEF PutEffect, Stands
    <3>2. e.etag[x] \in UsedTags(x, e.href[x])
      BY <1>1, RememberedTags
    <3>. QED  BY <1>6, <2>1, <3>1, <3>2 DEF PutEffect
  <2>2. ASSUME e.href[x] # CopyHref(uid, s)  PROVE FALSE
    <3>1. ~On(x, uid)
      BY <1>3, <1>6, <2>2 DEF On, CopyHref
    <3>2. CopyHref(uid, s) \notin DOMAIN coll[x]
      BY <1>1, <1>2, <1>4, <2>2 DEF Book, Owned, OwnedSide, Stands
    <3>3. uid \in UidsOf(coll[x])
      BY <1>1, <1>2, OwnedUids DEF Stands, Book, Owned, TypeInv, ServersOK, IsMap
    <3>. QED  BY <1>6, <3>2, <3>3 DEF Refused
  <2>. QED  BY <2>1, <2>2
<1>. QED  BY <1>5, <1>6, TwoSides

LEMMA TruthfulStep ==
  ASSUME HrefsNameItems, Book, NotedTrue, Truthful, [Next]_vars
  PROVE  Truthful'
<1>. DEFINE Half(e, k) == \A s \in Sides : Stands(coll'[s], e.href[s], e.etag[s]) =>
              k \in DOMAIN base' /\ base'[k][s] = [href |-> e.href[s], etag |-> e.etag[s]]
            AllOld == \A k : \A e : OldEntry(e, k) => Half(e, k)
            NoCopy == \A k \in Keys : \A s \in Sides : ~CopyItem(k, s)
<1>1. ASSUME NEW k, BaseKept(k), NEW e, OldEntry(e, k)  PROVE Half(e, k)
  BY <1>1, OldHalf DEF BaseKept, Book
<1>2. ASSUME AllOld, NoCopy  PROVE Truthful'
  <2>1. /\ \A k \in DOMAIN saved' : OldEntry(saved'[k], k)
        /\ \A k \in DOMAIN st' : OldEntry(st'[k], k)
    BY <1>2, EntriesOld DEF CopiedNow, Book
  <2>. QED  BY <1>2, <2>1 DEF Truthful, HalfAgreed
<1>3. ASSUME NEW uid \in Keys, NEW s \in Sides, NEW t, InHand(uid), Copies(uid, s),
             ~Refused(uid, s), PutEffect(uid, s, t)
      PROVE  AllOld
  <2>1. \A k : k # uid => BaseKept(k)
    BY <1>3 DEF PutEffect, BaseKept
  <2>2. ASSUME NEW e, OldEntry(e, uid)  PROVE Half(e, uid)
    BY <1>3, <2>2, PutHalf
  <2>. QED  BY <1>1, <2>1, <2>2
<1>4. ASSUME NEW uid \in Keys, NEW s \in Sides, CopyItem(uid, s)  PROVE Truthful'
  <2>1. PICK t : CopyEffect(uid, s, t)
    BY <1>4, CopyItemEffect DEF Book
  <2>2. AllOld
    BY <1>3, <1>4, <2>1 DEF CopyItem, CopyEffect
  <2>3. saved' = saved
    BY <1>4 DEF CopyItem
  <2>4. \A k \in DOMAIN st' : k # uid => OldEntry(st'[k], k)
    BY <2>1 DEF CopyEffect, OldEntry
  <2>5. Half(st'[uid], uid)
    <3>1. /\ st'[uid].href[s] = resolved[s][uid].href
          /\ st'[uid].etag[s] \in {resolved[s][uid].version, NoTag, Reissued}
          /\ st'[uid].href[Other(s)] = CopyHref(uid, s)
          /\ st'[uid].etag[Other(s)] \in {t, NoTag, Reissued}
      BY <2>1 DEF CopyEffect
    <3>2. /\ t \in ETags
          /\ coll'[Other(s)][CopyHref(uid, s)].etag = t
          /\ uid \in DOMAIN base'
          /\ base'[uid][s] = [href |-> resolved[s][uid].href, etag |-> resolved[s][uid].version]
          /\ base'[uid][Other(s)] = [href |-> CopyHref(uid, s), etag |-> t]
      BY <2>1 DEF CopyEffect, PutEffect
    <3>3. \A h \in DOMAIN coll'[s] : coll'[s][h].etag \in ETags
      BY StepOK DEF Book, TypeInv, ServersOK, IsMap, Resources
    <3>4. \A x \in Sides : Stands(coll'[x], st'[uid].href[x], st'[uid].etag[x]) =>
            base'[uid][x] = [href |-> st'[uid].href[x], etag |-> st'[uid].etag[x]]
      BY <3>1, <3>2, <3>3, ETagsReal, TwoSides DEF Stands
    <3>. QED  BY <3>2, <3>4
  <2>6. \A k \in DOMAIN saved' : Half(saved'[k], k)
    BY <2>2, <2>3 DEF OldEntry
  <2>7. \A k \in DOMAIN st' : Half(st'[k], k)
    BY <2>2, <2>4, <2>5
  <2>. QED  BY <2>6, <2>7 DEF Truthful, HalfAgreed
<1>5. ASSUME NoCopy  PROVE Truthful'
  <2>1. ASSUME NEW uid \in Keys, NEW s \in Sides, PutLost(uid, s)  PROVE AllOld
    <3>1. PICK t \in NewTags(UsedTags(Other(s), CopyHref(uid, s))) : PutCopy(uid, s, t)
      BY <2>1 DEF PutLost
    <3>2. InHand(uid) /\ Copies(uid, s) /\ ~Refused(uid, s)
      BY <2>1 DEF PutLost
    <3>. QED  BY <1>3, <3>1, <3>2, PutCopyEffect DEF Book
  <2>2. ASSUME UNCHANGED base  PROVE AllOld
    BY <1>1, <2>2 DEF BaseKept
  <2>3. CASE ResetState
    BY <2>3, EmptyMapType DEF ResetState, Truthful, Book, TypeInv, RunOK, MarksOK
  <2>. HIDE DEF AllOld
  <2>. QED  BY <1>2, <1>5, <2>1, <2>2, <2>3, BaseCases
<1>. QED  BY <1>4, <1>5

\* The invariant of the engine's choices: what it knows of a version, which
\* holds whatever happens, and what an undisturbed run has seen.
Faithful == Book /\ Truth /\ NotedTrue /\ Truthful

LEMMA FaithfulInvariant == ASSUME HrefsNameItems  PROVE Spec => []Faithful
<1>1. Init => Faithful
  <2>. SUFFICES ASSUME Init PROVE Faithful
    OBVIOUS
  <2>1. Truthful /\ NotedTrue
    BY EmptyMapType DEF Init, Truthful, NotedTrue, OldEntry
  <2>. QED  BY <2>1, BookInit, TruthInit DEF Faithful
<1>2. Faithful /\ [Next]_vars => Faithful'
  BY BookStep, TruthStep, NotedStep, TruthfulStep DEF Faithful
<1>. QED  BY <1>1, <1>2, PTL DEF Spec

\* The side of the item in hand that was not read is as both sides agreed.
LEMMA UnreadAgreed ==
  ASSUME TagsListed, Faithful, Quiet, NEW uid, InHand(uid), NEW s \in Sides, On(s, uid), ~Changed(s, uid)
  PROVE  NowAgreed(uid, s, resolved[s][uid].href)
<1>1. /\ uid \in DOMAIN st
      /\ st[uid].href[s] = resolved[s][uid].href /\ st[uid].etag[s] = resolved[s][uid].version
  BY UnreadIsEntry DEF Faithful
<1>2. Stands(coll[s], resolved[s][uid].href, resolved[s][uid].version)
  BY InHandSeen DEF Faithful, Truth
<1>3. /\ uid \in DOMAIN base
      /\ base[uid][s] = [href |-> resolved[s][uid].href, etag |-> resolved[s][uid].version]
  BY <1>1, <1>2 DEF Faithful, Truthful, HalfAgreed
<1>. QED  BY <1>2, <1>3 DEF NowAgreed, Stands

\* A change beats a delete (sync_bidi.go:91-92) between servers that list
\* ETags, also such as list another each time: a run nobody disturbs propagates
\* a delete only onto the version both sides had agreed on, whatever edits, lost
\* answers, false listings and crashes its state comes from.
THEOREM ChangesBeatDeletes ==
  ASSUME HrefsNameItems, TagsListed
  PROVE  Spec => []DeletesOnlyUnchanged
<1>1. Faithful => DeletesOnlyUnchanged
  BY UnreadAgreed DEF DeletesOnlyUnchanged, Deletes, Quiet
<1>. QED  BY <1>1, FaithfulInvariant, PTL

\* Under newest-wins (sync_bidi.go:76-94) a copy never replaces a newer
\* version that is somebody's own, between the same servers and under the same
\* condition: an edit after the listings is one the merge has not seen.
THEOREM NewestWins ==
  ASSUME HrefsNameItems, TagsListed
  PROVE  Spec => []NewestSurvives
<1>1. ASSUME Faithful  PROVE NewestSurvives
  <2>. SUFFICES ASSUME Quiet, ~sourceWins, NEW uid \in left, NEW s \in Sides, InHand(uid),
                       Copies(uid, s),
                       CopyHref(uid, s) \in DOMAIN coll[Other(s)],
                       ~NowAgreed(uid, Other(s), CopyHref(uid, s))
                PROVE  Modified[resolved[s][uid].body.rev]
                         >= Modified[coll[Other(s)][CopyHref(uid, s)].body.rev]
    BY DEF NewestSurvives, Quiet
  <2>. DEFINE o == Other(s)
              h == CopyHref(uid, s)
  <2>1. uid \in Keys /\ o \in Sides
    BY <1>1, TwoSides DEF Faithful, Book, TypeInv, RunOK, MarksOK
  <2>2. /\ On(s, uid) /\ Changed(s, uid) /\ Owner[h] = uid
        /\ resolved[s][uid].body \in Bodies
    BY <1>1, <2>1, CopyTypes, CopyOwned DEF Faithful, Book, On, Changed
  <2>3. On(o, uid) /\ h = resolved[o][uid].href /\ Stands(coll[o], h, resolved[o][uid].version)
    BY <1>1, <2>1, <2>2, InHandSeen DEF Faithful, Truth
  <2>4. Changed(o, uid)
    BY <1>1, <2>1, <2>3, UnreadAgreed
  <2>5. coll[o][h].body = resolved[o][uid].body /\ resolved[o][uid].body \in Bodies
    BY <1>1, <2>1, <2>3, <2>4
    DEF Faithful, Truth, ReadTruth, Changed, On, Book, TypeInv, RunOK, ResolvedOK, ItemOK
  <2>6. AWins(uid) <=> s = "A"
    BY <2>2, <2>3, <2>4 DEF Copies
  <2>7. \A x \in Sides : Modified[resolved[x][uid].body.rev] \in Nat
    BY <2>2, <2>5, TwoSides, BidiAssumption DEF Bodies
  <2>8. CASE s = "A"
    BY <2>5, <2>6, <2>8 DEF AWins, Other
  <2>9. CASE s = "B"
    <3>1. /\ Modified[resolved["A"][uid].body.rev] \in Nat
          /\ Modified[resolved["B"][uid].body.rev] \in Nat
      BY <2>7 DEF Sides
    <3>. QED  BY <2>5, <2>6, <2>9, <3>1 DEF AWins, Other
  <2>. QED  BY <2>8, <2>9 DEF Sides
<1>. QED  BY <1>1, FaithfulInvariant, PTL
=============================================================================
