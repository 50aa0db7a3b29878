-------------------------- MODULE SyncRunnerProofs --------------------------
(***************************************************************************)
(* What SyncRunner's runs show on two jobs and one request, proved for     *)
(* every set of jobs, requests and directions.                             *)
(***************************************************************************)
EXTENDS SyncRunner, FiniteSetTheorems, TLAPS

-----------------------------------------------------------------------------
(* Rows, snapshots and actors.                                             *)

\* A row is a row whatever single field is replaced by a value of its own.
LEMMA RowFields ==
  ASSUME NEW r \in Rows
  PROVE  /\ \A n \in Nat : [r EXCEPT !.state = n] \in Rows
         /\ \A n \in Nat : [r EXCEPT !.state = n, !.due = FALSE] \in Rows
         /\ [r EXCEPT !.due = TRUE] \in Rows
         /\ \A e \in BOOLEAN, d \in Directions : [r EXCEPT !.enabled = e, !.dir = d] \in Rows
BY DEF Rows

\* An actor at work holds exactly one job, and it is a snapshot.
LEMMA JobOfActor ==
  ASSUME ActorsOK, NEW a \in Actors, actor[a].pc # "idle"
  PROVE  /\ Len(actor[a].job) = 1
         /\ JobOf(a) \in Snapshots
         /\ JobOf(a).id \in Jobs
         /\ JobOf(a).row \in Rows
         /\ JobOf(a).row.state \in Nat
<1>1. /\ actor[a] \in [pc : Pcs, job : Seq(Snapshots)]
      /\ Len(actor[a].job) = 1
  BY DEF ActorsOK, Idle
<1>2. actor[a].job[1] \in Snapshots
  BY <1>1
<1>. QED  BY <1>1, <1>2 DEF JobOf, Snapshots, Rows

\* Reading a row gives a snapshot of it.
LEMMA SnapshotType ==
  ASSUME RowsOK, NEW j \in DOMAIN db
  PROVE  Snapshot(j) \in Snapshots
BY DEF RowsOK, Snapshot, Snapshots

\* One actor may take up a job, go on with it or drop it.
LEMMA ActorsStep ==
  ASSUME ActorsOK, NEW a \in Actors, NEW v,
         v = Idle \/ (/\ v \in [pc : Pcs \ {"idle"}, job : Seq(Snapshots)]
                      /\ Len(v.job) = 1),
         actor' = [actor EXCEPT ![a] = v]
  PROVE  ActorsOK'
<1>1. v \in [pc : Pcs, job : Seq(Snapshots)]
  <2>1. /\ "idle" \in Pcs
        /\ <<>> \in Seq(Snapshots)
    BY DEF Pcs
  <2>2. CASE v = Idle
    BY <2>1, <2>2 DEF Idle
  <2>3. CASE v \in [pc : Pcs \ {"idle"}, job : Seq(Snapshots)]
    BY <2>3
  <2>. QED  BY <2>2, <2>3
<1>2. actor' \in [Actors -> [pc : Pcs, job : Seq(Snapshots)]]
  BY <1>1 DEF ActorsOK
<1>3. ASSUME NEW b \in Actors
      PROVE  actor'[b] = Idle \/ (actor'[b].pc # "idle" /\ Len(actor'[b].job) = 1)
  <2>1. CASE b = a
    BY <2>1 DEF ActorsOK
  <2>2. CASE b # a
    BY <2>2 DEF ActorsOK
  <2>. QED  BY <2>1, <2>2
<1>. QED  BY <1>2, <1>3 DEF ActorsOK

\* At puts one job in the hands of an actor.
LEMMA AtType ==
  ASSUME NEW pc \in Pcs \ {"idle"}, NEW s \in Snapshots
  PROVE  /\ At(pc, s) \in [pc : Pcs \ {"idle"}, job : Seq(Snapshots)]
         /\ Len(At(pc, s).job) = 1
         /\ At(pc, s).pc = pc
         /\ At(pc, s).job[1] = s
BY DEF At

\* Moving an actor on leaves it its job.
LEMMA MoveActor ==
  ASSUME ActorsOK, NEW a \in Actors, actor[a].pc # "idle",
         NEW pc \in Pcs \ {"idle"}, actor' = [actor EXCEPT ![a].pc = pc]
  PROVE  /\ ActorsOK'
         /\ actor'[a].pc = pc
         /\ JobOf(a)' = JobOf(a)
<1>. DEFINE moved == [pc |-> pc, job |-> actor[a].job]
<1>1. actor' = [actor EXCEPT ![a] = moved]
  <2>1. actor[a] \in [pc : Pcs, job : Seq(Snapshots)]
    BY DEF ActorsOK
  <2>2. [actor[a] EXCEPT !.pc = pc] = moved
    BY <2>1
  <2>3. actor' = [actor EXCEPT ![a] = [actor[a] EXCEPT !.pc = pc]]
    OBVIOUS
  <2>. QED  BY <2>2, <2>3
<1>2. /\ moved \in [pc : Pcs \ {"idle"}, job : Seq(Snapshots)]
      /\ Len(actor[a].job) = 1
  BY JobOfActor DEF ActorsOK
<1>3. ActorsOK'
  BY <1>1, <1>2, ActorsStep
<1>. QED  BY <1>1, <1>3 DEF ActorsOK, JobOf

\* Replacing the row of one job.
LEMMA RowsStep ==
  ASSUME RowsOK, NEW j \in DOMAIN db, NEW r \in Rows,
         db' = [db EXCEPT ![j] = r], used' = used
  PROVE  RowsOK'
BY DEF RowsOK

-----------------------------------------------------------------------------
(* Type correctness.                                                       *)

LEMMA UsersType == TypeOK /\ Users => TypeOK'
<1>. SUFFICES ASSUME TypeOK, NEW j \in Jobs,
                     \/ \E e \in BOOLEAN, d \in Directions : Create(j, e, d) \/ Update(j, e, d)
                     \/ Reset(j) \/ Delete(j)
              PROVE  TypeOK'
  BY DEF Users
<1>1. ASSUME Edit, RowsOK'  PROVE TypeOK'
  BY <1>1 DEF TypeOK, Edit, ActorsOK, aside
<1>2. ASSUME NEW e \in BOOLEAN, NEW d \in Directions, Create(j, e, d)  PROVE TypeOK'
  <2>1. NewRow(e, d) \in Rows
    BY DEF NewRow, Rows
  <2>2. RowsOK'
    BY <1>2, <2>1 DEF Create, Row, TypeOK, RowsOK
  <2>. QED  BY <1>1, <1>2, <2>2 DEF Create
<1>3. ASSUME NEW e \in BOOLEAN, NEW d \in Directions, Update(j, e, d)  PROVE TypeOK'
  <2>1. db[j] \in Rows /\ j \in DOMAIN db
    BY <1>3 DEF Update, TypeOK, RowsOK
  <2>2. [db[j] EXCEPT !.enabled = e, !.dir = d] \in Rows
    BY <2>1, RowFields
  <2>3. RowsOK'
    BY <1>3, <2>1, <2>2, RowsStep DEF Update, TypeOK
  <2>. QED  BY <1>1, <1>3, <2>3 DEF Update
<1>4. CASE Reset(j)
  <2>1. db[j] \in Rows /\ j \in DOMAIN db
    BY <1>4 DEF Reset, TypeOK, RowsOK
  <2>2. [db[j] EXCEPT !.state = 0] \in Rows
    BY <2>1, RowFields
  <2>3. RowsOK'
    BY <1>4, <2>1, <2>2, RowsStep DEF Reset, TypeOK
  <2>. QED  BY <1>1, <1>4, <2>3 DEF Reset
<1>5. CASE Delete(j)
  <2>1. RowsOK'
    BY <1>5 DEF Delete, TypeOK, RowsOK
  <2>. QED  BY <1>1, <1>5, <2>1 DEF Delete
<1>. QED  BY <1>2, <1>3, <1>4, <1>5

LEMMA DueType == ASSUME NEW j \in Jobs, TypeOK, BecomesDue(j)  PROVE TypeOK'
<1>1. db[j] \in Rows /\ j \in DOMAIN db
  BY DEF BecomesDue, TypeOK, RowsOK
<1>2. [db[j] EXCEPT !.due = TRUE] \in Rows
  BY <1>1, RowFields
<1>3. RowsOK'
  BY <1>1, <1>2, RowsStep DEF BecomesDue, TypeOK
<1>. QED  BY <1>3 DEF BecomesDue, TypeOK, ActorsOK, aside

LEMMA SchedulerType == TypeOK /\ Scheduler => TypeOK'
<1>. SUFFICES ASSUME TypeOK, Scheduler  PROVE TypeOK'
  OBVIOUS
<1>1. CASE Tick
  <2>1. PICK order \in SetToSeqs({j \in DOMAIN db : db[j].enabled}) :
          queue' = [n \in DOMAIN order |-> Snapshot(order[n])]
    BY <1>1 DEF Tick
  <2>2. PICK N \in Nat : order \in [1 .. N -> DOMAIN db]
    <3>. DEFINE S == {j \in DOMAIN db : db[j].enabled}
    <3>1. order \in [1 .. Cardinality(S) -> S]
      BY DEF SetToSeqs
    <3>2. S \subseteq DOMAIN db /\ DOMAIN db \subseteq Jobs
      BY DEF TypeOK, RowsOK
    <3>3. Cardinality(S) \in Nat
      BY <3>2, FS_Subset, FS_CardinalityType, RunnerAssumption
    <3>. QED  BY <3>1, <3>2, <3>3
  <2>3. \A n \in DOMAIN order : Snapshot(order[n]) \in Snapshots
    BY <2>2, SnapshotType DEF TypeOK
  <2>4. queue' \in Seq(Snapshots)
    BY <2>1, <2>2, <2>3
  <2>. QED  BY <1>1, <2>4 DEF Tick, TypeOK, RowsOK, ActorsOK, aside
<1>2. CASE RunDue
  <2>1. /\ "scheduler" \in Actors /\ queue # <<>>
        /\ queue \in Seq(Snapshots)
    BY <1>2 DEF RunDue, Actors, TypeOK
  <2>2. Head(queue) \in Snapshots /\ Tail(queue) \in Seq(Snapshots)
    BY <2>1
  <2>3. Head(queue).id \in Jobs
    BY <2>2 DEF Snapshots
  <2>4. ActorsOK'
    <3>. DEFINE v == At("sync", Head(queue))
    <3>1. actor' = [actor EXCEPT !["scheduler"] = v]
      BY <1>2 DEF RunDue, Acquire
    <3>2. "sync" \in Pcs \ {"idle"}
      BY DEF Pcs
    <3>3. v \in [pc : Pcs \ {"idle"}, job : Seq(Snapshots)] /\ Len(v.job) = 1
      BY <2>2, <3>2, AtType
    <3>4. ActorsOK
      BY DEF TypeOK
    <3>. HIDE DEF v
    <3>. QED  BY <2>1, <3>1, <3>3, <3>4, ActorsStep
  <2>. QED  BY <1>2, <2>2, <2>3, <2>4 DEF RunDue, Acquire, TypeOK, RowsOK, aside
<1>3. CASE PassOver
  <2>1. Tail(queue) \in Seq(Snapshots)
    BY <1>3 DEF PassOver, TypeOK
  <2>. QED  BY <1>3, <2>1 DEF PassOver, TypeOK, RowsOK, ActorsOK, aside
<1>. QED  BY <1>1, <1>2, <1>3 DEF Scheduler

LEMMA ManualType == ASSUME NEW r \in Requests, TypeOK, Manual(r)  PROVE TypeOK'
<1>1. r \in Actors /\ actor[r].pc # "idle"
  BY DEF Actors, Manual, RunOne, Refuse
<1>2. JobOf(r) \in Snapshots /\ JobOf(r).id \in Jobs
  BY <1>1, JobOfActor DEF TypeOK
<1>3. ActorsOK'
  <2>1. "sync" \in Pcs \ {"idle"}
    BY DEF Pcs
  <2>2. CASE RunOne(r)
    <3>. DEFINE v == At("sync", JobOf(r))
    <3>1. actor' = [actor EXCEPT ![r] = v]
      BY <2>2 DEF RunOne, Acquire
    <3>2. v \in [pc : Pcs \ {"idle"}, job : Seq(Snapshots)] /\ Len(v.job) = 1
      BY <1>2, <2>1, AtType
    <3>3. ActorsOK
      BY DEF TypeOK
    <3>. HIDE DEF v
    <3>. QED  BY <1>1, <3>1, <3>2, <3>3, ActorsStep
  <2>3. CASE Refuse(r)
    BY <1>1, <2>3, ActorsStep DEF Refuse, TypeOK
  <2>. QED  BY <2>2, <2>3 DEF Manual
<1>. QED  BY <1>2, <1>3 DEF Manual, RunOne, Refuse, Acquire, TypeOK, RowsOK, aside

LEMMA LoadType == ASSUME NEW r \in Requests, NEW j \in Jobs, TypeOK, Load(r, j)  PROVE TypeOK'
<1>1. r \in Actors /\ "loaded" \in Pcs \ {"idle"}
  BY DEF Actors, Pcs
<1>2. Snapshot(j) \in Snapshots
  BY SnapshotType DEF Load, TypeOK
<1>3. actor' = [actor EXCEPT ![r] = At("loaded", Snapshot(j))]
  BY DEF Load
<1>. DEFINE v == At("loaded", Snapshot(j))
<1>4. v \in [pc : Pcs \ {"idle"}, job : Seq(Snapshots)] /\ Len(v.job) = 1
  BY <1>1, <1>2, AtType
<1>5. ActorsOK /\ actor' = [actor EXCEPT ![r] = v]
  BY <1>3 DEF TypeOK
<1>. HIDE DEF v
<1>6. ActorsOK'
  BY <1>1, <1>4, <1>5, ActorsStep
<1>. QED  BY <1>6 DEF Load, TypeOK, RowsOK, aside

\* Storing an outcome leaves rows rows and the actor its job.
LEMMA StoreType ==
  ASSUME TypeOK, NEW a \in Actors, NEW version \in Nat,
         actor[a].pc = "sync", Store(a, version)
  PROVE  RowsOK' /\ ActorsOK'
<1>. DEFINE j == JobOf(a).id
<1>1. RowsOK'
  <2>1. CASE j \in DOMAIN db
    <3>1. db[j] \in Rows
      BY <2>1 DEF TypeOK, RowsOK
    <3>2. [db[j] EXCEPT !.state = version, !.due = FALSE] \in Rows
      BY <3>1, RowFields
    <3>. QED  BY <2>1, <3>2, RowsStep DEF Store, TypeOK
  <2>2. CASE j \notin DOMAIN db
    BY <2>2 DEF Store, TypeOK, RowsOK
  <2>. QED  BY <2>1, <2>2
<1>2. ActorsOK'
  BY MoveActor DEF Store, TypeOK, Pcs
<1>. QED  BY <1>1, <1>2

LEMMA RunType == ASSUME NEW a \in Actors, TypeOK, Run(a)  PROVE TypeOK'
<1>1. CASE FinishChanged(a)
  <2>1. Len(runs) + 1 \in Nat /\ JobOf(a).row.dir \in Directions
    BY <1>1, JobOfActor DEF FinishChanged, TypeOK, Rows
  <2>2. runs' \in Seq(Directions)
    BY <1>1, <2>1 DEF FinishChanged, TypeOK
  <2>3. RowsOK' /\ ActorsOK'
    BY <1>1, <2>1, StoreType DEF FinishChanged
  <2>. QED  BY <1>1, <2>2, <2>3 DEF FinishChanged, Store, TypeOK, aside
<1>2. CASE FinishUnchanged(a)
  <2>1. JobOf(a).row.state \in Nat
    BY <1>2, JobOfActor DEF FinishUnchanged, TypeOK
  <2>2. RowsOK' /\ ActorsOK'
    BY <1>2, <2>1, StoreType DEF FinishUnchanged
  <2>. QED  BY <1>2, <2>2 DEF FinishUnchanged, Store, TypeOK, aside
<1>3. CASE FinishEmptied(a)
  <2>1. RowsOK' /\ ActorsOK'
    BY <1>3, StoreType DEF FinishEmptied
  <2>. QED  BY <1>3, <2>1 DEF FinishEmptied, Store, TypeOK, aside
<1>4. CASE StoreFails(a)
  <2>1. ActorsOK'
    BY <1>4, MoveActor DEF StoreFails, TypeOK, Pcs
  <2>. QED  BY <1>4, <2>1 DEF StoreFails, TypeOK, RowsOK
<1>5. CASE Release(a)
  <2>1. ActorsOK'
    BY <1>5, ActorsStep DEF Release, TypeOK
  <2>. QED  BY <1>5, <2>1 DEF Release, TypeOK, RowsOK, aside
<1>. QED  BY <1>1, <1>2, <1>3, <1>4, <1>5 DEF Run

LEMMA ProcessType == TypeOK /\ Process => TypeOK'
<1>. SUFFICES ASSUME TypeOK, Process  PROVE TypeOK'
  OBVIOUS
<1>1. CASE Signal \/ Drained \/ Restart
  BY <1>1 DEF Signal, Drained, Restart, TypeOK, RowsOK, ActorsOK, aside
<1>2. ASSUME Die, CutOff \/ UNCHANGED unrecorded  PROVE TypeOK'
  <2>1. unrecorded' \subseteq Actors
    BY <1>2 DEF CutOff, TypeOK
  <2>2. ActorsOK'
    <3>1. Idle \in [pc : Pcs, job : Seq(Snapshots)]
      BY DEF Idle, Pcs
    <3>. QED  BY <1>2, <3>1 DEF Die, ActorsOK
  <2>3. queue' \in Seq(Snapshots)
    BY <1>2 DEF Die
  <2>. QED  BY <1>2, <2>1, <2>2, <2>3 DEF Die, TypeOK, RowsOK
<1>. QED  BY <1>1, <1>2 DEF Process, Exit, Crash

\* The rows stay rows and the actors' jobs snapshots, whatever the users, the
\* runs and the process do.
THEOREM TypeCorrect == Spec => []TypeOK
<1>1. Init => TypeOK
  <2>. SUFFICES ASSUME Init  PROVE TypeOK
    OBVIOUS
  <2>1. RowsOK
    <3>1. PICK S \in SUBSET Jobs :
            used = S /\ db \in [S -> {NewRow(e, d) : e \in BOOLEAN, d \in Directions}]
      BY DEF Init
    <3>2. \A e \in BOOLEAN, d \in Directions : NewRow(e, d) \in Rows
      BY DEF NewRow, Rows
    <3>. QED  BY <3>1, <3>2 DEF RowsOK
  <2>2. ActorsOK
    <3>1. Idle \in [pc : Pcs, job : Seq(Snapshots)]
      BY DEF Idle, Pcs
    <3>. QED  BY <3>1 DEF Init, ActorsOK
  <2>. QED  BY <2>1, <2>2 DEF Init, TypeOK
<1>2. TypeOK /\ [Next]_vars => TypeOK'
  <2>1. TypeOK /\ UNCHANGED vars => TypeOK'
    BY DEF vars, aside, TypeOK, RowsOK, ActorsOK
  <2>. QED  BY <2>1, UsersType, DueType, SchedulerType, ManualType, LoadType, RunType,
               ProcessType DEF Next
<1>. QED  BY <1>1, <1>2, PTL DEF Spec

-----------------------------------------------------------------------------
(* One run per job.  Neither half is inductive without the other: a release *)
(* keeps running exact only if no second actor holds the job, and acquire   *)
(* keeps the runs apart only because running names every job being run.     *)

Exclusive == OneRunPerJob /\ RunningIsHeld

LEMMA IdleIsNotBusy == Idle.pc = "idle"
BY DEF Idle

\* Nobody picks a job up or puts one down.
LEMMA ExclusiveSame ==
  ASSUME Exclusive, running' = running,
         \A x \in Actors : Busy(x)' = Busy(x),
         \A x \in Actors : Busy(x) => JobOf(x)' = JobOf(x)
  PROVE  Exclusive'
BY DEF Exclusive, OneRunPerJob, RunningIsHeld

\* acquire: the job is nobody's, and becomes a's.
LEMMA ExclusiveAcquire ==
  ASSUME ActorsOK, Exclusive, NEW a \in Actors, ~Busy(a),
         NEW job \in Snapshots, Acquire(a, job)
  PROVE  Exclusive'
<1>1. /\ job.id \notin running
      /\ running' = running \cup {job.id}
      /\ actor' = [actor EXCEPT ![a] = At("sync", job)]
  BY DEF Acquire
<1>2. Busy(a)' /\ JobOf(a)' = job
  <2>1. actor'[a] = At("sync", job)
    BY <1>1 DEF ActorsOK
  <2>. QED  BY <2>1 DEF Busy, JobOf, At
<1>3. \A x \in Actors \ {a} : Busy(x)' = Busy(x) /\ JobOf(x)' = JobOf(x)
  BY <1>1 DEF ActorsOK, Busy, JobOf
<1>4. \A x \in Actors \ {a} : Busy(x) => JobOf(x).id # job.id
  BY <1>1 DEF Exclusive, RunningIsHeld
<1>5. OneRunPerJob'
  BY <1>2, <1>3, <1>4 DEF Exclusive, OneRunPerJob
<1>6. RunningIsHeld'
  BY <1>1, <1>2, <1>3 DEF Exclusive, RunningIsHeld
<1>. QED  BY <1>5, <1>6 DEF Exclusive

\* release: a's job is nobody's any more.
LEMMA ExclusiveRelease ==
  ASSUME ActorsOK, Exclusive, NEW a \in Actors, Release(a)
  PROVE  Exclusive'
<1>1. /\ Busy(a)
      /\ running' = running \ {JobOf(a).id}
      /\ actor' = [actor EXCEPT ![a] = Idle]
  BY DEF Release, Busy
<1>2. ~Busy(a)'
  BY <1>1, IdleIsNotBusy DEF ActorsOK, Busy
<1>3. \A x \in Actors \ {a} : Busy(x)' = Busy(x) /\ JobOf(x)' = JobOf(x)
  BY <1>1 DEF ActorsOK, Busy, JobOf
<1>4. \A x \in Actors \ {a} : Busy(x) => JobOf(x).id # JobOf(a).id
  BY <1>1 DEF Exclusive, OneRunPerJob
<1>5. OneRunPerJob'
  BY <1>2, <1>3 DEF Exclusive, OneRunPerJob
<1>6. RunningIsHeld'
  BY <1>1, <1>2, <1>3, <1>4 DEF Exclusive, RunningIsHeld
<1>. QED  BY <1>5, <1>6 DEF Exclusive

\* Storing an outcome: a goes on holding its job.
LEMMA ExclusiveStore ==
  ASSUME ActorsOK, Exclusive, NEW a \in Actors, NEW version,
         actor[a].pc = "sync", Store(a, version)
  PROVE  Exclusive'
<1>1. actor'[a].pc = "stored" /\ JobOf(a)' = JobOf(a)
  BY MoveActor DEF Store, Pcs
<1>2. \A x \in Actors \ {a} : actor'[x] = actor[x]
  BY DEF Store, ActorsOK
<1>3. \A x \in Actors : Busy(x)' = Busy(x) /\ JobOf(x)' = JobOf(x)
  BY <1>1, <1>2 DEF Busy, JobOf
<1>4. running' = running
  BY DEF Store
<1>. QED  BY <1>3, <1>4, ExclusiveSame

\* Nor does it let go when the outcome is refused.
LEMMA ExclusiveStoreFails ==
  ASSUME ActorsOK, Exclusive, NEW a \in Actors, StoreFails(a)
  PROVE  Exclusive'
<1>1. actor'[a].pc = "stored" /\ JobOf(a)' = JobOf(a)
  BY MoveActor DEF StoreFails, Pcs
<1>2. \A x \in Actors \ {a} : actor'[x] = actor[x]
  BY DEF StoreFails, ActorsOK
<1>3. \A x \in Actors : Busy(x)' = Busy(x) /\ JobOf(x)' = JobOf(x)
  BY <1>1, <1>2 DEF Busy, JobOf, StoreFails
<1>4. running' = running
  BY DEF StoreFails
<1>. QED  BY <1>3, <1>4, ExclusiveSame

\* Whoever is not at work may load a job or be refused one.
LEMMA ExclusiveOther ==
  ASSUME ActorsOK, Exclusive, NEW a \in Actors, ~Busy(a), NEW v,
         v.pc \notin {"sync", "stored"},
         actor' = [actor EXCEPT ![a] = v], running' = running
  PROVE  Exclusive'
<1>1. ~Busy(a)'
  BY DEF ActorsOK, Busy
<1>2. \A x \in Actors \ {a} : Busy(x)' = Busy(x) /\ JobOf(x)' = JobOf(x)
  BY DEF ActorsOK, Busy, JobOf
<1>3. /\ \A x \in Actors : Busy(x)' = Busy(x)
      /\ \A x \in Actors : Busy(x) => JobOf(x)' = JobOf(x)
  BY <1>1, <1>2 DEF Busy
<1>. QED  BY <1>3, ExclusiveSame

LEMMA ExclusiveStep == TypeOK /\ Exclusive /\ [Next]_vars => Exclusive'
<1>. SUFFICES ASSUME TypeOK, Exclusive, [Next]_vars  PROVE Exclusive'
  OBVIOUS
<1>0. ActorsOK /\ "scheduler" \in Actors /\ Requests \subseteq Actors
  BY DEF TypeOK, Actors
<1>1. ASSUME actor' = actor, running' = running  PROVE Exclusive'
  <2>1. \A x \in Actors : Busy(x)' = Busy(x) /\ JobOf(x)' = JobOf(x)
    BY <1>1 DEF Busy, JobOf
  <2>. QED  BY <1>1, <2>1, ExclusiveSame
<1>2. CASE Users
  BY <1>1, <1>2 DEF Users, Create, Update, Reset, Delete, Edit
<1>3. ASSUME NEW j \in Jobs, BecomesDue(j)  PROVE Exclusive'
  BY <1>1, <1>3 DEF BecomesDue
<1>4. CASE Scheduler
  <2>1. CASE Tick \/ PassOver
    BY <1>1, <2>1 DEF Tick, PassOver
  <2>2. CASE RunDue
    <3>1. Head(queue) \in Snapshots
      BY <2>2 DEF RunDue, TypeOK
    <3>2. ~Busy("scheduler")
      BY <2>2, IdleIsNotBusy DEF RunDue, Busy
    <3>. QED  BY <1>0, <2>2, <3>1, <3>2, ExclusiveAcquire DEF RunDue
  <2>. QED  BY <1>4, <2>1, <2>2 DEF Scheduler
<1>5. ASSUME NEW a \in Actors, Run(a)  PROVE Exclusive'
  BY <1>0, <1>5, ExclusiveStore, ExclusiveStoreFails, ExclusiveRelease
     DEF Run, FinishChanged, FinishUnchanged, FinishEmptied
<1>6. ASSUME NEW r \in Requests, Manual(r)  PROVE Exclusive'
  <2>1. ~Busy(r) /\ JobOf(r) \in Snapshots /\ r \in Actors
    BY <1>0, <1>6, JobOfActor DEF Manual, RunOne, Refuse, Busy
  <2>2. CASE RunOne(r)
    BY <1>0, <2>1, <2>2, ExclusiveAcquire DEF RunOne
  <2>3. CASE Refuse(r)
    BY <1>0, <2>1, <2>3, IdleIsNotBusy, ExclusiveOther DEF Refuse
  <2>. QED  BY <1>6, <2>2, <2>3 DEF Manual
<1>7. ASSUME NEW r \in Requests, NEW j \in Jobs, Load(r, j)  PROVE Exclusive'
  <2>1. ~Busy(r) /\ r \in Actors
    BY <1>0, <1>7, IdleIsNotBusy DEF Load, Busy
  <2>2. At("loaded", Snapshot(j)).pc = "loaded"
    BY DEF At
  <2>. QED  BY <1>0, <1>7, <2>1, <2>2, ExclusiveOther DEF Load
<1>8. CASE Process
  <2>1. CASE Signal \/ Drained \/ Restart
    BY <1>1, <2>1 DEF Signal, Drained, Restart
  <2>2. CASE Die
    <3>1. \A x \in Actors : ~Busy(x)'
      BY <2>2, IdleIsNotBusy DEF Die, Busy
    <3>. QED  BY <2>2, <3>1 DEF Die, Exclusive, OneRunPerJob, RunningIsHeld
  <2>. QED  BY <1>8, <2>1, <2>2 DEF Process, Exit, Crash
<1>9. CASE UNCHANGED vars
  BY <1>1, <1>9 DEF vars
<1>. QED  BY <1>2, <1>3, <1>4, <1>5, <1>6, <1>7, <1>8, <1>9 DEF Next

LEMMA AlwaysExclusive == Spec => []Exclusive
<1>1. Init => Exclusive
  <2>. SUFFICES ASSUME Init  PROVE Exclusive
    OBVIOUS
  <2>1. \A x \in Actors : ~Busy(x)
    BY IdleIsNotBusy DEF Init, Busy
  <2>. QED  BY <2>1 DEF Init, Exclusive, OneRunPerJob, RunningIsHeld
<1>. QED  BY <1>1, TypeCorrect, ExclusiveStep, PTL DEF Spec

\* No job is run by two actors at once: not by the scheduler and a request,
\* not by two requests (runner.go:38-41).
THEOREM NeverTwice == Spec => []OneRunPerJob
<1>1. Exclusive => OneRunPerJob
  BY DEF Exclusive
<1>. QED  BY <1>1, AlwaysExclusive, PTL

\* Runner.running names exactly the jobs somebody is running: a release is
\* neither forgotten, which would refuse the job for good, nor early.
THEOREM RunningIsExact == Spec => []RunningIsHeld
<1>1. Exclusive => RunningIsHeld
  BY DEF Exclusive
<1>. QED  BY <1>1, AlwaysExclusive, PTL

-----------------------------------------------------------------------------
(* What a run leaves alone.                                                *)

\* Storing the outcome of a run touches neither the configuration of its job,
\* nor the set of the jobs that exist.
LEMMA StoreKeepsConfig ==
  ASSUME RowsOK, NEW a \in Actors, NEW version, Store(a, version)
  PROVE  /\ DOMAIN db' = DOMAIN db
         /\ \A j \in DOMAIN db : db'[j].enabled = db[j].enabled /\ db'[j].dir = db[j].dir
<1>1. CASE JobOf(a).id \in DOMAIN db
  <2>1. db[JobOf(a).id] \in Rows
    BY <1>1 DEF RowsOK
  <2>. QED  BY <1>1, <2>1 DEF Store, RowsOK, Rows
<1>2. CASE JobOf(a).id \notin DOMAIN db
  BY <1>2 DEF Store
<1>. QED  BY <1>1, <1>2

\* A change made while a run is in flight survives the run's outcome: only
\* users change the configuration (store/syncjobs.go:67-97).
THEOREM RunsKeepConfig == Spec => ConfigIsTheUsers
<1>. DEFINE Kept == \A j \in DOMAIN db \cap DOMAIN db' :
                      (db[j].enabled # db'[j].enabled \/ db[j].dir # db'[j].dir)
                        => edits' = edits + 1
<1>1. TypeOK /\ [Next]_vars => [Kept]_vars
  <2>. SUFFICES ASSUME TypeOK, Next  PROVE Kept
    BY DEF vars
  <2>1. CASE Users
    BY <2>1 DEF Users, Create, Update, Reset, Delete, Edit
  <2>2. ASSUME NEW j \in Jobs, BecomesDue(j)  PROVE Kept
    <3>1. j \in DOMAIN db /\ db[j] \in Rows
      BY <2>2 DEF BecomesDue, TypeOK, RowsOK
    <3>. QED  BY <2>2, <3>1 DEF BecomesDue, TypeOK, RowsOK, Rows
  <2>3. ASSUME NEW a \in Actors, Run(a)  PROVE Kept
    <3>1. CASE Release(a) \/ StoreFails(a)
      BY <3>1 DEF Release, StoreFails
    <3>2. CASE FinishChanged(a) \/ FinishUnchanged(a) \/ FinishEmptied(a)
      BY <3>2, StoreKeepsConfig DEF FinishChanged, FinishUnchanged, FinishEmptied, TypeOK
    <3>. QED  BY <2>3, <3>1, <3>2 DEF Run
  <2>4. ASSUME \/ Scheduler \/ Process
               \/ \E r \in Requests : Manual(r) \/ \E j \in Jobs : Load(r, j)
        PROVE  Kept
    <3>1. db' = db
      BY <2>4 DEF Scheduler, Tick, RunDue, PassOver, Process, Signal, Drained, Exit, Crash, Die,
                  Restart, Manual, RunOne, Refuse, Load
    <3>. QED  BY <3>1
  <2>. QED  BY <2>1, <2>2, <2>3, <2>4 DEF Next
<1>. QED  BY <1>1, TypeCorrect, PTL DEF Spec, ConfigIsTheUsers

\* A job deleted while it runs is not brought back by the run's outcome, nor
\* is its id ever given to another.
THEOREM RunsReviveNothing == Spec => DeletedStaysDeleted
<1>. DEFINE Gone == \A j \in used \ DOMAIN db : j \notin DOMAIN db'
<1>1. TypeOK /\ [Next]_vars => [Gone]_vars
  <2>. SUFFICES ASSUME TypeOK, Next  PROVE Gone
    BY DEF vars
  <2>1. ASSUME DOMAIN db' \subseteq DOMAIN db  PROVE Gone
    BY <2>1
  <2>2. ASSUME NEW j \in Jobs, NEW e \in BOOLEAN, NEW d \in Directions, Create(j, e, d)
        PROVE  Gone
    BY <2>2 DEF Create, Row
  <2>3. ASSUME NEW j \in Jobs,
               \/ \E e \in BOOLEAN, d \in Directions : Update(j, e, d)
               \/ Reset(j) \/ Delete(j) \/ BecomesDue(j)
        PROVE  Gone
    BY <2>1, <2>3 DEF Update, Reset, Delete, BecomesDue
  <2>4. ASSUME NEW a \in Actors, Run(a)  PROVE Gone
    BY <2>1, <2>4, StoreKeepsConfig
       DEF Run, FinishChanged, FinishUnchanged, FinishEmptied, StoreFails, Release, TypeOK
  <2>5. ASSUME \/ Scheduler \/ Process
               \/ \E r \in Requests : Manual(r) \/ \E j \in Jobs : Load(r, j)
        PROVE  Gone
    <3>1. db' = db
      BY <2>5 DEF Scheduler, Tick, RunDue, PassOver, Process, Signal, Drained, Exit, Crash, Die,
                  Restart, Manual, RunOne, Refuse, Load
    <3>. QED  BY <3>1
  <2>. QED  BY <2>2, <2>3, <2>4, <2>5 DEF Next, Users
<1>. QED  BY <1>1, TypeCorrect, PTL DEF Spec, DeletedStaysDeleted

-----------------------------------------------------------------------------
(* Shutdown.                                                               *)

\* Once the drain is over no request is at work that is not overdue, nobody is
\* when the process has ended, and what it cut off is forgotten at the restart.
Drain ==
  /\ process \in {"stopping", "down"} => \A r \in Requests \ overdue : actor[r] = Idle
  /\ process = "down" => queue = <<>> /\ \A a \in Actors : actor[a] = Idle
  /\ process # "down" => unrecorded = {}

\* No shutdown ends a run that worked on the servers without its state stored,
\* except a manual run that was still being served after the 15 s of the drain:
\* never a scheduled one, wherever it is in its listing, and whatever crashes,
\* restarts and refused outcomes came before (runner.go:89-92, main.go:121-127).
THEOREM ShutdownRecordsEveryRun == Spec => []OnlyOverdueUnrecorded
<1>1. Init => Drain /\ OnlyOverdueUnrecorded
  BY DEF Init, Drain, OnlyOverdueUnrecorded
<1>2. TypeOK /\ Drain /\ OnlyOverdueUnrecorded /\ [Next]_vars
        => (Drain /\ OnlyOverdueUnrecorded)'
  <2>. SUFFICES ASSUME TypeOK, Drain, OnlyOverdueUnrecorded, [Next]_vars
                PROVE  (Drain /\ OnlyOverdueUnrecorded)'
    OBVIOUS
  <2>0. "scheduler" \in Actors /\ Requests \subseteq Actors /\ "scheduler" \notin Requests
    BY RunnerAssumption DEF Actors
  <2>1. ASSUME actor' = actor, process' = process, UNCHANGED <<overdue, unrecorded>>,
               queue' = queue \/ process # "down"
        PROVE  (Drain /\ OnlyOverdueUnrecorded)'
    BY <2>1 DEF Drain, OnlyOverdueUnrecorded
  <2>2. CASE Users \/ Tick \/ PassOver \/ UNCHANGED vars \/ \E j \in Jobs : BecomesDue(j)
    <3>1. CASE Users \/ UNCHANGED vars \/ \E j \in Jobs : BecomesDue(j)
      BY <2>1, <3>1 DEF Users, Create, Update, Reset, Delete, Edit, BecomesDue, vars, aside
    <3>2. CASE Tick
      BY <2>1, <3>2 DEF Tick, aside
    <3>3. CASE PassOver
      BY <2>1, <3>3 DEF PassOver, Drain, aside
    <3>. QED  BY <2>2, <3>1, <3>2, <3>3
  <2>3. CASE RunDue
    <3>1. process # "down" /\ process' = process /\ UNCHANGED <<overdue, unrecorded>>
      BY <2>3 DEF RunDue, Drain, aside
    <3>2. \A r \in Requests : actor'[r] = actor[r]
      BY <2>0, <2>3 DEF RunDue, Acquire, TypeOK, ActorsOK
    <3>. QED  BY <3>1, <3>2 DEF Drain, OnlyOverdueUnrecorded
  <2>4. ASSUME NEW a \in Actors, Run(a)  PROVE (Drain /\ OnlyOverdueUnrecorded)'
    <3>1. actor[a] # Idle
      BY <2>4, IdleIsNotBusy
         DEF Run, FinishChanged, FinishUnchanged, FinishEmptied, StoreFails, Release
    <3>2. /\ process' = process /\ UNCHANGED <<overdue, unrecorded>>
          /\ \A x \in Actors \ {a} : actor'[x] = actor[x]
      BY <2>4 DEF Run, FinishChanged, FinishUnchanged, FinishEmptied, StoreFails, Store, Release,
                  TypeOK, ActorsOK, aside
    <3>3. process # "down"
      BY <3>1 DEF Drain
    <3>4. process = "stopping" => a \notin Requests \ overdue
      BY <3>1 DEF Drain
    <3>. QED  BY <2>0, <3>2, <3>3, <3>4 DEF Drain, OnlyOverdueUnrecorded
  <2>5. ASSUME NEW r \in Requests, Manual(r) \/ \E j \in Jobs : Load(r, j)
        PROVE  (Drain /\ OnlyOverdueUnrecorded)'
    <3>1. process # "down" /\ (process = "stopping" => r \in overdue)
      BY <2>0, <2>5, IdleIsNotBusy DEF Manual, RunOne, Refuse, Load, Drain
    <3>2. process' = process /\ UNCHANGED <<overdue, unrecorded>>
      BY <2>5 DEF Manual, RunOne, Refuse, Load, aside
    <3>3. \A x \in Actors \ {r} : actor'[x] = actor[x]
      BY <2>0, <2>5 DEF Manual, RunOne, Refuse, Load, Acquire, TypeOK, ActorsOK
    <3>. QED  BY <2>0, <3>1, <3>2, <3>3 DEF Drain, OnlyOverdueUnrecorded
  <2>6. CASE Process
    <3>1. CASE Signal \/ Restart
      BY <3>1 DEF Signal, Restart, Drain, OnlyOverdueUnrecorded, aside
    <3>2. CASE Drained
      BY <3>2 DEF Drained, Drain, OnlyOverdueUnrecorded
    <3>3. CASE Exit
      <4>1. \A x \in Actors : actor[x].pc = "sync" => x \in overdue
        BY <3>3, IdleIsNotBusy DEF Exit, Drain, Actors
      <4>. QED  BY <2>0, <3>3, <4>1 DEF Exit, CutOff, Die, Drain, OnlyOverdueUnrecorded
    <3>4. CASE Crash
      BY <2>0, <3>4 DEF Crash, Die, Drain, OnlyOverdueUnrecorded
    <3>. QED  BY <2>6, <3>1, <3>2, <3>3, <3>4 DEF Process
  <2>. QED  BY <2>2, <2>3, <2>4, <2>5, <2>6 DEF Next, Scheduler
<1>. QED  BY <1>1, <1>2, TypeCorrect, PTL DEF Spec

-----------------------------------------------------------------------------
(***************************************************************************)
(* SyncRunner implements JobRuns, for every set of jobs, requests and      *)
(* directions: initial states map to initial states, and every step to a   *)
(* step of the promise or to none.                                         *)
(***************************************************************************)

-----------------------------------------------------------------------------
(* Every state a run could store was computed by a run: the rows, the      *)
(* actors' snapshots and the scheduler's listing hold no other.            *)

StatesComputed ==
  /\ \A j \in DOMAIN db : db[j].state <= Len(runs)
  /\ \A a \in Actors : actor[a].pc # "idle" => JobOf(a).row.state <= Len(runs)
  /\ \A n \in DOMAIN queue : queue[n].row.state <= Len(runs)

\* What replacing fields of a row does to what the promise sees of it.
LEMMA StateField ==
  ASSUME NEW r \in Rows, NEW n \in Nat
  PROVE  /\ Config([r EXCEPT !.state = n]) = [Config(r) EXCEPT !.state = n]
         /\ Config([r EXCEPT !.state = n, !.due = FALSE]) = [Config(r) EXCEPT !.state = n]
<1>. DEFINE s == [r EXCEPT !.state = n]
            t == [r EXCEPT !.state = n, !.due = FALSE]
<1>1. s.enabled = r.enabled /\ s.dir = r.dir /\ s.state = n
  BY DEF Rows
<1>2. t.enabled = r.enabled /\ t.dir = r.dir /\ t.state = n
  BY DEF Rows
<1>. HIDE DEF s, t
<1>3. Config(s) = [Config(r) EXCEPT !.state = n] /\ Config(t) = [Config(r) EXCEPT !.state = n]
  BY <1>1, <1>2 DEF Config
<1>. QED  BY <1>3 DEF s, t

\* Update, Reset and Store each put one row in the place of another.
LEMMA UpdateRow ==
  ASSUME RowsOK, NEW j \in Jobs, NEW e \in BOOLEAN, NEW d \in Directions, Update(j, e, d)
  PROVE  /\ j \in DOMAIN db
         /\ \E r \in Rows : /\ db' = [db EXCEPT ![j] = r]
                           /\ r.state = db[j].state
                           /\ Config(r) = [enabled |-> e, dir |-> d, state |-> db[j].state]
<1>. DEFINE r == [db[j] EXCEPT !.enabled = e, !.dir = d]
<1>1. j \in DOMAIN db /\ db[j] \in Rows
  BY DEF Update, RowsOK
<1>2. r \in Rows /\ r.enabled = e /\ r.dir = d /\ r.state = db[j].state
  BY <1>1 DEF Rows
<1>3. db' = [db EXCEPT ![j] = r]
  BY DEF Update
<1>. HIDE DEF r
<1>4. Config(r) = [enabled |-> e, dir |-> d, state |-> db[j].state]
  BY <1>2 DEF Config
<1>. QED  BY <1>1, <1>2, <1>3, <1>4

LEMMA ResetRow ==
  ASSUME RowsOK, NEW j \in Jobs, Reset(j)
  PROVE  /\ j \in DOMAIN db
         /\ \E r \in Rows : /\ db' = [db EXCEPT ![j] = r]
                           /\ r.state = 0
                           /\ Config(r) = [Config(db[j]) EXCEPT !.state = 0]
<1>. DEFINE r == [db[j] EXCEPT !.state = 0]
<1>1. j \in DOMAIN db /\ db[j] \in Rows
  BY DEF Reset, RowsOK
<1>2. r \in Rows /\ r.state = 0 /\ Config(r) = [Config(db[j]) EXCEPT !.state = 0]
  <2>1. r \in Rows /\ Config(r) = [Config(db[j]) EXCEPT !.state = 0]
    BY <1>1, RowFields, StateField
  <2>2. r.state = 0
    BY <1>1 DEF Rows
  <2>. QED  BY <2>1, <2>2
<1>3. db' = [db EXCEPT ![j] = r]
  BY DEF Reset
<1>. HIDE DEF r
<1>. QED  BY <1>1, <1>2, <1>3

LEMMA StoreRowOf ==
  ASSUME RowsOK, NEW a \in Actors, NEW version \in Nat, Store(a, version),
         JobOf(a).id \in DOMAIN db
  PROVE  \E r \in Rows : /\ db' = [db EXCEPT ![JobOf(a).id] = r]
                        /\ Config(r) = [Config(db[JobOf(a).id]) EXCEPT !.state = version]
<1>. DEFINE r == [db[JobOf(a).id] EXCEPT !.state = version, !.due = FALSE]
<1>1. db[JobOf(a).id] \in Rows
  BY DEF RowsOK
<1>2. r \in Rows /\ Config(r) = [Config(db[JobOf(a).id]) EXCEPT !.state = version]
  BY <1>1, RowFields, StateField
<1>3. db' = [db EXCEPT ![JobOf(a).id] = r]
  BY DEF Store
<1>. HIDE DEF r
<1>. QED  BY <1>2, <1>3

\* One actor puts down its job or takes one up with a state that is known.
LEMMA ComputedActor ==
  ASSUME ActorsOK, StatesComputed, NEW a \in Actors, NEW v,
         v = Idle \/ v.job[1].row.state <= Len(runs),
         actor' = [actor EXCEPT ![a] = v],
         db' = db, runs' = runs,
         queue' = queue \/ queue' = <<>>
  PROVE  StatesComputed'
<1>1. ASSUME NEW x \in Actors, actor'[x].pc # "idle"
      PROVE  JobOf(x)'.row.state <= Len(runs)
  <2>1. CASE x = a
    BY <1>1, <2>1, IdleIsNotBusy DEF ActorsOK, JobOf
  <2>2. CASE x # a
    BY <1>1, <2>2 DEF ActorsOK, JobOf, StatesComputed
  <2>. QED  BY <2>1, <2>2
<1>2. \A n \in DOMAIN queue' : queue'[n].row.state <= Len(runs)
  BY DEF StatesComputed
<1>. QED  BY <1>1, <1>2 DEF StatesComputed

\* The listing moves on by one job.
LEMMA ComputedTail ==
  ASSUME queue \in Seq(Snapshots), queue # <<>>, StatesComputed
  PROVE  /\ Head(queue).row.state <= Len(runs)
         /\ \A n \in DOMAIN Tail(queue) : Tail(queue)[n].row.state <= Len(runs)
<1>1. 1 \in DOMAIN queue /\ Head(queue) = queue[1]
  OBVIOUS
<1>2. \A n \in DOMAIN Tail(queue) : n + 1 \in DOMAIN queue /\ Tail(queue)[n] = queue[n + 1]
  OBVIOUS
<1>. QED  BY <1>1, <1>2 DEF StatesComputed

\* A run stores its outcome.
LEMMA ComputedStore ==
  ASSUME TypeOK, StatesComputed, NEW a \in Actors, NEW version \in Nat,
         actor[a].pc = "sync", Store(a, version),
         runs' \in Seq(Directions), Len(runs) <= Len(runs'), version <= Len(runs')
  PROVE  StatesComputed'
<1>1. /\ ActorsOK /\ RowsOK
      /\ JobOf(a)' = JobOf(a)
      /\ \A x \in Actors \ {a} : actor'[x] = actor[x]
  BY MoveActor DEF Store, TypeOK, ActorsOK, Pcs
<1>2. \A x \in Actors : actor[x].pc # "idle" => JobOf(x).row.state \in Nat
  BY <1>1, JobOfActor
<1>3. Len(runs) \in Nat /\ Len(runs') \in Nat
  BY DEF TypeOK
<1>4. \A x \in Actors : actor'[x].pc # "idle" => JobOf(x)'.row.state <= Len(runs')
  <2>. SUFFICES ASSUME NEW x \in Actors, actor'[x].pc # "idle"
                PROVE  JobOf(x)'.row.state <= Len(runs')
    OBVIOUS
  <2>1. actor[x].pc # "idle" /\ JobOf(x)' = JobOf(x)
    BY <1>1 DEF JobOf
  <2>. QED  BY <1>2, <1>3, <2>1 DEF StatesComputed
<1>5. \A n \in DOMAIN queue' : queue'[n].row.state <= Len(runs')
  <2>. SUFFICES ASSUME NEW n \in DOMAIN queue  PROVE queue[n].row.state <= Len(runs')
    BY DEF Store
  <2>1. queue[n].row.state \in Nat
    <3>1. queue[n] \in Snapshots
      BY DEF TypeOK
    <3>. QED  BY <3>1 DEF Snapshots, Rows
  <2>. QED  BY <1>3, <2>1 DEF StatesComputed
<1>6. \A j \in DOMAIN db' : db'[j].state <= Len(runs')
  <2>. SUFFICES ASSUME NEW j \in DOMAIN db'  PROVE db'[j].state <= Len(runs')
    OBVIOUS
  <2>1. j \in DOMAIN db /\ db[j] \in Rows /\ db[j].state \in Nat
    BY <1>1, StoreKeepsConfig DEF RowsOK, Rows
  <2>2. db'[j].state = version \/ db'[j].state = db[j].state
    BY <2>1 DEF Store, Rows
  <2>. QED  BY <1>3, <2>1, <2>2 DEF StatesComputed
<1>. QED  BY <1>4, <1>5, <1>6 DEF StatesComputed

LEMMA ComputedStep == TypeOK /\ StatesComputed /\ [Next]_vars => StatesComputed'
<1>. SUFFICES ASSUME TypeOK, StatesComputed, [Next]_vars  PROVE StatesComputed'
  OBVIOUS
<1>0. /\ ActorsOK /\ RowsOK /\ queue \in Seq(Snapshots) /\ Len(runs) \in Nat
      /\ "scheduler" \in Actors /\ Requests \subseteq Actors
  BY DEF TypeOK, Actors
<1>1. ASSUME \A j \in DOMAIN db' : db'[j].state <= Len(runs),
             actor' = actor, queue' = queue, runs' = runs
      PROVE  StatesComputed'
  BY <1>1 DEF StatesComputed, JobOf
<1>2. ASSUME NEW j \in Jobs,
             \/ \E e \in BOOLEAN, d \in Directions : Create(j, e, d) \/ Update(j, e, d)
             \/ Reset(j) \/ Delete(j) \/ BecomesDue(j)
      PROVE  StatesComputed'
  <2>1. \A i \in DOMAIN db : db[i] \in Rows /\ db[i].state <= Len(runs)
    BY <1>0 DEF RowsOK, StatesComputed
  <2>2. ASSUME NEW e \in BOOLEAN, NEW d \in Directions, Create(j, e, d)
        PROVE  \A i \in DOMAIN db' : db'[i].state <= Len(runs)
    BY <1>0, <2>1, <2>2 DEF Create, Row, NewRow
  <2>3. ASSUME \/ \E e \in BOOLEAN, d \in Directions : Update(j, e, d)
               \/ Reset(j) \/ Delete(j) \/ BecomesDue(j)
        PROVE  \A i \in DOMAIN db' : db'[i].state <= Len(runs)
    <3>. SUFFICES ASSUME NEW i \in DOMAIN db'  PROVE db'[i].state <= Len(runs)
      OBVIOUS
    <3>1. i \in DOMAIN db /\ (db'[i].state = db[i].state \/ db'[i].state = 0)
      <4>1. ASSUME NEW e \in BOOLEAN, NEW d \in Directions, Update(j, e, d)
            PROVE  i \in DOMAIN db /\ db'[i].state = db[i].state
        <5>1. PICK r \in Rows : db' = [db EXCEPT ![j] = r] /\ r.state = db[j].state
          BY <1>0, <4>1, UpdateRow
        <5>. QED  BY <5>1
      <4>2. CASE Reset(j)
        <5>1. PICK r \in Rows : db' = [db EXCEPT ![j] = r] /\ r.state = 0
          BY <1>0, <4>2, ResetRow
        <5>. QED  BY <5>1
      <4>3. CASE Delete(j)
        BY <4>3 DEF Delete
      <4>4. CASE BecomesDue(j)
        BY <2>1, <4>4 DEF BecomesDue, Rows
      <4>. QED  BY <2>3, <4>1, <4>2, <4>3, <4>4
    <3>. QED  BY <1>0, <2>1, <3>1
  <2>4. actor' = actor /\ queue' = queue /\ runs' = runs
    BY <1>2 DEF Create, Update, Reset, Delete, BecomesDue, Edit
  <2>. QED  BY <1>1, <1>2, <2>2, <2>3, <2>4
<1>3. CASE Tick
  <2>1. PICK order \in SetToSeqs({j \in DOMAIN db : db[j].enabled}) :
          queue' = [n \in DOMAIN order |-> Snapshot(order[n])]
    BY <1>3 DEF Tick
  <2>2. \A n \in DOMAIN order : order[n] \in DOMAIN db
    BY DEF SetToSeqs
  <2>3. \A n \in DOMAIN queue' : queue'[n].row.state <= Len(runs)
    BY <2>1, <2>2 DEF Snapshot, StatesComputed
  <2>. QED  BY <1>3, <2>3 DEF Tick, StatesComputed, JobOf
<1>4. CASE RunDue
  <2>. DEFINE v == At("sync", Head(queue))
  <2>1. v.job[1] = Head(queue) /\ Head(queue).row.state <= Len(runs)
    BY <1>0, <1>4, ComputedTail DEF RunDue, At
  <2>2. actor' = [actor EXCEPT !["scheduler"] = v]
    BY <1>4 DEF RunDue, Acquire
  <2>. HIDE DEF v
  <2>3. \A x \in Actors : actor'[x].pc # "idle" => JobOf(x)'.row.state <= Len(runs)
    BY <1>0, <2>1, <2>2 DEF ActorsOK, JobOf, StatesComputed
  <2>4. \A n \in DOMAIN queue' : queue'[n].row.state <= Len(runs)
    BY <1>0, <1>4, ComputedTail DEF RunDue
  <2>. QED  BY <1>4, <2>3, <2>4 DEF RunDue, StatesComputed
<1>5. CASE PassOver
  BY <1>0, <1>5, ComputedTail DEF PassOver, StatesComputed, JobOf
<1>6. ASSUME NEW a \in Actors, FinishChanged(a)  PROVE StatesComputed'
  <2>1. JobOf(a).row.dir \in Directions
    BY <1>0, <1>6, JobOfActor DEF FinishChanged, Rows
  <2>2. runs' \in Seq(Directions) /\ Len(runs') = Len(runs) + 1
    BY <1>6, <2>1 DEF FinishChanged, TypeOK
  <2>. QED  BY <1>0, <1>6, <2>2, ComputedStore DEF FinishChanged
<1>7. ASSUME NEW a \in Actors, FinishUnchanged(a)  PROVE StatesComputed'
  <2>1. JobOf(a).row.state \in Nat /\ JobOf(a).row.state <= Len(runs)
    BY <1>0, <1>7, JobOfActor DEF FinishUnchanged, StatesComputed
  <2>2. runs' \in Seq(Directions)
    BY <1>7 DEF FinishUnchanged, TypeOK
  <2>3. Len(runs) <= Len(runs')
    BY <1>0, <1>7 DEF FinishUnchanged
  <2>. QED  BY <1>0, <1>7, <2>1, <2>2, <2>3, ComputedStore DEF FinishUnchanged
<1>8. ASSUME NEW a \in Actors, Release(a) \/ StoreFails(a) \/ FinishEmptied(a)
      PROVE  StatesComputed'
  <2>1. CASE Release(a)
    BY <1>0, <2>1, ComputedActor DEF Release
  <2>2. CASE StoreFails(a)
    <3>1. JobOf(a)' = JobOf(a) /\ \A x \in Actors \ {a} : actor'[x] = actor[x]
      BY <1>0, <2>2, MoveActor DEF StoreFails, ActorsOK, Pcs
    <3>2. \A x \in Actors : actor'[x].pc # "idle" => actor[x].pc # "idle" /\ JobOf(x)' = JobOf(x)
      BY <2>2, <3>1 DEF StoreFails, JobOf
    <3>. QED  BY <2>2, <3>2 DEF StoreFails, StatesComputed
  <2>3. CASE FinishEmptied(a)
    <3>1. runs' \in Seq(Directions) /\ Len(runs) <= Len(runs') /\ 0 <= Len(runs')
      BY <1>0, <2>3 DEF FinishEmptied, TypeOK
    <3>. QED  BY <1>0, <2>3, <3>1, ComputedStore DEF FinishEmptied
  <2>. QED  BY <1>8, <2>1, <2>2, <2>3
<1>9. ASSUME NEW r \in Requests, Manual(r)  PROVE StatesComputed'
  <2>1. r \in Actors /\ actor[r].pc # "idle" /\ JobOf(r).row.state <= Len(runs)
    BY <1>0, <1>9 DEF Manual, RunOne, Refuse, StatesComputed
  <2>2. CASE RunOne(r)
    <3>. DEFINE v == At("sync", JobOf(r))
    <3>1. v.job[1].row.state <= Len(runs) /\ actor' = [actor EXCEPT ![r] = v]
      BY <2>1, <2>2 DEF RunOne, Acquire, At
    <3>. HIDE DEF v
    <3>. QED  BY <1>0, <2>1, <2>2, <3>1, ComputedActor DEF RunOne
  <2>3. CASE Refuse(r)
    BY <1>0, <2>1, <2>3, ComputedActor DEF Refuse
  <2>. QED  BY <1>9, <2>2, <2>3 DEF Manual
<1>10. ASSUME NEW r \in Requests, NEW j \in Jobs, Load(r, j)  PROVE StatesComputed'
  <2>. DEFINE v == At("loaded", Snapshot(j))
  <2>1. v.job[1].row.state <= Len(runs) /\ actor' = [actor EXCEPT ![r] = v]
    BY <1>10 DEF Load, At, Snapshot, StatesComputed
  <2>. HIDE DEF v
  <2>. QED  BY <1>0, <1>10, <2>1, ComputedActor DEF Load
<1>11. CASE Process
  <2>1. CASE Signal \/ Drained \/ Restart
    BY <2>1 DEF Signal, Drained, Restart, StatesComputed, JobOf
  <2>2. CASE Die
    <3>1. \A a \in Actors : actor'[a].pc = "idle"
      BY <2>2, IdleIsNotBusy DEF Die
    <3>2. DOMAIN queue' = {}
      BY <2>2 DEF Die
    <3>. QED  BY <2>2, <3>1, <3>2 DEF Die, StatesComputed
  <2>. QED  BY <1>11, <2>1, <2>2 DEF Process, Exit, Crash
<1>12. CASE UNCHANGED vars
  BY <1>12 DEF vars, StatesComputed, JobOf
<1>. QED  BY <1>2, <1>3, <1>4, <1>5, <1>6, <1>7, <1>8, <1>9, <1>10, <1>11, <1>12
          DEF Next, Scheduler, Run, Users

-----------------------------------------------------------------------------
(* The phases: who holds a job decides where it stands.                    *)

LEMMA PhaseSame ==
  ASSUME running' = running, HeldAt("sync")' = HeldAt("sync")
  PROVE  PromisedPhase' = PromisedPhase
BY DEF PromisedPhase, JobPhase

\* Somebody who does not work on the servers goes on not working on them.
LEMMA SyncUntouched ==
  ASSUME ActorsOK, NEW a \in Actors, NEW v,
         actor[a].pc # "sync", v.pc # "sync", actor' = [actor EXCEPT ![a] = v]
  PROVE  HeldAt("sync")' = HeldAt("sync")
<1>1. actor'[a].pc # "sync" /\ \A x \in Actors \ {a} : actor'[x] = actor[x]
  BY DEF ActorsOK
<1>2. \A x \in Actors : actor'[x].pc = "sync" <=> actor[x].pc = "sync"
  BY <1>1
<1>3. \A x \in Actors : actor[x].pc = "sync" => JobOf(x)' = JobOf(x)
  BY <1>1 DEF JobOf
<1>. QED  BY <1>2, <1>3 DEF HeldAt

LEMMA AcquireBegins ==
  ASSUME TypeOK, Exclusive, NEW a \in Actors, ~Busy(a), NEW job \in Snapshots,
         Acquire(a, job), UNCHANGED <<db, used, runs>>
  PROVE  Promise!Begin(job.id)
<1>. DEFINE v == At("sync", job)
<1>1. /\ ActorsOK /\ job.id \in Jobs /\ job.id \notin running
      /\ running' = running \cup {job.id}
      /\ actor' = [actor EXCEPT ![a] = v]
  BY DEF TypeOK, Snapshots, Acquire
<1>2. v.pc = "sync" /\ v.job[1] = job
  BY DEF At
<1>. HIDE DEF v
<1>3. /\ actor'[a] = v
      /\ \A x \in Actors \ {a} : actor'[x] = actor[x] /\ JobOf(x)' = JobOf(x)
      /\ JobOf(a)' = job /\ actor[a].pc # "sync"
  BY <1>1, <1>2 DEF ActorsOK, JobOf, Busy
<1>4. HeldAt("sync")' = HeldAt("sync") \cup {job.id}
  BY <1>2, <1>3 DEF HeldAt
<1>5. PromisedPhase' = [PromisedPhase EXCEPT ![job.id] = "working"]
  BY <1>1, <1>4 DEF PromisedPhase, JobPhase
<1>6. PromisedPhase[job.id] = "free" /\ PromisedJobs' = PromisedJobs
  BY <1>1 DEF PromisedPhase, JobPhase, PromisedJobs
<1>. QED  BY <1>5, <1>6 DEF Promise!Begin

LEMMA ReleaseEnds ==
  ASSUME TypeOK, Exclusive, NEW a \in Actors, Release(a)
  PROVE  Promise!End(JobOf(a).id)
<1>. DEFINE j == JobOf(a).id
<1>1. /\ ActorsOK /\ j \in Jobs /\ actor[a].pc = "stored" /\ Busy(a)
      /\ running' = running \ {j} /\ actor' = [actor EXCEPT ![a] = Idle]
  BY JobOfActor DEF TypeOK, Release, Busy
<1>2. HeldAt("sync")' = HeldAt("sync")
  BY <1>1, IdleIsNotBusy, SyncUntouched
<1>3. j \in running /\ j \notin HeldAt("sync")
  BY <1>1 DEF Exclusive, RunningIsHeld, OneRunPerJob, HeldAt, Busy
<1>4. PromisedPhase' = [PromisedPhase EXCEPT ![j] = "free"]
  BY <1>1, <1>2 DEF PromisedPhase, JobPhase
<1>5. PromisedPhase[j] = "recorded" /\ PromisedJobs' = PromisedJobs
  BY <1>1, <1>3 DEF PromisedPhase, JobPhase, PromisedJobs, Release
<1>. QED  BY <1>1, <1>4, <1>5 DEF Promise!End, Release

\* The one actor that works on a job is done with the servers.
LEMMA LeavesSync ==
  ASSUME ActorsOK, Exclusive, NEW a \in Actors, actor[a].pc = "sync",
         actor' = [actor EXCEPT ![a].pc = "stored"]
  PROVE  HeldAt("sync")' = HeldAt("sync") \ {JobOf(a).id}
<1>1. /\ actor'[a].pc = "stored"
      /\ \A x \in Actors \ {a} : actor'[x] = actor[x] /\ JobOf(x)' = JobOf(x)
  BY MoveActor DEF ActorsOK, JobOf, Pcs
<1>2. \A x \in Actors \ {a} : actor[x].pc = "sync" => JobOf(x).id # JobOf(a).id
  BY DEF Exclusive, OneRunPerJob, Busy
<1>. QED  BY <1>1, <1>2 DEF HeldAt

LEMMA StoreRecords ==
  ASSUME TypeOK, Exclusive, NEW a \in Actors, actor[a].pc = "sync",
         NEW version \in 0 .. Len(runs) + 1, Store(a, version),
         Len(runs') = IF version > Len(runs) THEN version ELSE Len(runs)
  PROVE  Promise!Record(JobOf(a).id, version)
<1>. DEFINE j == JobOf(a).id
<1>1. /\ ActorsOK /\ RowsOK /\ j \in Jobs /\ Busy(a)
      /\ running' = running /\ used' = used
  BY JobOfActor DEF TypeOK, Store, Busy
<1>2. HeldAt("sync")' = HeldAt("sync") \ {j}
  BY <1>1, LeavesSync DEF Store
<1>3. j \in running /\ j \in HeldAt("sync")
  BY <1>1 DEF Exclusive, RunningIsHeld, HeldAt
<1>4. PromisedPhase' = [PromisedPhase EXCEPT ![j] = "recorded"]
  BY <1>1, <1>2, <1>3 DEF PromisedPhase, JobPhase
<1>5. PromisedPhase[j] = "working"
  BY <1>1, <1>3 DEF PromisedPhase, JobPhase
<1>6. PromisedJobs' = IF j \in DOMAIN PromisedJobs
                      THEN [PromisedJobs EXCEPT ![j].state = version] ELSE PromisedJobs
  <2>1. CASE j \in DOMAIN db
    <3>1. PICK r \in Rows : /\ db' = [db EXCEPT ![j] = r]
                           /\ Config(r) = [Config(db[j]) EXCEPT !.state = version]
      BY <1>1, <2>1, StoreRowOf
    <3>. QED  BY <2>1, <3>1 DEF PromisedJobs
  <2>2. CASE j \notin DOMAIN db
    BY <2>2 DEF Store, PromisedJobs
  <2>. QED  BY <2>1, <2>2
<1>. QED  BY <1>1, <1>4, <1>5, <1>6 DEF Promise!Record

LEMMA StoreFailsLoses ==
  ASSUME TypeOK, Exclusive, NEW a \in Actors, StoreFails(a)
  PROVE  Promise!Lose(JobOf(a).id)
<1>. DEFINE j == JobOf(a).id
<1>1. /\ ActorsOK /\ j \in Jobs /\ Busy(a) /\ actor[a].pc = "sync"
      /\ running' = running /\ UNCHANGED <<db, used, runs>>
  BY JobOfActor DEF TypeOK, StoreFails, Busy
<1>2. HeldAt("sync")' = HeldAt("sync") \ {j}
  BY <1>1, LeavesSync DEF StoreFails
<1>3. j \in running /\ j \in HeldAt("sync")
  BY <1>1 DEF Exclusive, RunningIsHeld, HeldAt
<1>4. PromisedPhase' = [PromisedPhase EXCEPT ![j] = "recorded"]
  BY <1>1, <1>2, <1>3 DEF PromisedPhase, JobPhase
<1>5. PromisedPhase[j] = "working" /\ PromisedJobs' = PromisedJobs
  BY <1>1, <1>3 DEF PromisedPhase, JobPhase, PromisedJobs
<1>. QED  BY <1>1, <1>4, <1>5 DEF Promise!Lose

-----------------------------------------------------------------------------
(* The rows: what users do to a job is what the promise lets them do.      *)

LEMMA UsersPromised ==
  ASSUME TypeOK, NEW j \in Jobs,
         \/ \E e \in BOOLEAN, d \in Directions : Create(j, e, d) \/ Update(j, e, d)
         \/ Reset(j) \/ Delete(j)
  PROVE  Promise!Next
<1>1. UNCHANGED <<running, actor, runs>>
  BY DEF Create, Update, Reset, Delete, Edit
<1>2. UNCHANGED <<PromisedPhase, Len(runs)>>
  BY <1>1 DEF PromisedPhase, JobPhase, HeldAt, JobOf
<1>3. DOMAIN PromisedJobs = DOMAIN db /\ \A i \in DOMAIN db : db[i] \in Rows
  BY DEF PromisedJobs, TypeOK, RowsOK
<1>4. ASSUME NEW e \in BOOLEAN, NEW d \in Directions, Create(j, e, d)  PROVE Promise!Next
  <2>1. Promise!Create(j, e, d)
    BY <1>2, <1>3, <1>4 DEF Create, Row, NewRow, Config, PromisedJobs, Promise!Create, Promise!Fresh
  <2>. QED  BY <2>1 DEF Promise!Next
<1>5. ASSUME NEW e \in BOOLEAN, NEW d \in Directions, Update(j, e, d)  PROVE Promise!Next
  <2>1. PICK r \in Rows : /\ db' = [db EXCEPT ![j] = r]
                         /\ Config(r) = [enabled |-> e, dir |-> d, state |-> db[j].state]
    BY <1>5, UpdateRow DEF TypeOK
  <2>2. PromisedJobs' =
         [PromisedJobs EXCEPT ![j] = [enabled |-> e, dir |-> d, state |-> @.state]]
    BY <2>1 DEF PromisedJobs, Config
  <2>3. Promise!Configure(j, e, d)
    BY <1>2, <1>3, <1>5, <2>2 DEF Update, Promise!Configure
  <2>. QED  BY <2>3 DEF Promise!Next
<1>6. CASE Reset(j)
  <2>1. PICK r \in Rows : /\ db' = [db EXCEPT ![j] = r]
                         /\ Config(r) = [Config(db[j]) EXCEPT !.state = 0]
    BY <1>6, ResetRow DEF TypeOK
  <2>2. PromisedJobs' = [PromisedJobs EXCEPT ![j].state = 0]
    BY <2>1 DEF PromisedJobs
  <2>3. Promise!Forget(j)
    BY <1>2, <1>3, <1>6, <2>2 DEF Reset, Promise!Forget
  <2>. QED  BY <2>3 DEF Promise!Next
<1>7. CASE Delete(j)
  <2>1. Promise!Remove(j)
    BY <1>2, <1>3, <1>7 DEF Delete, PromisedJobs, Promise!Remove
  <2>. QED  BY <2>1 DEF Promise!Next
<1>. QED  BY <1>4, <1>5, <1>6, <1>7

-----------------------------------------------------------------------------
(* Every step.                                                             *)

LEMMA StepPromised ==
  TypeOK /\ Exclusive /\ StatesComputed /\ [Next]_vars => [Promise!Next]_(Promise!vars)
<1>. SUFFICES ASSUME TypeOK, Exclusive, StatesComputed, [Next]_vars
              PROVE  Promise!Next \/ UNCHANGED Promise!vars
  OBVIOUS
<1>0. /\ ActorsOK /\ RowsOK /\ Len(runs) \in Nat
      /\ "scheduler" \in Actors /\ Requests \subseteq Actors
  BY DEF TypeOK, Actors
<1>1. ASSUME PromisedJobs' = PromisedJobs, UNCHANGED <<used, running, runs>>,
             HeldAt("sync")' = HeldAt("sync")
      PROVE  UNCHANGED Promise!vars
  BY <1>1, PhaseSame DEF Promise!vars
<1>2. ASSUME UNCHANGED <<db, used, running, actor, runs>>  PROVE UNCHANGED Promise!vars
  BY <1>1, <1>2 DEF PromisedJobs, HeldAt, JobOf
<1>3. CASE Users
  BY <1>3, UsersPromised DEF Users
<1>4. ASSUME NEW j \in Jobs, BecomesDue(j)  PROVE UNCHANGED Promise!vars
  <2>1. j \in DOMAIN db /\ db[j] \in Rows
    BY <1>0, <1>4 DEF BecomesDue, RowsOK
  <2>2. Config(db'[j]) = Config(db[j]) /\ \A i \in DOMAIN db \ {j} : db'[i] = db[i]
    BY <1>4, <2>1 DEF BecomesDue, Config, Rows
  <2>3. PromisedJobs' = PromisedJobs
    BY <1>4, <2>2 DEF BecomesDue, PromisedJobs
  <2>. QED  BY <1>1, <1>4, <2>3 DEF BecomesDue, HeldAt, JobOf
<1>5. CASE Tick \/ PassOver \/ Signal \/ Drained \/ Restart \/ UNCHANGED vars
  BY <1>2, <1>5 DEF Tick, PassOver, Signal, Drained, Restart, vars
<1>6. CASE RunDue
  <2>1. Head(queue) \in Snapshots /\ ~Busy("scheduler")
    BY <1>6, IdleIsNotBusy DEF RunDue, TypeOK, Busy
  <2>2. Promise!Begin(Head(queue).id) /\ Head(queue).id \in Jobs
    BY <1>0, <1>6, <2>1, AcquireBegins DEF RunDue, Snapshots
  <2>. QED  BY <2>2 DEF Promise!Next
<1>7. ASSUME NEW r \in Requests, RunOne(r)  PROVE Promise!Next
  <2>1. r \in Actors /\ ~Busy(r) /\ JobOf(r) \in Snapshots
    BY <1>0, <1>7, JobOfActor DEF RunOne, Busy
  <2>2. Promise!Begin(JobOf(r).id) /\ JobOf(r).id \in Jobs
    BY <1>7, <2>1, AcquireBegins DEF RunOne, Snapshots
  <2>. QED  BY <2>2 DEF Promise!Next
<1>8. ASSUME NEW r \in Requests, NEW j \in Jobs, Refuse(r) \/ Load(r, j)
      PROVE  UNCHANGED Promise!vars
  <2>1. At("loaded", Snapshot(j)).pc # "sync" /\ r \in Actors /\ actor[r].pc # "sync"
    BY <1>0, <1>8, IdleIsNotBusy DEF At, Refuse, Load
  <2>2. HeldAt("sync")' = HeldAt("sync")
    BY <1>0, <1>8, <2>1, IdleIsNotBusy, SyncUntouched DEF Refuse, Load
  <2>. QED  BY <1>1, <1>8, <2>2 DEF Refuse, Load, PromisedJobs
<1>9. ASSUME NEW a \in Actors,
             FinishChanged(a) \/ FinishUnchanged(a) \/ FinishEmptied(a) \/ StoreFails(a)
      PROVE  Promise!Next
  <2>1. JobOf(a).id \in Jobs /\ JobOf(a).row \in Rows /\ JobOf(a).row.state \in 0 .. Len(runs)
    <3>1. actor[a].pc # "idle"
      BY <1>9 DEF FinishChanged, FinishUnchanged, FinishEmptied, StoreFails
    <3>. QED  BY <1>0, <3>1, JobOfActor DEF StatesComputed
  <2>2. CASE FinishChanged(a)
    <3>1. Len(runs') = Len(runs) + 1
      BY <2>1, <2>2 DEF FinishChanged, TypeOK, Rows
    <3>2. Promise!Record(JobOf(a).id, Len(runs) + 1)
      BY <1>0, <2>2, <3>1, StoreRecords DEF FinishChanged
    <3>. QED  BY <1>0, <2>1, <3>2 DEF Promise!Next
  <2>3. CASE FinishUnchanged(a)
    <3>1. Promise!Record(JobOf(a).id, JobOf(a).row.state)
      BY <1>0, <2>1, <2>3, StoreRecords DEF FinishUnchanged
    <3>. QED  BY <1>0, <2>1, <3>1 DEF Promise!Next
  <2>4. CASE FinishEmptied(a)
    <3>1. Promise!Record(JobOf(a).id, 0)
      BY <1>0, <2>4, StoreRecords DEF FinishEmptied
    <3>. QED  BY <1>0, <2>1, <3>1 DEF Promise!Next
  <2>5. CASE StoreFails(a)
    BY <2>1, <2>5, StoreFailsLoses DEF Promise!Next
  <2>. QED  BY <1>9, <2>2, <2>3, <2>4, <2>5
<1>10. ASSUME NEW a \in Actors, Release(a)  PROVE Promise!Next
  <2>1. Promise!End(JobOf(a).id) /\ JobOf(a).id \in Jobs
    BY <1>0, <1>10, ReleaseEnds, JobOfActor DEF Release
  <2>. QED  BY <2>1 DEF Promise!Next
<1>11. CASE Exit \/ Crash
  <2>1. /\ running' = {} /\ UNCHANGED <<db, used, runs>>
    BY <1>11 DEF Exit, Crash, Die
  <2>2. PromisedPhase' = Promise!Free /\ PromisedJobs' = PromisedJobs
    BY <2>1 DEF PromisedPhase, JobPhase, PromisedJobs, Promise!Free
  <2>. QED  BY <2>1, <2>2 DEF Promise!Stop, Promise!Next
<1>12. Scheduler => Promise!Next \/ UNCHANGED Promise!vars
  BY <1>5, <1>6 DEF Scheduler
<1>13. ASSUME NEW a \in Actors, Run(a)  PROVE Promise!Next
  BY <1>9, <1>10, <1>13 DEF Run
<1>14. ASSUME NEW r \in Requests, Manual(r) \/ \E j \in Jobs : Load(r, j)
       PROVE  Promise!Next \/ UNCHANGED Promise!vars
  <2>1. CASE Refuse(r)
    <3>1. PICK j \in Jobs : TRUE
      BY <1>0, <2>1, JobOfActor DEF Refuse
    <3>. QED  BY <1>8, <2>1, <3>1
  <2>. QED  BY <1>7, <1>8, <1>14, <2>1 DEF Manual
<1>15. Process => Promise!Next \/ UNCHANGED Promise!vars
  BY <1>5, <1>11 DEF Process
<1>. QED  BY <1>3, <1>4, <1>5, <1>12, <1>13, <1>14, <1>15 DEF Next

LEMMA InitPromised == Init => Promise!Init
<1>. SUFFICES ASSUME Init  PROVE Promise!Init
  OBVIOUS
<1>1. PICK S \in SUBSET Jobs :
        used = S /\ db \in [S -> {NewRow(e, d) : e \in BOOLEAN, d \in Directions}]
  BY DEF Init
<1>2. PromisedJobs \in [S -> {Promise!Fresh(e, d) : e \in BOOLEAN, d \in Directions}]
  BY <1>1 DEF PromisedJobs, Config, NewRow, Promise!Fresh
<1>3. PromisedPhase = Promise!Free /\ Len(runs) = 0
  BY DEF Init, PromisedPhase, JobPhase, Promise!Free
<1>. QED  BY <1>1, <1>2, <1>3 DEF Promise!Init

\* The rows, the snapshots two kinds of actors take of them, the set of the
\* running ids, shutdowns and crashes implement the promise: at most one run of
\* a job at a time, which changes its state once and nothing else of it, and
\* only to a state some run computed (runner.go:38-59, store/syncjobs.go:67-97).
THEOREM RunnerImplementsPromise == Spec => KeepsThePromise
<1>1. Init => StatesComputed
  BY IdleIsNotBusy DEF Init, StatesComputed, NewRow
<1>2. Init => Promise!Init
  BY InitPromised
<1>. QED  BY <1>1, <1>2, TypeCorrect, AlwaysExclusive, ComputedStep, StepPromised, PTL
          DEF Spec, Promise!Spec, KeepsThePromise
=============================================================================
