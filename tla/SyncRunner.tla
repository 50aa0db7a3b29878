----------------------------- MODULE SyncRunner -----------------------------
(***************************************************************************)
(* The life of sync jobs around dav.Sync: the sync_jobs rows, the          *)
(* scheduler's davsync.Runner.Run, manual runs through RunOne, the HTTP    *)
(* handlers that change, reset and delete a job, shutdown and crashes.     *)
(*                                                                         *)
(* What a run does to the two servers is MirrorSync's and BidiSync's       *)
(* matter; here it is the state it starts from and the state it leaves.  A *)
(* sync state is the number of the run that computed it, 0 the empty one,  *)
(* and runs remembers under which direction each was computed.             *)
(***************************************************************************)
EXTENDS Integers, FiniteSets, SequencesExt

CONSTANTS
  Jobs,         \* ids of sync jobs
  Requests,     \* HTTP requests for a manual run that may be in flight at once
  Directions,   \* "a-to-b", "b-to-a", "bidirectional"
  Exits,        \* ways the process ends: "shutdown", "crash" or fewer
  MaxRuns,      \* bound: runs that compute a new state
  MaxFailures,  \* bound: outcomes the database refuses
  MaxEdits      \* bound: changes, resets and deletions by users

ASSUME RunnerAssumption ==
  /\ IsFiniteSet(Jobs)
  /\ "scheduler" \notin Requests
  /\ MaxRuns \in Nat /\ MaxFailures \in Nat /\ MaxEdits \in Nat

Actors == {"scheduler"} \cup Requests

VARIABLES
  db,        \* sync_jobs: the rows of the jobs that exist
  used,      \* ids ever handed out (randomToken never repeats one)
  running,   \* Runner.running
  actor,     \* actor -> where it is and the snapshot of the job it works on
  queue,     \* the scheduler's loop over the rest of its listing
  process,   \* "up", "draining", "stopping", "down"
  runs,      \* version -> direction its run was given
  edits,     \* counter behind MaxEdits
  failures,  \* counter behind MaxFailures
  overdue,   \* requests still at work when the last shutdown stopped waiting
  unrecorded \* actors whose run that shutdown ended before it stored its state

aside == <<failures, overdue, unrecorded>>
vars == <<db, used, running, actor, queue, process, runs, edits, aside>>

\* due is true once the job's interval has passed since its last run.
Rows == [enabled : BOOLEAN, dir : Directions, state : Nat, due : BOOLEAN]
NewRow(enabled, dir) == [enabled |-> enabled, dir |-> dir, state |-> 0, due |-> TRUE]

\* A job as it was read: the row, with its id.
Snapshots == [id : Jobs, row : Rows]
Snapshot(j) == [id |-> j, row |-> db[j]]

\* pc "loaded": the job is read; "sync": dav.Sync is working on the servers;
\* "stored": finish has written the outcome, release is still to come.
Pcs == {"idle", "loaded", "sync", "stored"}
Idle == [pc |-> "idle", job |-> <<>>]
Busy(a) == actor[a].pc \in {"sync", "stored"}
At(pc, job) == [pc |-> pc, job |-> <<job>>]
JobOf(a) == actor[a].job[1]

Row(j, r) == [x \in DOMAIN db \cup {j} |-> IF x = j THEN r ELSE db[x]]

-----------------------------------------------------------------------------
(* Users of the API (internal/server/syncjobs.go).                         *)

Edit ==
  /\ process = "up"
  /\ edits < MaxEdits
  /\ edits' = edits + 1
  /\ UNCHANGED <<running, actor, queue, process, runs, aside>>

Create(j, enabled, dir) ==
  /\ j \notin used
  /\ db' = Row(j, NewRow(enabled, dir))
  /\ used' = used \cup {j}
  /\ Edit

\* UpdateSyncJob writes the configuration columns and no other.
Update(j, enabled, dir) ==
  /\ j \in DOMAIN db
  /\ db' = [db EXCEPT ![j] = [@ EXCEPT !.enabled = enabled, !.dir = dir]]
  /\ Edit /\ UNCHANGED used

\* ResetSyncJobState, whether or not a run is in flight.
Reset(j) ==
  /\ j \in DOMAIN db
  /\ db' = [db EXCEPT ![j].state = 0]
  /\ Edit /\ UNCHANGED used

Delete(j) ==
  /\ j \in DOMAIN db
  /\ db' = [x \in DOMAIN db \ {j} |-> db[x]]
  /\ Edit /\ UNCHANGED used

\* The interval of a job passes.
BecomesDue(j) ==
  /\ j \in DOMAIN db /\ ~db[j].due
  /\ db' = [db EXCEPT ![j].due = TRUE]
  /\ UNCHANGED <<used, running, actor, queue, process, runs, edits, aside>>

-----------------------------------------------------------------------------
(* Runner.                                                                 *)

\* AllEnabledSyncJobs: one listing, read before any of its jobs runs (which
\* of them are due is settled by the same reading), in the order of creation.
Tick ==
  /\ process = "up"
  /\ actor["scheduler"] = Idle /\ queue = <<>>
  /\ \E order \in SetToSeqs({j \in DOMAIN db : db[j].enabled}) :
       /\ order # <<>>
       /\ queue' = [n \in DOMAIN order |-> Snapshot(order[n])]
  /\ UNCHANGED <<db, used, running, actor, process, runs, edits, aside>>

\* handleRunSyncJob reads the job, then asks the runner.
Load(r, j) ==
  /\ process = "up" /\ r \in Requests /\ actor[r] = Idle
  /\ j \in DOMAIN db
  /\ actor' = [actor EXCEPT ![r] = At("loaded", Snapshot(j))]
  /\ UNCHANGED <<db, used, running, queue, process, runs, edits, aside>>

\* Mutation: no check.
AcquireAnyway(a, job) ==
  /\ running' = running \cup {job.id}
  /\ actor' = [actor EXCEPT ![a] = At("sync", job)]

\* acquire, on behalf of actor a.
Acquire(a, job) ==
  /\ job.id \notin running
  /\ running' = running \cup {job.id}
  /\ actor' = [actor EXCEPT ![a] = At("sync", job)]

\* The scheduler's loop turns to the next job of its listing.
RunDue ==
  /\ actor["scheduler"] = Idle /\ queue # <<>>
  /\ Head(queue).row.due
  /\ Acquire("scheduler", Head(queue))
  /\ queue' = Tail(queue)
  /\ UNCHANGED <<db, used, process, runs, edits, aside>>

\* Not due, or still running.
PassOver ==
  /\ actor["scheduler"] = Idle /\ queue # <<>>
  /\ ~Head(queue).row.due \/ Head(queue).id \in running
  /\ queue' = Tail(queue)
  /\ UNCHANGED <<db, used, running, actor, process, runs, edits, aside>>

RunOne(r) ==
  /\ r \in Requests /\ actor[r].pc = "loaded"
  /\ Acquire(r, JobOf(r))
  /\ UNCHANGED <<db, used, queue, process, runs, edits, aside>>

\* ErrAlreadyRunning: 409.
Refuse(r) ==
  /\ r \in Requests /\ actor[r].pc = "loaded"
  /\ JobOf(r).id \in running
  /\ actor' = [actor EXCEPT ![r] = Idle]
  /\ UNCHANGED <<db, used, running, queue, process, runs, edits, aside>>

\* Mutation: a run leaves no time stamp.
StoreUnstamped(a, version) ==
  /\ db' = IF JobOf(a).id \in DOMAIN db THEN [db EXCEPT ![JobOf(a).id].state = version] ELSE db
  /\ actor' = [actor EXCEPT ![a].pc = "stored"]
  /\ UNCHANGED <<used, running, queue, process, edits, aside>>

\* UpdateSyncJobRun: whatever state the run ends with replaces the stored
\* one; a row that is gone stays gone.
Store(a, version) ==
  /\ db' = IF JobOf(a).id \in DOMAIN db
           THEN [db EXCEPT ![JobOf(a).id] = [@ EXCEPT !.state = version, !.due = FALSE]]
           ELSE db
  /\ actor' = [actor EXCEPT ![a].pc = "stored"]
  /\ UNCHANGED <<used, running, queue, process, edits, aside>>

\* The database refuses the outcome: finish logs it and goes on, and what the
\* run computed is gone with its time stamp.
StoreFails(a) ==
  /\ actor[a].pc = "sync"
  /\ failures < MaxFailures
  /\ failures' = failures + 1
  /\ actor' = [actor EXCEPT ![a].pc = "stored"]
  /\ UNCHANGED <<db, used, running, queue, process, runs, edits, overdue, unrecorded>>

\* The run changed something: it ends with a state of its own.
FinishChanged(a) ==
  /\ actor[a].pc = "sync"
  /\ Len(runs) < MaxRuns
  /\ runs' = Append(runs, JobOf(a).row.dir)
  /\ Store(a, Len(runs) + 1)

\* It found nothing to do, failed early or was blocked: it stores the state
\* it started from.
FinishUnchanged(a) ==
  /\ actor[a].pc = "sync"
  /\ UNCHANGED runs
  /\ Store(a, JobOf(a).row.state)

\* The row cannot be run (a configuration buildSync refuses) or its state not
\* be read: the run ends with an empty state.  The handlers accept no such
\* configuration, so this is a row another version of the program wrote.
FinishEmptied(a) ==
  /\ actor[a].pc = "sync"
  /\ UNCHANGED runs
  /\ Store(a, 0)

\* Mutations: the job stays marked; the actor keeps the job.
ReleaseForgotten(a) ==
  /\ actor[a].pc = "stored"
  /\ actor' = [actor EXCEPT ![a] = Idle]
  /\ UNCHANGED <<db, used, running, queue, process, runs, edits, aside>>
ReleaseHolding(a) ==
  /\ actor[a].pc = "stored"
  /\ running' = running \ {JobOf(a).id}
  /\ actor' = [actor EXCEPT ![a].pc = "idle"]
  /\ UNCHANGED <<db, used, queue, process, runs, edits, aside>>

Release(a) ==
  /\ actor[a].pc = "stored"
  /\ running' = running \ {JobOf(a).id}
  /\ actor' = [actor EXCEPT ![a] = Idle]
  /\ UNCHANGED <<db, used, queue, process, runs, edits, aside>>

-----------------------------------------------------------------------------
(* The process (cmd/tidydav/main.go, internal/scheduler).                  *)

\* SIGTERM cancels the scheduler's context and stops the HTTP listener.
Signal ==
  /\ "shutdown" \in Exits /\ process = "up"
  /\ process' = "draining"
  /\ UNCHANGED <<db, used, running, actor, queue, runs, edits, aside>>

\* httpServer.Shutdown returns: every request is answered or 15 s have passed,
\* and a manual run may take ten minutes.
Drained ==
  /\ process = "draining"
  /\ process' = "stopping"
  /\ overdue' = {r \in Requests : actor[r] # Idle}
  /\ UNCHANGED <<db, used, running, actor, queue, runs, edits, failures, unrecorded>>

Die ==
  /\ process' = "down"
  /\ running' = {} /\ queue' = <<>>
  /\ actor' = [a \in Actors |-> Idle]
  /\ UNCHANGED <<db, used, runs, edits, failures, overdue>>

\* Whoever is still at work on the servers ends without storing its state.
CutOff == unrecorded' = {a \in Actors : actor[a].pc = "sync"}

\* Mutation: the store is closed without Scheduler.Stop.
ExitAtOnce == process = "stopping" /\ Die /\ CutOff

\* Scheduler.Stop waits for its loops, then the store is closed and the
\* process ends, whatever requests are still at work.
Exit ==
  /\ process = "stopping"
  /\ actor["scheduler"] = Idle /\ queue = <<>>
  /\ Die /\ CutOff

\* A crash can be no better than the code: what it cuts off is not counted.
Crash ==
  /\ "crash" \in Exits /\ process # "down"
  /\ Die /\ UNCHANGED unrecorded

Restart ==
  /\ process = "down"
  /\ process' = "up"
  /\ overdue' = {} /\ unrecorded' = {}
  /\ UNCHANGED <<db, used, running, actor, queue, runs, edits, failures>>

-----------------------------------------------------------------------------

Init ==
  /\ \E S \in SUBSET Jobs :
       /\ used = S
       /\ db \in [S -> {NewRow(e, d) : e \in BOOLEAN, d \in Directions}]
  /\ running = {}
  /\ actor = [a \in Actors |-> Idle]
  /\ queue = <<>>
  /\ process = "up"
  /\ runs = <<>>
  /\ edits = 0 /\ failures = 0
  /\ overdue = {} /\ unrecorded = {}

Scheduler == Tick \/ RunDue \/ PassOver
Run(a) ==
  \/ FinishChanged(a) \/ FinishUnchanged(a) \/ FinishEmptied(a) \/ StoreFails(a)
  \/ Release(a)
Manual(r) == RunOne(r) \/ Refuse(r)
Users ==
  \E j \in Jobs :
    \/ \E e \in BOOLEAN, d \in Directions : Create(j, e, d) \/ Update(j, e, d)
    \/ Reset(j) \/ Delete(j)
Process == Signal \/ Drained \/ Exit \/ Crash \/ Restart

Next ==
  \/ Scheduler
  \/ \E a \in Actors : Run(a)
  \/ \E r \in Requests : Manual(r) \/ \E j \in Jobs : Load(r, j)
  \/ Users
  \/ \E j \in Jobs : BecomesDue(j)
  \/ Process

Spec == Init /\ [][Next]_vars

\* The scheduler keeps ticking, every run ends (each call to a server times
\* out), a request that was read is handled and a shutdown goes on; nobody
\* has to ask for a run, edit a job or stop the process.
FairSpec ==
  /\ Spec
  /\ WF_vars(Scheduler)
  /\ \A a \in Actors : WF_vars(Run(a))
  /\ \A r \in Requests : WF_vars(Manual(r))
  /\ WF_vars(Drained) /\ WF_vars(Exit) /\ WF_vars(Restart)

-----------------------------------------------------------------------------
(* Properties.                                                             *)

RowsOK == used \subseteq Jobs /\ DOMAIN db \subseteq used /\ db \in [DOMAIN db -> Rows]
ActorsOK ==
  /\ actor \in [Actors -> [pc : Pcs, job : Seq(Snapshots)]]
  /\ \A a \in Actors : actor[a] = Idle \/ (actor[a].pc # "idle" /\ Len(actor[a].job) = 1)

\* Type correctness of the rows and of the actors' snapshots.
TypeOK ==
  /\ RowsOK /\ ActorsOK
  /\ running \subseteq Jobs
  /\ queue \in Seq(Snapshots)
  /\ process \in {"up", "draining", "stopping", "down"}
  /\ runs \in Seq(Directions) /\ edits \in Nat /\ failures \in Nat
  /\ overdue \subseteq Requests /\ unrecorded \subseteq Actors

\* A job is never executed by the scheduler and by hand at the same time, nor
\* by two requests (CHANGELOG.md:251, runner.go:38-41).
OneRunPerJob ==
  \A a, b \in Actors : Busy(a) /\ Busy(b) /\ JobOf(a).id = JobOf(b).id => a = b

\* A job counts as running exactly while someone runs it: the deferred release
\* leaves none behind that would refuse every later run, and none goes early.
RunningIsHeld == running = {JobOf(a).id : a \in {x \in Actors : Busy(x)}}

\* The outcome of a run never undoes a change of the job's configuration made
\* while it was in flight: only users change it (syncjobs.go:67-97).
ConfigIsTheUsers ==
  [][\A j \in DOMAIN db \cap DOMAIN db' :
       (db[j].enabled # db'[j].enabled \/ db[j].dir # db'[j].dir) => edits' = edits + 1]_vars

\* A job deleted while it runs is not brought back by the run's outcome.
DeletedStaysDeleted == [][\A j \in used \ DOMAIN db : j \notin DOMAIN db']_vars

\* A run that is cut short still records what it did to the servers
\* (runner.go:89-91, 153-155): a shutdown cuts off no scheduled run, however late
\* in its listing the scheduler is, and a manual one only if the 15 s of
\* main.go:121 passed while its request was being served.
OnlyOverdueUnrecorded == unrecorded \subseteq overdue

\* An enabled job whose interval has passed is run, unless it is disabled,
\* deleted or a shutdown comes first.
DueJobsRun ==
  \A j \in Jobs :
    (j \in DOMAIN db /\ db[j].enabled /\ db[j].due)
      ~> \/ j \notin DOMAIN db
         \/ ~db[j].enabled
         \/ ~db[j].due
         \/ process # "up"

\* Whoever holds a job lets go of it.
JobsAreReleased == \A j \in Jobs : j \in running ~> j \notin running

\* SyncRunner implements JobRuns.  The phase of a job is where the actor that
\* holds it stands; a row's due flag is left out.
HeldAt(pc) == {JobOf(a).id : a \in {x \in Actors : actor[x].pc = pc}}
JobPhase(j) ==
  IF j \notin running THEN "free" ELSE IF j \in HeldAt("sync") THEN "working" ELSE "recorded"
Config(r) == [enabled |-> r.enabled, dir |-> r.dir, state |-> r.state]
PromisedJobs == [j \in DOMAIN db |-> Config(db[j])]
PromisedPhase == [j \in Jobs |-> JobPhase(j)]
Promise == INSTANCE JobRuns WITH
  jobs <- PromisedJobs, spent <- used, phase <- PromisedPhase, computed <- Len(runs)

\* Every step of the rows, the actors and the process is a step of what a job
\* promises, or none that its user could see.
KeepsThePromise == Promise!Spec

\* "Without it a manual run and the scheduler [...] would start from the same
\* state snapshot" (runner.go:39-40): a run starts from the state the last one
\* stored.
RunsFromLatestState ==
  [][\A a \in Actors :
       ~Busy(a) /\ Busy(a)' =>
         LET job == JobOf(a)'
         IN  job.id \in DOMAIN db => job.row.state = db[job.id].state]_vars

\* "State.Items[*].Src* refer to src and Dst* to dst" (dav/sync.go:31-32): a
\* run is given a state computed under its own direction.
StateMatchesDirection ==
  \A a \in Actors : actor[a].pc = "sync" /\ JobOf(a).row.state # 0 =>
    runs[JobOf(a).row.state] = JobOf(a).row.dir
=============================================================================
