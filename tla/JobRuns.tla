------------------------------ MODULE JobRuns ------------------------------
(***************************************************************************)
(* What a sync job promises its user, whoever runs it and however the      *)
(* process ends: one run of a job at a time, each of which replaces the    *)
(* job's state at most once, by a state some run computed, and nothing     *)
(* else; everything else about a job is its user's.  SyncRunner implements *)
(* it with rows, snapshots read long before they are used, two kinds of    *)
(* actors and a set of running ids.                                        *)
(***************************************************************************)
EXTENDS Naturals

CONSTANTS
  Jobs,      \* ids of sync jobs
  Directions \* what a job's configuration may say

VARIABLES
  jobs,    \* the jobs that exist: configuration and sync state
  spent,   \* ids ever handed out
  phase,   \* id -> "free", "working" or "recorded"
  computed \* sync states computed so far; 0 is the empty one

vars == <<jobs, spent, phase, computed>>

Fresh(enabled, dir) == [enabled |-> enabled, dir |-> dir, state |-> 0]
Phases == [Jobs -> {"free", "working", "recorded"}]
Free == [j \in Jobs |-> "free"]

Init ==
  /\ \E S \in SUBSET Jobs :
       /\ spent = S
       /\ jobs \in [S -> {Fresh(e, d) : e \in BOOLEAN, d \in Directions}]
  /\ phase = Free
  /\ computed = 0

\* The user.  A removed job's id is never used again.
Create(j, e, d) ==
  /\ j \notin spent
  /\ spent' = spent \cup {j}
  /\ jobs' = [x \in DOMAIN jobs \cup {j} |-> IF x = j THEN Fresh(e, d) ELSE jobs[x]]
  /\ UNCHANGED <<phase, computed>>

Configure(j, e, d) ==
  /\ j \in DOMAIN jobs
  /\ jobs' = [jobs EXCEPT ![j] = [enabled |-> e, dir |-> d, state |-> @.state]]
  /\ UNCHANGED <<spent, phase, computed>>

Forget(j) ==
  /\ j \in DOMAIN jobs
  /\ jobs' = [jobs EXCEPT ![j].state = 0]
  /\ UNCHANGED <<spent, phase, computed>>

Remove(j) ==
  /\ j \in DOMAIN jobs
  /\ jobs' = [x \in DOMAIN jobs \ {j} |-> jobs[x]]
  /\ UNCHANGED <<spent, phase, computed>>

\* A run, also of a job that was removed since somebody asked for it.
Begin(j) ==
  /\ phase[j] = "free"
  /\ phase' = [phase EXCEPT ![j] = "working"]
  /\ UNCHANGED <<jobs, spent, computed>>

Record(j, state) ==
  /\ phase[j] = "working"
  /\ state \in 0 .. computed + 1
  /\ phase' = [phase EXCEPT ![j] = "recorded"]
  /\ computed' = IF state > computed THEN state ELSE computed
  /\ jobs' = IF j \in DOMAIN jobs THEN [jobs EXCEPT ![j].state = state] ELSE jobs
  /\ UNCHANGED spent

\* What the run computed is lost: the next one starts from the old state.
Lose(j) ==
  /\ phase[j] = "working"
  /\ phase' = [phase EXCEPT ![j] = "recorded"]
  /\ UNCHANGED <<jobs, spent, computed>>

End(j) ==
  /\ phase[j] = "recorded"
  /\ phase' = [phase EXCEPT ![j] = "free"]
  /\ UNCHANGED <<jobs, spent, computed>>

\* The process ends, and every run with it.
Stop ==
  /\ phase' = Free
  /\ UNCHANGED <<jobs, spent, computed>>

Next ==
  \/ \E j \in Jobs :
       \/ \E e \in BOOLEAN, d \in Directions : Create(j, e, d) \/ Configure(j, e, d)
       \/ Forget(j) \/ Remove(j)
       \/ Begin(j) \/ Lose(j) \/ End(j)
       \/ \E state \in 0 .. computed + 1 : Record(j, state)
  \/ Stop

Spec == Init /\ [][Next]_vars
=============================================================================
