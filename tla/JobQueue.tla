------------------------------ MODULE JobQueue ------------------------------
(***************************************************************************)
(* What the jobs table promises to those who use it, with none of the       *)
(* statements that make it so: a job waits, is taken by one runner, ends    *)
(* once by that runner's hand or is withdrawn, and may be removed for good. *)
(* Only a worker start sends a job that was taken back to the queue, and    *)
(* only a runner that was given a job, or the tenant, writes its end.       *)
(* KnowledgeBase implements this specification.                             *)
(***************************************************************************)
EXTENDS Integers

CONSTANTS
  Runners,  \* places where a job can run
  MaxJobs   \* bound: jobs ever submitted

VARIABLES
  state,    \* of each job: none, waiting, taken, completed, failed or removed
  run       \* the job each runner is at, 0 if none

vars == <<state, run>>

Jobs       == 1..MaxJobs
Ends       == {"completed", "failed"}
Present(j) == state[j] \notin {"none", "removed"}

Init ==
  /\ state = [j \in Jobs |-> "none"]
  /\ run = [r \in Runners |-> 0]

\* Jobs are numbered in the order in which they were submitted.
Queued(j) ==
  /\ state[j] = "none"
  /\ \A i \in Jobs : i < j => state[i] # "none"
  /\ state' = [state EXCEPT ![j] = "waiting"]

Leaves(r) == run' = [run EXCEPT ![r] = 0]

Submit(j) == Queued(j) /\ UNCHANGED run

\* A run that ends may leave a job behind for the next one.
Follow(r, j) == run[r] # 0 /\ Queued(j) /\ Leaves(r)

Take(r, j) ==
  /\ run[r] = 0
  /\ state[j] = "waiting"
  /\ state' = [state EXCEPT ![j] = "taken"]
  /\ run' = [run EXCEPT ![r] = j]

\* The runner that was to have the job never learns of it.
TakeInVain(j) ==
  /\ state[j] = "waiting"
  /\ state' = [state EXCEPT ![j] = "taken"]
  /\ UNCHANGED run

\* A runner writes about its own job; a job that was removed stays removed.
Writes(r, s) ==
  /\ run[r] # 0
  /\ state' = IF Present(run[r]) THEN [state EXCEPT ![run[r]] = s] ELSE state

Report(r) == Writes(r, "taken") /\ UNCHANGED run

End(r) == \E s \in Ends : Writes(r, s) /\ (Leaves(r) \/ UNCHANGED run)

GiveUp(r) == run[r] # 0 /\ Leaves(r) /\ UNCHANGED state

\* The process of some runners goes away.
Crash(R) ==
  /\ run' = [r \in Runners |-> IF r \in R THEN 0 ELSE run[r]]
  /\ UNCHANGED state

\* A process starts: whatever is taken waits again.
Requeue ==
  /\ state' = [j \in Jobs |-> IF state[j] = "taken" THEN "waiting" ELSE state[j]]
  /\ UNCHANGED run

Withdraw(j) ==
  /\ Present(j)
  /\ state' = [state EXCEPT ![j] = "failed"]
  /\ UNCHANGED run

Remove(S) ==
  /\ \A j \in S : Present(j)
  /\ state' = [j \in Jobs |-> IF j \in S THEN "removed" ELSE state[j]]
  /\ UNCHANGED run

Next ==
  \/ \E j \in Jobs : Submit(j) \/ TakeInVain(j) \/ Withdraw(j)
  \/ \E r \in Runners, j \in Jobs : Follow(r, j) \/ Take(r, j)
  \/ \E r \in Runners : Report(r) \/ End(r) \/ GiveUp(r)
  \/ Requeue
  \/ \E R \in SUBSET Runners : Crash(R)
  \/ \E S \in SUBSET Jobs : Remove(S)

Spec == Init /\ [][Next]_vars

=============================================================================
