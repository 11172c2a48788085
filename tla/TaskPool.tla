------------------------------ MODULE TaskPool ------------------------------
(***************************************************************************)
(* What sylar::Scheduler promises its clients, with no queue, no threads   *)
(* and no lock: a job handed to schedule() waits, is run by one thread at  *)
(* a time, may give the thread back and wait again, and finishes once.     *)
(* Once stop() has been called nobody but a running job adds a job, and    *)
(* stop() returns only when every job it was given has finished            *)
(* (scheduler.h:84).                                                       *)
(***************************************************************************)
CONSTANT Jobs

VARIABLES job,     \* where each job is: not submitted, waiting, running or done
          phase    \* has stop() been called, has it returned?

vars == <<job, phase>>

JobStates == {"new", "waiting", "running", "done"}

Init ==
  /\ job = [j \in Jobs |-> "new"]
  /\ phase = "open"

Move(j, from, to) ==
  /\ job[j] = from
  /\ job' = [job EXCEPT ![j] = to]

\* A job enters from outside while the pool is open, or from a running job.
Submit(j) ==
  /\ phase = "open" \/ \E k \in Jobs : job[k] = "running"
  /\ Move(j, "new", "waiting")
  /\ UNCHANGED phase

Run(j)    == Move(j, "waiting", "running") /\ UNCHANGED phase
Yield(j)  == Move(j, "running", "waiting") /\ UNCHANGED phase
Finish(j) == Move(j, "running", "done")    /\ UNCHANGED phase

Close  == phase = "open" /\ phase' = "closing" /\ UNCHANGED job

Return ==
  /\ phase = "closing"
  /\ \A j \in Jobs : job[j] \in {"new", "done"}
  /\ phase' = "closed"
  /\ UNCHANGED job

Next ==
  \/ \E j \in Jobs : Submit(j) \/ Run(j) \/ Yield(j) \/ Finish(j)
  \/ Close
  \/ Return

Spec == Init /\ [][Next]_vars
=============================================================================
