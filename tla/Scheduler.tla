----------------------------- MODULE Scheduler -----------------------------
(***************************************************************************)
(* The goroutines of internal/scheduler: the cron callbacks, the poll that *)
(* Start launches, and the main goroutine that starts and stops them.      *)
(*                                                                         *)
(* Cron runs every firing in a goroutine of its own, so several may be     *)
(* inside withLock at once, two of one schedule included.  withLock tests  *)
(* the flag `stopping', tries the run lock without waiting, and tests the  *)
(* flag again before it runs the job.  Stop sets the flag, stops cron,     *)
(* waits for cron's callbacks, then waits for the lock, which the startup  *)
(* poll, unknown to cron, may hold.  Each of these is a step of its own.   *)
(***************************************************************************)
EXTENDS Naturals

CONSTANTS
  PollRuns,       \* firings of the poll schedule that may be alive at once
  DigestRuns,     \* firings of the digest schedule that may be alive at once
  StartupRun,     \* the poll launched by Start
  NoRun           \* stands for no firing

CronRuns == PollRuns \union DigestRuns
Runs == CronRuns \union {StartupRun}

ASSUME SchedulerAssumption ==
  /\ StartupRun \notin CronRuns
  /\ NoRun \notin Runs

VARIABLES
  main,           \* where the main goroutine is
  stopping,       \* the flag
  cronOn,         \* cron fires callbacks
  lock,           \* the run lock: whether its one slot is taken
  pc              \* where each firing is in withLock

vars == <<main, stopping, cronOn, lock, pc>>

MainSteps == {"new", "running", "stopping", "draining", "locking", "locked",
              "stopped", "cancelled"}

RunSteps == {"idle", "enter", "try", "recheck", "run"}

\* The values of every variable.
TypeOK ==
  /\ main \in MainSteps
  /\ stopping \in BOOLEAN
  /\ cronOn \in BOOLEAN
  /\ lock \in BOOLEAN
  /\ pc \in [Runs -> RunSteps]

Init ==
  /\ main = "new"
  /\ stopping = FALSE
  /\ cronOn = FALSE
  /\ lock = FALSE
  /\ pc = [r \in Runs |-> "idle"]

Goto(r, step) == pc' = [pc EXCEPT ![r] = step]

-----------------------------------------------------------------------------
(* withLock, on behalf of one firing                                       *)

\* The schedule is due: cron starts a goroutine for the callback.
Fire(r) ==
  /\ r \in CronRuns
  /\ cronOn
  /\ pc[r] = "idle"
  /\ Goto(r, "enter")
  /\ UNCHANGED <<main, stopping, cronOn, lock>>

\* The first test of the flag.
CheckStopping(r) ==
  /\ pc[r] = "enter"
  /\ Goto(r, IF stopping THEN "idle" ELSE "try")
  /\ UNCHANGED <<main, stopping, cronOn, lock>>

\* Mutants of TryLock: a skipped firing gives the lock back too, and the
\* attempt waits for the lock.
TryLockReleasing(r) ==
  /\ pc[r] = "try"
  /\ lock' = ~lock
  /\ Goto(r, IF lock THEN "idle" ELSE "recheck")
  /\ UNCHANGED <<main, stopping, cronOn>>
TryLockWaiting(r) ==
  /\ pc[r] = "try"
  /\ ~lock
  /\ lock' = TRUE
  /\ Goto(r, "recheck")
  /\ UNCHANGED <<main, stopping, cronOn>>

\* The lock is taken if it is free; else the firing is skipped.
TryLock(r) ==
  /\ pc[r] = "try"
  /\ lock' = TRUE
  /\ Goto(r, IF lock THEN "idle" ELSE "recheck")
  /\ UNCHANGED <<main, stopping, cronOn>>

\* Mutants of Recheck: the flag is not tested again, and the lock is kept
\* when it is found set.
RecheckSkipped(r) ==
  /\ pc[r] = "recheck"
  /\ Goto(r, "run")
  /\ UNCHANGED <<main, stopping, cronOn, lock>>
RecheckKeepingLock(r) ==
  /\ pc[r] = "recheck"
  /\ Goto(r, IF stopping THEN "idle" ELSE "run")
  /\ UNCHANGED <<main, stopping, cronOn, lock>>

\* The second test of the flag: the job runs, or the lock is given back.
Recheck(r) ==
  /\ pc[r] = "recheck"
  /\ IF stopping
       THEN lock' = FALSE /\ Goto(r, "idle")
       ELSE UNCHANGED lock /\ Goto(r, "run")
  /\ UNCHANGED <<main, stopping, cronOn>>

\* The job returns, with an error or without, and the lock is given back.
JobDone(r) ==
  /\ pc[r] = "run"
  /\ lock' = FALSE
  /\ Goto(r, "idle")
  /\ UNCHANGED <<main, stopping, cronOn>>

RunStep(r) == CheckStopping(r) \/ TryLock(r) \/ Recheck(r) \/ JobDone(r)

-----------------------------------------------------------------------------
(* The main goroutine                                                      *)

\* Start registers the schedules, starts cron and launches a poll.
Start ==
  /\ main = "new"
  /\ main' = "running"
  /\ cronOn' = TRUE
  /\ Goto(StartupRun, "enter")
  /\ UNCHANGED <<stopping, lock>>

\* SIGINT or SIGTERM: Stop begins by setting the flag.
SetStopping ==
  /\ main = "running"
  /\ stopping' = TRUE
  /\ main' = "stopping"
  /\ UNCHANGED <<cronOn, lock, pc>>

\* cron.Stop: no callback starts any more.
StopCron ==
  /\ main = "stopping"
  /\ cronOn' = FALSE
  /\ main' = "draining"
  /\ UNCHANGED <<stopping, lock, pc>>

\* The context cron.Stop returned is done: every callback has returned.
CronDrained ==
  /\ main = "draining"
  /\ \A r \in CronRuns : pc[r] = "idle"
  /\ main' = "locking"
  /\ UNCHANGED <<stopping, cronOn, lock, pc>>

\* Mutant of AcquireLock: the lock is not waited for.
AcquireLockHeld ==
  /\ main = "locking"
  /\ lock' = TRUE
  /\ main' = "locked"
  /\ UNCHANGED <<stopping, cronOn, pc>>

\* Stop takes the lock, so the startup poll does not hold it.
AcquireLock ==
  /\ main = "locking"
  /\ ~lock
  /\ lock' = TRUE
  /\ main' = "locked"
  /\ UNCHANGED <<stopping, cronOn, pc>>

\* Stop gives the lock back and returns; main closes the database and exits.
ReleaseLock ==
  /\ main = "locked"
  /\ lock' = FALSE
  /\ main' = "stopped"
  /\ UNCHANGED <<stopping, cronOn, pc>>

\* The context of Stop is done first: Stop returns its error.  The context
\* that digestd itself gives is never done.
StopTimesOut ==
  /\ main \in {"draining", "locking"}
  /\ main' = "cancelled"
  /\ UNCHANGED <<stopping, cronOn, lock, pc>>

StopStep == StopCron \/ CronDrained \/ AcquireLock \/ ReleaseLock

-----------------------------------------------------------------------------
Next ==
  \/ \E r \in CronRuns : Fire(r)
  \/ \E r \in Runs : RunStep(r)
  \/ Start
  \/ SetStopping
  \/ StopStep
  \/ StopTimesOut

Spec == Init /\ [][Next]_vars

\* Every goroutine is scheduled and every job returns: each of its calls has a
\* timeout of its own.  Nothing makes cron fire, a signal come or
\* the context of Stop end.
FairSpec ==
  /\ Spec
  /\ \A r \in Runs : WF_vars(RunStep(r))
  /\ WF_vars(StopStep)

-----------------------------------------------------------------------------
(* Properties                                                              *)

\* The goroutines that hold the run lock.
Holders == { r \in Runs : pc[r] \in {"recheck", "run"} }

\* Two jobs never run at once: a poll and a digest, or two polls of which one
\* is the startup poll.
MutualExclusion ==
  \A r, s \in Runs : pc[r] = "run" /\ pc[s] = "run" => r = s

\* After Stop returns nil, no job is running: the flag is tested again under
\* the lock, so a goroutine that passed the first test before Stop cannot
\* start its job on a closed database.
QuietAfterStop == main = "stopped" => \A r \in Runs : pc[r] # "run"

\* The lock never leaks: it is taken exactly when one goroutine is between
\* taking and giving it back.
LockHasOneHolder ==
  /\ lock <=> Holders # {} \/ main = "locked"
  /\ main = "locked" => Holders = {}
  /\ \A r, s \in Holders : r = s

\* What the steps preserve together: nothing happens before Start, the flag
\* is up from the moment Stop is
\* called, and once Stop has taken the lock no job is running and none can
\* begin, for whoever takes the lock later finds the flag up.
GateInv ==
  /\ TypeOK
  /\ LockHasOneHolder
  /\ main = "new" => ~cronOn /\ ~lock /\ pc = [r \in Runs |-> "idle"]
  /\ stopping <=> main \notin {"new", "running"}
  /\ main \in {"locked", "stopped"} => \A r \in Runs : pc[r] # "run"

\* The scheduler as the gate it is for the jobs.
Gate == INSTANCE JobGate WITH
  active <- IF \E r \in Runs : pc[r] = "run"
              THEN CHOOSE r \in Runs : pc[r] = "run"
              ELSE NoRun,
  closed <- main = "stopped"

\* Start, Stop and withLock implement the gate.
ImplementsJobGate == Gate!Spec

\* Stop returns once the job that is running has: the lock it waits for is
\* given back on every path.
StopReturns == main = "stopping" ~> main \in {"stopped", "cancelled"}

\* A firing never waits for another one: it runs, or it is over.
FiringsReturn == \A r \in Runs : pc[r] = "enter" ~> pc[r] \in {"idle", "run"}
=============================================================================
