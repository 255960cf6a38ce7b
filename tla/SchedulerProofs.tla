-------------------------- MODULE SchedulerProofs --------------------------
(***************************************************************************)
(* Proofs about Scheduler, for any number of firings: the type invariant,  *)
(* mutual exclusion, quiet after Stop, and that the scheduler implements   *)
(* the gate of JobGate.  All rest on GateInv, which is inductive.          *)
(***************************************************************************)
EXTENDS Scheduler, TLAPS

\* GateInv holds of the daemon before Start.
LEMMA InitGateInv == Init => GateInv
  BY SchedulerAssumption
     DEF Init, GateInv, TypeOK, LockHasOneHolder, Holders, Runs, MainSteps, RunSteps

\* Every step of a firing, of the main goroutine and of cron preserves GateInv.
LEMMA NextGateInv == GateInv /\ [Next]_vars => GateInv'
<1> SUFFICES ASSUME GateInv, [Next]_vars
             PROVE  GateInv'
  OBVIOUS
<1> USE SchedulerAssumption
    DEF GateInv, TypeOK, LockHasOneHolder, Holders, Runs, CronRuns, MainSteps,
        RunSteps, Goto
<1>1. ASSUME NEW r \in CronRuns, Fire(r)
      PROVE  GateInv'
  BY <1>1 DEF Fire
<1>2. ASSUME NEW r \in Runs, CheckStopping(r)
      PROVE  GateInv'
  BY <1>2 DEF CheckStopping
<1>3. ASSUME NEW r \in Runs, TryLock(r)
      PROVE  GateInv'
  BY <1>3 DEF TryLock
<1>4. ASSUME NEW r \in Runs, Recheck(r)
      PROVE  GateInv'
  <2>1. lock /\ main # "locked" /\ pc[r] = "recheck"
    BY <1>4 DEF Recheck
  <2>2. CASE stopping
    <3>1. pc' = [pc EXCEPT ![r] = "idle"] /\ ~lock'
      BY <1>4, <2>2 DEF Recheck
    <3>2. Holders' = {}
      BY <2>1, <3>1
    <3> QED
      BY <1>4, <2>1, <2>2, <3>1, <3>2 DEF Recheck
  <2>3. CASE ~stopping
    BY <1>4, <2>1, <2>3 DEF Recheck
  <2> QED
    BY <2>2, <2>3
<1>5. ASSUME NEW r \in Runs, JobDone(r)
      PROVE  GateInv'
  <2>1. pc' = [pc EXCEPT ![r] = "idle"] /\ ~lock' /\ pc[r] = "run"
    BY <1>5 DEF JobDone
  <2>2. Holders' = {}
    BY <2>1
  <2> QED
    BY <1>5, <2>1, <2>2 DEF JobDone
<1>6. CASE Start
  BY <1>6 DEF Start
<1>7. CASE SetStopping
  BY <1>7 DEF SetStopping
<1>8. CASE StopCron
  BY <1>8 DEF StopCron
<1>9. CASE CronDrained
  BY <1>9 DEF CronDrained
<1>10. CASE AcquireLock
  BY <1>10 DEF AcquireLock
<1>11. CASE ReleaseLock
  BY <1>11 DEF ReleaseLock
<1>12. CASE StopTimesOut
  BY <1>12 DEF StopTimesOut
<1>13. CASE UNCHANGED vars
  BY <1>13 DEF vars
<1> QED
  BY <1>1, <1>2, <1>3, <1>4, <1>5, <1>6, <1>7, <1>8, <1>9, <1>10, <1>11, <1>12,
     <1>13 DEF Next, RunStep, StopStep

\* withLock, Start and Stop keep GateInv whatever their interleaving.
THEOREM GateInvariant == Spec => []GateInv
  BY InitGateInv, NextGateInv, PTL DEF Spec

\* withLock runs one job at a time.
THEOREM MutualExclusionHolds == Spec => []MutualExclusion
<1>1. GateInv => MutualExclusion
  BY DEF GateInv, LockHasOneHolder, Holders, MutualExclusion
<1> QED
  BY <1>1, GateInvariant, PTL

\* No job runs after Stop has returned nil.
THEOREM QuietAfterStopHolds == Spec => []QuietAfterStop
<1>1. GateInv => QuietAfterStop
  BY DEF GateInv, QuietAfterStop
<1> QED
  BY <1>1, GateInvariant, PTL

-----------------------------------------------------------------------------
(* Implementation of JobGate                                               *)

\* The firing that runs a job, as the gate sees it.
Active ==
  IF \E r \in Runs : pc[r] = "run"
    THEN CHOOSE r \in Runs : pc[r] = "run"
    ELSE NoRun

\* There is one running firing at most, so it is the active one.
LEMMA ActiveRun ==
  ASSUME GateInv, NEW r \in Runs, pc[r] = "run"
  PROVE  Active = r
  BY DEF Active, GateInv, LockHasOneHolder, Holders

\* Without a running firing nothing is active.
LEMMA NoActiveRun ==
  ASSUME \A r \in Runs : pc[r] # "run"
  PROVE  Active = NoRun
  BY DEF Active

\* A step that leaves alone which firings run, leaves the active one alone.
LEMMA SameActive ==
  ASSUME GateInv, GateInv', \A r \in Runs : pc'[r] = "run" <=> pc[r] = "run"
  PROVE  Active' = Active
<1>1. CASE \E r \in Runs : pc[r] = "run"
  <2>1. PICK r \in Runs : pc[r] = "run"
    BY <1>1
  <2>2. Active = r
    BY <2>1, ActiveRun
  <2>3. Active' = r
    BY <2>1 DEF Active, GateInv, LockHasOneHolder, Holders
  <2> QED
    BY <2>2, <2>3
<1>2. CASE \A r \in Runs : pc[r] # "run"
  BY <1>2 DEF Active
<1> QED
  BY <1>1, <1>2

\* Every step is a step of the gate or leaves it alone.
LEMMA StepsOfTheGate ==
  ASSUME GateInv, GateInv', [Next]_vars
  PROVE  [Gate!Next]_(Gate!vars)
<1> USE SchedulerAssumption
<1> DEFINE SameRuns == \A r \in Runs : pc'[r] = "run" <=> pc[r] = "run"
           Closed == main = "stopped"
<1>0. Gate!vars = <<Active, Closed>>
  BY DEF Gate!vars, Active
<1>1. ASSUME SameRuns, Closed' = Closed
      PROVE  UNCHANGED Gate!vars
  <2>1. Active' = Active
    BY <1>1, SameActive
  <2> QED
    BY <2>1, <1>1 DEF Gate!vars, Active
<1>2. ASSUME NEW r \in Runs, Recheck(r), ~stopping
      PROVE  Gate!Begin(r)
  <2>1. pc' = [pc EXCEPT ![r] = "run"] /\ main' = main /\ pc[r] = "recheck"
    BY <1>2 DEF Recheck, Goto
  <2>2. pc'[r] = "run"
    BY <2>1 DEF GateInv, TypeOK
  <2>3. \A q \in Runs : pc[q] # "run"
    BY <2>1 DEF GateInv, LockHasOneHolder, Holders
  <2>4. Active = NoRun
    BY <2>3, NoActiveRun
  <2>5. Active' = r
    BY <2>2 DEF Active, GateInv, LockHasOneHolder, Holders
  <2>6. main # "stopped"
    BY <1>2 DEF GateInv
  <2> QED
    BY <2>1, <2>4, <2>5, <2>6 DEF Gate!Begin, Active
<1>3. ASSUME NEW r \in Runs, JobDone(r)
      PROVE  Gate!End
  <2>1. pc' = [pc EXCEPT ![r] = "idle"] /\ main' = main /\ pc[r] = "run"
    BY <1>3 DEF JobDone, Goto
  <2>2. Active = r
    BY <2>1, ActiveRun
  <2>3. \A q \in Runs : pc'[q] # "run"
    BY <2>1 DEF GateInv, TypeOK, LockHasOneHolder, Holders
  <2>4. Active' = NoRun
    BY <2>3 DEF Active
  <2>5. r # NoRun
    OBVIOUS
  <2> QED
    BY <2>1, <2>2, <2>4, <2>5 DEF Gate!End, Active
<1>4. CASE ReleaseLock
  <2>1. main = "locked" /\ main' = "stopped" /\ pc' = pc
    BY <1>4 DEF ReleaseLock
  <2>2. \A q \in Runs : pc[q] # "run"
    BY <2>1 DEF GateInv
  <2>3. Active = NoRun
    BY <2>2, NoActiveRun
  <2>4. Active' = NoRun
    BY <2>1, <2>2 DEF Active
  <2> QED
    BY <2>1, <2>3, <2>4 DEF Gate!Next, Gate!Close, Active
<1>5. ASSUME NEW r \in Runs, Fire(r) \/ CheckStopping(r) \/ TryLock(r)
      PROVE  SameRuns /\ Closed' = Closed
  BY <1>5 DEF Fire, CheckStopping, TryLock, Goto, GateInv, TypeOK
<1>6. ASSUME NEW r \in Runs, Recheck(r), stopping
      PROVE  SameRuns /\ Closed' = Closed
  BY <1>6 DEF Recheck, Goto, GateInv, TypeOK
<1>7. ASSUME Start
      PROVE  SameRuns /\ Closed' = Closed
  BY <1>7 DEF Start, Goto, GateInv, TypeOK, Runs
<1>8. ASSUME SetStopping \/ StopCron \/ CronDrained \/ AcquireLock \/ StopTimesOut
      PROVE  SameRuns /\ Closed' = Closed
  BY <1>8 DEF SetStopping, StopCron, CronDrained, AcquireLock, StopTimesOut
<1>9. ASSUME UNCHANGED vars
      PROVE  SameRuns /\ Closed' = Closed
  BY <1>9 DEF vars
<1> QED
  BY <1>1, <1>2, <1>3, <1>4, <1>5, <1>6, <1>7, <1>8, <1>9
     DEF Next, RunStep, StopStep, Runs, Gate!Next

\* Start, Stop and withLock implement the gate the jobs rely on.
THEOREM SchedulerImplementsJobGate == Spec => ImplementsJobGate
<1>1. Init => Gate!Init
  BY DEF Init, Gate!Init
<1>2. GateInv /\ GateInv' /\ [Next]_vars => [Gate!Next]_(Gate!vars)
  BY StepsOfTheGate
<1> QED
  BY <1>1, <1>2, GateInvariant, PTL DEF Spec, ImplementsJobGate, Gate!Spec

-----------------------------------------------------------------------------
(* What Stop waits for                                                     *)

\* Steps a firing has before it.
StepsLeft(r) ==
  CASE pc[r] = "idle"    -> 0
    [] pc[r] = "run"     -> 1
    [] pc[r] = "recheck" -> 2
    [] pc[r] = "try"     -> 3
    [] pc[r] = "enter"   -> 4

\* Once Stop has stopped cron, or has ended, cron is off.
CronInv == main \in {"running", "stopping"} \/ ~cronOn

\* Every step keeps CronInv.
LEMMA CronInvariant == Spec => []CronInv
<1>1. Init => CronInv
  BY DEF Init, CronInv
<1>2. CronInv /\ [Next]_vars => CronInv'
  BY DEF CronInv, Next, vars, Fire, RunStep, CheckStopping, TryLock, Recheck, JobDone, Goto,
         Start, SetStopping, StopStep, StopCron, CronDrained, AcquireLock, ReleaseLock,
         StopTimesOut
<1> QED
  BY <1>1, <1>2, PTL DEF Spec

\* What Stop waits for only gets less: from the step that stops cron, a firing
\* that moves has fewer steps left, and none begins.
THEOREM StopWaitsForLess ==
  Spec => [][ main \notin {"new", "running", "stopping"} =>
                \A r \in Runs : pc'[r] = pc[r] \/ StepsLeft(r)' < StepsLeft(r) ]_vars
<1>1. ASSUME TypeOK, CronInv, [Next]_vars, main \notin {"new", "running", "stopping"},
             NEW r \in Runs
      PROVE  pc'[r] = pc[r] \/ StepsLeft(r)' < StepsLeft(r)
  <2>1. pc \in [Runs -> RunSteps] /\ ~cronOn
    BY <1>1 DEF TypeOK, CronInv
  <2>2. ASSUME NEW s \in Runs, RunStep(s), pc'[r] # pc[r]
        PROVE  StepsLeft(r)' < StepsLeft(r)
    <3>1. r = s
      BY <2>1, <2>2 DEF RunStep, CheckStopping, TryLock, Recheck, JobDone, Goto
    <3>2. CASE pc[r] = "enter" /\ pc'[r] \in {"idle", "try"}
      BY <3>2 DEF StepsLeft
    <3>3. CASE pc[r] = "try" /\ pc'[r] \in {"idle", "recheck"}
      BY <3>3 DEF StepsLeft
    <3>4. CASE pc[r] = "recheck" /\ pc'[r] \in {"idle", "run"}
      BY <3>4 DEF StepsLeft
    <3>5. CASE pc[r] = "run" /\ pc'[r] = "idle"
      BY <3>5 DEF StepsLeft
    <3> QED
      BY <2>1, <2>2, <3>1, <3>2, <3>3, <3>4, <3>5
         DEF RunStep, CheckStopping, TryLock, Recheck, JobDone, Goto
  <2>3. ASSUME ~\E s \in Runs : RunStep(s)
        PROVE  pc' = pc
    BY <1>1, <2>1, <2>3
       DEF Next, vars, Fire, Start, SetStopping, StopStep, StopCron, CronDrained,
           AcquireLock, ReleaseLock, StopTimesOut
  <2> QED
    BY <2>2, <2>3
<1>2. GateInv => TypeOK
  BY DEF GateInv
<1>3. CronInv /\ TypeOK /\ [Next]_vars =>
        [ main \notin {"new", "running", "stopping"} =>
            \A r \in Runs : pc'[r] = pc[r] \/ StepsLeft(r)' < StepsLeft(r) ]_vars
  BY <1>1
<1> QED
  BY <1>2, <1>3, CronInvariant, GateInvariant, PTL DEF Spec

\* Stop waits for nobody who waits: while it wants the lock, the lock is free or
\* a firing between taking it and giving it back has its next step to take,
\* which asks for nothing.
THEOREM StopWaitsForARunner ==
  Spec => [](main = "locking" /\ lock => \E r \in Runs : pc[r] \in {"recheck", "run"})
<1>1. GateInv => (main = "locking" /\ lock => \E r \in Runs : pc[r] \in {"recheck", "run"})
  BY DEF GateInv, LockHasOneHolder, Holders
<1> QED
  BY <1>1, GateInvariant, PTL

=============================================================================
