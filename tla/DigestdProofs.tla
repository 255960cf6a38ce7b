--------------------------- MODULE DigestdProofs ---------------------------
(***************************************************************************)
(* Proofs about the daemon, for any firings, windows, clock and rows: that *)
(* the run lock keeps polls out of a digest, so that the daemon implements *)
(* WeeklyDigest through every signal, kill and restart, and with it what   *)
(* WeeklyDigestProofs shows of the digest.                                 *)
(***************************************************************************)
EXTENDS Digestd, TLAPS

GateProofs == INSTANCE SchedulerProofs
DigestProofs == INSTANCE WeeklyDigestProofs WITH pc <- job

\* A firing that called runDigest holds the run lock until its job is over, and
\* no job is under way without one.
CalledInv ==
  /\ called \subseteq { r \in DigestRuns : pc[r] = "run" }
  /\ job \in {"idle", "send", "complete"}
  /\ job # "idle" => called # {}

\* What the steps preserve together: the invariant of the scheduler, which holds
\* through restarts too, and the tie between firings and the job.
DaemonInv == GateProofs!GateInv /\ CalledInv

\* The scheduler assumes of its constants what the daemon does.
LEMMA GateConstants == GateProofs!SchedulerAssumption
  BY DigestdAssumption DEF GateProofs!Runs, GateProofs!CronRuns

\* The digest assumes of its constants what the daemon does.
LEMMA DigestConstants == DigestProofs!WeeklyDigestAssumption
  BY DigestdAssumption

\* The firings have the same names in both instances of the scheduler.
LEMMA SameRuns ==
  /\ Gate!Runs = GateProofs!Runs
  /\ Gate!CronRuns = GateProofs!CronRuns
  BY DEF Gate!Runs, Gate!CronRuns, GateProofs!Runs, GateProofs!CronRuns

-----------------------------------------------------------------------------
(* The scheduler in the daemon                                             *)

\* A firing that cron starts is a step of the scheduler.
LEMMA FireIsGateStep ==
  ASSUME NEW r \in Gate!CronRuns, Gate!Fire(r)
  PROVE  GateProofs!Next
  BY SameRuns DEF Gate!Fire, GateProofs!Fire, Gate!Goto, GateProofs!Goto, GateProofs!Next

\* The steps of withLock before the job are steps of the scheduler.
LEMMA RunIsGateStep ==
  ASSUME NEW r \in Gate!Runs,
         Gate!CheckStopping(r) \/ Gate!TryLock(r) \/ Gate!Recheck(r) \/ Gate!JobDone(r)
  PROVE  GateProofs!Next
<1>1. GateProofs!RunStep(r)
  BY DEF Gate!CheckStopping, Gate!TryLock, Gate!Recheck, Gate!JobDone, Gate!Goto,
         GateProofs!CheckStopping, GateProofs!TryLock, GateProofs!Recheck,
         GateProofs!JobDone, GateProofs!Goto, GateProofs!RunStep
<1> QED
  BY <1>1, SameRuns DEF GateProofs!Next

\* The steps of Start and Stop are steps of the scheduler.
LEMMA MainIsGateStep ==
  ASSUME Gate!Start \/ Gate!SetStopping \/ Gate!StopStep
  PROVE  GateProofs!Next
  BY SameRuns
     DEF Gate!Start, Gate!SetStopping, Gate!StopStep, Gate!StopCron, Gate!CronDrained,
         Gate!AcquireLock, Gate!ReleaseLock, Gate!Goto,
         GateProofs!Start, GateProofs!SetStopping, GateProofs!StopStep,
         GateProofs!StopCron, GateProofs!CronDrained, GateProofs!AcquireLock,
         GateProofs!ReleaseLock, GateProofs!Goto, GateProofs!Next

\* A restart leaves the scheduler as it was before Start.
LEMMA RestartedGate ==
  ASSUME main' = "new", stopping' = FALSE, cronOn' = FALSE, lock' = FALSE,
         pc' = [r \in Gate!Runs |-> "idle"]
  PROVE  GateProofs!GateInv'
  BY GateConstants, SameRuns
     DEF GateProofs!GateInv, GateProofs!TypeOK, GateProofs!LockHasOneHolder,
         GateProofs!Holders, GateProofs!MainSteps, GateProofs!RunSteps

\* The invariant of the scheduler holds in the daemon, whose process ends and
\* begins again.
LEMMA StepKeepsGateInv ==
  ASSUME GateProofs!GateInv, [Next]_vars
  PROVE  GateProofs!GateInv'
<1>1. CASE GateProofs!Next
  BY <1>1, GateProofs!NextGateInv, GateConstants
<1>2. CASE UNCHANGED gateVars
  <2>1. UNCHANGED GateProofs!vars
    BY <1>2 DEF gateVars, GateProofs!vars
  <2> QED
    BY <2>1, GateProofs!NextGateInv, GateConstants
<1>3. CASE Restart
  BY <1>3, RestartedGate DEF Restart
<1>4. ASSUME NEW r \in Gate!CronRuns, Fire(r)
      PROVE  GateProofs!Next
  BY <1>4, FireIsGateStep DEF Fire
<1>5. ASSUME GateStep
      PROVE  GateProofs!Next
  BY <1>5, RunIsGateStep, MainIsGateStep DEF GateStep
<1>6. ASSUME NEW r \in Gate!Runs, JobDone(r)
      PROVE  GateProofs!Next
  BY <1>6, RunIsGateStep DEF JobDone
<1>7. ASSUME \/ \E r \in Gate!Runs, received \in Digest!Dates : PollInserts(r, received)
             \/ \E r \in DigestRuns : CallDigest(r) \/ DigestGoesOn(r)
             \/ Tick
             \/ UNCHANGED vars
      PROVE  UNCHANGED gateVars
  BY <1>7 DEF PollInserts, CallDigest, DigestGoesOn, Tick, vars
<1> QED
  BY <1>1, <1>2, <1>3, <1>4, <1>5, <1>6, <1>7 DEF Next

-----------------------------------------------------------------------------
(* The firings and the job                                                 *)

\* A step of the scheduler that ends no job leaves running firings running.
LEMMA GateStepKeepsRunning ==
  ASSUME GateProofs!GateInv,
         \/ \E r \in Gate!CronRuns : Gate!Fire(r)
         \/ \E r \in Gate!Runs : Gate!CheckStopping(r) \/ Gate!TryLock(r) \/ Gate!Recheck(r)
         \/ Gate!Start \/ Gate!SetStopping \/ Gate!StopStep,
         NEW s \in DigestRuns, pc[s] = "run"
  PROVE  pc'[s] = "run"
<1>1. pc \in [Gate!Runs -> GateProofs!RunSteps] /\ s \in Gate!Runs /\ s # StartupRun
  BY SameRuns, DigestdAssumption
     DEF GateProofs!GateInv, GateProofs!TypeOK, Gate!Runs, Gate!CronRuns
<1> QED
  BY <1>1 DEF Gate!Fire, Gate!CheckStopping, Gate!TryLock, Gate!Recheck, Gate!Start,
              Gate!SetStopping, Gate!StopStep, Gate!StopCron, Gate!CronDrained,
              Gate!AcquireLock, Gate!ReleaseLock, Gate!Goto, Gate!CronRuns, Gate!Runs

\* No path ends a firing in the middle of its job.
LEMMA StepKeepsCalledInv ==
  ASSUME DaemonInv, [Next]_vars
  PROVE  CalledInv'
<1> USE DEF DaemonInv, CalledInv
<1>1. ASSUME NEW r \in Gate!CronRuns, Fire(r)
      PROVE  CalledInv'
  BY <1>1, GateStepKeepsRunning DEF Fire, digestVars
<1>2. CASE GateStep
  BY <1>2, GateStepKeepsRunning DEF GateStep, digestVars
<1>3. ASSUME NEW r \in Gate!Runs, NEW received \in Digest!Dates, PollInserts(r, received)
      PROVE  CalledInv'
  BY <1>3 DEF PollInserts, gateVars, Digest!InsertReceived, Digest!jobVars
<1>4. ASSUME NEW r \in DigestRuns, CallDigest(r)
      PROVE  CalledInv'
  BY <1>4 DEF CallDigest, gateVars, digestVars, Digest!BeginDigest
<1>5. ASSUME NEW r \in DigestRuns, DigestGoesOn(r)
      PROVE  CalledInv'
  BY <1>5 DEF DigestGoesOn, gateVars, Digest!SendDigest, Digest!SendFails,
              Digest!CompleteDigest, Digest!Interrupt, Digest!Settle,
              Digest!GiveUp, Digest!Forget
<1>6. ASSUME NEW r \in Gate!Runs, JobDone(r)
      PROVE  CalledInv'
  <2>1. /\ pc' = [pc EXCEPT ![r] = "idle"]
        /\ called' = called \ {r}
        /\ job' = job
        /\ r \in DigestRuns => job = "idle"
    BY <1>6 DEF JobDone, Gate!JobDone, Gate!Goto, digestVars
  <2>2. pc \in [Gate!Runs -> GateProofs!RunSteps]
    BY SameRuns DEF GateProofs!GateInv, GateProofs!TypeOK
  <2>3. DigestRuns \subseteq Gate!Runs
    BY DEF Gate!Runs, Gate!CronRuns
  <2> QED
    BY <2>1, <2>2, <2>3
<1>7. CASE Restart
  BY <1>7 DEF Restart, digestVars, Digest!Interrupt, Digest!GiveUp, Digest!Forget
<1>8. CASE Tick
  BY <1>8 DEF Tick, gateVars, Digest!Tick, Digest!jobVars
<1>9. CASE UNCHANGED vars
  BY <1>9 DEF vars, gateVars, digestVars
<1> QED
  BY <1>1, <1>2, <1>3, <1>4, <1>5, <1>6, <1>7, <1>8, <1>9 DEF Next

\* Nothing is under way when the process is started.
LEMMA InitDaemonInv == Init => DaemonInv
<1> SUFFICES ASSUME Init
             PROVE  DaemonInv
  OBVIOUS
<1>1. GateProofs!Init
  BY SameRuns DEF Init, Gate!Init, GateProofs!Init
<1>2. GateProofs!GateInv
  BY <1>1, GateProofs!InitGateInv, GateConstants
<1> QED
  BY <1>2 DEF Init, Digest!Init, DaemonInv, CalledInv

\* Signals, kills, firings and jobs, in any order, keep DaemonInv.
THEOREM DaemonInvariant == Spec => []DaemonInv
<1>1. DaemonInv /\ [Next]_vars => DaemonInv'
  BY StepKeepsGateInv, StepKeepsCalledInv DEF DaemonInv
<1> QED
  BY <1>1, InitDaemonInv, PTL DEF Spec

\* Of all that the daemon runs, polls and digests, one job runs at a time, and
\* none once Stop has returned: the gate holds through restarts.
THEOREM DaemonRunsOneJob == Spec => [](Gate!MutualExclusion /\ Gate!QuietAfterStop)
<1>1. DaemonInv => Gate!MutualExclusion /\ Gate!QuietAfterStop
  BY SameRuns
     DEF DaemonInv, GateProofs!GateInv, GateProofs!LockHasOneHolder, GateProofs!Holders,
         Gate!MutualExclusion, Gate!QuietAfterStop
<1> QED
  BY <1>1, DaemonInvariant, PTL

\* The firing whose digest is under way runs, and holds the run lock.
THEOREM DigestHoldsLockHolds == Spec => []DigestHoldsLock
<1>1. DaemonInv => DigestHoldsLock
  BY SameRuns
     DEF DaemonInv, CalledInv, DigestHoldsLock, GateProofs!GateInv,
         GateProofs!LockHasOneHolder, GateProofs!Holders, Gate!Runs, Gate!CronRuns
<1> QED
  BY <1>1, DaemonInvariant, PTL

\* Once Stop has returned nothing of the daemon writes or mails.
THEOREM QuietDatabaseHolds == Spec => QuietDatabase
<1>1. ASSUME DaemonInv, [Next]_vars
      PROVE  [ main = "stopped" => UNCHANGED <<emails, digests, lastDigest, outbox>> ]_vars
  <2> SUFFICES ASSUME main = "stopped"
               PROVE  UNCHANGED <<emails, digests, lastDigest, outbox>>
    OBVIOUS
  <2>1. \A r \in Gate!Runs : pc[r] # "run"
    BY <1>1, SameRuns DEF DaemonInv, GateProofs!GateInv
  <2>2. DigestRuns \subseteq Gate!Runs
    BY DEF Gate!Runs, Gate!CronRuns
  <2>3. called = {}
    BY <1>1, <2>1, <2>2 DEF DaemonInv, CalledInv
  <2>4. job = "idle"
    BY <1>1, <2>3 DEF DaemonInv, CalledInv
  <2> QED
    BY <1>1, <2>1, <2>2, <2>3, <2>4
       DEF Next, Fire, GateStep, PollInserts, CallDigest, DigestGoesOn, JobDone, Restart,
           Tick, Digest!Tick, Digest!durableVars, Digest!historyVars, vars, digestVars
<1> QED
  BY <1>1, DaemonInvariant, PTL DEF Spec, QuietDatabase

-----------------------------------------------------------------------------
(* Implementation of WeeklyDigest                                          *)

\* A poll that inserts a row runs, so no digest does.
LEMMA PollsOutsideDigests ==
  ASSUME DaemonInv, NEW r \in Gate!Runs, r \notin DigestRuns, pc[r] = "run"
  PROVE  job = "idle"
<1> SUFFICES ASSUME job # "idle"
             PROVE  FALSE
  OBVIOUS
<1>1. PICK s \in DigestRuns : pc[s] = "run"
  BY DEF DaemonInv, CalledInv
<1>2. r \in GateProofs!Holders /\ s \in GateProofs!Holders
  BY <1>1, SameRuns DEF GateProofs!Holders, Gate!Runs, Gate!CronRuns
<1> QED
  BY <1>1, <1>2 DEF DaemonInv, GateProofs!GateInv, GateProofs!LockHasOneHolder

\* Every step of the daemon is a step of the digest and its polls or leaves them
\* alone.
LEMMA StepsOfTheDigest ==
  ASSUME DaemonInv, [Next]_vars
  PROVE  [Digest!Next]_(Digest!vars)
<1>0. digestVars' = digestVars => UNCHANGED Digest!vars
  BY DEF digestVars, Digest!vars, Digest!durableVars, Digest!jobVars, Digest!historyVars
<1>1. ASSUME NEW r \in Gate!Runs, NEW received \in Digest!Dates, PollInserts(r, received)
      PROVE  Digest!Ingest(received)
  BY <1>1, PollsOutsideDigests DEF PollInserts, Digest!Ingest
<1>2. CASE \/ \E r \in Gate!CronRuns : Fire(r)
           \/ GateStep
           \/ \E r \in Gate!Runs : JobDone(r)
           \/ UNCHANGED vars
  BY <1>0, <1>2 DEF Fire, GateStep, JobDone, vars
<1>3. CASE \E r \in DigestRuns : CallDigest(r) \/ DigestGoesOn(r)
  BY <1>0, <1>3 DEF CallDigest, DigestGoesOn, Digest!Next
<1>4. CASE Restart
  BY <1>0, <1>4 DEF Restart, Digest!Next
<1>5. CASE Tick
  BY <1>5 DEF Tick, Digest!Next
<1>6. CASE \E r \in Gate!Runs, received \in Digest!Dates : PollInserts(r, received)
  BY <1>1, <1>6 DEF Digest!Next
<1> QED
  BY <1>2, <1>3, <1>4, <1>5, <1>6 DEF Next

\* The run lock is all it takes: the daemon's database, mails and window change
\* as WeeklyDigest says.
THEOREM ImplementsWeeklyDigestHolds == Spec => ImplementsWeeklyDigest
<1>1. Init => Digest!Init
  BY DEF Init
<1>2. DaemonInv /\ [Next]_vars => [Digest!Next]_(Digest!vars)
  BY StepsOfTheDigest
<1> QED
  BY <1>1, <1>2, DaemonInvariant, PTL DEF Spec, ImplementsWeeklyDigest, Digest!Spec

-----------------------------------------------------------------------------
(* What is proved of WeeklyDigest, for the daemon                          *)

\* The operators have the same values in both instances of WeeklyDigest.
LEMMA SameOperators ==
  /\ Digest!Ids(rows) = DigestProofs!Ids(rows)
  /\ Digest!WindowAt(now) = DigestProofs!WindowAt(now)
  /\ \A start, end : Digest!PendingForDigest(emails, start, end)
                       = DigestProofs!PendingForDigest(emails, start, end)
  /\ \A ids, at : Digest!MarkDigested(emails, ids, at)
                    = DigestProofs!MarkDigested(emails, ids, at)
  /\ Digest!NoWindow = DigestProofs!NoWindow
  /\ Digest!Dates = DigestProofs!Dates
  /\ \A S : Digest!Cardinality(S) = DigestProofs!Cardinality(S)
<1>1. Digest!Ids(rows) = DigestProofs!Ids(rows)
  BY DEF Digest!Ids, DigestProofs!Ids
<1>2. Digest!WindowAt(now) = DigestProofs!WindowAt(now)
  BY DEF Digest!WindowAt, DigestProofs!WindowAt
<1>3. \A start, end : Digest!PendingForDigest(emails, start, end)
                        = DigestProofs!PendingForDigest(emails, start, end)
  BY Zenon DEF Digest!PendingForDigest, DigestProofs!PendingForDigest
<1>4. \A ids, at : Digest!MarkDigested(emails, ids, at)
                     = DigestProofs!MarkDigested(emails, ids, at)
  BY Zenon DEF Digest!MarkDigested, DigestProofs!MarkDigested
<1>5. Digest!NoWindow = DigestProofs!NoWindow
  BY DEF Digest!NoWindow, DigestProofs!NoWindow
<1>6. \A S : Digest!Cardinality(S) = DigestProofs!Cardinality(S)
  BY DEF Digest!Cardinality, DigestProofs!Cardinality
<1>7. Digest!Dates = DigestProofs!Dates
  BY DEF Digest!Dates, DigestProofs!Dates
<1> QED
  BY <1>1, <1>2, <1>3, <1>4, <1>5, <1>6, <1>7

\* A step is the same in both instances of WeeklyDigest.
LEMMA SameSteps ==
  [Digest!Next]_(Digest!vars) => [DigestProofs!Next]_(DigestProofs!vars)
<1> USE DEF Digest!durableVars, DigestProofs!durableVars, Digest!jobVars,
            DigestProofs!jobVars, Digest!historyVars, DigestProofs!historyVars
<1>1. Digest!Tick => DigestProofs!Tick
  BY DEF Digest!Tick, DigestProofs!Tick
<1>2. ASSUME NEW received, Digest!Ingest(received)
      PROVE  DigestProofs!Ingest(received)
  BY <1>2, SameOperators
     DEF Digest!Ingest, DigestProofs!Ingest, Digest!InsertReceived,
         DigestProofs!InsertReceived
<1>3. Digest!BeginDigest => DigestProofs!BeginDigest
  BY SameOperators DEF Digest!BeginDigest, DigestProofs!BeginDigest
<1>4. Digest!Deliver => DigestProofs!Deliver
  BY SameOperators DEF Digest!Deliver, DigestProofs!Deliver
<1>5. Digest!Forget => DigestProofs!Forget
  BY SameOperators DEF Digest!Forget, DigestProofs!Forget
<1>6. /\ Digest!Settle => DigestProofs!Settle
      /\ Digest!GiveUp => DigestProofs!GiveUp
  BY <1>5, SameOperators
     DEF Digest!Settle, DigestProofs!Settle, Digest!GiveUp, DigestProofs!GiveUp
<1>7. Digest!SendDigest => DigestProofs!SendDigest
  BY <1>4 DEF Digest!SendDigest, DigestProofs!SendDigest
<1>8. Digest!SendFails => DigestProofs!SendFails
  BY <1>4, <1>6 DEF Digest!SendFails, DigestProofs!SendFails
<1>9. Digest!CompleteDigest => DigestProofs!CompleteDigest
  <2> SUFFICES ASSUME Digest!CompleteDigest
               PROVE  DigestProofs!CompleteDigest
    OBVIOUS
  <2>1. emails' = DigestProofs!MarkDigested(emails, DigestProofs!Ids(rows), window.end)
    BY SameOperators DEF Digest!CompleteDigest
  <2> QED
    BY <1>6, <2>1, SameOperators DEF Digest!CompleteDigest, DigestProofs!CompleteDigest
<1>10. Digest!Interrupt => DigestProofs!Interrupt
  BY <1>6 DEF Digest!Interrupt, DigestProofs!Interrupt
<1>11. UNCHANGED Digest!vars => UNCHANGED DigestProofs!vars
  BY DEF Digest!vars, DigestProofs!vars
<1>12. Digest!Next => DigestProofs!Next
  BY <1>1, <1>2, <1>3, <1>7, <1>8, <1>9, <1>10, SameOperators
     DEF Digest!Next, DigestProofs!Next
<1> QED
  BY <1>11, <1>12

\* Every behaviour of the daemon is one of the digest and its polls.
LEMMA DaemonIsDigest == Spec => DigestProofs!Spec
<1>1. Init => DigestProofs!Init
  BY SameOperators DEF Init, Digest!Init, DigestProofs!Init
<1>2. DaemonInv /\ [Next]_vars => [DigestProofs!Next]_(DigestProofs!vars)
  BY StepsOfTheDigest, SameSteps
<1> QED
  BY <1>1, <1>2, DaemonInvariant, PTL DEF Spec, DigestProofs!Spec

\* What the owner is promised of the digests holds of the daemon, through polls,
\* signals, kills and restarts: rows are stamped when they were mailed, records
\* match mails, a completed digest is not mailed again and a failed one is.
THEOREM DaemonDigestsHold ==
  Spec => [](/\ Digest!DigestedWasMailed
             /\ Digest!RecordsMatchMails
             /\ Digest!NothingMailedAfterCompletion
             /\ Digest!OwedRowsComeBack)
<1>1. DigestProofs!DigestedWasMailed => Digest!DigestedWasMailed
  BY DEF DigestProofs!DigestedWasMailed, Digest!DigestedWasMailed
<1>2. DigestProofs!RecordsMatchMails => Digest!RecordsMatchMails
  BY SameOperators DEF DigestProofs!RecordsMatchMails, Digest!RecordsMatchMails
<1>3. DigestProofs!NothingMailedAfterCompletion => Digest!NothingMailedAfterCompletion
  BY DEF DigestProofs!NothingMailedAfterCompletion, Digest!NothingMailedAfterCompletion
<1>4. DigestProofs!OwedRowsComeBack => Digest!OwedRowsComeBack
  BY SameOperators DEF DigestProofs!OwedRowsComeBack, Digest!OwedRowsComeBack
<1> QED
  BY <1>1, <1>2, <1>3, <1>4, DaemonIsDigest, DigestConstants,
     DigestProofs!DigestedWasMailedHolds, DigestProofs!RecordsMatchMailsHolds,
     DigestProofs!NothingMailedAfterCompletionHolds, DigestProofs!OwedRowsComeBackHolds, PTL

\* Nothing the daemon does moves the window past a row that it did not mail.
THEOREM DaemonLeavesNoRow == Spec => Digest!NoRowLeftBehind
<1>1. DaemonInv /\ DigestProofs!DigestInv /\ [Next]_vars =>
        [ lastDigest # Never =>
            \A r \in emails : Digest!Ahead(r) =>
              \E s \in emails' :
                /\ s.id = r.id
                /\ s.digested # Never \/ lastDigest' <= s.received ]_(Digest!durableVars)
  <2> SUFFICES ASSUME DaemonInv, DigestProofs!DigestInv, [Next]_vars, lastDigest # Never,
                      NEW r \in emails, Digest!Ahead(r)
               PROVE  \E s \in emails' :
                        /\ s.id = r.id
                        /\ s.digested # Never \/ lastDigest' <= s.received
    OBVIOUS
  <2>1. [DigestProofs!Next]_(DigestProofs!vars)
    BY StepsOfTheDigest, SameSteps
  <2>2. DigestProofs!Ahead(r)
    BY DEF Digest!Ahead, DigestProofs!Ahead
  <2> QED
    BY <2>1, <2>2, DigestProofs!StepLeavesNoRow, DigestConstants
<1> QED
  BY <1>1, DaemonInvariant, DaemonIsDigest, DigestProofs!DigestInvariant, DigestConstants, PTL
     DEF Spec, Digest!NoRowLeftBehind

=============================================================================
