------------------------------ MODULE Digestd ------------------------------
(***************************************************************************)
(* The daemon (cmd/digestd): the goroutines of Scheduler, running the jobs *)
(* that share the database.  A poll is the rows it inserts, a digest the   *)
(* job of WeeklyDigest.  The process may be told to stop or be killed at   *)
(* any point, and is started again on the database it left.                *)
(*                                                                         *)
(* WeeklyDigest takes for granted that no poll inserts a row during a      *)
(* digest.  Here nothing keeps a poll from it but the run lock.            *)
(***************************************************************************)
EXTENDS Integers, FiniteSets

CONSTANTS
  PollRuns, DigestRuns, StartupRun, NoRun,      \* of Scheduler
  NoID, Never, Week, MaxTime, MaxEmails         \* of WeeklyDigest

ASSUME DigestdAssumption ==
  /\ StartupRun \notin PollRuns \union DigestRuns
  /\ NoRun \notin PollRuns \union DigestRuns \union {StartupRun}
  /\ Week \in Nat \ {0}
  /\ MaxTime \in Nat
  /\ MaxEmails \in Nat
  /\ Never \notin Int

VARIABLES
  \* The process: the variables of Scheduler.
  main, stopping, cronOn, lock, pc,
  called,       \* the digest firings that called runDigest
  \* The clock, the database, the digest job and the history of WeeklyDigest.
  now, due, emails, digests, lastDigest,
  job,          \* the next effect of runDigest
  window, rows, outbox, owed, settled

gateVars   == <<main, stopping, cronOn, lock, pc>>
digestVars == <<now, due, emails, digests, lastDigest, job, window, rows,
                outbox, owed, settled>>
vars       == <<gateVars, called, digestVars>>

Gate == INSTANCE Scheduler
Digest == INSTANCE WeeklyDigest WITH pc <- job

Init ==
  /\ Gate!Init
  /\ called = {}
  /\ Digest!Init

-----------------------------------------------------------------------------
(* The goroutines                                                          *)

Unbegun == { r \in DigestRuns : pc[r] # "idle" /\ r \notin called }

\* Cron starts a callback: of the poll schedule at any time, of the digest
\* schedule when it is due.
Fire(r) ==
  /\ r \in DigestRuns => due
  /\ Gate!Fire(r)
  /\ UNCHANGED <<called, digestVars>>

\* The steps of withLock before the job, and those of Start and Stop.  main
\* gives Stop a context that is never done.
GateStep ==
  /\ \/ \E r \in Gate!Runs : Gate!CheckStopping(r) \/ Gate!TryLock(r) \/ Gate!Recheck(r)
     \/ Gate!Start
     \/ Gate!SetStopping
     \/ Gate!StopStep
  /\ UNCHANGED <<called, digestVars>>

\* A poll inserts a row.
PollInserts(r, received) ==
  /\ r \notin DigestRuns
  /\ pc[r] = "run"
  /\ Digest!InsertReceived(received)
  /\ UNCHANGED <<gateVars, called>>

\* The digest job begins.  If it cannot read its window or its rows it is over.
CallDigest(r) ==
  /\ r \in DigestRuns \ called
  /\ pc[r] = "run"
  /\ called' = called \union {r}
  /\ Digest!BeginDigest \/ UNCHANGED digestVars
  /\ UNCHANGED gateVars

\* The digest job goes on: mail, transaction, or an error of either.
DigestGoesOn(r) ==
  /\ r \in called
  /\ \/ Digest!SendDigest
     \/ Digest!SendFails
     \/ Digest!CompleteDigest
     \/ Digest!Interrupt
  /\ UNCHANGED <<gateVars, called>>

\* Mutant of JobDone: the job is started and not waited for.
JobDoneEarly(r) ==
  /\ r \in DigestRuns => r \in called
  /\ Gate!JobDone(r)
  /\ called' = called \ {r}
  /\ UNCHANGED digestVars

\* The job returns and the lock is given back.
JobDone(r) ==
  /\ r \in DigestRuns => r \in called /\ job = "idle"
  /\ Gate!JobDone(r)
  /\ called' = called \ {r}
  /\ UNCHANGED digestVars

-----------------------------------------------------------------------------
(* The process and the clock                                               *)

\* The process is killed, or ends after Stop, and is started again.
Restart ==
  /\ main # "new"
  /\ main' = "new"
  /\ stopping' = FALSE
  /\ cronOn' = FALSE
  /\ lock' = FALSE
  /\ pc' = [r \in Gate!Runs |-> "idle"]
  /\ called' = {}
  /\ IF job = "idle" THEN UNCHANGED digestVars ELSE Digest!Interrupt

\* Cron fires a schedule once a minute, or with `@every' once a second, at most:
\* a digest that has fired calls runDigest, or is skipped, before it is due
\* again, and a second one called in the same second has no effect here.
Tick ==
  /\ Unbegun = {}
  /\ Digest!Tick
  /\ UNCHANGED <<gateVars, called>>

Next ==
  \/ \E r \in Gate!CronRuns : Fire(r)
  \/ GateStep
  \/ \E r \in Gate!Runs, received \in Digest!Dates : PollInserts(r, received)
  \/ \E r \in DigestRuns : CallDigest(r) \/ DigestGoesOn(r)
  \/ \E r \in Gate!Runs : JobDone(r)
  \/ Restart
  \/ Tick

Spec == Init /\ [][Next]_vars

-----------------------------------------------------------------------------
(* Properties                                                              *)

\* The run lock is what WeeklyDigest takes for granted: with polls, digests,
\* signals and kills in any order, the database, the mails and the window
\* change as that module says, so what it shows holds of the daemon.
ImplementsWeeklyDigest == Digest!Spec

\* main closes the database once Stop has returned: from then until the process
\* is started again no job touches it and no mail goes out.
QuietDatabase ==
  [][ main = "stopped" =>
        UNCHANGED <<emails, digests, lastDigest, outbox>> ]_vars

\* The digest under way belongs to one firing, which holds the run lock: no
\* path gives the lock back, or ends a firing, in the middle of it.
DigestHoldsLock ==
  job # "idle" => lock /\ \E r \in called : pc[r] = "run"
=============================================================================
