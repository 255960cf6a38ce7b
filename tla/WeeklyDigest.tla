---------------------------- MODULE WeeklyDigest ----------------------------
(***************************************************************************)
(* The digest job (scheduler.runDigest with the digest half of Store and   *)
(* the Mailer), against a clock and the rows that polls insert.            *)
(*                                                                         *)
(* The job reads a window of undigested rows, mails them, and completes    *)
(* the digest in one transaction: rows stamped, digest recorded, window    *)
(* moved.  The mail and the transaction cannot be atomic together: either  *)
(* may fail, and the daemon may die, after the other is done.              *)
(*                                                                         *)
(* Times are whole seconds, the precision formatTime stores.  A row's      *)
(* `received' is the Date header of the message, which may lie in the past *)
(* or in the future of the poll that inserts it.                           *)
(***************************************************************************)
EXTENDS Integers, FiniteSets, Store

CONSTANTS
  Week,         \* the length of the first window
  MaxTime,      \* bound: the clock stops here
  MaxEmails     \* bound: rows inserted in all

ASSUME WeeklyDigestAssumption ==
  /\ Week \in Nat \ {0}
  /\ MaxTime \in Nat
  /\ MaxEmails \in Nat
  /\ Never \notin Int

VARIABLES
  now,          \* the clock
  due,          \* the digest schedule may fire at this second
  \* Durable state.
  emails,       \* the emails table
  digests,      \* the digests table
  lastDigest,   \* last_digest_at, or Never
  \* The running job.
  pc,           \* the next effect of runDigest
  window,       \* windowStart and windowEnd
  rows,         \* what PendingForDigest returned
  \* History.
  outbox,       \* the mails the owner got
  owed,         \* rows of the digests that failed after a completed one
  settled       \* ends of the windows whose digest job succeeded

durableVars == <<emails, digests, lastDigest>>
jobVars     == <<pc, window, rows>>
historyVars == <<outbox, owed, settled>>
vars        == <<now, due, durableVars, jobVars, historyVars>>

NoWindow == [start |-> 0, end |-> 0]

Ids(rs) == { r.id : r \in rs }

\* The values of every variable.
TypeOK ==
  /\ now \in Int
  /\ due \in BOOLEAN
  /\ emails \subseteq [id : Nat \ {0}, received : Int, digested : Int \union {Never}]
  /\ digests \subseteq [sent : Int, start : Int, end : Int, count : Nat]
  /\ lastDigest \in Int \union {Never}
  /\ pc \in {"idle", "send", "complete"}
  /\ window \in [start : Int, end : Int]
  /\ rows \subseteq [id : Nat \ {0}, received : Int, digested : {Never}]
  /\ outbox \subseteq [start : Int, end : Int, ids : SUBSET Nat]
  /\ owed \subseteq Nat
  /\ settled \subseteq Int

Init ==
  /\ now = 0
  /\ due = FALSE
  /\ emails = {}
  /\ digests = {}
  /\ lastDigest = Never
  /\ pc = "idle"
  /\ window = NoWindow
  /\ rows = {}
  /\ outbox = {}
  /\ owed = {}
  /\ settled = {}

-----------------------------------------------------------------------------
(* The clock and the polls                                                 *)

\* The Date headers of the messages: from before the first window that can be
\* to after the last.
Dates == -Week .. MaxTime

\* Time passes; the digest schedule fires at most once a second.
Tick ==
  /\ now < MaxTime
  /\ now' = now + 1
  /\ due' = TRUE
  /\ UNCHANGED <<durableVars, jobVars, historyVars>>

\* InsertEmail with the next row id.
InsertReceived(received) ==
  /\ Cardinality(emails) < MaxEmails
  /\ emails' = emails \union
       {[id |-> Cardinality(emails) + 1, received |-> received, digested |-> Never]}
  /\ UNCHANGED <<now, due, digests, lastDigest, jobVars, historyVars>>

\* Mutant of Ingest: polls do not take the run lock.
IngestUnlocked(received) == InsertReceived(received)

\* A poll inserts a row.  It runs under the run lock, so never during a digest.
Ingest(received) == pc = "idle" /\ InsertReceived(received)

-----------------------------------------------------------------------------
(* The job                                                                 *)

Forget ==
  /\ pc' = "idle"
  /\ window' = NoWindow
  /\ rows' = {}

\* Mutant of WindowAt: no last digest is not told from a time.
WindowSinceLast(t) == [start |-> lastDigest, end |-> t]

\* The window of a digest that starts at t: up to now, from where the last one
\* ended, or a week before.
WindowAt(t) == [start |-> IF lastDigest = Never THEN t - Week ELSE lastDigest, end |-> t]

\* The cron schedule fires and the run lock is free: the window is computed
\* and its rows are read.  A read that fails ends the job without effect.
BeginDigest ==
  /\ pc = "idle"
  /\ due
  /\ due' = FALSE
  /\ window' = WindowAt(now)
  /\ rows' = PendingForDigest(emails, window'.start, window'.end)
  /\ pc' = "send"
  /\ UNCHANGED <<now, durableVars, historyVars>>

Deliver == outbox' = outbox \union {[start |-> window.start, end |-> window.end, ids |-> Ids(rows)]}

\* Mutant of SendDigest: an error of the mailer is taken for a success.
SendDigestUnchecked ==
  /\ pc = "send"
  /\ Deliver \/ UNCHANGED outbox
  /\ pc' = "complete"
  /\ UNCHANGED <<now, due, durableVars, window, rows, owed, settled>>

\* The mail is handed over and acknowledged.
SendDigest ==
  /\ pc = "send"
  /\ Deliver
  /\ pc' = "complete"
  /\ UNCHANGED <<now, due, durableVars, window, rows, owed, settled>>

\* The job ends without its digest; after a first completed one its rows are
\* owed to the next.
GiveUp ==
  /\ owed' = IF lastDigest = Never THEN owed ELSE owed \union Ids(rows)
  /\ Forget

\* Mutant of SendFails: the window moves although the digest was not completed.
SendFailsMoving ==
  /\ pc = "send"
  /\ Deliver \/ UNCHANGED outbox
  /\ lastDigest' = window.end
  /\ GiveUp
  /\ UNCHANGED <<now, due, emails, digests, settled>>

\* Send returns an error, and with it the job; the server may have taken the
\* mail all the same.
SendFails ==
  /\ pc = "send"
  /\ Deliver \/ UNCHANGED outbox
  /\ GiveUp
  /\ UNCHANGED <<now, due, durableVars, settled>>

\* The job succeeds.
Settle ==
  /\ settled' = settled \union {window.end}
  /\ Forget
  /\ UNCHANGED owed

\* Mutants of CompleteDigest: the transaction is not committed, and the clock
\* is read again for the end of the window.
CompleteDigestUncommitted ==
  /\ pc = "complete"
  /\ Settle
  /\ UNCHANGED <<now, due, durableVars, outbox>>
CompleteDigestLate ==
  /\ pc = "complete"
  /\ emails' = MarkDigested(emails, Ids(rows), now)
  /\ digests' = digests \union
       {[sent |-> now, start |-> window.start, end |-> now, count |-> Cardinality(rows)]}
  /\ lastDigest' = now
  /\ Settle
  /\ UNCHANGED <<now, due, outbox>>

\* One transaction stamps the rows, records the digest and moves the window.
CompleteDigest ==
  /\ pc = "complete"
  /\ emails' = MarkDigested(emails, Ids(rows), window.end)
  /\ digests' = digests \union
       {[sent |-> window.end, start |-> window.start, end |-> window.end,
         count |-> Cardinality(rows)]}
  /\ lastDigest' = window.end
  /\ Settle
  /\ UNCHANGED <<now, due, outbox>>

\* The transaction fails and is rolled back, or the daemon dies and restarts.
Interrupt ==
  /\ pc \in {"send", "complete"}
  /\ GiveUp
  /\ UNCHANGED <<now, due, durableVars, outbox, settled>>

-----------------------------------------------------------------------------
Next ==
  \/ Tick
  \/ \E received \in Dates : Ingest(received)
  \/ BeginDigest
  \/ SendDigest
  \/ SendFails
  \/ CompleteDigest
  \/ Interrupt

Spec == Init /\ [][Next]_vars

-----------------------------------------------------------------------------
(* Properties                                                              *)

\* CompleteDigest follows Send: a row is stamped only when the owner got it, in
\* the mail of the window whose end is the stamp.
DigestedWasMailed ==
  \A r \in emails : r.digested # Never =>
    \E m \in outbox : m.end = r.digested /\ r.id \in m.ids

\* Each recorded digest is a mail the owner got, with as many rows as were
\* stamped for it, and the windows leave no gap: each starts where another
\* ended, but the first.
RecordsMatchMails ==
  \A d \in digests :
    /\ \E m \in outbox :
         /\ m.start = d.start /\ m.end = d.end
         /\ Cardinality(m.ids) = d.count
    /\ Cardinality({ r \in emails : r.digested = d.end }) = d.count
    /\ \/ \E c \in digests : c.end = d.start
       \/ \A c \in digests : c.end >= d.end

\* Rows whose digest job succeeded are never mailed again: repeats come only
\* from digests that were not completed.
NothingMailedAfterCompletion ==
  \A m, n \in outbox :
    m.end \in settled /\ m.end < n.end => m.ids \intersect n.ids = {}

\* Ahead of the window that the next digest opens.
Ahead(r) == r.digested = Never /\ lastDigest <= r.received

\* The window moves only over rows that were digested: a row the next digest
\* can still reach is stamped or stays within reach, for the run lock keeps
\* polls out between the query and the transaction.
NoRowLeftBehind ==
  [][ lastDigest # Never =>
        \A r \in emails : Ahead(r) =>
          \E s \in emails' :
            /\ s.id = r.id
            /\ s.digested # Never \/ lastDigest' <= s.received ]_durableVars

\* runDigest moves last_digest_at only with the rows it stamps: once a digest
\* was completed, every row of one that failed afterwards (not mailed, not
\* acknowledged, not committed, or killed) is in every later digest until it is
\* stamped.
OwedRowsComeBack ==
  pc = "send" =>
    \A r \in emails : r.id \in owed /\ r.digested = Never => r.id \in Ids(rows)

\* The text of an empty digest: "No messages were received during this
\* period."  It is asked of digests that were completed, as a failed one is
\* repeated.
EmptyDigestTruthful ==
  \A m \in outbox :
    m.ids = {} /\ m.end \in settled =>
      ~\E r \in emails : m.start <= r.received /\ r.received < m.end
=============================================================================
