# digestd in TLA+

`digestd` polls one IMAP mailbox, archives each original, has a local language
model summarize it, keeps a row in SQLite, flags the message `\Seen`, and mails
one weekly digest. This directory holds its specification: TLA+ modules
translated from `src/`, TLC configurations that check them on small instances,
and proofs that TLAPS checks for every value of the constants.

    tlc -config PollSafety.cfg MCPoll     # any run: PROJECT.json names both
    tlapm PollProofs.tla

`PROJECT.json` lists the runs, the source lines each definition stands for, the
hazards of the code and the properties that cover them, and the disagreements
between code and text that the runs show.

## The system

| Component | Code | State it keeps | Operations | Correct when |
|---|---|---|---|---|
| Scheduler | `internal/scheduler` (`Start`, `Stop`, `withLock`), `cmd/digestd` | flag `stopping`, a one-slot run lock, cron's goroutines | fire a schedule, start the first poll, stop | one job at a time; no job after `Stop`; `Stop` returns; the lock never leaks |
| Poll job | `internal/poll` | the batch in memory | `Run`, `processOne` | no new message is lost or passed over; what is flagged is stored; the backlog stays alone |
| IMAP fetcher | `internal/imap` | a session per call | `Fetch`, `MarkSeen` | it returns exactly what is beyond the cursor; it flags the right message |
| Store | `internal/store` | tables `emails`, `digests`, `state` | `LastUID`, `SetLastUID`, `EmailExists`, `InsertEmail`, `PendingForDigest`, `CompleteDigest`, `LastDigestAt` | its two deduplication keys and the digest transaction hold across callers |
| Archive | `internal/archive` | files under `YYYY/MM` | `Write` | a published file never changes; the returned path holds the message |
| LLM client | `internal/llm` | none | `Summarize` | it always returns, in time, something that can be persisted |
| Digest job | `internal/scheduler` (`runDigest`) | none | one digest | what is stamped was mailed; what was mailed and completed is not repeated; no row is passed over |
| Mailer | `internal/mailer` | none | `Send` | outside the program once it has called the library |
| Parser | `internal/parse` | none | `Message`, `StripQuotedText` | the reply and only the reply reaches the language model |
| Renderer | `internal/digest` | none | `RenderHTML`, `RenderText` | the owner sees no blank, and no failure that looks like a summary |
| Configuration | `internal/config` | none | `Load`, once at startup | the allowlist means what its owner wrote |
| Daemon | `cmd/digestd` | the process itself | start, stop, kill, restart | the database is quiet once it is closed; a restart finds it consistent |
| Data model, `devsummarize` | `internal/model`, `cmd/devsummarize` | none | types; a developer tool | - |

How they interact: cron starts a goroutine for each firing, and `Start` one
more for the first poll. Each goes through `withLock`. A poll calls the
fetcher, the archive, the store and the language model in turn; a digest calls
the store, the renderer and the mailer. They share the database and the run
lock, nothing else. The IMAP server, its owner, the SMTP server, Ollama and the
clock act on their own.

What is hard here: five effects on four different systems per message, any of
which may fail or be the last before the process dies; a mailbox that
changes between any two calls (arrival, deletion, a new UIDVALIDITY); UIDs at
the end of their range; a mail and a transaction that cannot be atomic
together; goroutines that cron starts while `Stop` waits for others; rows that
arrive late for the window they belong to; two timeouts on the same calls; text that
passes through four components, each of which may drop some of it or fail.

## Modules

| Module | Models | Kind |
|---|---|---|
| `Store` | the SQL statements of `store.go` | operators |
| `MailIngest` | what a poll promises of each message | abstract specification |
| `Poll` | `poll.go` and `imap.go` with the server, failures and crashes | state machine, EXTENDS `Store`, refines `MailIngest` |
| `JobGate` | what the scheduler promises its jobs | abstract specification |
| `Scheduler` | the goroutines of `scheduler.go` and `main` | state machine, refines `JobGate` |
| `WeeklyDigest` | `runDigest`, `CompleteDigest`, `Send`, against the clock and late rows | state machine, EXTENDS `Store` |
| `Archive` | `archive.Write`, several calls at once | state machine |
| `Summarizer` | `Summarize`, `call`, `validate`, against the clock | state machine |
| `Digestd` | the daemon: `Scheduler` running polls and `WeeklyDigest`, with kill and restart | composition of both, refines `WeeklyDigest` |
| `Parser` | `parse.go`: white space, quotes, signature, limit | operators |
| `MessagePath` | one message through `parse.Message`, `processOne` and the renderer | state machine, EXTENDS `Parser` |
| `MCPoll`, `MCScheduler`, `MCWeeklyDigest`, `MCDigestd`, `MCArchive`, `MCSummarizer`, `MCMessagePath` | instances for TLC | |
| `PollProofs`, `PollOutcomeProofs` | the theorems about `Poll`: the invariant, and what it makes of rows, backlog and `MailIngest` | proofs |
| `SchedulerProofs`, `WeeklyDigestProofs`, `ArchiveProofs`, `SummarizerProofs`, `MessagePathProofs` | the theorems about the module of that name (the last one about `Parser` too) | proofs |
| `DigestdProofs` | the theorems about the daemon, from those about its two halves | proofs |

Some definitions are preceded by a *mutant*: the same operator with a plausible
bug (a dropped filter, a missing test, a lock not given back). Put in the place
of the definition it makes TLC refute a property; `PROJECT.json` pairs them.
Nothing else uses them.

### Poll

The state is the server's (`validity`, `uidNext`, `mail`, `expunged`, `seen`),
the durable state (`archived`, `emails`, `cursor`), the job's memory (`pc`,
`known`, `fetched`, `batch`, `cur`) and a history variable, `backlog`: what was
in the folder when a baseline was taken.

`Run` reads the cursor (`StartPoll`) and calls `Fetch`, which either returns a
baseline (`FetchBaseline`, then `SaveBaseline`) or the new messages
(`FetchNew`; `RejectFetch` when one of them has no body; `FetchExpires` when
there are more of them than one command can bring in its five minutes, which is
what `FetchLimit` stands for). `processOne` is
`NextMessage`, `ArchiveMessage`, `CheckExisting`, `InsertRow`, `MarkSeen` (or
`RefuseMarkSeen` when UIDVALIDITY changed), `AdvanceCursor`: one action for
each effect that survives the process. `Fail` is any call that returns an
error without effect, `MarkSeenUnacknowledged` a flag that was set though the
call failed, `Crash` the end of the process; all three forget the job's memory.
A row that was inserted though its call failed is `InsertRow` followed by
`Crash`: the job's memory is lost in the same way.

The server is modelled as RFC 3501 and the client library present it: UIDs
grow within one UIDVALIDITY, `n:*` always includes the highest message, 0 is
written as `*`, UIDNEXT may be missing and is then reported as 0. `mail` keeps
deleted messages and those of earlier UIDVALIDITYs so that properties can speak
of them. Not modelled: a second client that removes `\Seen`, a server that
changes UIDs without changing UIDVALIDITY, a server without UIDVALIDITY,
several folders (the program has one).

`MailIngest` says the same without cursor, batch, job or failure: a message is
stored before it is flagged and flagged before it is passed over, and at most
one message at a time is passed over. The refinement mapping takes `stored` from
the archive and the rows, `passed` from the cursor, and `gone` from what the
owner deleted, what was there at a baseline and what is in an older folder:
these may be passed over as they are. The renewed folder is where the mapping
says most: mail of the old folder becomes gone in the step that renews it, before
the cursor knows.

### Store

`emails` is a set of rows; a caller's rows have the columns its properties
need. `EmailExists`, `InsertEmail`, `PendingForDigest`, `MarkDigested` and
`SetLastUID` are what the SQL computes. The store has one connection, and each
method is one statement or one transaction, so a step of a caller applies one.
`CompleteDigest`, one transaction over three tables, is an action of
`WeeklyDigest`. `MarkDigested` and `RecordDigest` on their own have no caller
but tests.

### Scheduler and JobGate

Every firing is a process that goes through `withLock`: first test of the flag
(`CheckStopping`), attempt at the lock (`TryLock`), second test (`Recheck`),
the job, release (`JobDone`). The main goroutine starts, sets the flag, stops
cron, waits for cron's callbacks, waits for the lock, gives it back. Waiting for
cron and for the lock race with the context of `Stop` (`StopTimesOut`). The
startup poll is a process that cron does not know, which is why `Stop` needs the
lock. `JobGate` is the promise: at most one `active` job, none once `closed`;
the refinement mapping takes `active` from the one process that runs a job and
`closed` from `main = "stopped"`.

### WeeklyDigest

Seconds are integers; `received` is the Date header, which a sender may set to
anything: it ranges over `Dates`, from before the first window that can be to the
end of the clock, so a row may come late for its window or be dated ahead of it.
`BeginDigest` computes the window and reads its rows, `SendDigest` and
`SendFails` mail it (a failed send may have delivered), `CompleteDigest` commits
stamps, record and window, `Interrupt` is a failed transaction or a crash. The
run lock appears as `Ingest` not happening during a digest, which `Digestd`
shows. `outbox` (the mails), `settled` (the windows whose job succeeded) and `owed`
(the rows of a digest that failed after one was completed, added by `GiveUp` and
never taken out) are history: no action reads them.

### Digestd

The goroutines are those of `Scheduler`, whose variables it shares; a poll that
has the lock inserts rows at any time (`PollInserts`), a digest that has it
calls `runDigest` (`CallDigest`, `DigestGoesOn`) and gives the lock back when
the job is over (`JobDone`). `Restart` ends the process at any point after its
start, with or without `Stop`, and begins a new one on the same database. Nothing in the
module keeps a row from being inserted during a digest but the lock, so
`ImplementsWeeklyDigest` discharges the guard of `WeeklyDigest!Ingest`: what
`digest_safety` shows holds of the daemon.

One assumption is made of the clock (`Tick`): a digest that has fired calls
`runDigest`, or is skipped, before its schedule is due again. Firings are
a second apart at least, under five fields or `@every` alike, and `withLock` does
not wait. What a poll does besides inserting rows is left to `Poll`.

### Parser and MessagePath

A text is a sequence of lines. Of a line the module keeps what it looks like
(words, white space, a quote, the introduction of a quote, `--`), whether white
space stands before it and whether a carriage return stands behind it, for these
are what the code looks at; `at`, its place in the text as it arrived, is history.
`normalizeWhitespace`, `StripQuotedText` and `Truncate` work on these. Both loops of
the code that leave lines out are written as a set of positions that are `kept`,
and `SelectAt` takes the lines at them in order: there is no recursion in it, so
the proofs reach it. The limit is
counted in lines where the code counts runes: what matters is that it is
applied last and that it is a prefix.

`MessagePath` takes one message through `parse.Message` (`ParseMessage`), the
three ends of `processOne` (`KeepUnparsed`, `KeepOutOfScope`, `Summarize`) and the
renderer (`Render`). A summary is any that `Summarize` may return, a white one
among them: `llm.go` tests for the empty string only. Addresses are values with
a function `Fold` for lower case and trimming. `entries` is what the owner wrote into
`IMAP_ALLOWLIST`; `config.Load` and `poll.New` both normalize it, and an entry of
white space only, which is dropped there, names nobody (`spaces` in the run). Texts shown
are named after who wrote them, so that the properties can tell a summary from a
phrase of the program, and the phrase of the language model's client (`llm.go:97`)
from the one that sends the owner to the original (`poll.go:20`, `digest.go:141`). The properties are stated over the text as it arrived
(`Written`, `InSignature`, `Introduces`), with no operator of `Parser` in them.

### Archive

A call is an inspection of the base path, perhaps one of the alternate path,
and a publication that does not replace. Other calls, failures and crashes come
in between. The name is that of the Message-Id or, when that leaves nothing, made of
the UID the call was given (`BaseName`), so that a message which comes back under
another UID wants another path, and a Message-Id may look like such a name. Names
and hashes are functions given by constants, not injective.
`digestd` makes one call at a time; the specification allows several because
the code is written for that (`os.Link` and its handling of an existing target).
The temp file is private to its call and left out.

### Summarizer

Two calls, each ended by an answer, a failure or a timer; the timer is the
sooner of the HTTP client's timeout and the deadline of the context. Of an
answer the module keeps what `validate` looks at. `Poll` uses the result: a
summary always comes, with status `ok` or `error` (`Outcomes`).

## Runs

| Run | Result | Question |
|---|---|---|
| `poll_safety` | holds | Do failed calls, crashes and a changing mailbox ever lose a message, flag one that is not stored, move the cursor back or touch the backlog? Does the poll refine `MailIngest`? |
| `poll_progress` | holds | Does every new message get processed once outside failures stop, up to the last UID, with a server that may omit UIDNEXT? |
| `poll_bodyless` | violated | The same, with a message the server returns without a body |
| `scheduler_gate` | holds | Are jobs exclusive, quiet after `Stop`, and is nobody stuck? Does the scheduler refine `JobGate`? |
| `digest_safety` | holds | Do mails, stamps, records and window stay consistent through failures? |
| `digest_late_row` | violated | Is "No messages were received during this period." true? |
| `digestd_restarts` | holds | Does the run lock alone give a digest the database to itself, through signals, kills and restarts? |
| `message_path` | holds | Does the reply, and only the reply, reach the language model? Whose? What does the owner see? |
| `message_signature` | violated | Is a signature always cut, also when lines end in CR LF? |
| `summarizer_calls` | holds | Does `Summarize` always return in time with something to persist? |
| `summarizer_retry` | violated | Does the retry have time to reach the language model? |
| `archive_safety` | holds | Are published files immutable, returned paths right, retries found? |

The properties, by what they protect:

* *No message is lost*: `CursorSkipsNothing` (what lies behind the cursor was
  archived, has a row and is flagged), `CursorNeverMovesBack`,
  `EveryMessageProcessed` (liveness), `ImplementsMailIngest`.
* *Nothing happens that should not*: `SeenImpliesStored`, `BacklogUntouched`,
  `BatchBeyondCursor` (no message is fetched again once its cursor is saved),
  `SeenHasItsRow` (only a shared Message-Id costs a message its row),
  `RowsWellFormed`.
* *The gate*: `MutualExclusion`, `QuietAfterStop`, `GateInv` (the lock has one
  holder), `ImplementsJobGate`, `StopReturns`, `FiringsReturn`.
* *The digest*: `DigestedWasMailed`, `RecordsMatchMails`,
  `NothingMailedAfterCompletion`, `NoRowLeftBehind`, `OwedRowsComeBack`.
* *The daemon*: `DigestHoldsLock`, `ImplementsWeeklyDigest`, `QuietDatabase`.
* *The message*: `ReplyReachesModel`, `QuotesStayOut`, `ListDecides`,
  `NothingShownBlank`, `UnmarkedSummaryIsGenuine`.
* *The archive*: `WriteOnce`, `ReturnedPathHolds`, `OneFilePerMonth`.
* *The summary*: `SummaryPersistable`, `WithinBudget`, `SummarizeReturns`.

### Bounds

| Run | Bounds | Why they are enough |
|---|---|---|
| `poll_safety` | 4 messages, 3 deliveries, UIDs to 3 of 4, 2 UIDVALIDITYs, 2 messages to a fetch | one message of each kind `processOne` and `Fetch` tell apart; three deliveries make a batch with something before and after the message that fails; a second UIDVALIDITY reuses UIDs and may begin between any two steps; three new messages are too many for one fetch |
| `poll_progress` | 2 messages, 2 deliveries, UIDs to the largest, 2 UIDVALIDITYs | `sinceUID+1` wraps in reach; one message can be stuck behind another |
| `poll_bodyless` | 2 messages | one is stuck behind the other |
| `scheduler_gate` | 2 firings of each schedule and the startup poll | two of one schedule, two of different ones and one unknown to cron meet at the lock; the proof drops the bound |
| `digest_safety` | weeks of 2 seconds, 6 instants, 2 rows | two full windows and the edge between them, a failed digest followed by two more; two rows tell a digest of some from one of all |
| `digest_late_row` | 1 row, 4 seconds | the counterexample is that small |
| `digestd_restarts` | 1 poll firing, 2 digest firings, the startup poll; weeks of 2 seconds, 4 instants, 2 rows; any number of restarts | a poll known to cron and one unknown to it meet a digest, two digests meet; a digest is cut off and another follows after a restart |
| `message_path` | all texts of up to 4 lines, in LF or CR LF, cut after 3; every kind of sender, subject and list | an introduction, a blank, a quote and a reply fit into four lines, as do a quote between two replies and a signature behind it; a fourth line is beyond the limit |
| `message_signature` | texts of up to 3 lines, no limit | the counterexample has one or two |
| `archive_safety` | 2 calls, 3 messages, 2 UIDs, 2 months | two messages have the Message-Id `<uid-1>`, the third has none and both UIDs in turn: all three want one path, two have one hash, and one has two names; two calls race at every step |
| `summarizer_calls` | call 3, deadline 5, texts to 3 of 2 | the deadline falls into the second call, and a text is longer than the limit |

`MaxMail`, `MaxValidity`, `TopUID`, `MaxTime`, `MaxEmails`, `Months`,
`MaxLength` and `MaxLines` are bounds of the model; the other constants are parameters of the
program or its surroundings. No symmetry is used: the messages differ.

`BacklogUntouched` is checked for a server that sends UIDNEXT and has not given
out the largest UID. In either case `latestUID` would see 0, take 0 for the
baseline, and the next poll would process the backlog.

`EveryMessageProcessed` is checked where no batch outgrows `FetchLimit`. Where
one does, `FetchExpires` may end every poll, and TLC finds the mailbox stuck as soon
as `MaxMail` exceeds `FetchLimit`: that batches stay small enough is an
assumption about the mailbox.

Deadlock is checked where the system never stops (`Poll`, `Archive`). The other
runs stop for a reason: the clock of `WeeklyDigest` ends, `Scheduler` has
shut down, `Summarize` has returned, the message has been shown. `Digestd` can
always be restarted.

### Fairness

* `Poll!FairSpec`: weak fairness of the job's next step. The cron schedule
  starts polls again and again, and every call has a timeout
  (`imap.go:18`, `Summarizer`), so a poll that runs gets on. Eventually no call
  fails for outside reasons and the process stays up: without that nothing can
  be promised. Nothing is assumed of the mailbox. `RejectFetch` is a step of the
  job, not an outside failure: it is the code's own answer.
* `Scheduler!FairSpec`: goroutines are scheduled (`RunStep` of each firing, the
  steps of `Stop`). That includes `JobDone`: jobs return because their calls
  have timeouts. Firings, the signal and the end of `Stop`'s context are not fair.
* `Summarizer!FairSpec`: time passes and timers fire. The language model need
  never answer.

## Findings

| Run | What the code does | What the text says |
|---|---|---|
| `poll_bodyless` | One message without a body fails the fetch of the whole range, at every poll | README:3, "archives every original message" |
| `digest_late_row` | The window is cut by the Date header, but a row exists only once it is polled: when an empty digest of Monday 08:00 was mailed and completed, a message of 07:58 polled at 08:05 makes its sentence false, and no later window has the row | "No messages were received during this period." |
| `summarizer_retry` | The context and each HTTP call end after the same LLM_TIMEOUT; after a timeout the retry is over before it starts | llm.go:100, "retries once ... on any failure" |
| `message_signature` | `-- ` is compared after blanks are cut, but not the carriage return of a line that ends in CR LF: the signature is not found and goes to the language model | parse.go:136, "removes ... trailing signatures" |

`message_signature` takes the text as the MIME library hands it on. The library is
not in the repository; the module lets lines end either way.

Some limits the models show are announced by the code's own text or lie outside
what it promises. They are no findings, and the properties make room for them, so
no property covers them:

* A changed UIDVALIDITY makes a new baseline, over mail that arrived since the last
  poll (`imap.go:71`): to `CursorSkipsNothing` such mail is backlog.
* A digest that fires while a poll holds the lock is skipped for the week
  (`scheduler.go:124`): `FiringsReturn` says that nobody waits, not that the digest runs.
* Until one digest was completed the window is the last seven days
  (`scheduler.go:139`), so rows of a failed first digest may fall out of reach:
  `OwedRowsComeBack` counts what is owed from the first completed one on.
* Two messages with one Message-Id share a row (`store.go:209`): `SeenHasItsRow`
  says that nothing less costs a message its own.
* A message without a Date is archived under the month of the poll, and one without
  a Message-Id under its UID, so a retry in another month, or after the folder was
  renewed, leaves a second file: `OneFilePerMonth` says where there is one.
* An introduction that an empty line in CR LF parts from its quote stays in the text:
  `QuotesStayOut` speaks of introductions in LF, of quoted lines in both.

## Proofs

TLAPS checks these for every value of the constants that satisfies the named
assumptions (`PollAssumption`, `SchedulerAssumption`, `WeeklyDigestAssumption`,
`DigestdAssumption`, `MessagePathAssumption`, `ArchiveAssumption`,
`SummarizerAssumption`), so without any of the bounds above. The assumptions say
what the constants are (sets, numbers, functions, values that differ from one
another); TLC evaluates them in the runs. Every safety property of the passing
runs has a theorem; what TLC alone can show is listed below.

**Poll.** `PollInvariant`: `Spec => []PollInv`. Neither `SeenImpliesStored` nor
`CursorSkipsNothing` is inductive: that a flag may be set depends on what the
job did before, and that the cursor may move on what the batch holds. `PollInv`
adds three parts. `UIDsAssigned`: within a UIDVALIDITY each UID is given once,
below `uidNext`. `JobInv`: at each `pc`, what has been done for `cur`: archived
after `ArchiveMessage`, a row with one of its keys before `MarkSeen`, flagged or
deleted before `AdvanceCursor`. `CursorInv`: the cursor and a fetched baseline
lie below what the server may still assign, the batch holds every message between
the cursor and any of its members, and `cur` is its lowest. From these the step
that moves the cursor passes over `cur` alone, and the step that takes a baseline
over backlog alone. `TypeCorrect`, `SeenImpliesStoredHolds`,
`CursorSkipsNothingHolds`, `BatchBeyondCursorHolds` and
`CursorNeverMovesBackHolds` follow. `PollInv` is also an invariant of `poll_safety`.

*What a poll writes* (`PollOutcomeProofs`). `RowsWellFormedHolds` needs of `PollInv`
only that the original is archived by the time a row is inserted.
`SeenHasItsRowHolds` needs more: a row is about a message that was once in the
folder under the row's UID (`RowsOfMail`), a UID of a folder is given out once
(`UIDsAssigned`), and what is flagged has a row with one of its keys; so a row with
its UIDVALIDITY and UID is its own. `BacklogUntouchedHolds` takes two assumptions,
that the server sends UIDNEXT and that it has not given out the largest UID, which
are those of `poll_safety`. Its invariant, `BacklogInv`, adds
that the backlog of a folder lies behind the cursor or the baseline in hand, so
that no batch has it, and that whatever was written is of no folder newer than the
cursor's, so that the next baseline finds nothing written about what it finds.

*What a poll promises* (the same module). `PollImplementsMailIngest`: deliveries
arrive; deletions, a renewed folder and `FetchBaseline` lose; `ArchiveMessage` and
`InsertRow` store; `MarkSeen` flags; `AdvanceCursor` and `SaveBaseline` pass; every
other step leaves the promise alone. That the cursor passes over one live message
at a time is `CursorInv` again. `PromiseIsKept` and `NothingTakenBack` say what the
promise is worth: from the steps of `MailIngest` alone, what is flagged is stored,
what is passed over is stored and flagged or gone, and none of it is ever undone; the
refinement makes the latter a fact about `Poll`.

**Scheduler.** `GateInvariant`: `Spec => []GateInv`, for any number of firings.
`MutualExclusion` needs that the lock is taken exactly while one goroutine is
between taking and giving it back (`LockHasOneHolder`); `QuietAfterStop` needs
that the flag is up since `Stop` was called, so that whoever takes the lock later
does not run. `SchedulerImplementsJobGate`: every step begins, ends or closes the
gate, or leaves it alone. Of `StopReturns` the half that is no liveness is proved for
any number of firings: from the step that stops cron, no firing begins and each
that moves has fewer steps left (`StopWaitsForLess`, with `CronInv`), and while `Stop`
wants a lock that is taken, some firing that holds it has its next step to take
(`StopWaitsForARunner`).

**WeeklyDigest.** `DigestInvariant`: `Spec => []DigestInv`, for windows of any
length, any number of rows and a clock that runs for any time. None of the
properties is inductive by itself. That a stamp means a mail needs to know that
the mail which has just been sent is the one of the open window (`JobInv`:
what the job read is what the table still holds, and the only mail as late as its
window is its own). That the windows leave no gap needs that the saved end is the
latest recorded one (`LastInv`), and that a window is new needs that the schedule
is due only in a second no window has ended at (`ClockInv`). `MailInv` ties mails
and owed rows to rows of the table, and says of every owed row that it is stamped,
or else neither behind the window nor ahead of the clock: that is what makes
`OwedRowsComeBack` true without a word in it about where the window is.
`DigestTypeCorrect`, `DigestedWasMailedHolds`,
`RecordsMatchMailsHolds`, `NothingMailedAfterCompletionHolds` and
`OwedRowsComeBackHolds` follow, and `NoRowLeftBehindHolds` from one step of it:
the rows that `CompleteDigest` stamps are all those that the window holds, because
nothing was inserted since they were read.

**Digestd.** `DaemonInvariant` joins `GateInv` (which holds through restarts, for a
restarted process is in its initial state) to `CalledInv`: a firing that called
`runDigest` is a digest firing that runs, and no digest is under way without one.
`DigestHoldsLockHolds` follows: a running firing has the lock.
`DaemonRunsOneJob` says that all jobs, polls and digests, exclude one another, and `QuietDatabaseHolds` follows from `QuietAfterStop`. `ImplementsWeeklyDigestHolds`:
every step of the daemon is a step of the digest or leaves it alone. The case that
matters is `PollInserts`: two firings that run would be one firing, by `GateInv`, so
a poll that inserts finds no digest under way, which is the guard of
`WeeklyDigest!Ingest`. With it what is proved of `WeeklyDigest` holds of the daemon:
`DaemonDigestsHold` and `DaemonLeavesNoRow` say so, and are proved by using the
theorems of `WeeklyDigestProofs` in an instance with the daemon's variables.

**Archive.** `ArchiveInvariant`: `Spec => []ArchiveInv`, for any number of writers
and any collisions of names and hashes. `ReturnedPathHolds` and `OneFilePerMonth`
need to know where a file may be: at a base path of its message, under the UID it
had then, or at the alternate path next to it if another message is at that base
path (`FilesInv`), and that the target of a call in
flight is such a place (`CallInv`). Files are never removed, so both stay true
while others write. `ReturnedPathHoldsAlways`, `OneFilePerMonthHolds` and
`WriteOnceHolds` follow. Two messages may share name and hash: then the call fails,
and the proof covers that too.

**Parser and MessagePath.** TLC checks texts of up to four lines; the proof is about
texts of any length. `Ascending` enumerates a set of positions in order and leaves
none out (`AscendingFacts`, a counting argument, for induction over data is out of
reach). So what is selected or trimmed from a text still `Follows` the message: its
lines are lines of the message in their order (`SelectFollows`, `TrimFollows`,
`CutFollows`). `NormalizeFacts` shows that `normalizeWhitespace` makes a `Normal` text:
no written line is lost, and indentation is what it was but in the first line.
On a normal text the tests of the code (`IsQuoted`, `isQuoteHeader`, `IsDelimiter`) are
what `Starts` says of the message as it arrived (`StartsFacts`), and `StripFacts` and
`TruncateFacts` give the two sides: which lines can be lost, and which cannot be
there. `MessagePathInvariant` carries them through the steps: the row was written in
one of three ways, each with what was sent to the language model. `MessageTypeCorrect`,
`ReplyReachesModelHolds`, `QuotesStayOutHolds`, `ListDecidesHolds` (folding twice is
folding once), `NothingShownBlankHolds` and `UnmarkedSummaryIsGenuineHolds` follow. Of
`Fold` the proof uses that it is idempotent and keeps the empty address.

**Summarizer.** `SummarizerInvariant` and, from it, `SummarizerTypeCorrect`,
`SummaryPersistableHolds` and `WithinBudgetHolds`, for any timeouts, deadlines and limits.

Only model-checked: `EveryMessageProcessed`, `StopReturns`, `FiringsReturn` and
`SummarizeReturns`, which are liveness properties under fairness and out of the
prover's reach, as is anything with ENABLED, the freedom from deadlock among it; and
the four violations, each a counterexample.

## Not modelled

* Dialling, TLS, login, the SMTP session, building a mail and MIME decoding:
  libraries; they appear as calls that succeed or fail.
* `stripHTML` (a chain of regular expressions over markup, used only for a
  message without plain text; the state it would need is the text itself) and the
  attachment flag, which no part of the daemon reads.
* `config.Load` but for the allowlist: it reads each variable once and ends the
  process if one is missing. Logging, exit codes, layout, escaping and dates of a
  digest.
* A server without UIDVALIDITY: the library would report 0, which the code
  takes for a first use at every poll, so that it would take baselines for ever. RFC 3501
  requires one of every folder whose UIDs persist, so `Poll` has a server with one.
* Durability below a process crash: the archive does not sync its directories,
  so a loss of power could lose a link whose row survives. A kill may leave a
  temp file behind, which costs space only.
* `devsummarize`, which is no part of the daemon and keeps no state, and the data
  model, which is types.

`parse.go:40` says that the ingest stage overrides the Date with INTERNALDATE;
no stage does, the poll's time is the default where there is no Date
(`poll.go:152-158`), and `Archive` and `WeeklyDigest` model that.

## Plan

What can be modelled faithfully of the daemon is, and every safety property of the
runs is proved. What is left, in this order:

1. The safety half of the other liveness properties: that a poll never waits on
   itself, and that each answer, failure or timer brings `Summarize` nearer to its end.
2. That the rows `Poll` inserts are what `PollInserts` of `Digestd` allows, which would
   put the third of the three state machines under the same lock by proof.
