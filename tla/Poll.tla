-------------------------------- MODULE Poll --------------------------------
(***************************************************************************)
(* One poll of the mailbox (internal/poll with internal/imap), interleaved *)
(* with the IMAP server it polls and with crashes of the daemon.           *)
(*                                                                         *)
(* Every effect that outlives the process is a step of its own: publishing *)
(* the original in the archive, the row in SQLite, the \Seen flag on the   *)
(* server and the cursor in SQLite.  Any of them may fail, and the daemon  *)
(* may die between any two.  What the job holds in memory is lost then;    *)
(* the server, the archive and the database are not.                       *)
(*                                                                         *)
(* Only one poll runs at a time: the run lock of internal/scheduler, which *)
(* module Scheduler specifies.                                             *)
(***************************************************************************)
EXTENDS Naturals, FiniteSets, Store

CONSTANTS
  Messages,     \* source messages, told apart by their raw bytes
  MessageIDs,   \* what the Message-Id header can hold, NoID apart
  MsgID,        \* the Message-Id header of each message, or NoID
  Unparseable,  \* messages on which parse.Message returns an error
  OutOfScope,   \* messages whose sender is not in the allowlist
  Bodyless,     \* messages the server answers a FETCH for without a body
  NoMsg,        \* stands for no message
  MaxUID,       \* the largest uint32
  TopUID,       \* the largest UID the server assigns
  FetchLimit,   \* messages that one FETCH brings within the command timeout
  MayOmitUIDNext, \* whether the server may leave UIDNEXT out of a SELECT answer
  MaxMail,      \* bound: messages delivered in all
  MaxValidity   \* bound: values UIDVALIDITY takes

ASSUME PollAssumption ==
  /\ MsgID \in [Messages -> MessageIDs \union {NoID}]
  /\ NoID \notin MessageIDs
  /\ Unparseable \subseteq Messages
  /\ OutOfScope \subseteq Messages
  /\ Bodyless \subseteq Messages
  /\ NoMsg \notin Messages
  /\ MaxUID \in Nat
  /\ TopUID \in 1 .. MaxUID
  /\ FetchLimit \in Nat
  /\ MayOmitUIDNext \in BOOLEAN
  /\ MaxMail \in Nat
  /\ MaxValidity \in Nat \ {0}

VARIABLES
  \* The IMAP server (external).
  validity,     \* UIDVALIDITY of the folder
  uidNext,      \* the UID the next message gets
  mail,         \* every message ever put in the folder, under its UID
  expunged,     \* those the owner deleted since
  seen,         \* those digestd flagged \Seen
  \* Durable state of digestd.
  archived,     \* originals published under the archive directory
  emails,       \* the emails table
  cursor,       \* uid_validity:<folder> and last_uid:<folder>
  \* The running job.
  pc,           \* the next effect of Run or processOne
  known,        \* the cursor Run read when it started
  fetched,      \* the baseline Fetch returned
  batch,        \* fetched messages not yet processed, cur included
  cur,          \* the message processOne works on
  \* History.
  backlog       \* what was in the folder when Fetch took a baseline

serverVars  == <<validity, uidNext, mail, expunged, seen>>
durableVars == <<archived, emails, cursor>>
jobVars     == <<pc, known, fetched, batch, cur>>
vars        == <<serverVars, durableVars, jobVars, backlog>>

-----------------------------------------------------------------------------
(* Types                                                                   *)

UIDs == 0 .. MaxUID

Cursors == [validity : Nat, uid : UIDs]

Entries == [validity : Nat \ {0}, uid : 1 .. MaxUID, msg : Messages]

NoEntry == [validity |-> 0, uid |-> 0, msg |-> NoMsg]

Rows == [validity : Nat \ {0}, uid : 1 .. MaxUID, mid : MessageIDs \union {NoID},
         raw : Messages, inScope : BOOLEAN, status : {"ok", "error"}]

Steps == {"idle", "fetch", "baseline", "next",
          "archive", "exists", "insert", "mark", "cursor"}

\* The values of every variable.
TypeOK ==
  /\ validity \in Nat \ {0}
  /\ uidNext \in 1 .. TopUID + 1
  /\ mail \subseteq Entries
  /\ expunged \subseteq mail
  /\ seen \subseteq mail
  /\ archived \subseteq Messages
  /\ emails \subseteq Rows
  /\ cursor \in Cursors
  /\ pc \in Steps
  /\ known \in Cursors
  /\ fetched \in Cursors
  /\ batch \subseteq mail
  /\ cur \in batch \union {NoEntry}
  /\ backlog \subseteq mail

-----------------------------------------------------------------------------
(* The server's answers                                                    *)

\* The messages a client that selects the folder can see.
Visible == { e \in mail \ expunged : e.validity = validity }

\* uint32 arithmetic, for a value at most one past the largest.
Uint32(n) == IF n <= MaxUID THEN n ELSE n - (MaxUID + 1)

\* UIDNEXT as the client library may report it; 0 when the server sends none.
UIDNextReports ==
  {Uint32(uidNext)} \union (IF MayOmitUIDNext THEN {0} ELSE {})

IsHighest(e) == \A f \in Visible : f.uid <= e.uid

\* The answer to UID FETCH first:*.  `*' is the highest UID in the folder and
\* the ends of a range come in either order, so the highest message is always
\* part of it; the library writes 0 as `*'.
UidFetch(first) ==
  { e \in Visible : (first # 0 /\ e.uid >= first) \/ IsHighest(e) }

-----------------------------------------------------------------------------
(* internal/imap                                                           *)

\* Mutant of latestUID: one UID too low.
latestUIDLow(n) == IF n <= 1 THEN 0 ELSE n - 2

\* The highest UID assigned before UIDNEXT was read.
latestUID(n) == IF n = 0 THEN 0 ELSE n - 1

\* Mutants of FetchSince: the answer unfiltered, and the first new UID missed.
FetchSinceUnfiltered(first) == UidFetch(first)
FetchSinceOffByOne(first) == { e \in UidFetch(first) : e.uid > first }

\* The messages below first, which only the `*' of the range brings in, are
\* left out.
FetchSince(first) == { e \in UidFetch(first) : e.uid >= first }

\* Mutant of NewMessages: no test for the end of the UID range.
NewMessagesWrapping(sinceUID) == FetchSince(Uint32(sinceUID + 1))

\* What Fetch returns to a caller that is up to date with the UIDVALIDITY.
NewMessages(sinceUID) ==
  IF sinceUID = MaxUID THEN {} ELSE FetchSince(Uint32(sinceUID + 1))

\* Mutant of NeedsBaseline: a change of UIDVALIDITY goes unnoticed.
NeedsBaselineOnce == known.validity = 0

\* First use of the folder, or its UIDs are not those the cursor is about.
NeedsBaseline == known.validity = 0 \/ known.validity # validity

-----------------------------------------------------------------------------
(* internal/parse and internal/llm, as far as a poll depends on them       *)

\* A parse error leaves every parsed field at its zero value.
ParsedID(m) == IF m \in Unparseable THEN NoID ELSE MsgID[m]

\* The row of a message is persisted whatever becomes of its summary.
Outcomes(m) ==
  { o \in [inScope : BOOLEAN, status : {"ok", "error"}] :
      /\ m \in Unparseable => o.inScope /\ o.status = "error"
      /\ m \in OutOfScope \ Unparseable => ~o.inScope /\ o.status = "ok"
      /\ m \notin OutOfScope \union Unparseable => o.inScope }

\* Mutant of NewRow: the row is built without the UIDVALIDITY of the fetch.
NewRowUnplaced(e, outcome) ==
  [validity |-> 0, uid |-> e.uid, mid |-> ParsedID(e.msg),
   raw |-> e.msg, inScope |-> outcome.inScope, status |-> outcome.status]

\* The row, under the UIDVALIDITY of the fetch and the UID of the message.
NewRow(e, outcome) ==
  [validity |-> e.validity, uid |-> e.uid, mid |-> ParsedID(e.msg),
   raw |-> e.msg, inScope |-> outcome.inScope, status |-> outcome.status]

Exists(e) == EmailExists(emails, e.validity, e.uid, ParsedID(e.msg))

-----------------------------------------------------------------------------
Init ==
  /\ validity = 1
  /\ uidNext = 1
  /\ mail = {}
  /\ expunged = {}
  /\ seen = {}
  /\ archived = {}
  /\ emails = {}
  /\ cursor = NoCursor
  /\ pc = "idle"
  /\ known = NoCursor
  /\ fetched = NoCursor
  /\ batch = {}
  /\ cur = NoEntry
  /\ backlog = {}

-----------------------------------------------------------------------------
(* The job                                                                 *)

\* What the job held in memory is gone; nothing durable changes.
Forget ==
  /\ pc' = "idle"
  /\ known' = NoCursor
  /\ fetched' = NoCursor
  /\ batch' = {}
  /\ cur' = NoEntry

\* Run reads the cursor.
StartPoll ==
  /\ pc = "idle"
  /\ known' = cursor
  /\ pc' = "fetch"
  /\ UNCHANGED <<serverVars, durableVars, fetched, batch, cur, backlog>>

\* Fetch selects the folder and returns a baseline without fetching.
FetchBaseline ==
  /\ pc = "fetch"
  /\ NeedsBaseline
  /\ \E n \in UIDNextReports :
       fetched' = [validity |-> validity, uid |-> latestUID(n)]
  /\ backlog' = backlog \union Visible
  /\ pc' = "baseline"
  /\ UNCHANGED <<serverVars, durableVars, known, batch, cur>>

\* Run saves the baseline and ends.
SaveBaseline ==
  /\ pc = "baseline"
  /\ cursor' = SetLastUID(fetched.validity, fetched.uid)
  /\ Forget
  /\ UNCHANGED <<serverVars, archived, emails, backlog>>

\* Fetch returns the new messages.
FetchNew ==
  /\ pc = "fetch"
  /\ ~NeedsBaseline
  /\ \A e \in NewMessages(known.uid) : e.msg \notin Bodyless
  /\ batch' = NewMessages(known.uid)
  /\ pc' = "next"
  /\ UNCHANGED <<serverVars, durableVars, known, fetched, cur, backlog>>

\* One new message without a body makes the whole call fail.
RejectFetch ==
  /\ pc = "fetch"
  /\ ~NeedsBaseline
  /\ \E e \in NewMessages(known.uid) : e.msg \in Bodyless
  /\ Forget
  /\ UNCHANGED <<serverVars, durableVars, backlog>>

\* All new messages are fetched by one command, and no message is processed
\* before it is over: too many of them may run into its timeout.
FetchExpires ==
  /\ pc = "fetch"
  /\ ~NeedsBaseline
  /\ Cardinality(NewMessages(known.uid)) > FetchLimit
  /\ Forget
  /\ UNCHANGED <<serverVars, durableVars, backlog>>

\* Mutant of IsNext: the batch is not sorted.
IsNextUnsorted(e) == e \in batch

\* The batch is sorted: the lowest UID is next.
IsNext(e) == e \in batch /\ \A f \in batch : e.uid <= f.uid

\* Run takes up the next message.
NextMessage ==
  /\ pc = "next"
  /\ \E e \in batch : IsNext(e) /\ cur' = e
  /\ pc' = "archive"
  /\ UNCHANGED <<serverVars, durableVars, known, fetched, batch, backlog>>

\* Run has processed every message and returns.
FinishPoll ==
  /\ pc = "next"
  /\ batch = {}
  /\ Forget
  /\ UNCHANGED <<serverVars, durableVars, backlog>>

\* archive.Write publishes the original, or finds it published.
ArchiveMessage ==
  /\ pc = "archive"
  /\ archived' = archived \union {cur.msg}
  /\ pc' = "exists"
  /\ UNCHANGED <<serverVars, emails, cursor, known, fetched, batch, cur, backlog>>

\* Mutants of CheckExisting: the answer is taken to be yes, and a known message
\* is dropped without its cursor.
CheckExistingAssumed ==
  /\ pc = "exists"
  /\ pc' = "mark"
  /\ UNCHANGED <<serverVars, durableVars, known, fetched, batch, cur, backlog>>
CheckExistingDropped ==
  /\ pc = "exists"
  /\ IF Exists(cur) THEN Forget ELSE pc' = "insert" /\ UNCHANGED <<known, fetched, batch, cur>>
  /\ UNCHANGED <<serverVars, durableVars, backlog>>

\* EmailExists decides whether the message is summarized and inserted.
CheckExisting ==
  /\ pc = "exists"
  /\ pc' = IF Exists(cur) THEN "mark" ELSE "insert"
  /\ UNCHANGED <<serverVars, durableVars, known, fetched, batch, cur, backlog>>

\* The message is summarized, if it parsed and is in scope, and its row is
\* inserted.
InsertRow ==
  /\ pc = "insert"
  /\ \E o \in Outcomes(cur.msg) : emails' = InsertEmail(emails, NewRow(cur, o))
  /\ pc' = "mark"
  /\ UNCHANGED <<serverVars, archived, cursor, known, fetched, batch, cur, backlog>>

\* The effect of UID STORE +FLAGS.SILENT (\Seen): a UID that is no longer in
\* the folder is ignored.
FlagSeen(uid) == seen' = seen \union { e \in Visible : e.uid = uid }

\* Mutant of SameFolder: UIDVALIDITY is not compared.
SameFolderAssumed == TRUE

\* The folder MarkSeen selected is still the one the message came from.
SameFolder == validity = cur.validity

\* The flag is set and the command acknowledged.
MarkSeen ==
  /\ pc = "mark"
  /\ SameFolder
  /\ FlagSeen(cur.uid)
  /\ pc' = "cursor"
  /\ UNCHANGED <<validity, uidNext, mail, expunged, durableVars,
                 known, fetched, batch, cur, backlog>>

\* The flag is set and the acknowledgement lost: MarkSeen returns an error.
MarkSeenUnacknowledged ==
  /\ pc = "mark"
  /\ SameFolder
  /\ FlagSeen(cur.uid)
  /\ Forget
  /\ UNCHANGED <<validity, uidNext, mail, expunged, durableVars, backlog>>

\* UIDVALIDITY changed since the fetch: MarkSeen returns an error.
RefuseMarkSeen ==
  /\ pc = "mark"
  /\ ~SameFolder
  /\ Forget
  /\ UNCHANGED <<serverVars, durableVars, backlog>>

\* The cursor moves to the message, which is done with.
AdvanceCursor ==
  /\ pc = "cursor"
  /\ cursor' = SetLastUID(cur.validity, cur.uid)
  /\ batch' = batch \ {cur}
  /\ cur' = NoEntry
  /\ pc' = "next"
  /\ UNCHANGED <<serverVars, archived, emails, known, fetched, backlog>>

\* A call to the server, the file system or the database returns an error
\* without having had its effect, and Run returns it.
Fail ==
  /\ pc \in {"fetch", "baseline", "archive", "exists", "insert", "mark", "cursor"}
  /\ Forget
  /\ UNCHANGED <<serverVars, durableVars, backlog>>

\* The process dies and is restarted.
Crash ==
  /\ pc # "idle"
  /\ Forget
  /\ UNCHANGED <<serverVars, durableVars, backlog>>

-----------------------------------------------------------------------------
(* The mailbox and its owner                                               *)

\* A message arrives, or an old one is put back in the folder.
Deliver(m) ==
  /\ uidNext <= TopUID
  /\ Cardinality(mail) < MaxMail
  /\ mail' = mail \union {[validity |-> validity, uid |-> uidNext, msg |-> m]}
  /\ uidNext' = uidNext + 1
  /\ UNCHANGED <<validity, expunged, seen, durableVars, jobVars, backlog>>

\* The owner deletes a message.
Expunge(e) ==
  /\ expunged' = expunged \union {e}
  /\ UNCHANGED <<validity, uidNext, mail, seen, durableVars, jobVars, backlog>>

\* The folder is recreated: its UIDs start again under a larger UIDVALIDITY.
RenewFolder ==
  /\ validity < MaxValidity
  /\ validity' = validity + 1
  /\ uidNext' = 1
  /\ UNCHANGED <<mail, expunged, seen, durableVars, jobVars, backlog>>

-----------------------------------------------------------------------------
Job ==
  \/ StartPoll
  \/ FetchBaseline
  \/ SaveBaseline
  \/ FetchNew
  \/ RejectFetch
  \/ FetchExpires
  \/ NextMessage
  \/ FinishPoll
  \/ ArchiveMessage
  \/ CheckExisting
  \/ InsertRow
  \/ MarkSeen
  \/ RefuseMarkSeen
  \/ AdvanceCursor

Faults ==
  \/ MarkSeenUnacknowledged
  \/ Fail
  \/ Crash

Mailbox ==
  \/ \E m \in Messages : Deliver(m)
  \/ \E e \in Visible : Expunge(e)
  \/ RenewFolder

Next == Job \/ Faults \/ Mailbox

Spec == Init /\ [][Next]_vars

\* The cron schedule starts a poll again and again and each call returns, so
\* the job keeps going; and from some time on calls do not fail for outside
\* reasons and the daemon stays up.
FairSpec == Spec /\ WF_vars(Job) /\ <>[][Job \/ Mailbox]_vars

-----------------------------------------------------------------------------
(* Properties                                                              *)

\* A message went through the whole pipeline: archived, and a row with one of
\* its two keys in the database.
Stored(e) == e.msg \in archived /\ Exists(e)

\* processOne flags a message only after archive.Write and InsertEmail: what
\* digestd marked read is archived and persisted, whatever was retried, and
\* whatever epoch of the folder the UID belonged to.
SeenImpliesStored == \A e \in seen : Stored(e)

\* The messages the cursor says are done with.
Covered(e) == e.validity = cursor.validity /\ e.uid <= cursor.uid

\* Run moves the cursor only over messages it stored and flagged: no message
\* that arrived after the baseline and is still in the folder lies behind the
\* cursor unprocessed, so none is lost by a crash or a failed call.
CursorSkipsNothing ==
  \A e \in mail \ (expunged \union backlog) :
    Covered(e) => Stored(e) /\ e \in seen

\* Fetch returns a baseline without fetching: no message that was in the
\* folder when a baseline was taken gets a row of its own or the \Seen flag.
BacklogUntouched ==
  \A e \in backlog :
    /\ e \notin seen
    /\ \A r \in emails : <<r.validity, r.uid>> # <<e.validity, e.uid>>

\* The price of deduplication.  EmailExists takes a message for known by either
\* key, whosever row it is: what digestd marked read has under its own UID a
\* row made of its own bytes, or else some row holds its Message-Id.  A message
\* without a Message-Id is never taken for another one, though the UIDs start
\* again in a new folder.
SeenHasItsRow ==
  \A e \in seen : \E r \in emails :
    \/ r.validity = e.validity /\ r.uid = e.uid /\ r.raw = e.msg
    \/ r.mid = ParsedID(e.msg) /\ r.mid # NoID

\* Both deduplication keys identify at most one row, and every row points to
\* an original that is in the archive.
RowsWellFormed ==
  \A r \in emails :
    /\ r.raw \in archived
    /\ \A s \in emails :
         \/ r.validity = s.validity /\ r.uid = s.uid
         \/ r.mid = s.mid /\ r.mid # NoID
         => r = s

\* Every message of a batch is beyond the cursor: none is processed again
\* after its cursor was saved, whatever the server adds to its answer and at
\* the end of the UID range too.
BatchBeyondCursor ==
  \A e \in batch : e.validity = cursor.validity /\ cursor.uid < e.uid

\* The cursor never moves back: within one UIDVALIDITY the UID grows, and an
\* older UIDVALIDITY does not return.
CursorNeverMovesBack ==
  [][ \/ cursor'.validity > cursor.validity
      \/ cursor'.validity = cursor.validity /\ cursor'.uid >= cursor.uid ]_cursor

\* The poll as the promise it keeps.
Ingest == INSTANCE MailIngest WITH
  gone <- expunged \union backlog \union { e \in mail : e.validity # validity },
  stored <- { e \in mail : Stored(e) },
  passed <- { e \in mail : e.validity < cursor.validity \/ Covered(e) }

\* Whatever fails, crashes or changes in the folder, each message is stored,
\* flagged and passed over in this order, one at a time and for good.
ImplementsMailIngest == Ingest!Spec

\* What the steps preserve together, in three parts.  The server never gives
\* out a UID twice under one UIDVALIDITY.
UIDsAssigned ==
  /\ \A e \in mail : /\ e.validity <= validity
                     /\ e.validity = validity => e.uid < uidNext
  /\ \A e, f \in mail : e.validity = f.validity /\ e.uid = f.uid => e = f

\* Where processOne is tells what it has done for the message at hand.
JobInv ==
  /\ cur # NoEntry <=> pc \in {"archive", "exists", "insert", "mark", "cursor"}
  /\ pc \in {"exists", "insert", "mark", "cursor"} => cur.msg \in archived
  /\ pc \in {"mark", "cursor"} => Exists(cur)
  /\ pc = "cursor" => cur \in seen \union expunged

\* The cursor is behind what the server may still assign, and the batch has
\* every message between the cursor and any message of the batch.
CursorInv ==
  /\ cursor.validity <= validity
  /\ cursor.validity = validity => cursor.uid < uidNext
  /\ pc = "fetch" => known = cursor
  /\ pc = "baseline" =>
       /\ cursor.validity < fetched.validity
       /\ fetched.validity <= validity
       /\ fetched.validity = validity => fetched.uid < uidNext
       /\ \A e \in mail \ (expunged \union backlog) :
            e.validity = fetched.validity => fetched.uid < e.uid
  /\ pc \in {"idle", "fetch", "baseline"} => batch = {}
  /\ \A b \in batch, e \in mail \ expunged :
       e.validity = b.validity /\ cursor.uid < e.uid /\ e.uid <= b.uid => e \in batch
  /\ cur # NoEntry => \A b \in batch : cur.uid <= b.uid

PollInv ==
  /\ TypeOK
  /\ UIDsAssigned
  /\ JobInv
  /\ SeenImpliesStored
  /\ CursorInv
  /\ BatchBeyondCursor
  /\ CursorSkipsNothing

\* A message that arrives after the baseline is archived, persisted and
\* flagged, unless the owner deletes it or recreates the folder first: no
\* failed or interrupted poll takes it out of reach of the next one.
EveryMessageProcessed ==
  \A e \in [validity : 1 .. MaxValidity, uid : 1 .. TopUID,
            msg : Messages \ Bodyless] :
    e \in mail ~> \/ Stored(e) /\ e \in seen
                 \/ e \in expunged \union backlog
                 \/ e.validity # validity
=============================================================================
