------------------------- MODULE PollOutcomeProofs -------------------------
(***************************************************************************)
(* Proofs about what a poll leaves behind.  Rows are unique under both     *)
(* keys and point into the archive, a message that was flagged has a row   *)
(* of its own unless it shares its Message-Id, and the backlog is left     *)
(* alone.  And Poll implements MailIngest, for any mailbox, any number of  *)
(* messages and any way calls fail: every step of a poll, of a fault or of *)
(* the mailbox is one step of the promise or leaves it alone.              *)
(***************************************************************************)
EXTENDS PollProofs

-----------------------------------------------------------------------------
(* Rows                                                                    *)

\* A row is about a message that was once in the folder, under its UID then.
RowsOfMail ==
  \A r \in emails : [validity |-> r.validity, uid |-> r.uid, msg |-> r.raw] \in mail

\* What the steps preserve of the rows.
RowsInv == RowsWellFormed /\ RowsOfMail

\* Only InsertRow changes the table.
LEMMA OnlyInsertRow ==
  ASSUME [Next]_vars, ~InsertRow
  PROVE  emails' = emails
  BY DEF Next, Job, Faults, Mailbox, StartPoll, FetchBaseline, SaveBaseline, FetchNew,
    RejectFetch, FetchExpires, NextMessage, FinishPoll, ArchiveMessage, CheckExisting,
    MarkSeen, RefuseMarkSeen, AdvanceCursor, MarkSeenUnacknowledged, Fail, Crash,
    Deliver, Expunge, RenewFolder, vars, durableVars

\* The folder forgets no UID it gave out.
LEMMA MailGrows ==
  ASSUME [Next]_vars
  PROVE  mail \subseteq mail'
  BY DEF Next, Job, Faults, Mailbox, StartPoll, FetchBaseline, SaveBaseline, FetchNew,
    RejectFetch, FetchExpires, NextMessage, FinishPoll, ArchiveMessage, CheckExisting,
    InsertRow, MarkSeen, RefuseMarkSeen, AdvanceCursor, MarkSeenUnacknowledged, Fail,
    Crash, Deliver, Expunge, RenewFolder, vars, serverVars

\* The row is built of the message that was fetched.
LEMMA NextRowsOfMail ==
  ASSUME PollInv, RowsOfMail, [Next]_vars
  PROVE  RowsOfMail'
<1>1. mail \subseteq mail'
  BY MailGrows
<1>2. CASE ~InsertRow
  BY <1>1, <1>2, OnlyInsertRow DEF RowsOfMail
<1>3. CASE InsertRow
  <2>1. cur # NoEntry
    BY <1>3 DEF InsertRow, PollInv, JobInv
  <2>2. cur \in mail /\ cur \in Entries
    BY <2>1, CurType DEF PollInv, TypeOK
  <2>3. cur = [validity |-> cur.validity, uid |-> cur.uid, msg |-> cur.msg]
    BY <2>2 DEF Entries
  <2>4. PICK o \in Outcomes(cur.msg) : emails' = InsertEmail(emails, NewRow(cur, o))
    BY <1>3 DEF InsertRow
  <2> DEFINE new == NewRow(cur, o)
  <2>5. new.validity = cur.validity /\ new.uid = cur.uid /\ new.raw = cur.msg
    BY DEF NewRow
  <2>6. \A r \in emails' : r \in emails \/ r = new
    BY <2>4 DEF InsertEmail
  <2> HIDE DEF new
  <2> QED
    BY <1>1, <2>2, <2>3, <2>5, <2>6 DEF RowsOfMail
<1> QED
  BY <1>2, <1>3

\* UIDs are given out once, so a row under the UID of a message is of its bytes.
LEMMA SeenRows ==
  ASSUME PollInv, RowsOfMail
  PROVE  SeenHasItsRow
<1> SUFFICES ASSUME NEW e \in seen
             PROVE  \E r \in emails :
                      \/ r.validity = e.validity /\ r.uid = e.uid /\ r.raw = e.msg
                      \/ r.mid = ParsedID(e.msg) /\ r.mid # NoID
  BY DEF SeenHasItsRow
<1>1. e \in mail /\ Exists(e)
  BY DEF PollInv, TypeOK, SeenImpliesStored, Stored
<1>2. PICK r \in emails : \/ r.validity = e.validity /\ r.uid = e.uid
                          \/ ParsedID(e.msg) # NoID /\ r.mid = ParsedID(e.msg)
  BY <1>1 DEF Exists, EmailExists
<1>3. CASE r.validity = e.validity /\ r.uid = e.uid
  <2> DEFINE f == [validity |-> r.validity, uid |-> r.uid, msg |-> r.raw]
  <2>1. f \in mail
    BY DEF RowsOfMail
  <2>2. f.validity = e.validity /\ f.uid = e.uid /\ f.msg = r.raw
    BY <1>3
  <2> HIDE DEF f
  <2>3. f = e
    BY <1>1, <2>1, <2>2 DEF PollInv, UIDsAssigned
  <2> QED
    BY <1>3, <2>2, <2>3
<1>4. CASE ParsedID(e.msg) # NoID /\ r.mid = ParsedID(e.msg)
  BY <1>4
<1> QED
  BY <1>2, <1>3, <1>4

\* InsertEmail keeps the two keys unique, and the original is archived before.
LEMMA NextRowsWellFormed ==
  ASSUME PollInv, RowsWellFormed, [Next]_vars
  PROVE  RowsWellFormed'
<1>1. archived \subseteq archived'
  BY DurableGrows
<1>2. CASE ~InsertRow
  BY <1>1, <1>2, OnlyInsertRow DEF RowsWellFormed
<1>3. CASE InsertRow
  <2>1. cur \in Entries /\ cur.msg \in archived
    BY <1>3, CurType DEF InsertRow, PollInv, JobInv
  <2>2. PICK o \in Outcomes(cur.msg) : emails' = InsertEmail(emails, NewRow(cur, o))
    BY <1>3 DEF InsertRow
  <2> DEFINE new == NewRow(cur, o)
  <2>3. new.raw \in archived'
    BY <1>1, <2>1, NewRowType
  <2>4. CASE EmailExists(emails, new.validity, new.uid, new.mid)
    BY <1>1, <2>2, <2>4 DEF InsertEmail, RowsWellFormed
  <2>5. CASE ~EmailExists(emails, new.validity, new.uid, new.mid)
    <3>1. emails' = emails \union {new}
      BY <2>2, <2>5 DEF InsertEmail
    <3>2. \A r \in emails : /\ ~(r.validity = new.validity /\ r.uid = new.uid)
                            /\ ~(r.mid = new.mid /\ r.mid # NoID)
      BY <2>5 DEF EmailExists
    <3> HIDE DEF new
    <3> QED
      BY <1>1, <2>3, <3>1, <3>2 DEF RowsWellFormed
  <2> QED
    BY <2>4, <2>5
<1> QED
  BY <1>2, <1>3

\* What is true of the rows in every state.
LEMMA RowsInvariant == Spec => []RowsInv
<1>1. Init => RowsInv
  BY DEF Init, RowsInv, RowsWellFormed, RowsOfMail
<1>2. PollInv /\ RowsInv /\ [Next]_vars => RowsInv'
  BY NextRowsOfMail, NextRowsWellFormed DEF RowsInv
<1> QED
  BY <1>1, <1>2, PollInvariant, PTL DEF Spec

\* Both keys of the table identify at most one row, and every row has its
\* original in the archive.
THEOREM RowsWellFormedHolds == Spec => []RowsWellFormed
<1>1. RowsInv => RowsWellFormed
  BY DEF RowsInv
<1> QED
  BY <1>1, RowsInvariant, PTL

\* A message that digestd marked read has its own row, under its own UID, or a
\* row with its Message-Id.
THEOREM SeenHasItsRowHolds == Spec => []SeenHasItsRow
<1>1. PollInv /\ RowsInv => SeenHasItsRow
  BY SeenRows DEF RowsInv
<1> QED
  BY <1>1, PollInvariant, RowsInvariant, PTL

-----------------------------------------------------------------------------
(* The backlog                                                             *)

\* A message that was in the folder at a baseline lies behind that baseline and
\* behind every cursor of its folder; what was written is of no folder newer
\* than the cursor, so that nothing was written about what the next baseline
\* finds.
BacklogInv ==
  /\ \A e \in backlog : e.validity = cursor.validity => e.uid <= cursor.uid
  /\ pc = "baseline" =>
       \A e \in backlog : e.validity = fetched.validity => e.uid <= fetched.uid
  /\ \A e \in seen : e.validity <= cursor.validity
  /\ \A r \in emails : r.validity <= cursor.validity
  /\ BacklogUntouched

\* The message at hand is not of the backlog, and is of the cursor's folder.
LEMMA CurBeyondBacklog ==
  ASSUME PollInv, BacklogInv, cur # NoEntry
  PROVE  /\ cur.validity = cursor.validity
         /\ \A e \in backlog : ~(e.validity = cur.validity /\ e.uid = cur.uid)
<1>1. cur \in batch /\ cur.uid \in Nat
  BY CurType, PollAssumption DEF PollInv, Entries
<1>2. cur.validity = cursor.validity /\ cursor.uid < cur.uid
  BY <1>1 DEF PollInv, BatchBeyondCursor
<1>3. /\ cursor.uid \in Nat
      /\ \A e \in backlog : e.uid \in Nat
  BY PollAssumption DEF PollInv, TypeOK, Cursors, UIDs, Entries
<1> QED
  BY <1>1, <1>2, <1>3 DEF BacklogInv

\* Steps that write nothing and leave cursor and baseline alone.
LEMMA QuietBacklog ==
  ASSUME BacklogInv, UNCHANGED <<seen, emails, cursor, backlog>>,
         pc' = "baseline" => UNCHANGED <<pc, fetched>>
  PROVE  BacklogInv'
  BY DEF BacklogInv, BacklogUntouched

\* A baseline is at least the largest UID in the folder, and nothing was written
\* about a folder that is new.
LEMMA BaselineBacklog ==
  ASSUME PollInv, BacklogInv, FetchBaseline, ~MayOmitUIDNext, TopUID < MaxUID
  PROVE  BacklogInv'
<1>1. /\ pc = "fetch" /\ NeedsBaseline
      /\ backlog' = backlog \union Visible
      /\ UNCHANGED <<validity, mail, seen, emails, cursor>>
  BY DEF FetchBaseline, serverVars, durableVars
<1>2. fetched' = [validity |-> validity, uid |-> uidNext - 1]
  <2>1. uidNext \in 1 .. MaxUID
    BY PollAssumption DEF PollInv, TypeOK
  <2>2. UIDNextReports = {uidNext}
    BY <2>1 DEF UIDNextReports, Uint32
  <2>3. latestUID(uidNext) = uidNext - 1
    BY <2>1 DEF latestUID
  <2> QED
    BY <2>2, <2>3 DEF FetchBaseline
<1>3. cursor.validity < validity
  <2>1. known = cursor /\ cursor.validity <= validity
    BY <1>1 DEF PollInv, CursorInv
  <2>2. cursor.validity \in Nat /\ validity \in Nat \ {0}
    BY DEF PollInv, TypeOK, Cursors
  <2> QED
    BY <1>1, <2>1, <2>2 DEF NeedsBaseline
<1>4. /\ cursor.validity \in Nat /\ validity \in Nat /\ uidNext \in Nat
      /\ backlog \subseteq mail /\ Visible \subseteq mail /\ seen \subseteq mail
      /\ \A e \in mail : e.validity \in Nat /\ e.uid \in Nat
      /\ \A r \in emails : r.validity \in Nat
  BY PollAssumption DEF PollInv, TypeOK, Cursors, Visible, Entries, Rows
<1>5. \A e \in Visible : e.validity = validity
  BY DEF Visible
<1>6. \A e \in backlog' : e.validity = cursor'.validity => e.uid <= cursor'.uid
  BY <1>1, <1>3, <1>4, <1>5 DEF BacklogInv
<1>7. \A e \in backlog' : e.validity = fetched'.validity => e.uid <= fetched'.uid
  <2> SUFFICES ASSUME NEW e \in mail, e.validity = validity
               PROVE  e.uid <= uidNext - 1
    BY <1>1, <1>2, <1>4
  <2>1. e.uid < uidNext
    BY DEF PollInv, UIDsAssigned
  <2> QED
    BY <1>4, <2>1
<1>8. BacklogUntouched'
  <2>1. \A e \in Visible : e \notin seen
    BY <1>3, <1>4, <1>5 DEF BacklogInv
  <2>2. \A e \in Visible, r \in emails : r.validity # e.validity
    BY <1>3, <1>4, <1>5 DEF BacklogInv
  <2>3. \A e \in Visible, r \in emails : <<r.validity, r.uid>> # <<e.validity, e.uid>>
    BY <2>2
  <2> QED
    BY <1>1, <2>1, <2>3 DEF BacklogInv, BacklogUntouched
<1> QED
  BY <1>1, <1>6, <1>7, <1>8 DEF BacklogInv

\* The baseline becomes the cursor, and lies ahead of the one before.
LEMMA SaveBaselineBacklog ==
  ASSUME PollInv, BacklogInv, SaveBaseline
  PROVE  BacklogInv'
<1>1. /\ cursor'.validity = fetched.validity /\ cursor'.uid = fetched.uid
      /\ pc = "baseline" /\ pc' = "idle"
      /\ UNCHANGED <<seen, emails, backlog>>
  BY DEF SaveBaseline, SetLastUID, Forget, serverVars
<1>2. cursor.validity < fetched.validity
  BY <1>1 DEF PollInv, CursorInv
<1>3. /\ cursor.validity \in Nat /\ fetched.validity \in Nat
      /\ \A e \in seen : e.validity \in Nat
      /\ \A r \in emails : r.validity \in Nat
  BY DEF PollInv, TypeOK, Cursors, Entries, Rows
<1> QED
  BY <1>1, <1>2, <1>3 DEF BacklogInv, BacklogUntouched

\* A row of the message at hand is of the cursor's folder and not of the backlog.
LEMMA InsertBacklog ==
  ASSUME PollInv, BacklogInv, InsertRow
  PROVE  BacklogInv'
<1>1. /\ pc = "insert" /\ pc' = "mark"
      /\ UNCHANGED <<seen, cursor, backlog>>
  BY DEF InsertRow, serverVars
<1>2. cur # NoEntry /\ cur \in Entries
  BY <1>1, CurType DEF PollInv, JobInv
<1>3. PICK o \in Outcomes(cur.msg) : emails' = InsertEmail(emails, NewRow(cur, o))
  BY DEF InsertRow
<1>4. \A r \in emails' \ emails : r.validity = cur.validity /\ r.uid = cur.uid
  BY <1>2, <1>3, NewRowType DEF InsertEmail
<1>5. cursor.validity \in Nat
  BY DEF PollInv, TypeOK, Cursors
<1>6. \A r \in emails' : r.validity <= cursor.validity
  BY <1>2, <1>4, <1>5, CurBeyondBacklog DEF BacklogInv
<1>7. BacklogUntouched'
  <2> SUFFICES ASSUME NEW e \in backlog, NEW r \in emails' \ emails
               PROVE  <<r.validity, r.uid>> # <<e.validity, e.uid>>
    BY <1>1 DEF BacklogInv, BacklogUntouched
  <2>1. r.validity # e.validity \/ r.uid # e.uid
    BY <1>2, <1>4, CurBeyondBacklog
  <2> QED
    BY <2>1
<1> QED
  BY <1>1, <1>6, <1>7 DEF BacklogInv

\* The flag is set on no message but the one at hand.
LEMMA MarkBacklog ==
  ASSUME PollInv, BacklogInv, MarkSeen \/ MarkSeenUnacknowledged
  PROVE  BacklogInv'
<1>1. /\ pc = "mark" /\ SameFolder /\ FlagSeen(cur.uid) /\ pc' # "baseline"
      /\ UNCHANGED <<emails, cursor, backlog>>
  BY DEF MarkSeen, MarkSeenUnacknowledged, Forget, durableVars
<1>2. cur # NoEntry
  BY <1>1 DEF PollInv, JobInv
<1>3. seen' \subseteq seen \union {cur}
  BY <1>1, <1>2, FlagsOnlyCur DEF FlagSeen, PollInv
<1>4. cur.validity = cursor.validity /\ cur \notin backlog
  BY <1>2, CurBeyondBacklog
<1>5. cursor.validity \in Nat
  BY DEF PollInv, TypeOK, Cursors
<1> QED
  BY <1>1, <1>3, <1>4, <1>5 DEF BacklogInv, BacklogUntouched

\* The cursor only grows.
LEMMA AdvanceBacklog ==
  ASSUME PollInv, BacklogInv, AdvanceCursor
  PROVE  BacklogInv'
<1>1. /\ cursor'.validity = cur.validity /\ cursor'.uid = cur.uid
      /\ pc = "cursor" /\ pc' = "next"
      /\ UNCHANGED <<seen, emails, backlog>>
  BY DEF AdvanceCursor, SetLastUID, serverVars
<1>2. cur \in batch
  BY <1>1, CurType DEF PollInv, JobInv
<1>3. cur.validity = cursor.validity /\ cursor.uid < cur.uid
  BY <1>2 DEF PollInv, BatchBeyondCursor
<1>4. /\ cursor.uid \in Nat /\ cur.uid \in Nat
      /\ \A e \in backlog : e.uid \in Nat
  BY <1>2, PollAssumption DEF PollInv, TypeOK, Cursors, UIDs, Entries
<1> QED
  BY <1>1, <1>3, <1>4 DEF BacklogInv, BacklogUntouched

\* Every step keeps it.
LEMMA NextBacklogInv ==
  ASSUME PollInv, BacklogInv, [Next]_vars, ~MayOmitUIDNext, TopUID < MaxUID
  PROVE  BacklogInv'
<1>1. CASE \/ StartPoll \/ FetchNew \/ RejectFetch \/ FetchExpires \/ NextMessage
           \/ FinishPoll \/ ArchiveMessage \/ CheckExisting \/ RefuseMarkSeen
           \/ Fail \/ Crash
  BY <1>1, QuietBacklog
     DEF StartPoll, FetchNew, RejectFetch, FetchExpires, NextMessage, FinishPoll,
         ArchiveMessage, CheckExisting, RefuseMarkSeen, Fail, Crash, Forget,
         serverVars, durableVars
<1>2. CASE Mailbox \/ UNCHANGED vars
  BY <1>2, QuietBacklog
     DEF Mailbox, Deliver, Expunge, RenewFolder, vars, serverVars, durableVars, jobVars
<1> QED
  BY <1>1, <1>2, BaselineBacklog, SaveBaselineBacklog, InsertBacklog, MarkBacklog,
     AdvanceBacklog DEF Next, Job, Faults

\* With a server that sends UIDNEXT and has not given out the largest UID, no
\* message of the backlog gets a row or the flag.
THEOREM BacklogUntouchedHolds ==
  ASSUME ~MayOmitUIDNext, TopUID < MaxUID
  PROVE  Spec => []BacklogUntouched
<1>1. Init => BacklogInv
  BY DEF Init, BacklogInv, BacklogUntouched
<1>2. PollInv /\ BacklogInv /\ [Next]_vars => BacklogInv'
  BY NextBacklogInv
<1>3. BacklogInv => BacklogUntouched
  BY DEF BacklogInv
<1> QED
  BY <1>1, <1>2, <1>3, PollInvariant, PTL DEF Spec

-----------------------------------------------------------------------------
(* The promise                                                             *)


\* What the promise reads off a poll.
Gone == expunged \union backlog \union { e \in mail : e.validity # validity }
StoredMail == { e \in mail : Stored(e) }
PassedMail == { e \in mail : e.validity < cursor.validity \/ Covered(e) }

promised == <<mail, Gone, StoredMail, seen, PassedMail>>

\* The variables of the promise are these.
LEMMA PromisedVars == Ingest!vars = promised /\ (Ingest!vars)' = promised'
  BY DEF Ingest!vars, promised, Gone, StoredMail, PassedMail

\* Gone messages are messages of the mailbox.
LEMMA GoneInMail == TypeOK => Gone \subseteq mail
  BY DEF TypeOK, Gone

\* What is not touched by a step that leaves the server and the durable state
\* alone.
LEMMA QuietKeepsPromise ==
  ASSUME UNCHANGED <<validity, mail, expunged, backlog, archived, emails, cursor>>
  PROVE  UNCHANGED <<Gone, StoredMail, PassedMail>>
<1>1. UNCHANGED Gone
  BY DEF Gone
<1>2. UNCHANGED StoredMail
  BY DEF StoredMail, Stored, Exists
<1>3. UNCHANGED PassedMail
  BY DEF PassedMail, Covered
<1> QED
  BY <1>1, <1>2, <1>3

-----------------------------------------------------------------------------
(* The mailbox                                                             *)

\* A new message is not passed over yet, and the promise is about it.
LEMMA DeliverArrives ==
  ASSUME PollInv, NEW m \in Messages, Deliver(m)
  PROVE  Ingest!Arrive
<1> DEFINE new == [validity |-> validity, uid |-> uidNext, msg |-> m]
<1>1. /\ mail' = mail \union {new}
      /\ UNCHANGED <<validity, expunged, seen, archived, emails, cursor, backlog>>
  BY DEF Deliver, durableVars
<1>2. ~(new.validity < cursor.validity) /\ ~Covered(new)
  <2>1. cursor.validity \in Nat /\ cursor.uid \in Nat /\ uidNext \in Nat /\ validity \in Nat
    BY PollAssumption DEF PollInv, TypeOK, Cursors, UIDs
  <2> QED
    BY <2>1 DEF PollInv, CursorInv, Covered
<1>3. UNCHANGED Gone
  BY <1>1 DEF Gone
<1>4. UNCHANGED PassedMail
  BY <1>1, <1>2 DEF PassedMail, Covered
<1>5. /\ StoredMail \subseteq StoredMail'
      /\ StoredMail' \ StoredMail \subseteq mail' \ mail
  BY <1>1 DEF StoredMail, Stored, Exists
<1> QED
  BY <1>1, <1>3, <1>4, <1>5 DEF Ingest!Arrive, Gone, StoredMail, PassedMail

\* What the owner takes out of the folder, and what a baseline finds in it, is
\* gone.
LEMMA OwnerLoses ==
  ASSUME PollInv, PollInv',
         \/ \E e \in Visible : Expunge(e)
         \/ RenewFolder
         \/ FetchBaseline
  PROVE  Ingest!Lose
<1>1. UNCHANGED <<mail, seen, archived, emails, cursor>>
  BY DEF Expunge, RenewFolder, FetchBaseline, serverVars, durableVars
<1>2. UNCHANGED StoredMail /\ UNCHANGED PassedMail
  BY <1>1 DEF StoredMail, Stored, Exists, PassedMail, Covered
<1>3. Gone \subseteq Gone'
  <2>1. CASE RenewFolder
    <3>1. \A e \in mail : e.validity # validity + 1
      <4>1. \A e \in mail : e.validity \in Nat /\ e.validity <= validity
        BY DEF PollInv, TypeOK, UIDsAssigned, Entries
      <4> QED
        BY <4>1 DEF PollInv, TypeOK
    <3> QED
      BY <2>1, <3>1 DEF RenewFolder, Gone
  <2>2. CASE FetchBaseline
    BY <2>2 DEF FetchBaseline, serverVars, Gone
  <2>3. ASSUME NEW e \in Visible, Expunge(e)
        PROVE  Gone \subseteq Gone'
    BY <2>3 DEF Expunge, Gone
  <2> QED
    BY <2>1, <2>2, <2>3
<1>4. Gone' \subseteq mail
  BY <1>1 DEF PollInv, TypeOK, Gone
<1> QED
  BY <1>1, <1>2, <1>3, <1>4 DEF Ingest!Lose, Gone, StoredMail, PassedMail

-----------------------------------------------------------------------------
(* The job                                                                 *)

\* Archiving and inserting store messages and do nothing else.
LEMMA JobStores ==
  ASSUME PollInv, [Next]_vars, ArchiveMessage \/ InsertRow
  PROVE  Ingest!Store
<1>1. UNCHANGED <<validity, mail, expunged, seen, backlog, cursor>>
  BY DEF ArchiveMessage, InsertRow, serverVars
<1>2. UNCHANGED Gone /\ UNCHANGED PassedMail
  BY <1>1 DEF Gone, PassedMail, Covered
<1>3. StoredMail \subseteq StoredMail' /\ StoredMail' \subseteq mail
  BY <1>1, StoredStable DEF StoredMail
<1> QED
  BY <1>1, <1>2, <1>3 DEF Ingest!Store, Gone, StoredMail, PassedMail

\* The flag is set on the message at hand, which is stored, or on none.
LEMMA MarkFlags ==
  ASSUME PollInv, MarkSeen \/ MarkSeenUnacknowledged
  PROVE  (\E e \in mail : Ingest!Flag(e)) \/ UNCHANGED promised
<1>1. /\ pc = "mark" /\ SameFolder /\ FlagSeen(cur.uid)
      /\ UNCHANGED <<validity, mail, expunged, backlog, archived, emails, cursor>>
  BY DEF MarkSeen, MarkSeenUnacknowledged, durableVars
<1>2. UNCHANGED <<Gone, StoredMail, PassedMail>>
  BY <1>1, QuietKeepsPromise
<1>3. cur # NoEntry /\ cur \in StoredMail /\ cur \in mail
  BY <1>1, CurType DEF PollInv, JobInv, StoredMail, Stored
<1>4. \A e \in Visible : e.uid = cur.uid => e = cur
  BY <1>1, <1>3, FlagsOnlyCur DEF PollInv
<1>5. CASE cur \in Visible
  <2>1. seen' = seen \union {cur}
    BY <1>1, <1>4, <1>5 DEF FlagSeen
  <2>2. Ingest!Flag(cur)
    BY <1>1, <1>2, <1>3, <2>1 DEF Ingest!Flag, Gone, StoredMail, PassedMail
  <2> QED
    BY <1>3, <2>2
<1>6. CASE cur \notin Visible
  <2>1. seen' = seen
    BY <1>1, <1>4, <1>6 DEF FlagSeen
  <2> QED
    BY <1>1, <1>2, <2>1 DEF promised
<1> QED
  BY <1>5, <1>6

\* A step that moves the cursor over gone messages, and over one that is
\* stored and flagged or gone, is a step of the promise.
LEMMA CursorPasses ==
  ASSUME UNCHANGED <<validity, mail, expunged, backlog, seen, archived, emails>>,
         PassedMail \subseteq PassedMail',
         NEW e \in mail,
         PassedMail' \ PassedMail \subseteq Gone \union {e},
         e \in StoredMail \intersect seen \/ e \in Gone
  PROVE  Ingest!Pass(e)
<1>1. UNCHANGED Gone /\ UNCHANGED StoredMail
  BY DEF Gone, StoredMail, Stored, Exists
<1>2. PassedMail' \subseteq mail
  BY DEF PassedMail
<1> QED
  BY <1>1, <1>2 DEF Ingest!Pass, Gone, StoredMail, PassedMail

\* A message is passed over when the cursor reaches it.
LEMMA AdvancePasses ==
  ASSUME PollInv, AdvanceCursor
  PROVE  \E e \in mail : Ingest!Pass(e)
<1> USE DEF PollInv
<1>1. /\ cursor'.validity = cur.validity /\ cursor'.uid = cur.uid
      /\ pc = "cursor"
      /\ UNCHANGED <<validity, uidNext, mail, expunged, seen, archived, emails, backlog>>
  BY DEF AdvanceCursor, SetLastUID, serverVars
<1>2. cur \in batch /\ cur \in mail
  BY <1>1, CurType DEF JobInv
<1>3. cur.validity = cursor.validity /\ cursor.uid < cur.uid
  BY <1>2 DEF BatchBeyondCursor
<1>4. /\ cursor.uid \in Nat
      /\ \A e \in mail : e.uid \in Nat
  BY PollAssumption DEF TypeOK, Cursors, UIDs, Entries
<1>5. PassedMail \subseteq PassedMail'
  BY <1>1, <1>2, <1>3, <1>4 DEF PassedMail, Covered
<1>6. PassedMail' \ PassedMail \subseteq Gone \union {cur}
  <2> SUFFICES ASSUME NEW e \in mail \ expunged,
                      e.validity = cursor.validity, cursor.uid < e.uid, e.uid <= cur.uid
               PROVE  e = cur
    BY <1>1, <1>3, <1>4 DEF PassedMail, Covered, Gone
  <2>1. e \in batch
    BY <1>2, <1>3 DEF CursorInv
  <2>2. cur.uid <= e.uid
    BY <1>1, <2>1 DEF CursorInv, JobInv
  <2>3. e.uid = cur.uid
    BY <1>2, <1>4, <2>2
  <2> QED
    BY <1>2, <1>3, <2>3 DEF UIDsAssigned
<1>7. cur \in StoredMail \intersect seen \/ cur \in Gone
  <2>1. cur \in StoredMail
    BY <1>1, <1>2 DEF JobInv, StoredMail, Stored
  <2>2. cur \in seen \/ cur \in expunged
    BY <1>1 DEF JobInv
  <2> QED
    BY <2>1, <2>2 DEF Gone
<1>8. PICK e \in mail : e = cur
  BY <1>2
<1>9. Ingest!Pass(e)
  BY <1>1, <1>5, <1>6, <1>7, <1>8, CursorPasses
<1> QED
  BY <1>9

\* A baseline passes over backlog and over the mail of older folders.
LEMMA BaselinePasses ==
  ASSUME PollInv, SaveBaseline
  PROVE  (\E e \in mail : Ingest!Pass(e)) \/ UNCHANGED promised
<1> USE DEF PollInv
<1>1. /\ cursor'.validity = fetched.validity /\ cursor'.uid = fetched.uid
      /\ pc = "baseline"
      /\ UNCHANGED <<validity, uidNext, mail, expunged, seen, archived, emails, backlog>>
  BY DEF SaveBaseline, SetLastUID, serverVars
<1>2. /\ cursor.validity \in Nat /\ fetched.validity \in Nat /\ validity \in Nat
      /\ cursor.uid \in Nat /\ fetched.uid \in Nat
      /\ \A e \in mail : e.validity \in Nat /\ e.uid \in Nat
  BY PollAssumption DEF TypeOK, Cursors, UIDs, Entries
<1>3. cursor.validity < fetched.validity /\ fetched.validity <= validity
  BY <1>1 DEF CursorInv
<1>4. PassedMail \subseteq PassedMail'
  BY <1>1, <1>2, <1>3 DEF PassedMail, Covered
<1>5. PassedMail' \subseteq Gone
  <2> SUFFICES ASSUME NEW e \in mail \ (expunged \union backlog), e.validity = validity,
                      \/ e.validity < fetched.validity
                      \/ e.validity = fetched.validity /\ e.uid <= fetched.uid
               PROVE  FALSE
    BY <1>1 DEF PassedMail, Covered, Gone
  <2>1. e.validity = fetched.validity /\ e.uid <= fetched.uid
    BY <1>2, <1>3
  <2>2. fetched.uid < e.uid
    BY <1>1, <2>1 DEF CursorInv
  <2> QED
    BY <1>2, <2>1, <2>2
<1>6. CASE PassedMail' = PassedMail
  <2>1. UNCHANGED Gone /\ UNCHANGED StoredMail
    BY <1>1 DEF Gone, StoredMail, Stored, Exists
  <2> QED
    BY <1>1, <1>6, <2>1 DEF promised
<1>7. CASE PassedMail' # PassedMail
  <2>1. PICK e \in PassedMail' : e \notin PassedMail
    BY <1>4, <1>7
  <2>2. e \in mail /\ e \in Gone
    BY <1>1, <1>5, <2>1 DEF PassedMail
  <2>3. Ingest!Pass(e)
    BY <1>1, <1>4, <1>5, <2>2, CursorPasses
  <2> QED
    BY <2>2, <2>3
<1> QED
  BY <1>6, <1>7

-----------------------------------------------------------------------------
(* Every step                                                              *)

\* Every step is a step of the promise or leaves it alone.
LEMMA StepsOfIngest ==
  ASSUME PollInv, PollInv', [Next]_vars
  PROVE  [Ingest!Next]_(Ingest!vars)
<1>1. CASE \E m \in Messages : Deliver(m)
  BY <1>1, DeliverArrives DEF Ingest!Next
<1>2. CASE (\E e \in Visible : Expunge(e)) \/ RenewFolder \/ FetchBaseline
  BY <1>2, OwnerLoses DEF Ingest!Next
<1>3. CASE ArchiveMessage \/ InsertRow
  BY <1>3, JobStores DEF Ingest!Next
<1>4. CASE MarkSeen \/ MarkSeenUnacknowledged
  BY <1>4, MarkFlags, PromisedVars DEF Ingest!Next
<1>5. CASE AdvanceCursor
  BY <1>5, AdvancePasses DEF Ingest!Next
<1>6. CASE SaveBaseline
  BY <1>6, BaselinePasses, PromisedVars DEF Ingest!Next
<1>7. CASE \/ StartPoll \/ FetchNew \/ RejectFetch \/ FetchExpires \/ NextMessage
           \/ FinishPoll \/ CheckExisting \/ RefuseMarkSeen \/ Fail \/ Crash
           \/ UNCHANGED vars
  <2>1. UNCHANGED <<validity, mail, expunged, seen, backlog, archived, emails, cursor>>
    BY <1>7 DEF StartPoll, FetchNew, RejectFetch, FetchExpires, NextMessage, FinishPoll,
      CheckExisting, RefuseMarkSeen, Fail, Crash, serverVars, durableVars, vars
  <2>2. UNCHANGED promised
    BY <2>1, QuietKeepsPromise DEF promised
  <2> QED
    BY <2>2, PromisedVars
<1> QED
  BY <1>1, <1>2, <1>3, <1>4, <1>5, <1>6, <1>7 DEF Next, Job, Faults, Mailbox

\* Each message is stored, flagged and passed over in this order, one at a
\* time and for good, whatever fails and whatever the owner does.
THEOREM PollImplementsMailIngest == Spec => ImplementsMailIngest
<1>1. Init => Ingest!Init
  BY DEF Init, Ingest!Init
<1>2. PollInv /\ PollInv' /\ [Next]_vars => [Ingest!Next]_(Ingest!vars)
  BY StepsOfIngest
<1> QED
  BY <1>1, <1>2, PollInvariant, PTL DEF Spec, ImplementsMailIngest, Ingest!Spec

-----------------------------------------------------------------------------
(* What the promise amounts to                                             *)

\* What is flagged is stored; what is passed over is stored and flagged, or gone.
Kept ==
  /\ seen \subseteq StoredMail
  /\ PassedMail \subseteq (StoredMail \intersect seen) \union Gone

\* The steps of MailIngest alone keep it: whatever implements MailIngest flags
\* and passes over no message too early.
THEOREM PromiseIsKept == ImplementsMailIngest => []Kept
<1>1. Ingest!Init => Kept
  BY DEF Ingest!Init, Kept, StoredMail, PassedMail
<1>2. Kept /\ [Ingest!Next]_(Ingest!vars) => Kept'
  <2> SUFFICES ASSUME Kept, [Ingest!Next]_(Ingest!vars)
               PROVE  Kept'
    OBVIOUS
  <2>1. CASE Ingest!Arrive
    BY <2>1 DEF Ingest!Arrive, Kept, Gone, StoredMail, PassedMail
  <2>2. CASE Ingest!Lose
    BY <2>2 DEF Ingest!Lose, Kept, Gone, StoredMail, PassedMail
  <2>3. CASE Ingest!Store
    BY <2>3 DEF Ingest!Store, Kept, Gone, StoredMail, PassedMail
  <2>4. ASSUME NEW e \in mail, Ingest!Flag(e)
        PROVE  Kept'
    BY <2>4 DEF Ingest!Flag, Kept, Gone, StoredMail, PassedMail
  <2>5. ASSUME NEW e \in mail, Ingest!Pass(e)
        PROVE  Kept'
    BY <2>5 DEF Ingest!Pass, Kept, Gone, StoredMail, PassedMail
  <2>6. CASE UNCHANGED Ingest!vars
    BY <2>6 DEF Ingest!vars, Kept, Gone, StoredMail, PassedMail
  <2> QED
    BY <2>1, <2>2, <2>3, <2>4, <2>5, <2>6 DEF Ingest!Next
<1> QED
  BY <1>1, <1>2, PTL DEF ImplementsMailIngest, Ingest!Spec

\* No step of the job, of a fault or of the mailbox takes anything back: what is
\* stored, flagged or passed over is so for good, through crashes and a folder
\* that is recreated.
THEOREM NothingTakenBack ==
  Spec => [][ /\ StoredMail \subseteq StoredMail'
              /\ seen \subseteq seen'
              /\ PassedMail \subseteq PassedMail'
              /\ Gone \subseteq Gone' ]_promised
<1>1. [Ingest!Next]_(Ingest!vars) =>
        [ /\ StoredMail \subseteq StoredMail'
          /\ seen \subseteq seen'
          /\ PassedMail \subseteq PassedMail'
          /\ Gone \subseteq Gone' ]_promised
  <2> SUFFICES ASSUME [Ingest!Next]_(Ingest!vars), promised' # promised
               PROVE  /\ StoredMail \subseteq StoredMail'
                      /\ seen \subseteq seen'
                      /\ PassedMail \subseteq PassedMail'
                      /\ Gone \subseteq Gone'
    OBVIOUS
  <2>1. Ingest!Next
    BY PromisedVars
  <2>2. CASE Ingest!Arrive
    BY <2>2 DEF Ingest!Arrive, Gone, StoredMail, PassedMail
  <2>3. CASE Ingest!Lose
    BY <2>3 DEF Ingest!Lose, Gone, StoredMail, PassedMail
  <2>4. CASE Ingest!Store
    BY <2>4 DEF Ingest!Store, Gone, StoredMail, PassedMail
  <2>5. ASSUME NEW e \in mail, Ingest!Flag(e) \/ Ingest!Pass(e)
        PROVE  /\ StoredMail \subseteq StoredMail'
               /\ seen \subseteq seen'
               /\ PassedMail \subseteq PassedMail'
               /\ Gone \subseteq Gone'
    BY <2>5 DEF Ingest!Flag, Ingest!Pass, Gone, StoredMail, PassedMail
  <2> QED
    BY <2>1, <2>2, <2>3, <2>4, <2>5 DEF Ingest!Next
<1> QED
  BY <1>1, PollImplementsMailIngest, PTL DEF ImplementsMailIngest, Ingest!Spec

=============================================================================
