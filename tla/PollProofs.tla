----------------------------- MODULE PollProofs -----------------------------
(***************************************************************************)
(* Proofs about Poll, for any mailbox, any number of messages and any way  *)
(* calls fail: types, what \Seen implies, and that the cursor skips        *)
(* nothing.  The inductive invariant is PollInv; its parts are proved in   *)
(* the order in which they need each other.                                *)
(***************************************************************************)
EXTENDS Poll, TLAPS

-----------------------------------------------------------------------------
(* The emails table                                                        *)

\* InsertEmail loses no row.
LEMMA InsertKeeps ==
  ASSUME NEW table, NEW row
  PROVE  table \subseteq InsertEmail(table, row)
  BY DEF InsertEmail

\* A key that is in the table stays in it.
LEMMA ExistsMonotone ==
  ASSUME NEW table, NEW larger, table \subseteq larger,
         NEW v, NEW u, NEW m, EmailExists(table, v, u, m)
  PROVE  EmailExists(larger, v, u, m)
  BY DEF EmailExists

\* After InsertEmail a row with one of the two keys is in the table, whether it
\* was inserted or found.
LEMMA InsertedExists ==
  ASSUME NEW table, NEW row
  PROVE  EmailExists(InsertEmail(table, row), row.validity, row.uid, row.mid)
<1>1. CASE EmailExists(table, row.validity, row.uid, row.mid)
  BY <1>1 DEF InsertEmail
<1>2. CASE ~EmailExists(table, row.validity, row.uid, row.mid)
  <2>1. row \in InsertEmail(table, row)
    BY <1>2 DEF InsertEmail
  <2> QED
    BY <2>1 DEF EmailExists
<1> QED
  BY <1>1, <1>2

-----------------------------------------------------------------------------
(* Types                                                                   *)

\* What Fetch returns is visible in the folder.
LEMMA FetchedVisible == NewMessages(known.uid) \subseteq Visible
  BY DEF NewMessages, FetchSince, UidFetch

\* The row built for a message of the mailbox is one of the table.
LEMMA NewRowType ==
  ASSUME NEW e \in Entries, NEW o \in Outcomes(e.msg)
  PROVE  /\ NewRow(e, o) \in Rows
         /\ NewRow(e, o).validity = e.validity
         /\ NewRow(e, o).uid = e.uid
         /\ NewRow(e, o).mid = ParsedID(e.msg)
         /\ NewRow(e, o).raw = e.msg
<1>1. ParsedID(e.msg) \in MessageIDs \union {NoID}
  BY PollAssumption DEF ParsedID, Entries
<1>2. o.inScope \in BOOLEAN /\ o.status \in {"ok", "error"}
  BY DEF Outcomes
<1>3. e.validity \in Nat \ {0} /\ e.uid \in 1 .. MaxUID /\ e.msg \in Messages
  BY DEF Entries
<1>4. NewRow(e, o) \in Rows
  BY <1>1, <1>2, <1>3, Zenon DEF NewRow, Rows
<1> QED
  BY <1>4 DEF NewRow

\* The baseline is a UID the server has assigned, or 0.
LEMMA BaselineBelowNext ==
  ASSUME TypeOK, NEW n \in UIDNextReports
  PROVE  /\ latestUID(n) \in UIDs
         /\ latestUID(n) < uidNext
  BY PollAssumption DEF TypeOK, latestUID, UIDNextReports, Uint32, UIDs

\* The message at hand, when there is one, is a message of the mailbox.
LEMMA CurType ==
  ASSUME TypeOK, cur # NoEntry
  PROVE  cur \in batch /\ cur \in mail /\ cur \in Entries
  BY DEF TypeOK

\* The variables of a new database and an empty mailbox have their types.
LEMMA InitTypeOK == Init => TypeOK
  BY PollAssumption
     DEF Init, TypeOK, NoCursor, Cursors, UIDs, Steps, NoEntry

\* Every step keeps the types; JobInv says when there is a message at hand.
LEMMA NextTypeOK == TypeOK /\ JobInv /\ [Next]_vars => TypeOK'
<1> SUFFICES ASSUME TypeOK, JobInv, [Next]_vars
             PROVE  TypeOK'
  OBVIOUS
<1> USE PollAssumption DEF TypeOK
<1>0. NoCursor \in Cursors /\ known.uid \in UIDs
  BY DEF NoCursor, Cursors, UIDs
<1>1. CASE StartPoll
  BY <1>1 DEF StartPoll, serverVars, durableVars, Steps
<1>2. CASE FetchBaseline
  <2>1. \A n \in UIDNextReports : [validity |-> validity, uid |-> latestUID(n)] \in Cursors
    BY BaselineBelowNext DEF Cursors
  <2> QED
    BY <1>2, <2>1 DEF FetchBaseline, serverVars, durableVars, Steps, Visible
<1>3. CASE SaveBaseline
  <2>1. SetLastUID(fetched.validity, fetched.uid) \in Cursors
    BY DEF SetLastUID, Cursors
  <2> QED
    BY <1>0, <1>3, <2>1 DEF SaveBaseline, Forget, serverVars, Steps
<1>4. CASE FetchNew
  <2>1. cur = NoEntry
    BY <1>4 DEF FetchNew, JobInv
  <2> QED
    BY <1>4, <2>1, FetchedVisible
       DEF FetchNew, serverVars, durableVars, Steps, Visible
<1>5. CASE NextMessage
  BY <1>5 DEF NextMessage, IsNext, serverVars, durableVars, Steps
<1>6. CASE ArchiveMessage
  <2>1. cur \in Entries
    BY <1>6, CurType DEF ArchiveMessage, JobInv
  <2> QED
    BY <1>6, <2>1 DEF ArchiveMessage, serverVars, Steps, Entries
<1>7. CASE CheckExisting
  BY <1>7 DEF CheckExisting, serverVars, durableVars, Steps
<1>8. CASE InsertRow
  <2>1. cur \in Entries
    BY <1>8, CurType DEF InsertRow, JobInv
  <2>2. emails' \subseteq Rows
    BY <1>8, <2>1, NewRowType DEF InsertRow, InsertEmail
  <2> QED
    BY <1>8, <2>2 DEF InsertRow, serverVars, Steps
<1>9. CASE MarkSeen
  BY <1>9 DEF MarkSeen, FlagSeen, Visible, durableVars, Steps
<1>10. CASE MarkSeenUnacknowledged
  BY <1>0, <1>10 DEF MarkSeenUnacknowledged, Forget, FlagSeen, Visible, durableVars, Steps
<1>11. CASE AdvanceCursor
  <2>1. cur \in Entries
    BY <1>11, CurType DEF AdvanceCursor, JobInv
  <2>2. SetLastUID(cur.validity, cur.uid) \in Cursors
    BY <2>1 DEF SetLastUID, Cursors, Entries, UIDs
  <2> QED
    BY <1>11, <2>2 DEF AdvanceCursor, serverVars, Steps
<1>12. CASE FinishPoll \/ RejectFetch \/ FetchExpires \/ RefuseMarkSeen \/ Fail \/ Crash
  BY <1>0, <1>12
     DEF FinishPoll, RejectFetch, FetchExpires, RefuseMarkSeen, Fail, Crash, Forget, serverVars,
         durableVars, Steps
<1>13. ASSUME NEW m \in Messages, Deliver(m)
       PROVE  TypeOK'
  <2>1. [validity |-> validity, uid |-> uidNext, msg |-> m] \in Entries
    BY <1>13 DEF Deliver, Entries
  <2> QED
    BY <1>13, <2>1 DEF Deliver, durableVars, jobVars
<1>14. ASSUME NEW e \in Visible, Expunge(e)
       PROVE  TypeOK'
  BY <1>14 DEF Expunge, Visible, durableVars, jobVars
<1>15. CASE RenewFolder
  BY <1>15 DEF RenewFolder, durableVars, jobVars
<1>16. CASE UNCHANGED vars
  BY <1>16 DEF vars, serverVars, durableVars, jobVars
<1> QED
  BY <1>1, <1>2, <1>3, <1>4, <1>5, <1>6, <1>7, <1>8, <1>9, <1>10, <1>11, <1>12,
     <1>13, <1>14, <1>15, <1>16 DEF Next, Job, Faults, Mailbox

-----------------------------------------------------------------------------
(* What \Seen implies                                                      *)

\* Nothing is assigned, done or flagged at the start.
LEMMA InitSeenInv == Init => UIDsAssigned /\ JobInv /\ SeenImpliesStored
  BY DEF Init, UIDsAssigned, JobInv, SeenImpliesStored

\* UIDs stay unique: the server counts up until the folder is recreated, and
\* the new folder has a UIDVALIDITY of its own.
LEMMA NextUIDsAssigned ==
  ASSUME TypeOK, UIDsAssigned, [Next]_vars
  PROVE  UIDsAssigned'
<1> USE DEF UIDsAssigned, TypeOK
<1>1. ASSUME NEW m \in Messages, Deliver(m)
      PROVE  UIDsAssigned'
  <2> DEFINE new == [validity |-> validity, uid |-> uidNext, msg |-> m]
  <2>1. /\ mail' = mail \union {new}
        /\ uidNext' = uidNext + 1
        /\ validity' = validity
    BY <1>1 DEF Deliver
  <2>2. \A e \in mail : e.validity \in Nat /\ e.uid \in Nat
    BY PollAssumption DEF Entries
  <2>3. uidNext \in Nat /\ validity \in Nat
    BY PollAssumption
  <2>4. new.validity = validity /\ new.uid = uidNext
    OBVIOUS
  <2>5. \A e \in mail : e.validity = validity => e.uid # uidNext
    BY <2>2, <2>3
  <2> HIDE DEF new
  <2> QED
    BY <2>1, <2>2, <2>3, <2>4, <2>5
<1>2. CASE RenewFolder
  BY <1>2 DEF RenewFolder, Entries
<1>3. ASSUME NEW e \in Visible, Expunge(e)
      PROVE  UIDsAssigned'
  BY <1>3 DEF Expunge
<1>4. CASE Job
  <2>1. UNCHANGED <<mail, validity, uidNext>>
    BY <1>4 DEF Job, StartPoll, FetchBaseline, SaveBaseline, FetchNew, RejectFetch, FetchExpires,
      NextMessage, FinishPoll, ArchiveMessage, CheckExisting, InsertRow, MarkSeen,
      RefuseMarkSeen, AdvanceCursor, serverVars
  <2> QED
    BY <2>1
<1>5. CASE Faults
  BY <1>5 DEF Faults, MarkSeenUnacknowledged, Fail, Crash, serverVars
<1>6. CASE UNCHANGED vars
  BY <1>6 DEF vars, serverVars
<1> QED
  BY <1>1, <1>2, <1>3, <1>4, <1>5, <1>6 DEF Next, Mailbox

\* What is archived and what is in the table stays there.
LEMMA DurableGrows ==
  ASSUME [Next]_vars
  PROVE  archived \subseteq archived' /\ emails \subseteq emails'
<1>1. CASE InsertRow
  BY <1>1, InsertKeeps DEF InsertRow
<1>2. CASE Job /\ ~InsertRow
  BY <1>2 DEF Job, StartPoll, FetchBaseline, SaveBaseline, FetchNew, RejectFetch, FetchExpires,
    NextMessage, FinishPoll, ArchiveMessage, CheckExisting, MarkSeen,
    RefuseMarkSeen, AdvanceCursor, durableVars
<1>3. CASE Faults
  BY <1>3 DEF Faults, MarkSeenUnacknowledged, Fail, Crash, durableVars
<1>4. CASE Mailbox
  BY <1>4 DEF Mailbox, Deliver, Expunge, RenewFolder, durableVars
<1>5. CASE UNCHANGED vars
  BY <1>5 DEF vars, durableVars
<1> QED
  BY <1>1, <1>2, <1>3, <1>4, <1>5 DEF Next

\* So a message that went through the pipeline stays stored, and one whose
\* key exists keeps it.
LEMMA StoredStable ==
  ASSUME [Next]_vars, NEW e
  PROVE  /\ Exists(e) => Exists(e)'
         /\ Stored(e) => Stored(e)'
<1>1. Exists(e) => Exists(e)'
  BY DurableGrows, ExistsMonotone DEF Exists
<1> QED
  BY <1>1, DurableGrows DEF Stored

\* The message at hand is the one the flag is set on: in the folder it came
\* from no other message has its UID.
LEMMA FlagsOnlyCur ==
  ASSUME TypeOK, UIDsAssigned, cur # NoEntry, SameFolder,
         NEW e \in Visible, e.uid = cur.uid
  PROVE  e = cur
  BY CurType DEF SameFolder, Visible, UIDsAssigned

\* The job keeps track of the message at hand.
LEMMA NextJobInv ==
  ASSUME TypeOK, UIDsAssigned, JobInv, [Next]_vars
  PROVE  JobInv'
<1> USE DEF JobInv
<1>1. CASE StartPoll \/ FetchBaseline \/ FetchNew
  BY <1>1 DEF StartPoll, FetchBaseline, FetchNew
<1>2. CASE Forget
  BY <1>2 DEF Forget
<1>3. CASE NextMessage
  <2>1. PICK e \in batch : cur' = e
    BY <1>3 DEF NextMessage
  <2>2. e # NoEntry
    BY <2>1 DEF TypeOK, Entries, NoEntry
  <2> QED
    BY <1>3, <2>1, <2>2 DEF NextMessage, NoEntry
<1>4. CASE ArchiveMessage
  BY <1>4 DEF ArchiveMessage
<1>5. CASE CheckExisting
  BY <1>5 DEF CheckExisting, durableVars, Exists
<1>6. CASE InsertRow
  <2>1. cur \in Entries
    BY <1>6, CurType DEF InsertRow
  <2>2. PICK o \in Outcomes(cur.msg) : emails' = InsertEmail(emails, NewRow(cur, o))
    BY <1>6 DEF InsertRow
  <2>3. EmailExists(emails', cur.validity, cur.uid, ParsedID(cur.msg))
    BY <2>1, <2>2, InsertedExists, NewRowType
  <2>4. Exists(cur)'
    BY <1>6, <2>3 DEF InsertRow, Exists
  <2> QED
    BY <1>6, <2>4 DEF InsertRow
<1>7. CASE MarkSeen
  <2>1. cur # NoEntry /\ cur \in mail
    BY <1>7, CurType DEF MarkSeen
  <2>2. cur \in seen' \union expunged
    BY <1>7, <2>1 DEF MarkSeen, FlagSeen, Visible, SameFolder
  <2>3. Exists(cur)'
    BY <1>7 DEF MarkSeen, durableVars, Exists
  <2> QED
    BY <1>7, <2>2, <2>3 DEF MarkSeen, durableVars
<1>8. CASE AdvanceCursor
  BY <1>8 DEF AdvanceCursor
<1>9. CASE UNCHANGED <<jobVars, durableVars, seen>> /\ expunged \subseteq expunged'
  BY <1>9 DEF jobVars, durableVars, Exists
<1>10. CASE Job
  BY <1>1, <1>2, <1>3, <1>4, <1>5, <1>6, <1>7, <1>8, <1>10
     DEF Job, SaveBaseline, RejectFetch, FetchExpires, FinishPoll, RefuseMarkSeen
<1>11. CASE Faults
  BY <1>2, <1>11 DEF Faults, MarkSeenUnacknowledged, Fail, Crash
<1>12. CASE Mailbox
  BY <1>9, <1>12 DEF Mailbox, Deliver, Expunge, RenewFolder
<1>13. CASE UNCHANGED vars
  BY <1>9, <1>13 DEF vars, serverVars
<1> QED
  BY <1>10, <1>11, <1>12, <1>13 DEF Next

\* Only MarkSeen flags, with or without its acknowledgement, and it flags the
\* message at hand, which was archived and inserted before.
LEMMA NextSeenImpliesStored ==
  ASSUME TypeOK, UIDsAssigned, JobInv, SeenImpliesStored, [Next]_vars
  PROVE  SeenImpliesStored'
<1>1. ASSUME pc = "mark", SameFolder, FlagSeen(cur.uid)
      PROVE  SeenImpliesStored'
  <2>1. cur # NoEntry /\ Stored(cur)
    BY <1>1 DEF JobInv, Stored
  <2>2. \A e \in seen' : e \in seen \/ e = cur
    BY <1>1, <2>1, FlagsOnlyCur DEF FlagSeen
  <2>3. \A e \in seen' : Stored(e)
    BY <2>1, <2>2 DEF SeenImpliesStored
  <2> QED
    BY <2>3, StoredStable DEF SeenImpliesStored
<1>2. ASSUME seen' = seen
      PROVE  SeenImpliesStored'
  BY <1>2, StoredStable DEF SeenImpliesStored
<1>3. CASE Job
  BY <1>1, <1>2, <1>3 DEF Job, StartPoll, FetchBaseline, SaveBaseline, FetchNew,
    RejectFetch, FetchExpires, NextMessage, FinishPoll, ArchiveMessage, CheckExisting, InsertRow,
    MarkSeen, RefuseMarkSeen, AdvanceCursor, serverVars
<1>4. CASE Faults
  BY <1>1, <1>2, <1>4
     DEF Faults, MarkSeenUnacknowledged, Fail, Crash, serverVars
<1>5. CASE Mailbox
  BY <1>2, <1>5 DEF Mailbox, Deliver, Expunge, RenewFolder
<1>6. CASE UNCHANGED vars
  BY <1>2, <1>6 DEF vars, serverVars
<1> QED
  BY <1>3, <1>4, <1>5, <1>6 DEF Next

-----------------------------------------------------------------------------
(* What the cursor covers                                                  *)

\* The three facts about the cursor.
CursorFacts == CursorInv /\ BatchBeyondCursor /\ CursorSkipsNothing

\* There is nothing to cover at the start.
LEMMA InitCursorFacts == Init => CursorFacts
  BY DEF Init, CursorFacts, CursorInv, BatchBeyondCursor, CursorSkipsNothing, NoCursor

\* A new message lies ahead of every cursor and every batch: its UID is larger
\* than any assigned before, or its UIDVALIDITY is newer.
LEMMA DeliverCursorFacts ==
  ASSUME PollInv, NEW m \in Messages, Deliver(m)
  PROVE  CursorFacts'
<1> DEFINE new == [validity |-> validity, uid |-> uidNext, msg |-> m]
<1>1. /\ mail' = mail \union {new}
      /\ uidNext' = uidNext + 1
      /\ UNCHANGED <<validity, expunged, seen, archived, emails, cursor, pc, known,
                     fetched, batch, cur, backlog>>
  BY DEF Deliver, durableVars, jobVars
<1>2. new.validity = validity /\ new.uid = uidNext
  OBVIOUS
<1>3. /\ uidNext \in Nat /\ cursor.uid \in Nat /\ fetched.uid \in Nat
      /\ \A e \in mail : e.uid \in Nat /\ e.validity \in Nat
  BY PollAssumption DEF PollInv, TypeOK, Cursors, UIDs, Entries
<1>4. \A b \in batch : b.validity = validity => b.uid < uidNext
  BY DEF PollInv, TypeOK, UIDsAssigned
<1> HIDE DEF new
<1>5. CursorInv'
  BY <1>1, <1>2, <1>3, <1>4 DEF PollInv, CursorInv, TypeOK
<1>6. BatchBeyondCursor'
  BY <1>1 DEF PollInv, BatchBeyondCursor
<1>7. ~Covered(new)
  BY <1>2, <1>3 DEF PollInv, CursorInv, Covered
<1>8. CursorSkipsNothing'
  BY <1>1, <1>7 DEF PollInv, CursorSkipsNothing, Covered, Stored, Exists
<1> QED
  BY <1>5, <1>6, <1>8 DEF CursorFacts

\* What the owner does otherwise takes messages out of the invariant, or makes
\* the UIDVALIDITY newer than every cursor.
LEMMA OwnerCursorFacts ==
  ASSUME PollInv,
         RenewFolder \/ \E e \in Visible : Expunge(e)
  PROVE  CursorFacts'
<1> USE DEF PollInv, CursorFacts
<1>1. CASE RenewFolder
  <2>1. /\ validity' = validity + 1
        /\ UNCHANGED <<mail, expunged, seen, archived, emails, cursor, pc, known,
                       fetched, batch, cur, backlog>>
    BY <1>1 DEF RenewFolder, durableVars, jobVars
  <2>2. validity \in Nat /\ cursor.validity \in Nat /\ fetched.validity \in Nat
    BY DEF TypeOK, Cursors
  <2>3. CursorInv'
    BY <2>1, <2>2 DEF CursorInv
  <2> QED
    BY <2>1, <2>3 DEF BatchBeyondCursor, CursorSkipsNothing, Covered, Stored, Exists
<1>2. ASSUME NEW e \in Visible, Expunge(e)
      PROVE  CursorFacts'
  <2>1. /\ expunged' = expunged \union {e}
        /\ UNCHANGED <<validity, uidNext, mail, seen, archived, emails, cursor, pc,
                       known, fetched, batch, cur, backlog>>
    BY <1>2 DEF Expunge, durableVars, jobVars
  <2>2. CursorInv'
    BY <2>1 DEF CursorInv
  <2> QED
    BY <2>1, <2>2 DEF BatchBeyondCursor, CursorSkipsNothing, Covered, Stored, Exists
<1> QED
  BY <1>1, <1>2

\* Steps that leave the cursor, the mailbox and the batch alone, or forget the
\* batch, disturb nothing.
LEMMA QuietCursorFacts ==
  ASSUME PollInv, [Next]_vars,
         UNCHANGED <<validity, uidNext, mail, expunged, cursor, backlog>>,
         seen \subseteq seen',
         \/ UNCHANGED <<known, fetched, batch, cur>> /\ pc \notin {"idle", "fetch", "baseline"}
                                                   /\ pc' \notin {"idle", "fetch", "baseline"}
         \/ Forget
  PROVE  CursorFacts'
<1> USE DEF PollInv, CursorFacts
<1>1. CursorInv' /\ BatchBeyondCursor'
  BY DEF CursorInv, BatchBeyondCursor, Forget
<1>2. CursorSkipsNothing'
  BY StoredStable DEF CursorSkipsNothing, Covered
<1> QED
  BY <1>1, <1>2

\* A poll starts from the cursor that is saved.
LEMMA StartCursorFacts ==
  ASSUME PollInv, StartPoll
  PROVE  CursorFacts'
  BY DEF PollInv, CursorFacts, StartPoll, serverVars, durableVars, CursorInv,
         BatchBeyondCursor, CursorSkipsNothing, Covered, Stored, Exists, JobInv

\* A baseline is taken of a newer folder, and all it covers is in the backlog.
LEMMA BaselineCursorFacts ==
  ASSUME PollInv, FetchBaseline
  PROVE  CursorFacts'
<1> USE DEF PollInv
<1>1. /\ \E n \in UIDNextReports :
           fetched' = [validity |-> validity, uid |-> latestUID(n)]
      /\ backlog' = backlog \union Visible
      /\ pc = "fetch" /\ pc' = "baseline"
      /\ UNCHANGED <<validity, uidNext, mail, expunged, seen, archived, emails, cursor,
                     known, batch, cur>>
  BY DEF FetchBaseline, serverVars, durableVars
<1>2. cursor.validity < validity
  <2>1. cursor.validity = 0 \/ cursor.validity # validity
    BY <1>1 DEF FetchBaseline, NeedsBaseline, CursorInv
  <2> QED
    BY <2>1 DEF CursorInv, TypeOK, Cursors
<1>3. \A e \in mail \ (expunged \union backlog') : e.validity # validity
  BY <1>1 DEF Visible
<1>4. \A n \in UIDNextReports : latestUID(n) < uidNext
  BY BaselineBelowNext
<1>5. CursorInv'
  BY <1>1, <1>2, <1>3, <1>4 DEF CursorInv, TypeOK
<1>6. BatchBeyondCursor' /\ CursorSkipsNothing'
  BY <1>1 DEF BatchBeyondCursor, CursorSkipsNothing, Covered, Stored, Exists
<1> QED
  BY <1>5, <1>6 DEF CursorFacts

\* The saved baseline covers no message but the backlog.
LEMMA SaveBaselineCursorFacts ==
  ASSUME PollInv, SaveBaseline
  PROVE  CursorFacts'
<1> USE DEF PollInv
<1>1. /\ cursor'.validity = fetched.validity /\ cursor'.uid = fetched.uid
      /\ pc = "baseline" /\ pc' = "idle" /\ batch' = {} /\ cur' = NoEntry
      /\ UNCHANGED <<validity, uidNext, mail, expunged, seen, archived, emails, backlog>>
  BY DEF SaveBaseline, SetLastUID, Forget, serverVars
<1>2. CursorInv' /\ BatchBeyondCursor'
  BY <1>1 DEF CursorInv, BatchBeyondCursor
<1>3. \A e \in mail \ (expunged \union backlog) : ~Covered(e)'
  <2>1. \A e \in mail : e.uid \in Nat
    BY DEF TypeOK, Entries
  <2>2. fetched.uid \in Nat
    BY PollAssumption DEF TypeOK, Cursors, UIDs
  <2> QED
    BY <1>1, <2>1, <2>2 DEF CursorInv, Covered
<1>4. CursorSkipsNothing'
  BY <1>1, <1>3 DEF CursorSkipsNothing
<1> QED
  BY <1>2, <1>4 DEF CursorFacts

\* Fetch returns all that is beyond the cursor and nothing else: the messages
\* from the cursor's successor on, or none at the end of the range.
LEMMA FetchCursorFacts ==
  ASSUME PollInv, FetchNew
  PROVE  CursorFacts'
<1> USE DEF PollInv
<1>1. /\ batch' = NewMessages(cursor.uid)
      /\ pc' = "next" /\ cur = NoEntry /\ cursor.validity = validity
      /\ UNCHANGED <<validity, uidNext, mail, expunged, seen, archived, emails, cursor,
                     known, fetched, cur, backlog>>
  BY DEF FetchNew, NeedsBaseline, CursorInv, JobInv, serverVars, durableVars
<1>2. /\ cursor.uid \in 0 .. MaxUID
      /\ \A e \in mail : e.uid \in 1 .. MaxUID
  BY DEF TypeOK, Cursors, UIDs, Entries
<1>3. NewMessages(cursor.uid) = { e \in Visible : cursor.uid < e.uid }
  <2>1. CASE cursor.uid = MaxUID
    BY <1>2, <2>1, PollAssumption DEF NewMessages, Visible
  <2>2. CASE cursor.uid # MaxUID
    <3>1. Uint32(cursor.uid + 1) = cursor.uid + 1 /\ cursor.uid + 1 # 0
      BY <1>2, <2>2, PollAssumption DEF Uint32
    <3>2. NewMessages(cursor.uid) = { e \in Visible : e.uid >= cursor.uid + 1 }
      BY <2>2, <3>1 DEF NewMessages, FetchSince, UidFetch
    <3>3. \A e \in Visible : e.uid >= cursor.uid + 1 <=> cursor.uid < e.uid
      BY <1>2 DEF Visible
    <3> QED
      BY <3>2, <3>3
  <2> QED
    BY <2>1, <2>2
<1>4. CursorInv'
  BY <1>1, <1>3 DEF CursorInv, Visible
<1>5. BatchBeyondCursor' /\ CursorSkipsNothing'
  BY <1>1, <1>3 DEF BatchBeyondCursor, CursorSkipsNothing, Covered, Stored, Exists, Visible
<1> QED
  BY <1>4, <1>5 DEF CursorFacts

\* The message taken up is the lowest of the batch.
LEMMA NextMessageCursorFacts ==
  ASSUME PollInv, NextMessage
  PROVE  CursorFacts'
  BY DEF PollInv, CursorFacts, NextMessage, IsNext, serverVars, durableVars, CursorInv,
         BatchBeyondCursor, CursorSkipsNothing, Covered, Stored, Exists

\* The cursor moves over the message at hand only: no other one lies between.
LEMMA AdvanceCursorFacts ==
  ASSUME PollInv, AdvanceCursor
  PROVE  CursorFacts'
<1> USE DEF PollInv
<1>1. /\ cursor'.validity = cur.validity /\ cursor'.uid = cur.uid
      /\ batch' = batch \ {cur}
      /\ pc = "cursor" /\ pc' = "next" /\ cur' = NoEntry
      /\ UNCHANGED <<validity, uidNext, mail, expunged, seen, archived, emails,
                     known, fetched, backlog>>
  BY DEF AdvanceCursor, SetLastUID, serverVars
<1>2. cur \in batch /\ cur \in mail
  BY <1>1, CurType DEF JobInv
<1>3. cur.validity = cursor.validity /\ cursor.uid < cur.uid
  BY <1>2 DEF BatchBeyondCursor
<1>4. /\ cursor.uid \in Nat
      /\ \A e \in mail : e.uid \in Nat
  BY PollAssumption DEF TypeOK, Cursors, UIDs, Entries
<1>5. \A b \in batch : b.validity = cursor.validity /\ cur.uid <= b.uid
  BY <1>1 DEF BatchBeyondCursor, CursorInv, JobInv
<1>6. \A b \in batch : b.uid = cur.uid => b = cur
  BY <1>2, <1>3, <1>5 DEF UIDsAssigned, TypeOK
<1>7. CursorInv'
  <2>1. /\ cursor'.validity <= validity
        /\ cursor'.validity = validity => cursor'.uid < uidNext
    BY <1>1, <1>2 DEF UIDsAssigned
  <2>2. \A b \in batch', e \in mail \ expunged :
          e.validity = b.validity /\ cursor'.uid < e.uid /\ e.uid <= b.uid => e \in batch'
    <3> SUFFICES ASSUME NEW b \in batch, NEW e \in mail \ expunged,
                        e.validity = b.validity, cur.uid < e.uid, e.uid <= b.uid
                 PROVE  e \in batch /\ e # cur
      BY <1>1
    <3>1. cursor.uid < e.uid
      BY <1>2, <1>3, <1>4
    <3>2. e \in batch
      BY <3>1 DEF CursorInv
    <3>3. e # cur
      BY <1>2, <1>4
    <3> QED
      BY <3>2, <3>3
  <2> QED
    BY <1>1, <2>1, <2>2 DEF CursorInv
<1>8. BatchBeyondCursor'
  <2>1. \A b \in batch \ {cur} : cur.uid < b.uid
    BY <1>2, <1>4, <1>5, <1>6 DEF TypeOK
  <2> QED
    BY <1>1, <1>3, <1>5, <2>1 DEF BatchBeyondCursor
<1>9. CursorSkipsNothing'
  <2> SUFFICES ASSUME NEW e \in mail \ (expunged \union backlog),
                      e.validity = cur.validity, e.uid <= cur.uid
               PROVE  Stored(e) /\ e \in seen
    BY <1>1 DEF CursorSkipsNothing, Covered, Stored, Exists
  <2>1. CASE e.uid <= cursor.uid
    BY <1>3, <2>1 DEF CursorSkipsNothing, Covered
  <2>2. CASE cursor.uid < e.uid
    <3>1. e \in batch
      BY <1>2, <1>3, <2>2 DEF CursorInv
    <3>2. e.uid = cur.uid
      BY <1>2, <1>4, <1>5, <3>1
    <3>3. e = cur
      BY <1>6, <3>1, <3>2
    <3> QED
      BY <1>1, <3>3 DEF JobInv, Stored
  <2> QED
    BY <1>4, <2>1, <2>2
<1> QED
  BY <1>7, <1>8, <1>9 DEF CursorFacts

\* Every step keeps the facts about the cursor.
LEMMA NextCursorFacts ==
  ASSUME PollInv, [Next]_vars
  PROVE  CursorFacts'
<1>1. CASE FinishPoll \/ RejectFetch \/ FetchExpires \/ RefuseMarkSeen \/ Fail \/ Crash
  BY <1>1, QuietCursorFacts
     DEF FinishPoll, RejectFetch, FetchExpires, RefuseMarkSeen, Fail, Crash, serverVars, durableVars
<1>2. CASE ArchiveMessage \/ CheckExisting \/ InsertRow
  BY <1>2, QuietCursorFacts
     DEF ArchiveMessage, CheckExisting, InsertRow, serverVars, durableVars
<1>3. CASE MarkSeen
  <2>1. seen \subseteq seen'
    BY <1>3 DEF MarkSeen, FlagSeen
  <2> QED
    BY <1>3, <2>1, QuietCursorFacts DEF MarkSeen, durableVars
<1>4. CASE MarkSeenUnacknowledged
  <2>1. seen \subseteq seen'
    BY <1>4 DEF MarkSeenUnacknowledged, FlagSeen
  <2> QED
    BY <1>4, <2>1, QuietCursorFacts DEF MarkSeenUnacknowledged, durableVars
<1>5. CASE UNCHANGED vars
  BY <1>5 DEF PollInv, CursorFacts, vars, serverVars, durableVars, jobVars, CursorInv,
    BatchBeyondCursor, CursorSkipsNothing, Covered, Stored, Exists
<1> QED
  BY <1>1, <1>2, <1>3, <1>4, <1>5, DeliverCursorFacts, OwnerCursorFacts,
     StartCursorFacts, BaselineCursorFacts, SaveBaselineCursorFacts, FetchCursorFacts,
     NextMessageCursorFacts, AdvanceCursorFacts
     DEF Next, Job, Faults, Mailbox

-----------------------------------------------------------------------------
(* Theorems                                                                *)

\* The three parts together are inductive.
THEOREM PollInvariant == Spec => []PollInv
<1>1. Init => PollInv
  BY InitTypeOK, InitSeenInv, InitCursorFacts DEF PollInv, CursorFacts
<1>2. PollInv /\ [Next]_vars => PollInv'
  BY NextTypeOK, NextUIDsAssigned, NextJobInv, NextSeenImpliesStored, NextCursorFacts
     DEF PollInv, CursorFacts
<1> QED
  BY <1>1, <1>2, PTL DEF Spec

\* Every variable of a poll keeps its type.
THEOREM TypeCorrect == Spec => []TypeOK
<1>1. PollInv => TypeOK
  BY DEF PollInv
<1> QED
  BY <1>1, PollInvariant, PTL

\* A message digestd flagged \Seen is archived and persisted.
THEOREM SeenImpliesStoredHolds == Spec => []SeenImpliesStored
<1>1. PollInv => SeenImpliesStored
  BY DEF PollInv
<1> QED
  BY <1>1, PollInvariant, PTL

\* No message between the baseline and the cursor is left out.
THEOREM CursorSkipsNothingHolds == Spec => []CursorSkipsNothing
<1>1. PollInv => CursorSkipsNothing
  BY DEF PollInv
<1> QED
  BY <1>1, PollInvariant, PTL

\* No message is fetched again once its cursor was saved.
THEOREM BatchBeyondCursorHolds == Spec => []BatchBeyondCursor
<1>1. PollInv => BatchBeyondCursor
  BY DEF PollInv
<1> QED
  BY <1>1, PollInvariant, PTL

\* SetLastUID moves the cursor forward only, after a message and to a baseline.
THEOREM CursorNeverMovesBackHolds == Spec => CursorNeverMovesBack
<1> DEFINE Forward ==
      \/ cursor'.validity > cursor.validity
      \/ cursor'.validity = cursor.validity /\ cursor'.uid >= cursor.uid
<1>1. PollInv /\ [Next]_vars => [Forward]_cursor
  <2> SUFFICES ASSUME PollInv, [Next]_vars, cursor' # cursor
               PROVE  Forward
    OBVIOUS
  <2> USE DEF PollInv
  <2>0. cursor.validity \in Nat /\ cursor.uid \in Nat
    BY PollAssumption DEF TypeOK, Cursors, UIDs
  <2>1. SaveBaseline \/ AdvanceCursor
    BY DEF Next, Job, Faults, Mailbox, StartPoll, FetchBaseline, FetchNew, RejectFetch, FetchExpires,
      NextMessage, FinishPoll, ArchiveMessage, CheckExisting, InsertRow, MarkSeen,
      RefuseMarkSeen, MarkSeenUnacknowledged, Fail, Crash, Deliver, Expunge,
      RenewFolder, vars, durableVars
  <2>2. CASE SaveBaseline
    <3>1. cursor'.validity = fetched.validity
      BY <2>2 DEF SaveBaseline, SetLastUID
    <3>2. fetched.validity \in Nat
      BY DEF TypeOK, Cursors
    <3> QED
      BY <2>0, <2>2, <3>1, <3>2 DEF SaveBaseline, CursorInv
  <2>3. CASE AdvanceCursor
    <3>1. cursor'.validity = cur.validity /\ cursor'.uid = cur.uid
      BY <2>3 DEF AdvanceCursor, SetLastUID
    <3>2. cur \in batch /\ cur.uid \in Nat
      BY <2>3, CurType, PollAssumption DEF AdvanceCursor, JobInv, Entries
    <3> QED
      BY <2>0, <3>1, <3>2 DEF BatchBeyondCursor
  <2> QED
    BY <2>1, <2>2, <2>3
<1> QED
  BY <1>1, PollInvariant, PTL DEF Spec, CursorNeverMovesBack
=============================================================================
