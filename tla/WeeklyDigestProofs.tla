------------------------- MODULE WeeklyDigestProofs -------------------------
(***************************************************************************)
(* Proofs about WeeklyDigest, for windows of any length, a clock that runs *)
(* for any time and any number of rows: the type invariant, what a stamp,  *)
(* a record and a completed digest mean for the mails, and that the window *)
(* leaves no row behind.  All rest on DigestInv, which is inductive.       *)
(***************************************************************************)
EXTENDS WeeklyDigest, FiniteSetTheorems, TLAPS

\* Row ids are the primary key, counted up.
RowsInv ==
  /\ IsFiniteSet(emails)
  /\ \A r, s \in emails : r.id = s.id => r = s
  /\ \A r \in emails : r.id <= Cardinality(emails)

\* The end of the window is later than whatever happened before, and the
\* schedule is due only in a second that no window has ended at.
ClockInv ==
  /\ lastDigest # Never => lastDigest <= now
  /\ \A m \in outbox : m.end <= now
  /\ due => /\ lastDigest # Never => lastDigest < now
            /\ \A m \in outbox : m.end < now
  /\ pc # "idle" => /\ window = WindowAt(window.end)
                    /\ window.end <= now
                    /\ due => window.end < now
                    /\ lastDigest # Never => lastDigest < window.end

\* The mail of the window that is open.
CurrentMail == [start |-> window.start, end |-> window.end, ids |-> Ids(rows)]

\* What the job read is what the table holds until the job ends, and the only
\* mail as late as its window is its own.
JobInv ==
  /\ pc # "idle" => rows = PendingForDigest(emails, window.start, window.end)
  /\ pc = "send" => \A m \in outbox : m.end < window.end
  /\ pc = "complete" =>
       /\ CurrentMail \in outbox
       /\ \A m \in outbox : m.end < window.end \/ m = CurrentMail

\* The last digest is the latest of those that are recorded, stamped or settled.
LastInv ==
  /\ \A d \in digests : lastDigest # Never /\ d.end <= lastDigest
  /\ lastDigest # Never => \E c \in digests : c.end = lastDigest
  /\ \A r \in emails : r.digested # Never => lastDigest # Never /\ r.digested <= lastDigest
  /\ \A t \in settled : lastDigest # Never /\ t <= lastDigest

\* Mails and failed digests are about rows of the table; the mail of a completed
\* digest is about stamped rows, and the rows of a failed one are stamped since
\* or lie between the last digest and the end of any window to come.
MailInv ==
  /\ \A m \in outbox : \A i \in m.ids : i <= Cardinality(emails)
  /\ \A m \in outbox : m.end \in settled =>
       \A r \in emails : r.id \in m.ids => r.digested # Never
  /\ \A i \in owed : i <= Cardinality(emails)
  /\ \A r \in emails : r.id \in owed =>
       /\ lastDigest # Never
       /\ r.digested = Never => lastDigest <= r.received
       /\ r.received < now
       /\ pc # "idle" => r.received < window.end

\* What the steps preserve together.
DigestInv ==
  /\ TypeOK
  /\ RowsInv
  /\ ClockInv
  /\ JobInv
  /\ LastInv
  /\ MailInv
  /\ DigestedWasMailed
  /\ RecordsMatchMails
  /\ NothingMailedAfterCompletion

-----------------------------------------------------------------------------
(* The rows                                                                *)

\* The number of rows is a number.
LEMMA RowCount ==
  ASSUME RowsInv
  PROVE  Cardinality(emails) \in Nat
  BY FS_CardinalityType DEF RowsInv

\* A new row takes the next id, which no row, mail or failed digest has.
LEMMA NewRow ==
  ASSUME TypeOK, RowsInv, NEW received \in Int, InsertReceived(received)
  PROVE  LET row == [id |-> Cardinality(emails) + 1, received |-> received,
                     digested |-> Never]
         IN /\ emails' = emails \union {row}
            /\ row \notin emails
            /\ IsFiniteSet(emails')
            /\ Cardinality(emails') = Cardinality(emails) + 1
<1> DEFINE row == [id |-> Cardinality(emails) + 1, received |-> received,
                   digested |-> Never]
<1>1. emails' = emails \union {row}
  BY DEF InsertReceived
<1>2. row \notin emails
  <2>1. row.id = Cardinality(emails) + 1
    OBVIOUS
  <2> HIDE DEF row
  <2> QED
    BY <2>1, RowCount DEF RowsInv
<1> HIDE DEF row
<1>3. IsFiniteSet(emails') /\ Cardinality(emails') = Cardinality(emails) + 1
  BY <1>1, <1>2, FS_AddElement DEF RowsInv
<1> QED
  BY <1>1, <1>2, <1>3 DEF row

\* A new row keeps the keys.
LEMMA NewRowKeepsRows ==
  ASSUME TypeOK, RowsInv, NEW received \in Int, InsertReceived(received)
  PROVE  RowsInv'
<1> DEFINE row == [id |-> Cardinality(emails) + 1, received |-> received,
                   digested |-> Never]
<1>1. /\ emails' = emails \union {row}
      /\ IsFiniteSet(emails')
      /\ Cardinality(emails') = Cardinality(emails) + 1
  BY NewRow
<1>2. row.id = Cardinality(emails) + 1
  OBVIOUS
<1>3. \A r \in emails : r.id \in Nat
  BY DEF TypeOK
<1> HIDE DEF row
<1> QED
  BY <1>1, <1>2, <1>3, RowCount DEF RowsInv

\* A poll's row keeps DigestInv.
LEMMA IngestKeepsInv ==
  ASSUME DigestInv, NEW received \in Int, Ingest(received)
  PROVE  DigestInv'
<1> USE DEF DigestInv
<1> DEFINE row == [id |-> Cardinality(emails) + 1, received |-> received,
                   digested |-> Never]
<1>1. pc = "idle" /\ InsertReceived(received)
  BY DEF Ingest
<1>2. /\ emails' = emails \union {row}
      /\ row \notin emails
      /\ Cardinality(emails') = Cardinality(emails) + 1
  BY <1>1, NewRow
<1>3. /\ row \in [id : Nat \ {0}, received : Int, digested : {Never}]
      /\ row.id = Cardinality(emails) + 1
      /\ row.digested = Never
  BY RowCount
<1>4. /\ UNCHANGED <<now, due, digests, lastDigest, pc, window, rows>>
      /\ UNCHANGED <<outbox, owed, settled>>
  BY <1>1 DEF InsertReceived, jobVars, historyVars
<1> HIDE DEF row
<1>5. TypeOK'
  BY <1>2, <1>3, <1>4 DEF TypeOK
<1>6. RowsInv'
  BY <1>1, NewRowKeepsRows
<1>7. ClockInv' /\ JobInv'
  BY <1>1, <1>4 DEF ClockInv, JobInv
<1>8. LastInv'
  BY <1>2, <1>3, <1>4 DEF LastInv
<1>9. MailInv'
  <2>1. /\ \A m \in outbox : \A i \in m.ids : i \in Nat
        /\ \A i \in owed : i \in Nat
    BY DEF TypeOK
  <2>2. /\ \A m \in outbox : row.id \notin m.ids
        /\ row.id \notin owed
    BY <1>3, <2>1, RowCount DEF MailInv
  <2>3. /\ \A m \in outbox' : \A i \in m.ids : i <= Cardinality(emails')
        /\ \A i \in owed' : i <= Cardinality(emails')
    <3>1. \A i \in Nat : i <= Cardinality(emails) => i <= Cardinality(emails')
      BY <1>2, RowCount
    <3> QED
      BY <1>4, <2>1, <3>1 DEF MailInv
  <2> QED
    BY <1>1, <1>2, <1>3, <1>4, <2>2, <2>3 DEF MailInv
<1>10. DigestedWasMailed'
  BY <1>2, <1>3, <1>4 DEF DigestedWasMailed
<1>11. RecordsMatchMails'
  <2>1. ASSUME NEW d \in digests
        PROVE  { r \in emails' : r.digested = d.end } = { r \in emails : r.digested = d.end }
    <3>1. d.end # Never
      BY WeeklyDigestAssumption DEF TypeOK
    <3> QED
      BY <1>2, <1>3, <3>1
  <2> QED
    BY <1>4, <2>1 DEF RecordsMatchMails
<1>12. NothingMailedAfterCompletion'
  BY <1>4 DEF NothingMailedAfterCompletion
<1> QED
  BY <1>5, <1>6, <1>7, <1>8, <1>9, <1>10, <1>11, <1>12

-----------------------------------------------------------------------------
(* The clock and the job                                                   *)

\* Time moves past every mail and every digest.
LEMMA TickKeepsInv ==
  ASSUME DigestInv, Tick
  PROVE  DigestInv'
<1> USE DEF DigestInv, Tick, durableVars, jobVars, historyVars
<1>1. TypeOK'
  BY DEF TypeOK
<1>2. RowsInv'
  BY DEF RowsInv
<1>3. ClockInv'
  <2>1. /\ now \in Int /\ lastDigest \in Int \union {Never} /\ window.end \in Int
        /\ \A m \in outbox : m.end \in Int
    BY DEF TypeOK
  <2>2. WindowAt(window.end)' = WindowAt(window.end)
    BY DEF WindowAt
  <2> QED
    BY <2>1, <2>2, WeeklyDigestAssumption DEF ClockInv
<1>4. JobInv'
  BY DEF JobInv, CurrentMail
<1>5. LastInv'
  BY DEF LastInv
<1>6. MailInv'
  BY DEF MailInv, TypeOK
<1>7. DigestedWasMailed' /\ RecordsMatchMails' /\ NothingMailedAfterCompletion'
  BY DEF DigestedWasMailed, RecordsMatchMails, NothingMailedAfterCompletion
<1> QED
  BY <1>1, <1>2, <1>3, <1>4, <1>5, <1>6, <1>7

\* The rows a window selects are undigested rows of the table.
LEMMA PendingRows ==
  ASSUME TypeOK, NEW start, NEW end
  PROVE  /\ PendingForDigest(emails, start, end) \subseteq emails
         /\ PendingForDigest(emails, start, end)
              \subseteq [id : Nat \ {0}, received : Int, digested : {Never}]
<1>1. PendingForDigest(emails, start, end) \subseteq emails
  BY DEF PendingForDigest
<1>2. ASSUME NEW r \in PendingForDigest(emails, start, end)
      PROVE  r \in [id : Nat \ {0}, received : Int, digested : {Never}]
  <2>1. r \in [id : Nat \ {0}, received : Int, digested : Int \union {Never}] /\ r.digested = Never
    BY DEF PendingForDigest, TypeOK
  <2> QED
    BY <2>1
<1> QED
  BY <1>1, <1>2

\* A window opens in a second that nothing ended at.
LEMMA BeginKeepsInv ==
  ASSUME DigestInv, BeginDigest
  PROVE  DigestInv'
<1> USE DEF DigestInv
<1>1. /\ pc = "idle" /\ due /\ ~due' /\ pc' = "send"
      /\ window' = WindowAt(now)
      /\ rows' = PendingForDigest(emails, window'.start, window'.end)
      /\ UNCHANGED <<now, emails, digests, lastDigest, outbox, owed, settled>>
  BY DEF BeginDigest, durableVars, historyVars
<1>2. window'.end = now /\ WindowAt(now)' = WindowAt(now)
  BY <1>1 DEF WindowAt
<1>3. TypeOK'
  <2>1. rows' \subseteq [id : Nat \ {0}, received : Int, digested : {Never}]
    BY <1>1, PendingRows
  <2>2. window' \in [start : Int, end : Int]
    BY <1>1, WeeklyDigestAssumption DEF WindowAt, TypeOK
  <2>3. /\ pc' = "send" /\ due' = FALSE
        /\ UNCHANGED <<now, emails, digests, lastDigest, outbox, owed, settled>>
    BY DEF BeginDigest, durableVars, historyVars
  <2> QED
    BY <2>1, <2>2, <2>3 DEF TypeOK
<1>4. RowsInv'
  BY <1>1 DEF RowsInv
<1>5. ClockInv'
  BY <1>1, <1>2 DEF ClockInv, TypeOK
<1>6. JobInv'
  BY <1>1, <1>2 DEF ClockInv, JobInv
<1>7. LastInv'
  BY <1>1 DEF LastInv
<1>8. MailInv'
  BY <1>1, <1>2 DEF MailInv
<1>9. DigestedWasMailed' /\ RecordsMatchMails' /\ NothingMailedAfterCompletion'
  BY <1>1 DEF DigestedWasMailed, RecordsMatchMails, NothingMailedAfterCompletion
<1> QED
  BY <1>3, <1>4, <1>5, <1>6, <1>7, <1>8, <1>9

\* The ids of the open window are ids of undigested rows.
LEMMA PendingIds ==
  ASSUME DigestInv, pc # "idle"
  PROVE  /\ rows \subseteq emails
         /\ Ids(rows) \subseteq Nat
         /\ \A i \in Ids(rows) : i <= Cardinality(emails)
         /\ \A r \in emails : r.id \in Ids(rows) <=> r \in rows
         /\ \A r \in rows : r.digested = Never /\ r.received < window.end
<1>1. rows = PendingForDigest(emails, window.start, window.end)
  BY DEF DigestInv, JobInv
<1>2. rows \subseteq emails
  BY <1>1 DEF PendingForDigest
<1>3. \A r \in rows : r.digested = Never /\ r.received < window.end
  BY <1>1 DEF PendingForDigest
<1>4. Ids(rows) \subseteq Nat
  BY DEF Ids, DigestInv, TypeOK
<1>5. \A i \in Ids(rows) : i <= Cardinality(emails)
  BY <1>2 DEF Ids, DigestInv, RowsInv
<1>6. \A r \in emails : r.id \in Ids(rows) <=> r \in rows
  BY <1>2 DEF Ids, DigestInv, RowsInv
<1> QED
  BY <1>2, <1>3, <1>4, <1>5, <1>6

\* The mail of the window that is open is the latest there is, and is about no
\* row of a completed digest.
LEMMA DeliverKeepsMails ==
  ASSUME DigestInv, pc = "send", outbox' = outbox \/ Deliver,
         UNCHANGED <<now, due, emails, digests, lastDigest, settled>>
  PROVE  /\ outbox' \subseteq [start : Int, end : Int, ids : SUBSET Nat]
         /\ outbox \subseteq outbox'
         /\ \A m \in outbox' : m \in outbox \/ m = CurrentMail
         /\ \A m \in outbox' : m.end <= now
         /\ due => \A m \in outbox' : m.end < now
         /\ \A m \in outbox' : \A i \in m.ids : i <= Cardinality(emails)
         /\ \A m \in outbox' : m.end \in settled =>
              \A r \in emails : r.id \in m.ids => r.digested # Never
         /\ DigestedWasMailed' /\ RecordsMatchMails' /\ NothingMailedAfterCompletion'
<1> USE DEF DigestInv
<1>1. /\ outbox \subseteq outbox'
      /\ \A m \in outbox' : m \in outbox \/ m = CurrentMail
  BY DEF Deliver, CurrentMail
<1>2. /\ CurrentMail \in [start : Int, end : Int, ids : SUBSET Nat]
      /\ CurrentMail.end = window.end /\ CurrentMail.start = window.start
      /\ CurrentMail.ids = Ids(rows)
  BY PendingIds DEF CurrentMail, TypeOK
<1>3. /\ CurrentMail.end <= now
      /\ due => CurrentMail.end < now
  BY <1>2 DEF ClockInv
<1>4. \A m \in outbox : m.end < CurrentMail.end
  BY <1>2 DEF JobInv
<1>5. \A i \in CurrentMail.ids : i <= Cardinality(emails)
  BY <1>2, PendingIds
<1>6. CurrentMail.end \notin settled
  BY <1>2 DEF ClockInv, LastInv, TypeOK
<1> HIDE DEF CurrentMail
<1>7. outbox' \subseteq [start : Int, end : Int, ids : SUBSET Nat]
  BY <1>1, <1>2 DEF TypeOK
<1>8. /\ \A m \in outbox' : m.end <= now
      /\ due => \A m \in outbox' : m.end < now
  BY <1>1, <1>3 DEF ClockInv
<1>9. \A m \in outbox' : \A i \in m.ids : i <= Cardinality(emails)
  BY <1>1, <1>5 DEF MailInv
<1>10. \A m \in outbox' : m.end \in settled =>
         \A r \in emails : r.id \in m.ids => r.digested # Never
  BY <1>1, <1>6 DEF MailInv
<1>11. DigestedWasMailed' /\ RecordsMatchMails'
  BY <1>1 DEF DigestedWasMailed, RecordsMatchMails
<1>12. NothingMailedAfterCompletion'
  <2> SUFFICES ASSUME NEW m \in outbox', NEW n \in outbox', m.end \in settled, m.end < n.end
               PROVE  m.ids \intersect n.ids = {}
    BY DEF NothingMailedAfterCompletion
  <2>1. m \in outbox
    BY <1>1, <1>6
  <2>2. CASE n \in outbox
    BY <2>1, <2>2 DEF NothingMailedAfterCompletion
  <2>3. CASE n = CurrentMail
    <3>1. \A i \in n.ids : \E r \in emails : r.id = i /\ r.digested = Never
      BY <1>2, <2>3, PendingIds DEF Ids
    <3>2. \A r \in emails : r.id \in m.ids => r.digested # Never
      BY <2>1 DEF MailInv
    <3> QED
      BY <3>1, <3>2
  <2> QED
    BY <1>1, <2>2, <2>3
<1> QED
  BY <1>1, <1>7, <1>8, <1>9, <1>10, <1>11, <1>12

\* The mail that is acknowledged is the one of the window.
LEMMA SendKeepsInv ==
  ASSUME DigestInv, SendDigest
  PROVE  DigestInv'
<1> USE DEF DigestInv
<1>1. /\ pc = "send" /\ pc' = "complete"
      /\ Deliver
      /\ UNCHANGED <<now, due, emails, digests, lastDigest, window, rows, owed, settled>>
  BY DEF SendDigest, durableVars
<1>2. /\ outbox' \subseteq [start : Int, end : Int, ids : SUBSET Nat]
      /\ \A m \in outbox' : m \in outbox \/ m = CurrentMail
      /\ \A m \in outbox' : m.end <= now
      /\ due => \A m \in outbox' : m.end < now
      /\ \A m \in outbox' : \A i \in m.ids : i <= Cardinality(emails)
      /\ \A m \in outbox' : m.end \in settled =>
           \A r \in emails : r.id \in m.ids => r.digested # Never
      /\ DigestedWasMailed' /\ RecordsMatchMails' /\ NothingMailedAfterCompletion'
  BY <1>1, DeliverKeepsMails
<1>3. TypeOK'
  BY <1>1, <1>2 DEF TypeOK
<1>4. RowsInv'
  BY <1>1 DEF RowsInv
<1>5. ClockInv'
  <2>1. WindowAt(window.end)' = WindowAt(window.end)
    BY <1>1 DEF WindowAt
  <2> QED
    BY <1>1, <1>2, <2>1 DEF ClockInv
<1>6. JobInv'
  <2>1. CurrentMail' = CurrentMail
    BY <1>1 DEF CurrentMail
  <2>2. CurrentMail \in outbox'
    BY <1>1 DEF Deliver, CurrentMail
  <2> QED
    BY <1>1, <1>2, <2>1, <2>2 DEF JobInv
<1>7. LastInv'
  BY <1>1 DEF LastInv
<1>8. MailInv'
  BY <1>1, <1>2 DEF MailInv
<1> QED
  BY <1>2, <1>3, <1>4, <1>5, <1>6, <1>7, <1>8

\* The rows of a window that is given up are rows that a later one reaches.
LEMMA OwedRows ==
  ASSUME DigestInv, pc # "idle",
         owed' = IF lastDigest = Never THEN owed ELSE owed \union Ids(rows)
  PROVE  /\ owed' \subseteq Nat
         /\ \A i \in owed' : i <= Cardinality(emails)
         /\ \A r \in emails : r.id \in owed' =>
              /\ lastDigest # Never
              /\ r.digested = Never => lastDigest <= r.received
              /\ r.received < now
<1>1. owed' \subseteq Nat
  BY PendingIds DEF DigestInv, TypeOK
<1>2. \A i \in owed' : i <= Cardinality(emails)
  BY PendingIds DEF DigestInv, MailInv
<1>3. ASSUME NEW r \in emails, r.id \in owed'
      PROVE  /\ lastDigest # Never
             /\ r.digested = Never => lastDigest <= r.received
             /\ r.received < now
  <2>1. CASE r.id \in owed
    BY <2>1 DEF DigestInv, MailInv
  <2>2. CASE r.id \in Ids(rows) /\ lastDigest # Never
    <3>1. r.received < window.end /\ r \in rows
      BY <2>2, PendingIds
    <3>2. r.received \in Int /\ window.end \in Int /\ now \in Int /\ window.end <= now
      BY DEF DigestInv, TypeOK, ClockInv
    <3>3. window.start = lastDigest
      BY <2>2 DEF DigestInv, ClockInv, WindowAt
    <3>4. lastDigest <= r.received
      BY <3>1, <3>3 DEF DigestInv, JobInv, PendingForDigest
    <3> QED
      BY <2>2, <3>1, <3>2, <3>4
  <2> QED
    BY <1>3, <2>1, <2>2
<1> QED
  BY <1>1, <1>2, <1>3

\* A job that ends in an error leaves the database alone.
LEMMA GivingUpKeepsInv ==
  ASSUME DigestInv, SendFails \/ Interrupt
  PROVE  DigestInv'
<1> USE DEF DigestInv
<1>1. /\ pc # "idle" /\ pc' = "idle" /\ window' = NoWindow /\ rows' = {}
      /\ owed' = IF lastDigest = Never THEN owed ELSE owed \union Ids(rows)
      /\ UNCHANGED <<now, due, emails, digests, lastDigest, settled>>
  BY DEF SendFails, Interrupt, GiveUp, Forget, durableVars
<1>2. /\ outbox' \subseteq [start : Int, end : Int, ids : SUBSET Nat]
      /\ \A m \in outbox' : m.end <= now
      /\ due => \A m \in outbox' : m.end < now
      /\ \A m \in outbox' : \A i \in m.ids : i <= Cardinality(emails)
      /\ \A m \in outbox' : m.end \in settled =>
           \A r \in emails : r.id \in m.ids => r.digested # Never
      /\ DigestedWasMailed' /\ RecordsMatchMails' /\ NothingMailedAfterCompletion'
  <2>1. CASE pc = "send" /\ Deliver
    BY <1>1, <2>1, DeliverKeepsMails
  <2>2. CASE outbox' = outbox
    BY <1>1, <2>2 DEF TypeOK, ClockInv, MailInv, DigestedWasMailed, RecordsMatchMails,
                      NothingMailedAfterCompletion
  <2> QED
    BY <2>1, <2>2 DEF SendFails, Interrupt
<1>3. /\ owed' \subseteq Nat
      /\ \A i \in owed' : i <= Cardinality(emails)
      /\ \A r \in emails : r.id \in owed' =>
           /\ lastDigest # Never
           /\ r.digested = Never => lastDigest <= r.received
           /\ r.received < now
  BY <1>1, OwedRows
<1>4. TypeOK'
  BY <1>1, <1>2, <1>3 DEF TypeOK, NoWindow
<1>5. RowsInv' /\ LastInv'
  BY <1>1 DEF RowsInv, LastInv
<1>6. ClockInv' /\ JobInv'
  BY <1>1, <1>2 DEF ClockInv, JobInv
<1>7. MailInv'
  BY <1>1, <1>2, <1>3 DEF MailInv
<1> QED
  BY <1>2, <1>4, <1>5, <1>6, <1>7

-----------------------------------------------------------------------------
(* The transaction                                                         *)

\* What MarkDigested makes of one row.
Stamped(r, ids, at) ==
  IF r.id \in ids /\ r.digested = Never THEN [r EXCEPT !.digested = at] ELSE r

\* MarkDigested keeps the rows one to one.
LEMMA StampBijection ==
  ASSUME TypeOK, RowsInv, NEW ids, NEW at
  PROVE  [r \in emails |-> Stamped(r, ids, at)]
           \in Bijection(emails, MarkDigested(emails, ids, at))
<1> DEFINE f == [r \in emails |-> Stamped(r, ids, at)]
<1>1. MarkDigested(emails, ids, at) = { Stamped(r, ids, at) : r \in emails }
  BY DEF MarkDigested, Stamped
<1>2. \A r \in emails : Stamped(r, ids, at).id = r.id
  BY DEF Stamped, TypeOK
<1>3. f \in [emails -> MarkDigested(emails, ids, at)]
  BY <1>1
<1>4. \A r, s \in emails : f[r] = f[s] => r = s
  BY <1>2 DEF RowsInv
<1>5. \A t \in MarkDigested(emails, ids, at) : \E r \in emails : f[r] = t
  BY <1>1
<1> QED
  BY <1>3, <1>4, <1>5 DEF Bijection, Injection, Surjection, IsInjective

\* The rows after the transaction: as many as before, with their ids and dates,
\* and stamps on those of the window.
LEMMA StampedRows ==
  ASSUME DigestInv, pc # "idle", emails' = MarkDigested(emails, Ids(rows), window.end)
  PROVE  /\ emails' \subseteq [id : Nat \ {0}, received : Int, digested : Int \union {Never}]
         /\ RowsInv'
         /\ Cardinality(emails') = Cardinality(emails)
         /\ \A s \in emails' : \E r \in emails :
              /\ s.id = r.id /\ s.received = r.received
              /\ r \in rows => s.digested = window.end
              /\ r \notin rows => s = r
         /\ \A r \in emails : \E s \in emails' :
              /\ s.id = r.id /\ s.received = r.received
              /\ r \in rows => s.digested = window.end
              /\ r \notin rows => s = r
<1> USE DEF DigestInv
<1>1. emails' = { Stamped(r, Ids(rows), window.end) : r \in emails }
  BY DEF MarkDigested, Stamped
<1>2. ASSUME NEW r \in emails
      PROVE  LET s == Stamped(r, Ids(rows), window.end)
             IN /\ s \in [id : Nat \ {0}, received : Int, digested : Int \union {Never}]
                /\ s.id = r.id /\ s.received = r.received
                /\ r \in rows => s.digested = window.end
                /\ r \notin rows => s = r
  <2>1. r \in [id : Nat \ {0}, received : Int, digested : Int \union {Never}]
    BY DEF TypeOK
  <2>2. r.id \in Ids(rows) <=> r \in rows
    BY PendingIds
  <2>3. r \in rows => r.digested = Never
    BY PendingIds
  <2>4. window.end \in Int
    BY DEF TypeOK
  <2> QED
    BY <2>1, <2>2, <2>3, <2>4 DEF Stamped
<1>3. IsFiniteSet(emails') /\ Cardinality(emails') = Cardinality(emails)
  BY StampBijection, FS_Bijection DEF RowsInv, ExistsBijection
<1>4. \A s \in emails' : \E r \in emails : s = Stamped(r, Ids(rows), window.end)
  BY <1>1
<1>5. \A r \in emails : Stamped(r, Ids(rows), window.end) \in emails'
  BY <1>1
<1>6. \A s, t \in emails' : s.id = t.id => s = t
  BY <1>2, <1>4 DEF RowsInv
<1>7. \A s \in emails' : s.id <= Cardinality(emails')
  BY <1>2, <1>3, <1>4 DEF RowsInv
<1>8. RowsInv'
  BY <1>3, <1>6, <1>7 DEF RowsInv
<1> QED
  BY <1>2, <1>3, <1>4, <1>5, <1>8

\* The rows with the stamp of a digest are those it had mailed.
LEMMA StampCount ==
  ASSUME DigestInv, pc # "idle", emails' = MarkDigested(emails, Ids(rows), window.end)
  PROVE  /\ \A t \in Int : t < window.end =>
              { r \in emails' : r.digested = t } = { r \in emails : r.digested = t }
         /\ Cardinality({ r \in emails' : r.digested = window.end }) = Cardinality(rows)
         /\ Cardinality(rows) \in Nat
         /\ Cardinality(Ids(rows)) = Cardinality(rows)
<1> USE DEF DigestInv
<1>1. /\ rows \subseteq emails
      /\ IsFiniteSet(rows)
      /\ Cardinality(rows) \in Nat
  BY PendingIds, FS_Subset, FS_CardinalityType DEF RowsInv
<1>2. window.end \in Int /\ \A r \in rows : r.digested = Never
  BY PendingIds DEF TypeOK
<1>3. ASSUME NEW t \in Int, t < window.end
      PROVE  { r \in emails' : r.digested = t } = { r \in emails : r.digested = t }
  <2>1. ASSUME NEW s \in emails', s.digested = t
        PROVE  s \in emails
    BY <1>3, <2>1, <1>2, StampedRows
  <2>2. ASSUME NEW r \in emails, r.digested = t
        PROVE  r \in emails'
    BY <1>3, <2>2, <1>2, StampedRows, WeeklyDigestAssumption
  <2> QED
    BY <2>1, <2>2
<1>4. Cardinality({ r \in emails' : r.digested = window.end }) = Cardinality(rows)
  <2> DEFINE f == [r \in rows |-> Stamped(r, Ids(rows), window.end)]
             T == { s \in emails' : s.digested = window.end }
  <2>1. \A r \in emails : r.digested # window.end
    BY <1>2, WeeklyDigestAssumption DEF LastInv, ClockInv, TypeOK
  <2>2. emails' = { Stamped(r, Ids(rows), window.end) : r \in emails }
    BY DEF MarkDigested, Stamped
  <2>3. \A r \in rows : r.id \in Ids(rows) /\ r.digested = Never
    BY <1>2 DEF Ids
  <2>4. \A r \in rows : Stamped(r, Ids(rows), window.end).digested = window.end
    BY <1>1, <2>3 DEF Stamped, TypeOK
  <2>5. f \in [rows -> T]
    BY <1>1, <2>2, <2>4
  <2>6. \A r, s \in rows : f[r] = f[s] => r = s
    <3>1. \A r \in rows : Stamped(r, Ids(rows), window.end).id = r.id
      BY <1>1 DEF Stamped, TypeOK
    <3> QED
      BY <1>1, <3>1 DEF RowsInv
  <2>7. ASSUME NEW s \in T
        PROVE  \E r \in rows : f[r] = s
    <3>1. PICK r \in emails : s = Stamped(r, Ids(rows), window.end)
      BY <2>2
    <3>2. r \in rows
      BY <3>1, <2>1, PendingIds DEF Stamped
    <3> QED
      BY <3>1, <3>2
  <2>8. f \in Bijection(rows, T)
    BY <2>5, <2>6, <2>7 DEF Bijection, Injection, Surjection, IsInjective
  <2> QED
    BY <2>8, <1>1, FS_Bijection DEF ExistsBijection
<1>5. Cardinality(Ids(rows)) = Cardinality(rows)
  <2> DEFINE f == [r \in rows |-> r.id]
  <2>1. f \in [rows -> Ids(rows)]
    BY DEF Ids
  <2>2. \A r, s \in rows : f[r] = f[s] => r = s
    BY <1>1 DEF RowsInv
  <2>3. \A i \in Ids(rows) : \E r \in rows : f[r] = i
    BY DEF Ids
  <2>4. f \in Bijection(rows, Ids(rows))
    BY <2>1, <2>2, <2>3 DEF Bijection, Injection, Surjection, IsInjective
  <2> QED
    BY <2>4, <1>1, FS_Bijection DEF ExistsBijection
<1> QED
  BY <1>1, <1>3, <1>4, <1>5

\* One transaction stamps, records and moves the window together.
LEMMA CompleteKeepsInv ==
  ASSUME DigestInv, CompleteDigest
  PROVE  DigestInv'
<1> USE DEF DigestInv
<1> DEFINE d == [sent |-> window.end, start |-> window.start, end |-> window.end,
                 count |-> Cardinality(rows)]
<1>1. /\ pc = "complete" /\ pc' = "idle" /\ window' = NoWindow /\ rows' = {}
      /\ emails' = MarkDigested(emails, Ids(rows), window.end)
      /\ digests' = digests \union {d}
      /\ lastDigest' = window.end
      /\ settled' = settled \union {window.end}
      /\ UNCHANGED <<now, due, outbox, owed>>
  BY DEF CompleteDigest, Settle, Forget
<1>2. /\ emails' \subseteq [id : Nat \ {0}, received : Int, digested : Int \union {Never}]
      /\ RowsInv'
      /\ Cardinality(emails') = Cardinality(emails)
  BY <1>1, StampedRows
<1>3. \A s \in emails' : \E r \in emails :
        /\ s.id = r.id /\ s.received = r.received
        /\ r \in rows => s.digested = window.end
        /\ r \notin rows => s = r
  BY <1>1, StampedRows
<1>4. /\ \A t \in Int : t < window.end =>
           { r \in emails' : r.digested = t } = { r \in emails : r.digested = t }
      /\ Cardinality({ r \in emails' : r.digested = window.end }) = Cardinality(rows)
      /\ Cardinality(rows) \in Nat
      /\ Cardinality(Ids(rows)) = Cardinality(rows)
  BY <1>1, StampCount
<1>5. /\ window.start \in Int /\ window.end \in Int /\ now \in Int
      /\ lastDigest \in Int \union {Never}
      /\ window.end # Never
      /\ lastDigest # Never => lastDigest < window.end
      /\ window.end <= now
      /\ due => window.end < now
  BY <1>1, WeeklyDigestAssumption DEF TypeOK, ClockInv
<1>6. d \in [sent : Int, start : Int, end : Int, count : Nat]
  BY <1>4, <1>5
<1>7. /\ d.end = window.end /\ d.start = window.start /\ d.count = Cardinality(rows)
  OBVIOUS
<1>8. /\ CurrentMail \in outbox
      /\ CurrentMail.end = window.end /\ CurrentMail.start = window.start
      /\ CurrentMail.ids = Ids(rows)
      /\ \A m \in outbox : m.end < window.end \/ m = CurrentMail
  BY <1>1 DEF JobInv, CurrentMail
<1>9. /\ \A c \in digests : c.end \in Int /\ c.end < window.end
      /\ \A t \in settled : t \in Int /\ t < window.end
      /\ \A r \in emails : r.digested # Never => r.digested \in Int /\ r.digested < window.end
  BY <1>5 DEF LastInv, TypeOK
<1> HIDE DEF d, CurrentMail
<1>10. TypeOK'
  <2>1. digests' \subseteq [sent : Int, start : Int, end : Int, count : Nat]
    BY <1>1, <1>6 DEF TypeOK
  <2>2. /\ window' \in [start : Int, end : Int]
        /\ rows' \subseteq [id : Nat \ {0}, received : Int, digested : {Never}]
    BY <1>1 DEF NoWindow
  <2>3. owed' \subseteq Nat /\ settled' \subseteq Int /\ lastDigest' \in Int \union {Never}
    BY <1>1, <1>5 DEF TypeOK
  <2>4. /\ pc' = "idle"
        /\ now' \in Int /\ due' \in BOOLEAN
        /\ outbox' \subseteq [start : Int, end : Int, ids : SUBSET Nat]
    BY <1>1 DEF TypeOK
  <2> QED
    BY <1>2, <2>1, <2>2, <2>3, <2>4 DEF TypeOK
<1>11. ClockInv'
  BY <1>1, <1>5, <1>8, <1>9 DEF ClockInv
<1>12. JobInv'
  BY <1>1 DEF JobInv
<1>13. LastInv'
  <2>1. \A c \in digests' : lastDigest' # Never /\ c.end <= lastDigest'
    BY <1>1, <1>5, <1>7, <1>9
  <2>2. \E c \in digests' : c.end = lastDigest'
    BY <1>1, <1>7
  <2>3. \A s \in emails' : s.digested # Never => lastDigest' # Never /\ s.digested <= lastDigest'
    BY <1>1, <1>3, <1>5, <1>9
  <2>4. \A t \in settled' : lastDigest' # Never /\ t <= lastDigest'
    BY <1>1, <1>5, <1>9
  <2> QED
    BY <2>1, <2>2, <2>3, <2>4 DEF LastInv
<1>14. MailInv'
  <2>1. /\ \A m \in outbox' : \A i \in m.ids : i <= Cardinality(emails')
        /\ \A i \in owed' : i <= Cardinality(emails')
    BY <1>1, <1>2 DEF MailInv
  <2>2. ASSUME NEW m \in outbox', m.end \in settled', NEW s \in emails', s.id \in m.ids
        PROVE  s.digested # Never
    <3>1. PICK r \in emails : /\ s.id = r.id
                              /\ r \in rows => s.digested = window.end
                              /\ r \notin rows => s = r
      BY <1>3
    <3>2. CASE r \in rows
      BY <3>1, <3>2, <1>5
    <3>3. CASE r \notin rows
      <4>1. r.id \notin Ids(rows)
        BY <3>3, <1>1, PendingIds
      <4>2. m # CurrentMail
        BY <4>1, <2>2, <3>1, <1>8
      <4>3. m.end \in settled
        BY <4>2, <2>2, <1>1, <1>8, <1>5 DEF TypeOK
      <4> QED
        BY <4>3, <3>1, <3>3, <2>2, <1>1 DEF MailInv
    <3> QED
      BY <3>2, <3>3
  <2>3. ASSUME NEW s \in emails', s.id \in owed'
        PROVE  /\ lastDigest' # Never
               /\ s.digested = Never => lastDigest' <= s.received
               /\ s.received < now'
    <3>1. PICK r \in emails : /\ s.id = r.id /\ s.received = r.received
                              /\ r \in rows => s.digested = window.end
                              /\ r \notin rows => s = r
      BY <1>3
    <3>2. /\ lastDigest # Never
          /\ r.digested = Never => lastDigest <= r.received
          /\ r.received < now /\ r.received < window.end
      BY <2>3, <3>1, <1>1 DEF MailInv
    <3>3. window.start = lastDigest
      BY <3>2, <1>1 DEF ClockInv, WindowAt
    <3>4. r.digested = Never => r \in rows
      BY <3>2, <3>3, <1>1 DEF JobInv, PendingForDigest
    <3>5. s.digested # Never
      BY <3>1, <3>4, <1>5
    <3> QED
      BY <3>1, <3>2, <3>5, <1>1, <1>5
  <2> QED
    BY <2>1, <2>2, <2>3, <1>1 DEF MailInv
<1>15. DigestedWasMailed'
  <2> SUFFICES ASSUME NEW s \in emails', s.digested # Never
               PROVE  \E m \in outbox' : m.end = s.digested /\ s.id \in m.ids
    BY DEF DigestedWasMailed
  <2>1. PICK r \in emails : /\ s.id = r.id
                            /\ r \in rows => s.digested = window.end
                            /\ r \notin rows => s = r
    BY <1>3
  <2>2. CASE r \in rows
    BY <2>1, <2>2, <1>1, <1>8 DEF Ids
  <2>3. CASE r \notin rows
    BY <2>1, <2>3, <1>1 DEF DigestedWasMailed
  <2> QED
    BY <2>2, <2>3
<1>16. RecordsMatchMails'
  <2> SUFFICES ASSUME NEW e \in digests'
               PROVE  /\ \E m \in outbox' :
                           /\ m.start = e.start /\ m.end = e.end
                           /\ Cardinality(m.ids) = e.count
                      /\ Cardinality({ r \in emails' : r.digested = e.end }) = e.count
                      /\ \/ \E c \in digests' : c.end = e.start
                         \/ \A c \in digests' : c.end >= e.end
    BY DEF RecordsMatchMails
  <2>1. CASE e \in digests
    <3>1. /\ \E m \in outbox :
               /\ m.start = e.start /\ m.end = e.end
               /\ Cardinality(m.ids) = e.count
          /\ Cardinality({ r \in emails : r.digested = e.end }) = e.count
          /\ \/ \E c \in digests : c.end = e.start
             \/ \A c \in digests : c.end >= e.end
      BY <2>1 DEF RecordsMatchMails
    <3>2. { r \in emails' : r.digested = e.end } = { r \in emails : r.digested = e.end }
      BY <2>1, <1>4, <1>9
    <3>3. d.end >= e.end
      BY <2>1, <1>5, <1>7, <1>9
    <3> QED
      BY <3>1, <3>2, <3>3, <1>1
  <2>2. CASE e = d
    <3>1. \E m \in outbox' :
            /\ m.start = e.start /\ m.end = e.end
            /\ Cardinality(m.ids) = e.count
      BY <2>2, <1>1, <1>4, <1>7, <1>8
    <3>2. Cardinality({ r \in emails' : r.digested = e.end }) = e.count
      BY <2>2, <1>4, <1>7
    <3>3. CASE lastDigest = Never
      <4>1. digests = {}
        BY <3>3 DEF LastInv
      <4> QED
        BY <4>1, <3>1, <3>2, <2>2, <1>1, <1>5, <1>7
    <3>4. CASE lastDigest # Never
      <4>1. e.start = lastDigest
        BY <3>4, <2>2, <1>1, <1>7 DEF ClockInv, WindowAt
      <4> QED
        BY <4>1, <3>1, <3>2, <3>4, <1>1 DEF LastInv
    <3> QED
      BY <3>3, <3>4
  <2> QED
    BY <2>1, <2>2, <1>1
<1>17. NothingMailedAfterCompletion'
  <2> SUFFICES ASSUME NEW m \in outbox, NEW n \in outbox, m.end \in settled', m.end < n.end
               PROVE  m.ids \intersect n.ids = {}
    BY <1>1 DEF NothingMailedAfterCompletion
  <2>1. n.end \in Int /\ m.end \in Int
    BY DEF TypeOK
  <2>2. m.end # window.end
    BY <2>1, <1>5, <1>8
  <2>3. m.end \in settled
    BY <2>2, <1>1
  <2> QED
    BY <2>3 DEF NothingMailedAfterCompletion
<1> QED
  BY <1>2, <1>10, <1>11, <1>12, <1>13, <1>14, <1>15, <1>16, <1>17

-----------------------------------------------------------------------------
(* The theorems                                                            *)

\* A new database has nothing to account for.
LEMMA InitDigestInv == Init => DigestInv
<1> SUFFICES ASSUME Init
             PROVE  DigestInv
  OBVIOUS
<1> USE DEF Init
<1>1. TypeOK
  <2>1. window \in [start : Int, end : Int] /\ now \in Int
    BY DEF NoWindow
  <2>2. outbox = {} /\ rows = {} /\ emails = {} /\ digests = {} /\ owed = {} /\ settled = {}
    OBVIOUS
  <2>3. lastDigest \in Int \union {Never} /\ due \in BOOLEAN /\ pc \in {"idle", "send", "complete"}
    OBVIOUS
  <2> QED
    BY ONLY <2>1, <2>2, <2>3 DEF TypeOK
<1>2. RowsInv
  BY FS_EmptySet DEF RowsInv
<1>3. ClockInv /\ JobInv /\ LastInv /\ MailInv
  BY DEF ClockInv, JobInv, LastInv, MailInv
<1>4. DigestedWasMailed /\ RecordsMatchMails /\ NothingMailedAfterCompletion
  BY DEF DigestedWasMailed, RecordsMatchMails, NothingMailedAfterCompletion
<1> QED
  BY <1>1, <1>2, <1>3, <1>4 DEF DigestInv

\* Every step of the clock, of a poll and of the digest job preserves DigestInv.
LEMMA NextDigestInv == DigestInv /\ [Next]_vars => DigestInv'
<1> SUFFICES ASSUME DigestInv, [Next]_vars
             PROVE  DigestInv'
  OBVIOUS
<1>1. ASSUME NEW received \in Dates, Ingest(received)
      PROVE  DigestInv'
  <2>1. received \in Int
    BY WeeklyDigestAssumption DEF Dates
  <2> QED
    BY <1>1, <2>1, IngestKeepsInv
<1>2. CASE UNCHANGED vars
  <2>1. UNCHANGED <<now, due, emails, digests, lastDigest, pc, window, rows,
                    outbox, owed, settled>>
    BY <1>2 DEF vars, durableVars, jobVars, historyVars
  <2>2. TypeOK' /\ RowsInv' /\ LastInv' /\ MailInv'
    BY <2>1 DEF DigestInv, TypeOK, RowsInv, LastInv, MailInv
  <2>3. ClockInv'
    BY <2>1 DEF DigestInv, ClockInv, WindowAt
  <2>4. JobInv'
    BY <2>1 DEF DigestInv, JobInv, CurrentMail
  <2>5. DigestedWasMailed' /\ RecordsMatchMails' /\ NothingMailedAfterCompletion'
    BY <2>1 DEF DigestInv, DigestedWasMailed, RecordsMatchMails, NothingMailedAfterCompletion
  <2> QED
    BY <2>2, <2>3, <2>4, <2>5 DEF DigestInv
<1> QED
  BY <1>1, <1>2, TickKeepsInv, BeginKeepsInv, SendKeepsInv, GivingUpKeepsInv, CompleteKeepsInv
     DEF Next

\* Polls, digests that succeed and digests that fail keep DigestInv.
THEOREM DigestInvariant == Spec => []DigestInv
  BY InitDigestInv, NextDigestInv, PTL DEF Spec

\* Every variable keeps its type.
THEOREM DigestTypeCorrect == Spec => []TypeOK
<1>1. DigestInv => TypeOK
  BY DEF DigestInv
<1> QED
  BY <1>1, DigestInvariant, PTL

\* CompleteDigest stamps only rows that the owner got, in the mail of the window
\* that ends at the stamp.
THEOREM DigestedWasMailedHolds == Spec => []DigestedWasMailed
<1>1. DigestInv => DigestedWasMailed
  BY DEF DigestInv
<1> QED
  BY <1>1, DigestInvariant, PTL

\* Each row of the digests table is a mail, counts the rows that were stamped
\* for it and starts where another one ended.
THEOREM RecordsMatchMailsHolds == Spec => []RecordsMatchMails
<1>1. DigestInv => RecordsMatchMails
  BY DEF DigestInv
<1> QED
  BY <1>1, DigestInvariant, PTL

\* Only a digest that was not completed is mailed again.
THEOREM NothingMailedAfterCompletionHolds == Spec => []NothingMailedAfterCompletion
<1>1. DigestInv => NothingMailedAfterCompletion
  BY DEF DigestInv
<1> QED
  BY <1>1, DigestInvariant, PTL

\* A digest that failed is made good: neither the window nor a later digest
\* passes its rows by.
THEOREM OwedRowsComeBackHolds == Spec => []OwedRowsComeBack
<1>1. ASSUME DigestInv
      PROVE  OwedRowsComeBack
  <2> SUFFICES ASSUME pc = "send", NEW r \in emails, r.id \in owed, r.digested = Never
               PROVE  r.id \in Ids(rows)
    BY DEF OwedRowsComeBack
  <2>1. lastDigest # Never /\ lastDigest <= r.received /\ r.received < window.end
    BY <1>1 DEF DigestInv, MailInv
  <2>2. window.start = lastDigest
    BY <1>1, <2>1 DEF DigestInv, ClockInv, WindowAt
  <2>3. r \in PendingForDigest(emails, window.start, window.end)
    BY <2>1, <2>2 DEF PendingForDigest
  <2> QED
    BY <1>1, <2>3 DEF DigestInv, JobInv, Ids
<1> QED
  BY <1>1, DigestInvariant, PTL

\* The transaction moves the window over stamped rows only: what the next digest
\* could reach and this one did not stamp lies after the end of its window.
LEMMA StepLeavesNoRow ==
  ASSUME DigestInv, [Next]_vars
  PROVE  lastDigest # Never =>
           \A r \in emails : Ahead(r) =>
             \E s \in emails' :
               /\ s.id = r.id
               /\ s.digested # Never \/ lastDigest' <= s.received
<1> SUFFICES ASSUME lastDigest # Never, NEW r \in emails, Ahead(r)
             PROVE  \E s \in emails' :
                      /\ s.id = r.id
                      /\ s.digested # Never \/ lastDigest' <= s.received
  OBVIOUS
<1>1. lastDigest <= r.received /\ r.digested = Never
  BY DEF Ahead
<1>2. CASE emails \subseteq emails' /\ lastDigest' = lastDigest
  BY <1>1, <1>2
<1>3. CASE CompleteDigest
  <2>1. /\ pc = "complete"
        /\ emails' = MarkDigested(emails, Ids(rows), window.end)
        /\ lastDigest' = window.end
    BY <1>3 DEF CompleteDigest
  <2>2. PICK s \in emails' : /\ s.id = r.id /\ s.received = r.received
                             /\ r \in rows => s.digested = window.end
                             /\ r \notin rows => s = r
    BY <2>1, StampedRows
  <2>3. CASE r \in rows
    BY <2>2, <2>3, WeeklyDigestAssumption DEF DigestInv, TypeOK
  <2>4. CASE r \notin rows
    <3>1. window.start = lastDigest
      BY <2>1 DEF DigestInv, ClockInv, WindowAt
    <3>2. ~(r.received < window.end)
      BY <1>1, <2>1, <2>4, <3>1 DEF DigestInv, JobInv, PendingForDigest
    <3>3. r.received \in Int /\ window.end \in Int
      BY DEF DigestInv, TypeOK
    <3>4. lastDigest' <= s.received
      BY <2>1, <2>2, <3>2, <3>3
    <3> QED
      BY <2>2, <3>4
  <2> QED
    BY <2>3, <2>4
<1>4. (emails \subseteq emails' /\ lastDigest' = lastDigest) \/ CompleteDigest
  BY DEF Next, Tick, Ingest, InsertReceived, BeginDigest, SendDigest, SendFails, Interrupt, GiveUp,
         vars, durableVars
<1> QED
  BY <1>2, <1>3, <1>4

\* No digest passes over a row it did not mail, whatever polls and failures come
\* before it.
THEOREM NoRowLeftBehindHolds == Spec => NoRowLeftBehind
<1>1. DigestInv /\ [Next]_vars =>
        [ lastDigest # Never =>
            \A r \in emails : Ahead(r) =>
              \E s \in emails' :
                /\ s.id = r.id
                /\ s.digested # Never \/ lastDigest' <= s.received ]_durableVars
  BY StepLeavesNoRow
<1> QED
  BY <1>1, DigestInvariant, PTL DEF Spec, NoRowLeftBehind

=============================================================================
