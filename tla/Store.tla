------------------------------- MODULE Store -------------------------------
(***************************************************************************)
(* The SQLite state of digestd (internal/store) as pure operators.  The    *)
(* `emails' table is a set of rows, the poll cursor a pair, and every      *)
(* method of Store the function it computes in its own transaction.  Store *)
(* has one connection, and each method runs one statement or one           *)
(* transaction, so a caller's step applies one of these at a time.         *)
(*                                                                         *)
(* A row is a record.  The operators read only the columns they name, so   *)
(* a module gives its rows the columns its own properties tell apart.      *)
(***************************************************************************)
EXTENDS Naturals

CONSTANTS
  NoID,         \* the empty Message-ID, which the table stores as NULL
  Never         \* the NULL of the digested_at column

-----------------------------------------------------------------------------
(* The poll cursor                                                         *)

\* stateUint gives 0 for a missing key, so the cursor of a new database is
\* the pair of zeros and no folder is known by UIDVALIDITY 0.
NoCursor == [validity |-> 0, uid |-> 0]

\* SetLastUID replaces both halves of the cursor in one transaction.
SetLastUID(uidValidity, lastUID) == [validity |-> uidValidity, uid |-> lastUID]

-----------------------------------------------------------------------------
(* The emails table                                                        *)

\* Mutants of EmailExists: a UID is compared without its UIDVALIDITY, and
\* Message-IDs are not compared.
EmailExistsAnyFolder(emails, uidValidity, imapUID, messageID) ==
  \E r \in emails :
    \/ r.uid = imapUID
    \/ messageID # NoID /\ r.mid = messageID
EmailExistsByUID(emails, uidValidity, imapUID, messageID) ==
  \E r \in emails : r.validity = uidValidity /\ r.uid = imapUID

\* Some row holds one of the two deduplication keys.  An empty Message-ID
\* matches nothing.
EmailExists(emails, uidValidity, imapUID, messageID) ==
  \E r \in emails :
    \/ r.validity = uidValidity /\ r.uid = imapUID
    \/ messageID # NoID /\ r.mid = messageID

\* INSERT ... ON CONFLICT DO NOTHING under UNIQUE(uid_validity, imap_uid) and
\* UNIQUE(message_id); NULLs are pairwise distinct for the second.
InsertEmail(emails, row) ==
  IF EmailExists(emails, row.validity, row.uid, row.mid)
    THEN emails
    ELSE emails \union {row}

\* The undigested rows received in the half-open window [start, end).
PendingForDigest(emails, windowStart, windowEnd) ==
  { r \in emails : /\ windowStart <= r.received
                   /\ r.received < windowEnd
                   /\ r.digested = Never }

\* Stamps the rows with these ids, keeping the stamp of a row that has one.
MarkDigested(emails, ids, at) ==
  { IF r.id \in ids /\ r.digested = Never
      THEN [r EXCEPT !.digested = at]
      ELSE r : r \in emails }
=============================================================================
