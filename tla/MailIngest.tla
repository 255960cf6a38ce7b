----------------------------- MODULE MailIngest -----------------------------
(***************************************************************************)
(* What a poll promises of the mail that comes after the baseline, with no *)
(* cursor, batch or failure in it: a message is stored before it is        *)
(* flagged and flagged before it is passed over, one message at a time,    *)
(* and none of it is ever taken back.  A message that the owner deleted or *)
(* left in an older folder, or that was there before, is gone: it may be   *)
(* passed over as it is.                                                   *)
(***************************************************************************)
VARIABLES
  mail,         \* messages put in the folder
  gone,         \* those that nothing is promised of
  stored,       \* those with an original in the archive and a row
  seen,         \* those flagged \Seen
  passed        \* those that no later poll looks at

vars == <<mail, gone, stored, seen, passed>>

Init ==
  /\ mail = {}
  /\ gone = {}
  /\ stored = {}
  /\ seen = {}
  /\ passed = {}

\* Messages arrive, some of which may be stored already.
Arrive ==
  /\ mail \subseteq mail'
  /\ stored \subseteq stored'
  /\ stored' \ stored \subseteq mail' \ mail
  /\ UNCHANGED <<gone, seen, passed>>

\* The owner deletes messages, recreates the folder or starts digestd on it.
Lose ==
  /\ gone' \in SUBSET mail
  /\ gone \subseteq gone'
  /\ UNCHANGED <<mail, stored, seen, passed>>

\* A message is stored, and with it those that are the same by their keys.
Store ==
  /\ stored' \in SUBSET mail
  /\ stored \subseteq stored'
  /\ UNCHANGED <<mail, gone, seen, passed>>

Flag(e) ==
  /\ e \in stored
  /\ seen' = seen \union {e}
  /\ UNCHANGED <<mail, gone, stored, passed>>

\* Of the messages passed over at once at most one is not gone.
Pass(e) ==
  /\ e \in stored \intersect seen \/ e \in gone
  /\ passed' \in SUBSET mail
  /\ passed \subseteq passed'
  /\ passed' \ passed \subseteq gone \union {e}
  /\ UNCHANGED <<mail, gone, stored, seen>>

Next ==
  \/ Arrive
  \/ Lose
  \/ Store
  \/ \E e \in mail : Flag(e) \/ Pass(e)

Spec == Init /\ [][Next]_vars
=============================================================================
