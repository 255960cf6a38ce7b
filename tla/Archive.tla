------------------------------ MODULE Archive ------------------------------
(***************************************************************************)
(* archive.Write: publishing an original under <dir>/YYYY/MM without ever  *)
(* replacing a file.  The path comes from the Message-Id, sanitized and    *)
(* cut, or from the UID when that leaves nothing.  So different messages   *)
(* may want the same path; the second then gets one with a hash of its     *)
(* bytes.                                                                  *)
(*                                                                         *)
(* Write looks before it publishes, and a hard link that fails on an       *)
(* existing target makes the publication atomic; so a call is several      *)
(* steps here and other calls and crashes come between them.  digestd      *)
(* makes one call at a time; the module allows for more, as the code does. *)
(* The temp file is private to a call and complete before it is linked, so *)
(* it is not part of the state.                                            *)
(***************************************************************************)
EXTENDS Naturals, Functions

CONSTANTS
  Writers,      \* calls of Write that may be active at once
  Messages,     \* originals, told apart by their bytes
  UIDs,         \* the UIDs messages may have
  Name,         \* safeName of each Message-Id, or NoName
  NoName,       \* the empty name
  UIDName,      \* uid-<n> of each UID; a Message-Id may have this name as well
  Hash,         \* the first bytes of the SHA-256 of each message
  NoHash,       \* stands for no hash in a path
  Dated,        \* messages with a Date header
  MonthOf,      \* the month of the Date header
  Months        \* bound: the months that may pass

ASSUME ArchiveAssumption ==
  /\ Months \subseteq Nat
  /\ Dated \subseteq Messages
  /\ MonthOf \in [Dated -> Months]
  /\ Name \in [Messages -> Range(Name)]
  /\ UIDName \in [UIDs -> Range(UIDName)]
  /\ NoName \notin Range(UIDName)
  /\ Hash \in [Messages -> Range(Hash)]
  /\ \A m \in Messages : Hash[m] # NoHash

VARIABLES
  month,        \* the current month
  files,        \* the .eml files: their paths and contents
  call,         \* each writer's call: where it is, its message, its target
  returned      \* history: the messages and paths of calls that succeeded

vars == <<month, files, call, returned>>

Names == (Range(Name) \ {NoName}) \union Range(UIDName)

Paths == [month : Months, name : Names, hash : Range(Hash) \union {NoHash}]

\* The name of a message that has this UID in the folder.
BaseName(m, uid) == IF Name[m] = NoName THEN UIDName[uid] ELSE Name[m]

BasePath(m, uid, mon) == [month |-> mon, name |-> BaseName(m, uid), hash |-> NoHash]

\* Mutant of Alternate: the hash takes the place of the name.
AlternateNameless(path, m) == [path EXCEPT !.name = Hash[m]]

\* The path next to the base path that the hash of the bytes gives.
Alternate(path, m) == [path EXCEPT !.hash = Hash[m]]

Calls == [pc : {"inspect", "alternate", "publish"}, msg : Messages, target : Paths]

NoCall == [pc |-> "idle"]

\* The values of every variable.
TypeOK ==
  /\ month \in Months
  /\ DOMAIN files \subseteq Paths
  /\ \A p \in DOMAIN files : files[p] \in Messages
  /\ call \in [Writers -> Calls \union {NoCall}]
  /\ returned \subseteq Messages \X Paths

Init ==
  /\ month \in Months
  /\ \A n \in Months : month <= n
  /\ files = [p \in {} |-> NoHash]
  /\ call = [w \in Writers |-> NoCall]
  /\ returned = {}

-----------------------------------------------------------------------------
At(w, pc) == call[w].pc = pc

Holds(path, m) == path \in DOMAIN files /\ files[path] = m

Goto(w, pc, target) ==
  call' = [call EXCEPT ![w].pc = pc, ![w].target = target]

End(w) == call' = [call EXCEPT ![w] = NoCall]

\* Write returns the target.
Return(w) ==
  /\ returned' = returned \union {<<call[w].msg, call[w].target>>}
  /\ End(w)

\* processOne gives the Date of the message, or the time of the poll, and the
\* UID the message has now: an original put back in the folder gets another.
Begin(w, m, uid) ==
  /\ At(w, "idle")
  /\ call' = [call EXCEPT ![w] =
       [pc |-> "inspect", msg |-> m,
        target |-> BasePath(m, uid, IF m \in Dated THEN MonthOf[m] ELSE month)]]
  /\ UNCHANGED <<month, files, returned>>

\* Mutant of InspectBase: a path that is taken is never compared.
InspectBaseUncompared(w) ==
  /\ At(w, "inspect")
  /\ LET m == call[w].msg
         base == call[w].target
     IN IF base \in DOMAIN files
          THEN Goto(w, "alternate", Alternate(base, m))
          ELSE Goto(w, "publish", base)
  /\ UNCHANGED <<month, files, returned>>

\* archiveTarget reads the base path: the message is there, another is, or none.
InspectBase(w) ==
  /\ At(w, "inspect")
  /\ LET m == call[w].msg
         base == call[w].target
     IN \/ Holds(base, m) /\ Return(w)
        \/ /\ base \in DOMAIN files /\ ~Holds(base, m)
           /\ Goto(w, "alternate", Alternate(base, m))
           /\ UNCHANGED returned
        \/ /\ base \notin DOMAIN files
           /\ Goto(w, "publish", base)
           /\ UNCHANGED returned
  /\ UNCHANGED <<month, files>>

\* archiveTarget reads the alternate path; another message with the same hash
\* there is an error.
InspectAlternate(w) ==
  /\ At(w, "alternate")
  /\ LET m == call[w].msg
         alternate == call[w].target
     IN \/ Holds(alternate, m) /\ Return(w)
        \/ /\ alternate \in DOMAIN files /\ ~Holds(alternate, m)
           /\ End(w)
           /\ UNCHANGED returned
        \/ /\ alternate \notin DOMAIN files
           /\ Goto(w, "publish", alternate)
           /\ UNCHANGED returned
  /\ UNCHANGED <<month, files>>

\* Mutants of Publish: the temp file is renamed over the target, and a target
\* that exists is taken for the message.
PublishRenaming(w) ==
  /\ At(w, "publish")
  /\ files' = [p \in DOMAIN files \union {call[w].target} |->
                 IF p = call[w].target THEN call[w].msg ELSE files[p]]
  /\ Return(w)
  /\ UNCHANGED month
PublishTrusting(w) ==
  /\ At(w, "publish")
  /\ IF call[w].target \in DOMAIN files
       THEN UNCHANGED files
       ELSE files' = [p \in DOMAIN files \union {call[w].target} |->
                        IF p = call[w].target THEN call[w].msg ELSE files[p]]
  /\ Return(w)
  /\ UNCHANGED month

\* The temp file is written, synced and linked to the target.  A target that
\* came into being since is success with the same bytes and an error otherwise.
Publish(w) ==
  /\ At(w, "publish")
  /\ LET m == call[w].msg
         target == call[w].target
     IN \/ /\ target \notin DOMAIN files
           /\ files' = [p \in DOMAIN files \union {target} |->
                          IF p = target THEN m ELSE files[p]]
           /\ Return(w)
        \/ Holds(target, m) /\ Return(w) /\ UNCHANGED files
        \/ /\ target \in DOMAIN files /\ ~Holds(target, m)
           /\ End(w)
           /\ UNCHANGED <<files, returned>>
  /\ UNCHANGED month

\* A call of the operating system fails, and Write with it.
FailIO(w) ==
  /\ ~At(w, "idle")
  /\ End(w)
  /\ UNCHANGED <<month, files, returned>>

\* The daemon dies; what was linked stays.
Crash ==
  /\ \E w \in Writers : ~At(w, "idle")
  /\ call' = [w \in Writers |-> NoCall]
  /\ UNCHANGED <<month, files, returned>>

NextMonth ==
  /\ month + 1 \in Months
  /\ month' = month + 1
  /\ UNCHANGED <<files, call, returned>>

Step(w) ==
  \/ \E m \in Messages, uid \in UIDs : Begin(w, m, uid)
  \/ InspectBase(w)
  \/ InspectAlternate(w)
  \/ Publish(w)
  \/ FailIO(w)

Next == (\E w \in Writers : Step(w)) \/ Crash \/ NextMonth

Spec == Init /\ [][Next]_vars

-----------------------------------------------------------------------------
(* Properties                                                              *)

\* README: the archive holds "immutable original messages".  A published file
\* is never replaced, removed or changed, whatever calls race for its path.
WriteOnce ==
  [][ \A p \in DOMAIN files : p \in DOMAIN files' /\ files'[p] = files[p] ]_files

\* The path that Write returned, and that raw_path of the row keeps, holds the
\* message, then and ever after.
ReturnedPathHolds == \A r \in returned : Holds(r[2], r[1])

\* A message that is archived again, after a crash or a failed poll, is found:
\* within one month it has one file, or, if its Message-Id makes no name, one
\* under the name of each UID it had.
OneFilePerMonth ==
  \A p, q \in DOMAIN files :
    /\ files[p] = files[q]
    /\ p.month = q.month
    /\ Name[files[p]] # NoName \/ p.name = q.name
    => p = q
=============================================================================
