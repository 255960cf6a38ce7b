--------------------------- MODULE ArchiveProofs ---------------------------
(***************************************************************************)
(* Proofs about Archive, for any writers, messages, names, hashes (equal   *)
(* ones included) and months: the type invariant, that files are never     *)
(* replaced, that a returned path holds its message, and that a message    *)
(* has one file in a month under each name.  They rest on ArchiveInv,      *)
(* which is inductive.                                                     *)
(***************************************************************************)
EXTENDS Archive, TLAPS

\* The path is a base path of the message.
IsBase(path, m) == \E uid \in UIDs : path = BasePath(m, uid, path.month)

\* The path is the alternate of a base path that another message holds.
IsDisplaced(path, m) ==
  \E uid \in UIDs :
    LET base == BasePath(m, uid, path.month)
    IN /\ path = Alternate(base, m)
       /\ base \in DOMAIN files
       /\ files[base] # m

\* A message lies at its base path, or at its alternate path because another
\* message was at the base path first.
FilesInv == \A p \in DOMAIN files : IsBase(p, files[p]) \/ IsDisplaced(p, files[p])

\* A call looks for its message where it belongs.
CallInv(w) ==
  /\ At(w, "inspect") => IsBase(call[w].target, call[w].msg)
  /\ At(w, "alternate") => IsDisplaced(call[w].target, call[w].msg)
  /\ At(w, "publish") =>
       IsBase(call[w].target, call[w].msg) \/ IsDisplaced(call[w].target, call[w].msg)

\* What the steps preserve together.
ArchiveInv ==
  /\ TypeOK
  /\ FilesInv
  /\ \A w \in Writers : CallInv(w)
  /\ ReturnedPathHolds

-----------------------------------------------------------------------------
(* The paths                                                               *)

\* The base path of a message is a path, in the month it was asked for.
LEMMA BasePathType ==
  ASSUME NEW m \in Messages, NEW uid \in UIDs, NEW mon \in Months
  PROVE  BasePath(m, uid, mon) \in Paths /\ IsBase(BasePath(m, uid, mon), m)
<1>1. Name[m] \in Range(Name) /\ UIDName[uid] \in Range(UIDName)
  BY ArchiveAssumption
<1>2. BaseName(m, uid) \in Names
  BY <1>1 DEF BaseName, Names
<1> QED
  BY <1>2 DEF BasePath, Paths, IsBase

\* The alternate path of a message is a path in the same month.
LEMMA AlternateType ==
  ASSUME NEW m \in Messages, NEW path \in Paths
  PROVE  Alternate(path, m) \in Paths /\ Alternate(path, m).month = path.month
<1>1. Hash[m] \in Range(Hash)
  BY ArchiveAssumption
<1>2. path \in [month : Months, name : Names, hash : Range(Hash) \union {NoHash}]
  BY DEF Paths
<1> QED
  BY <1>1, <1>2 DEF Alternate, Paths

\* A message whose base path another one holds is displaced.
LEMMA Displaced ==
  ASSUME NEW m \in Messages, NEW base \in Paths, IsBase(base, m),
         base \in DOMAIN files, files[base] # m
  PROVE  IsDisplaced(Alternate(base, m), m)
<1>1. Alternate(base, m).month = base.month
  BY AlternateType
<1>2. PICK uid \in UIDs : base = BasePath(m, uid, base.month)
  BY DEF IsBase
<1> QED
  BY <1>1, <1>2 DEF IsDisplaced

\* Files that are only added displace no fewer messages.
LEMMA StillDisplaced ==
  ASSUME NEW m, NEW path, IsDisplaced(path, m),
         \A p \in DOMAIN files : p \in DOMAIN files' /\ files'[p] = files[p]
  PROVE  IsDisplaced(path, m)'
  BY DEF IsDisplaced, BasePath, BaseName, Alternate

\* The alternate path has the name of the base path.
LEMMA PathsOfOneName ==
  ASSUME NEW m, NEW uid, NEW vid, NEW mon,
         BaseName(m, uid) = BaseName(m, vid)
  PROVE  BasePath(m, uid, mon) = BasePath(m, vid, mon)
  BY DEF BasePath

\* A message at one path of a month is at no other of that name.
LEMMA FilesInvOneFile == FilesInv => OneFilePerMonth
<1> SUFFICES ASSUME FilesInv, NEW p \in DOMAIN files, NEW q \in DOMAIN files,
                    files[p] = files[q], p.month = q.month,
                    Name[files[p]] # NoName \/ p.name = q.name
             PROVE  p = q
  BY DEF OneFilePerMonth
<1> DEFINE m == files[p]
           Base(uid) == BasePath(m, uid, p.month)
<1>1. ASSUME NEW path \in DOMAIN files, files[path] = m, path.month = p.month
      PROVE  \E uid \in UIDs :
               /\ path.name = BaseName(m, uid)
               /\ \/ path = Base(uid)
                  \/ /\ path = Alternate(Base(uid), m)
                     /\ Base(uid) \in DOMAIN files /\ files[Base(uid)] # m
  <2>1. PICK uid \in UIDs : \/ path = Base(uid)
                            \/ /\ path = Alternate(Base(uid), m)
                               /\ Base(uid) \in DOMAIN files /\ files[Base(uid)] # m
    BY <1>1 DEF FilesInv, IsBase, IsDisplaced
  <2>2. Base(uid).name = BaseName(m, uid) /\ Alternate(Base(uid), m).name = BaseName(m, uid)
    BY DEF BasePath, Alternate
  <2> QED
    BY <2>1, <2>2
<1>2. PICK uid \in UIDs :
        /\ p.name = BaseName(m, uid)
        /\ \/ p = Base(uid)
           \/ /\ p = Alternate(Base(uid), m)
              /\ Base(uid) \in DOMAIN files /\ files[Base(uid)] # m
  BY <1>1
<1>3. PICK vid \in UIDs :
        /\ q.name = BaseName(m, vid)
        /\ \/ q = Base(vid)
           \/ /\ q = Alternate(Base(vid), m)
              /\ Base(vid) \in DOMAIN files /\ files[Base(vid)] # m
  BY <1>1
<1>4. BaseName(m, uid) = BaseName(m, vid)
  BY <1>2, <1>3 DEF BaseName
<1>5. Base(uid) = Base(vid)
  BY <1>4, PathsOfOneName
<1> HIDE DEF m, Base
<1>6. files[p] = m /\ files[q] = m
  BY DEF m
<1> QED
  BY <1>2, <1>3, <1>5, <1>6

-----------------------------------------------------------------------------
(* The calls                                                               *)

\* A call under way has a message and a target.
LEMMA CallType ==
  ASSUME TypeOK, NEW w \in Writers, ~At(w, "idle")
  PROVE  /\ call[w] \in Calls
         /\ call[w].msg \in Messages /\ call[w].target \in Paths
  BY DEF TypeOK, Calls, NoCall, At

\* Where a message belongs depends on the files alone.
LEMMA SamePlaces ==
  ASSUME UNCHANGED files
  PROVE  \A path, m : /\ IsBase(path, m)' <=> IsBase(path, m)
                      /\ IsDisplaced(path, m)' <=> IsDisplaced(path, m)
  BY DEF IsBase, IsDisplaced, BasePath, BaseName, Alternate

\* Ending calls of writers ends no other call and moves none.
LEMMA EndKeepsInv ==
  ASSUME ArchiveInv, UNCHANGED files, month' \in Months,
         call' \in [Writers -> Calls \union {NoCall}],
         \A w \in Writers : call'[w] = call[w] \/ call'[w] = NoCall,
         \A r \in returned' : r \in returned \/ (r \in Messages \X Paths /\ Holds(r[2], r[1]))
  PROVE  ArchiveInv'
<1> USE DEF ArchiveInv
<1>1. TypeOK'
  BY DEF TypeOK
<1>2. FilesInv'
  BY DEF FilesInv, IsBase, IsDisplaced, BasePath, BaseName, Alternate
<1>3. ASSUME NEW w \in Writers
      PROVE  CallInv(w)'
  <2>1. CASE call'[w] = call[w]
    BY <2>1, SamePlaces DEF CallInv, At
  <2>2. CASE call'[w] = NoCall
    BY <2>2 DEF CallInv, At, NoCall
  <2> QED
    BY <2>1, <2>2
<1>4. ReturnedPathHolds'
  BY DEF ReturnedPathHolds, Holds
<1> QED
  BY <1>1, <1>2, <1>3, <1>4

\* A call that moves on with a target where its message belongs keeps ArchiveInv.
LEMMA MovingKeepsInv ==
  ASSUME ArchiveInv, NEW w \in Writers, NEW next \in Calls,
         call' = [call EXCEPT ![w] = next],
         UNCHANGED <<month, files, returned>>,
         next.pc = "inspect" => IsBase(next.target, next.msg),
         next.pc = "alternate" => IsDisplaced(next.target, next.msg),
         next.pc = "publish" =>
           IsBase(next.target, next.msg) \/ IsDisplaced(next.target, next.msg)
  PROVE  ArchiveInv'
<1> USE DEF ArchiveInv
<1>1. /\ call' \in [Writers -> Calls \union {NoCall}]
      /\ call'[w] = next
      /\ \A v \in Writers \ {w} : call'[v] = call[v]
  BY DEF TypeOK
<1>2. TypeOK'
  BY <1>1 DEF TypeOK
<1>3. FilesInv' /\ ReturnedPathHolds'
  BY DEF FilesInv, IsBase, IsDisplaced, BasePath, BaseName, Alternate, ReturnedPathHolds, Holds
<1>4. ASSUME NEW v \in Writers
      PROVE  CallInv(v)'
  <2>1. CASE v = w
    BY <1>1, <2>1, SamePlaces DEF CallInv, At
  <2>2. CASE v # w
    <3>1. call'[v] = call[v]
      BY <1>1, <2>2
    <3> QED
      BY <3>1, SamePlaces DEF CallInv, At
  <2> QED
    BY <2>1, <2>2
<1> QED
  BY <1>2, <1>3, <1>4

\* Goto changes the step and the target of a call and keeps its message.
LEMMA GotoRecord ==
  ASSUME TypeOK, NEW w \in Writers, ~At(w, "idle"),
         NEW pc \in {"inspect", "alternate", "publish"}, NEW target \in Paths,
         Goto(w, pc, target)
  PROVE  \E next \in Calls : /\ call' = [call EXCEPT ![w] = next]
                             /\ next.pc = pc /\ next.msg = call[w].msg
                             /\ next.target = target
<1> DEFINE next == [[call[w] EXCEPT !.pc = pc] EXCEPT !.target = target]
<1>1. call[w] \in [pc : {"inspect", "alternate", "publish"}, msg : Messages, target : Paths]
  BY CallType DEF Calls
<1>2. /\ next \in Calls
      /\ next.pc = pc /\ next.msg = call[w].msg /\ next.target = target
  BY <1>1 DEF Calls
<1>3. call' = [call EXCEPT ![w] = next]
  BY DEF Goto, TypeOK
<1> QED
  BY <1>2, <1>3

-----------------------------------------------------------------------------
(* The steps                                                               *)

\* A call begins at a base path of its message.
LEMMA BeginKeepsInv ==
  ASSUME ArchiveInv, NEW w \in Writers, NEW m \in Messages, NEW uid \in UIDs,
         Begin(w, m, uid)
  PROVE  ArchiveInv'
<1> DEFINE mon == IF m \in Dated THEN MonthOf[m] ELSE month
           next == [pc |-> "inspect", msg |-> m, target |-> BasePath(m, uid, mon)]
<1>1. mon \in Months
  BY ArchiveAssumption DEF ArchiveInv, TypeOK
<1>2. BasePath(m, uid, mon) \in Paths /\ IsBase(BasePath(m, uid, mon), m)
  BY <1>1, BasePathType
<1>3. /\ call' = [call EXCEPT ![w] = next]
      /\ UNCHANGED <<month, files, returned>>
  BY DEF Begin
<1>4. /\ next \in Calls
      /\ next.pc = "inspect" /\ next.msg = m /\ next.target = BasePath(m, uid, mon)
  BY <1>2 DEF Calls
<1> HIDE DEF mon, next
<1> QED
  BY <1>2, <1>3, <1>4, MovingKeepsInv

\* Returning with a target that holds the message keeps ArchiveInv.
LEMMA ReturnKeepsInv ==
  ASSUME ArchiveInv, NEW w \in Writers, ~At(w, "idle"),
         Holds(call[w].target, call[w].msg), Return(w), UNCHANGED <<month, files>>
  PROVE  ArchiveInv'
<1>1. <<call[w].msg, call[w].target>> \in Messages \X Paths
  BY CallType DEF ArchiveInv
<1>2. \A r \in returned' :
        r \in returned \/ (r \in Messages \X Paths /\ Holds(r[2], r[1]))
  BY <1>1 DEF Return
<1> QED
  BY <1>2, EndKeepsInv DEF ArchiveInv, TypeOK, Return, End

\* Ending with an error keeps ArchiveInv.
LEMMA ErrorKeepsInv ==
  ASSUME ArchiveInv, NEW w \in Writers, End(w), UNCHANGED <<month, files, returned>>
  PROVE  ArchiveInv'
  BY EndKeepsInv DEF ArchiveInv, TypeOK, End

\* archiveTarget goes on to a path where the message belongs.
LEMMA InspectKeepsInv ==
  ASSUME ArchiveInv, NEW w \in Writers, InspectBase(w) \/ InspectAlternate(w)
  PROVE  ArchiveInv'
<1> DEFINE m == call[w].msg
           path == call[w].target
<1>1. /\ TypeOK /\ ~At(w, "idle") /\ CallInv(w)
      /\ UNCHANGED <<month, files>>
  BY DEF ArchiveInv, InspectBase, InspectAlternate, At
<1>2. m \in Messages /\ path \in Paths
  BY <1>1, CallType
<1>3. CASE Holds(path, m) /\ Return(w)
  BY <1>1, <1>3, ReturnKeepsInv
<1>4. CASE /\ At(w, "inspect") /\ path \in DOMAIN files /\ ~Holds(path, m)
           /\ Goto(w, "alternate", Alternate(path, m)) /\ UNCHANGED returned
  <2>1. IsDisplaced(Alternate(path, m), m)
    BY <1>1, <1>2, <1>4, Displaced DEF CallInv, Holds
  <2>2. Alternate(path, m) \in Paths
    BY <1>2, AlternateType
  <2>3. PICK next \in Calls : /\ call' = [call EXCEPT ![w] = next]
                              /\ next.pc = "alternate" /\ next.msg = m
                              /\ next.target = Alternate(path, m)
    BY <1>1, <1>4, <2>2, GotoRecord
  <2> HIDE DEF m, path
  <2> QED
    BY <1>1, <1>4, <2>1, <2>3, MovingKeepsInv
<1>5. CASE /\ Goto(w, "publish", path) /\ UNCHANGED returned
  <2>1. IsBase(path, m) \/ IsDisplaced(path, m)
    BY <1>1 DEF CallInv, InspectBase, InspectAlternate
  <2>2. PICK next \in Calls : /\ call' = [call EXCEPT ![w] = next]
                              /\ next.pc = "publish" /\ next.msg = m
                              /\ next.target = path
    BY <1>1, <1>2, <1>5, GotoRecord
  <2> HIDE DEF m, path
  <2> QED
    BY <1>1, <1>5, <2>1, <2>2, MovingKeepsInv
<1>6. CASE End(w) /\ UNCHANGED returned
  BY <1>1, <1>6, ErrorKeepsInv
<1> QED
  BY <1>3, <1>4, <1>5, <1>6 DEF InspectBase, InspectAlternate

\* Publish adds the message where it belongs, or finds it there, or fails.
LEMMA PublishKeepsInv ==
  ASSUME ArchiveInv, NEW w \in Writers, Publish(w)
  PROVE  ArchiveInv'
<1> DEFINE m == call[w].msg
           target == call[w].target
<1>1. /\ TypeOK /\ ~At(w, "idle") /\ At(w, "publish") /\ UNCHANGED month
      /\ FilesInv /\ ReturnedPathHolds
      /\ \A v \in Writers : CallInv(v)
  BY DEF ArchiveInv, Publish, At
<1>2. m \in Messages /\ target \in Paths
  BY <1>1, CallType
<1>3. IsBase(target, m) \/ IsDisplaced(target, m)
  BY <1>1 DEF CallInv
<1>4. CASE /\ target \notin DOMAIN files
           /\ files' = [p \in DOMAIN files \union {target} |->
                          IF p = target THEN m ELSE files[p]]
           /\ Return(w)
  <2> HIDE DEF m, target
  <2>1. /\ DOMAIN files' = DOMAIN files \union {target}
        /\ files'[target] = m
        /\ \A p \in DOMAIN files : p \in DOMAIN files' /\ files'[p] = files[p]
    BY <1>4
  <2>2. \A path, n : IsDisplaced(path, n) => IsDisplaced(path, n)'
    BY <2>1, StillDisplaced
  <2>3. \A path, n : IsBase(path, n) => IsBase(path, n)'
    BY DEF IsBase, BasePath, BaseName
  <2>4. FilesInv'
    BY <1>1, <1>3, <2>1, <2>2, <2>3 DEF FilesInv
  <2>5. /\ returned' = returned \union {<<m, target>>}
        /\ call' = [call EXCEPT ![w] = NoCall]
    BY <1>4 DEF Return, End, m, target
  <2>6. TypeOK'
    BY <1>1, <1>2, <2>1, <2>5 DEF TypeOK
  <2>7. ReturnedPathHolds'
    BY <1>1, <2>1, <2>5 DEF ReturnedPathHolds, Holds
  <2>8. ASSUME NEW v \in Writers
        PROVE  CallInv(v)'
    <3>1. CASE v = w
      BY <1>1, <2>5, <3>1 DEF CallInv, At, NoCall, TypeOK
    <3>2. CASE v # w
      <4>1. call'[v] = call[v] /\ CallInv(v)
        BY <1>1, <2>5, <3>2 DEF TypeOK
      <4> QED
        BY <4>1, <2>2, <2>3 DEF CallInv, At
    <3> QED
      BY <3>1, <3>2
  <2> QED
    BY <2>4, <2>6, <2>7, <2>8 DEF ArchiveInv
<1>5. CASE Holds(target, m) /\ Return(w) /\ UNCHANGED files
  BY <1>1, <1>5, ReturnKeepsInv
<1>6. CASE End(w) /\ UNCHANGED <<files, returned>>
  BY <1>1, <1>6, ErrorKeepsInv
<1> QED
  BY <1>4, <1>5, <1>6 DEF Publish

-----------------------------------------------------------------------------
(* The theorems                                                            *)

\* An empty archive has nothing out of place.
LEMMA InitArchiveInv == Init => ArchiveInv
  BY DEF Init, ArchiveInv, TypeOK, FilesInv, CallInv, ReturnedPathHolds, At, NoCall

\* Every step of a call, a crash and the calendar preserves ArchiveInv.
LEMMA NextArchiveInv == ArchiveInv /\ [Next]_vars => ArchiveInv'
<1> SUFFICES ASSUME ArchiveInv, [Next]_vars
             PROVE  ArchiveInv'
  OBVIOUS
<1>1. ASSUME NEW w \in Writers, Step(w)
      PROVE  ArchiveInv'
  <2>1. CASE FailIO(w)
    BY <2>1, ErrorKeepsInv DEF FailIO
  <2> QED
    BY <1>1, <2>1, BeginKeepsInv, InspectKeepsInv, PublishKeepsInv DEF Step
<1>2. CASE Crash
  BY <1>2, EndKeepsInv DEF Crash, ArchiveInv, TypeOK
<1>3. CASE NextMonth
  BY <1>3, EndKeepsInv DEF NextMonth, ArchiveInv, TypeOK
<1>4. CASE UNCHANGED vars
  BY <1>4, EndKeepsInv DEF vars, ArchiveInv, TypeOK
<1> QED
  BY <1>1, <1>2, <1>3, <1>4 DEF Next

\* Calls, errors and crashes keep ArchiveInv.
THEOREM ArchiveInvariant == Spec => []ArchiveInv
  BY InitArchiveInv, NextArchiveInv, PTL DEF Spec

\* Every variable keeps its type.
THEOREM ArchiveTypeCorrect == Spec => []TypeOK
<1>1. ArchiveInv => TypeOK
  BY DEF ArchiveInv
<1> QED
  BY <1>1, ArchiveInvariant, PTL

\* raw_path leads to the message, whatever was archived since.
THEOREM ReturnedPathHoldsAlways == Spec => []ReturnedPathHolds
<1>1. ArchiveInv => ReturnedPathHolds
  BY DEF ArchiveInv
<1> QED
  BY <1>1, ArchiveInvariant, PTL

\* Archiving a message again finds its file, unless it has neither a name nor
\* the UID it had.
THEOREM OneFilePerMonthHolds == Spec => []OneFilePerMonth
<1>1. ArchiveInv => OneFilePerMonth
  BY FilesInvOneFile DEF ArchiveInv
<1> QED
  BY <1>1, ArchiveInvariant, PTL

\* The link fails on a path that exists, so no step replaces or removes a file.
THEOREM WriteOnceHolds == Spec => WriteOnce
<1>1. [Next]_vars =>
        [ \A p \in DOMAIN files : p \in DOMAIN files' /\ files'[p] = files[p] ]_files
  BY DEF Next, Step, Begin, InspectBase, InspectAlternate, Publish, FailIO, Crash,
         NextMonth, vars
<1> QED
  BY <1>1, PTL DEF Spec, WriteOnce

=============================================================================
