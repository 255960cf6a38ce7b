------------------------- MODULE MessagePathProofs -------------------------
(***************************************************************************)
(* Proofs about MessagePath, for texts of any length, any sender, any      *)
(* allowlist and any limit: what Parser keeps of a text and what it leaves *)
(* out, who decides what goes to the language model, and what the owner is *)
(* shown.  The first half is about Parser alone.                           *)
(***************************************************************************)
EXTENDS MessagePath, FiniteSetTheorems, SequenceTheorems, TLAPS

-----------------------------------------------------------------------------
(* Sequences                                                               *)

\* A function on 1 .. n is a sequence of length n.
LEMMA FunctionIsSeq ==
  ASSUME NEW S, NEW n \in Nat, NEW f \in [1 .. n -> S]
  PROVE  f \in Seq(S) /\ Len(f) = n /\ DOMAIN f = 1 .. n
  BY SeqDef, LenProperties

\* Ascending enumerates a set of positions in order and leaves none out: the
\* number of elements up to an element is one to one, so it is onto.
LEMMA AscendingFacts ==
  ASSUME NEW n \in Nat, NEW P \in SUBSET (1 .. n)
  PROVE  /\ Cardinality(P) \in Nat
         /\ Ascending(P) \in [1 .. Cardinality(P) -> P]
         /\ \A j, k \in 1 .. Cardinality(P) : j < k => Ascending(P)[j] < Ascending(P)[k]
         /\ \A i \in P : \E k \in 1 .. Cardinality(P) : Ascending(P)[k] = i
<1> DEFINE UpTo(i) == { j \in P : j <= i }
           rank == [i \in P |-> Cardinality(UpTo(i))]
<1>0. P \subseteq Nat
  OBVIOUS
<1>1. IsFiniteSet(P) /\ Cardinality(P) \in Nat
  <2>1. IsFiniteSet(1 .. n)
    BY FS_Interval
  <2> QED
    BY <2>1, FS_Subset, FS_CardinalityType
<1>2. ASSUME NEW i \in P
      PROVE  /\ IsFiniteSet(UpTo(i))
             /\ Cardinality(UpTo(i)) \in 1 .. Cardinality(P)
  <2>1. /\ IsFiniteSet(UpTo(i))
        /\ Cardinality(UpTo(i)) \in Nat
        /\ Cardinality(UpTo(i)) <= Cardinality(P)
    BY <1>1, FS_Subset, FS_CardinalityType
  <2>2. i \in UpTo(i)
    OBVIOUS
  <2>3. Cardinality(UpTo(i)) # 0
    BY <2>1, <2>2, FS_EmptySet
  <2> QED
    BY <1>1, <2>1, <2>3
<1>3. ASSUME NEW i \in P, NEW j \in P, i < j
      PROVE  rank[i] < rank[j]
  <2>1. UpTo(i) \in SUBSET UpTo(j)
    <3> SUFFICES ASSUME NEW k \in P, k <= i
                 PROVE  k <= j
      OBVIOUS
    <3>1. k \in Nat /\ i \in Nat /\ j \in Nat
      BY <1>0
    <3> QED
      BY <1>3, <3>1
  <2>2. j \in UpTo(j) /\ j \notin UpTo(i)
    BY <1>3
  <2>3. IsFiniteSet(UpTo(j)) /\ Cardinality(UpTo(i)) <= Cardinality(UpTo(j))
        /\ (Cardinality(UpTo(i)) = Cardinality(UpTo(j)) => UpTo(j) = UpTo(i))
    BY <1>2, <2>1, FS_Subset
  <2>4. Cardinality(UpTo(i)) # Cardinality(UpTo(j))
    BY <2>2, <2>3
  <2> HIDE DEF UpTo
  <2> QED
    BY <1>2, <2>3, <2>4
<1>4. rank \in [P -> 1 .. Cardinality(P)]
  BY <1>2
<1>5. \A i, j \in P : rank[i] = rank[j] => i = j
  <2>1. \A i \in P : rank[i] \in Nat /\ i \in Nat
    BY <1>4
  <2> HIDE DEF rank
  <2> QED
    BY <1>3, <2>1
<1>6. \A k \in 1 .. Cardinality(P) : \E i \in P : rank[i] = k
  <2>1. IsFiniteSet(1 .. Cardinality(P)) /\ Cardinality(1 .. Cardinality(P)) = Cardinality(P)
    BY <1>1, FS_Interval
  <2>2. rank \in Injection(P, 1 .. Cardinality(P))
    BY <1>4, <1>5 DEF Injection, IsInjective
  <2>3. rank \in Surjection(P, 1 .. Cardinality(P))
    BY <2>1, <2>2, FS_Injection
  <2> HIDE DEF rank
  <2> QED
    BY <2>3 DEF Surjection
<1>7. \A k \in 1 .. Cardinality(P) : Ascending(P)[k] \in P /\ rank[Ascending(P)[k]] = k
  BY <1>6 DEF Ascending
<1>8. Ascending(P) \in [1 .. Cardinality(P) -> P]
  BY <1>7 DEF Ascending
<1> HIDE DEF rank
<1>9. \A j, k \in 1 .. Cardinality(P) : j < k => Ascending(P)[j] < Ascending(P)[k]
  <2> SUFFICES ASSUME NEW j \in 1 .. Cardinality(P), NEW k \in 1 .. Cardinality(P), j < k
               PROVE  Ascending(P)[j] < Ascending(P)[k]
    OBVIOUS
  <2>1. /\ Ascending(P)[j] \in P /\ Ascending(P)[k] \in P
        /\ rank[Ascending(P)[j]] = j /\ rank[Ascending(P)[k]] = k
    BY <1>7
  <2>2. Ascending(P)[j] \in Nat /\ Ascending(P)[k] \in Nat
    BY <2>1, <1>0
  <2>3. j \in Nat /\ k \in Nat
    BY <1>1
  <2>4. ~(Ascending(P)[k] < Ascending(P)[j])
    <3> SUFFICES ASSUME Ascending(P)[k] < Ascending(P)[j]
                 PROVE  FALSE
      OBVIOUS
    <3>1. rank[Ascending(P)[k]] < rank[Ascending(P)[j]]
      BY <1>3, <2>1
    <3> QED
      BY <2>1, <2>3, <3>1
  <2>5. Ascending(P)[k] # Ascending(P)[j]
    BY <2>1, <2>3
  <2> QED
    BY <2>2, <2>4, <2>5
<1>10. \A i \in P : \E k \in 1 .. Cardinality(P) : Ascending(P)[k] = i
  BY <1>4, <1>5, <1>7
<1> QED
  BY <1>1, <1>8, <1>9, <1>10

\* A set of positions that is not empty has a first one and a last one.
LEMMA FirstLast ==
  ASSUME NEW n \in Nat, NEW P \in SUBSET (1 .. n), P # {}
  PROVE  /\ First(P) \in P /\ \A j \in P : First(P) <= j
         /\ Last(P) \in P /\ \A j \in P : j <= Last(P)
<1> DEFINE c == Cardinality(P)
           a == Ascending(P)
<1>1. /\ c \in Nat
      /\ a \in [1 .. c -> P]
      /\ \A j, k \in 1 .. c : j < k => a[j] < a[k]
      /\ \A i \in P : \E k \in 1 .. c : a[k] = i
  BY AscendingFacts
<1> HIDE DEF c, a
<1>2. 1 \in 1 .. c /\ c \in 1 .. c
  <2>1. PICK k \in 1 .. c : TRUE
    BY <1>1
  <2> QED
    BY <1>1, <2>1
<1>3. \A j \in P : a[1] <= j /\ j <= a[c]
  <2> SUFFICES ASSUME NEW k \in 1 .. c
               PROVE  a[1] <= a[k] /\ a[k] <= a[c]
    BY <1>1
  <2>1. a[1] \in Nat /\ a[k] \in Nat /\ a[c] \in Nat
    <3>1. P \subseteq Nat
      OBVIOUS
    <3> QED
      BY <1>1, <1>2, <3>1
  <2> QED
    BY <1>1, <1>2, <2>1
<1>4. \E i \in P : \A j \in P : i <= j
  BY <1>1, <1>2, <1>3
<1>5. \E i \in P : \A j \in P : j <= i
  BY <1>1, <1>2, <1>3
<1> QED
  BY <1>4, <1>5 DEF First, Last

\* SelectAt gives the elements at the positions, in order.
LEMMA SelectFacts ==
  ASSUME NEW S, NEW s \in Seq(S), NEW P \in SUBSET DOMAIN s
  PROVE  /\ SelectAt(s, P) \in Seq(S)
         /\ DOMAIN SelectAt(s, P) = 1 .. Cardinality(P)
         /\ \A k \in 1 .. Cardinality(P) : SelectAt(s, P)[k] = s[Ascending(P)[k]]
<1>1. DOMAIN s = 1 .. Len(s) /\ Len(s) \in Nat
  BY LenProperties
<1>2. Cardinality(P) \in Nat /\ Ascending(P) \in [1 .. Cardinality(P) -> P]
  BY <1>1, AscendingFacts
<1>3. \A k \in 1 .. Cardinality(P) : s[Ascending(P)[k]] \in S
  BY <1>1, <1>2, ElementOfSeq
<1>4. SelectAt(s, P) \in [1 .. Cardinality(P) -> S]
  BY <1>3 DEF SelectAt
<1> QED
  BY <1>2, <1>4, FunctionIsSeq DEF SelectAt

\* TrimSpace keeps the lines from the first to the last that is not blank, and
\* of the first it takes the white space in front.
LEMMA TrimFacts ==
  ASSUME NEW s \in Seq(Lines)
  PROVE  LET t == TrimSpace(s)
         IN /\ t \in Seq(Lines)
            /\ 1 \in DOMAIN t => t[1].kind # "blank"
            /\ \E f \in Nat :
                 /\ \A k \in DOMAIN t :
                      /\ f + k \in DOMAIN s
                      /\ t[k].at = s[f + k].at /\ t[k].kind = s[f + k].kind
                      /\ t[k].lead <=> s[f + k].lead /\ k # 1
                      /\ t[k].cr => s[f + k].cr
                 /\ \A i \in DOMAIN s : s[i].kind # "blank" =>
                      \E k \in DOMAIN t : f + k = i
<1> DEFINE ink == { i \in DOMAIN s : s[i].kind # "blank" }
           t == TrimSpace(s)
<1>1. DOMAIN s = 1 .. Len(s) /\ Len(s) \in Nat /\ \A i \in DOMAIN s : s[i] \in Lines
  BY LenProperties, ElementOfSeq
<1>2. CASE ink = {}
  <2>1. t = <<>>
    BY <1>2 DEF TrimSpace
  <2>2. t \in Seq(Lines) /\ DOMAIN t = {}
    BY <2>1, EmptySeq
  <2> HIDE DEF t
  <2>3. 0 \in Nat /\ \A i \in DOMAIN s : ~(s[i].kind # "blank")
    BY <1>2
  <2> QED
    BY <2>2, <2>3 DEF t
<1>3. CASE ink # {}
  <2> DEFINE a == First(ink)
             b == Last(ink)
             n == b + 1 - a
  <2>1. ink \in SUBSET (1 .. Len(s))
    BY <1>1
  <2>2. a \in ink /\ b \in ink /\ \A i \in ink : a <= i /\ i <= b
    <3> HIDE DEF ink
    <3> QED
      BY <1>1, <1>3, <2>1, FirstLast
  <2>3. t = [k \in 1 .. n |-> [s[a + k - 1] EXCEPT !.lead = @ /\ k # 1, !.cr = @ /\ k # n]]
    BY <1>3 DEF TrimSpace
  <2> HIDE DEF a, b
  <2>4. a \in Nat \ {0} /\ b \in Nat /\ b <= Len(s) /\ a <= b /\ n \in Nat \ {0}
    BY <1>1, <2>2
  <2>5. ASSUME NEW k \in 1 .. n
        PROVE  /\ a + k - 1 \in DOMAIN s
               /\ t[k] \in Lines
               /\ t[k].at = s[a + k - 1].at /\ t[k].kind = s[a + k - 1].kind
               /\ t[k].lead <=> s[a + k - 1].lead /\ k # 1
               /\ t[k].cr => s[a + k - 1].cr
    <3>1. a + k - 1 \in DOMAIN s
      BY <1>1, <2>4
    <3>2. s[a + k - 1] \in Lines
      BY <1>1, <3>1
    <3>3. t[k] = [s[a + k - 1] EXCEPT !.lead = @ /\ k # 1, !.cr = @ /\ k # n]
      BY <2>3
    <3> HIDE DEF t, n
    <3> QED
      BY <3>1, <3>2, <3>3 DEF Lines
  <2>6. t \in [1 .. n -> Lines]
    BY <2>3, <2>5
  <2>7. t \in Seq(Lines) /\ DOMAIN t = 1 .. n
    BY <2>4, <2>6, FunctionIsSeq
  <2>8. t[1].kind # "blank"
    <3>1. 1 \in 1 .. n
      BY <2>4
    <3>2. t[1].kind = s[a + 1 - 1].kind
      BY <2>5, <3>1
    <3>3. a + 1 - 1 = a
      BY <2>4
    <3>4. s[a].kind # "blank"
      BY <2>2
    <3> QED
      BY <3>2, <3>3, <3>4
  <2> HIDE DEF t
  <2>9. a - 1 \in Nat
    BY <2>4
  <2>10. ASSUME NEW k \in DOMAIN t
         PROVE  /\ a - 1 + k \in DOMAIN s
                /\ t[k].at = s[a - 1 + k].at /\ t[k].kind = s[a - 1 + k].kind
                /\ t[k].lead <=> s[a - 1 + k].lead /\ k # 1
                /\ t[k].cr => s[a - 1 + k].cr
    <3>1. a - 1 + k = a + k - 1
      BY <2>4, <2>7
    <3> QED
      BY <2>5, <2>7, <3>1
  <2>11. ASSUME NEW i \in DOMAIN s, s[i].kind # "blank"
         PROVE  \E k \in DOMAIN t : a - 1 + k = i
    <3>1. a <= i /\ i <= b /\ i \in Nat
      BY <1>1, <2>2, <2>11
    <3>2. i + 1 - a \in 1 .. n /\ a - 1 + (i + 1 - a) = i
      BY <2>4, <3>1
    <3> QED
      BY <2>7, <3>2
  <2> QED
    BY <2>7, <2>8, <2>9, <2>10, <2>11 DEF t
<1> QED
  BY <1>2, <1>3

-----------------------------------------------------------------------------
(* Texts that follow the message                                           *)

\* What the cases give a message.
MailType ==
  /\ mail.body \in Seq(Forms)
  /\ mail.crlf \in BOOLEAN

\* The lines are lines of the message, in its order.
Follows(s) ==
  /\ s \in Seq(Lines)
  /\ \A j, k \in DOMAIN s : j < k => s[j].at < s[k].at
  /\ \A k \in DOMAIN s :
       s[k].at \in DOMAIN mail.body /\ s[k].kind = mail.body[s[k].at].kind

\* A selection of the lines follows the message.
LEMMA SelectFollows ==
  ASSUME NEW s, Follows(s), NEW P \in SUBSET DOMAIN s
  PROVE  /\ Follows(SelectAt(s, P))
         /\ \A k \in DOMAIN SelectAt(s, P) : \E i \in P : SelectAt(s, P)[k] = s[i]
         /\ \A i \in P : \E k \in DOMAIN SelectAt(s, P) : SelectAt(s, P)[k] = s[i]
<1> DEFINE t == SelectAt(s, P)
           a == Ascending(P)
           c == Cardinality(P)
<1>1. s \in Seq(Lines) /\ DOMAIN s = 1 .. Len(s) /\ Len(s) \in Nat
  BY LenProperties DEF Follows
<1>2. /\ a \in [1 .. c -> P]
      /\ \A j, k \in 1 .. c : j < k => a[j] < a[k]
      /\ \A i \in P : \E k \in 1 .. c : a[k] = i
  BY <1>1, AscendingFacts
<1>3. /\ t \in Seq(Lines)
      /\ DOMAIN t = 1 .. c
      /\ \A k \in 1 .. c : t[k] = s[a[k]]
  BY <1>1, SelectFacts
<1> HIDE DEF t, a, c
<1>4. Follows(t)
  <2>1. ASSUME NEW j \in 1 .. c, NEW k \in 1 .. c, j < k
        PROVE  t[j].at < t[k].at
    <3>1. a[j] \in DOMAIN s /\ a[k] \in DOMAIN s /\ a[j] < a[k]
      BY <1>2, <2>1
    <3>2. s[a[j]].at < s[a[k]].at
      BY <3>1 DEF Follows
    <3> QED
      BY <1>3, <3>2
  <2>2. ASSUME NEW k \in 1 .. c
        PROVE  t[k].at \in DOMAIN mail.body /\ t[k].kind = mail.body[t[k].at].kind
    <3>1. a[k] \in DOMAIN s
      BY <1>2
    <3>2. s[a[k]].at \in DOMAIN mail.body /\ s[a[k]].kind = mail.body[s[a[k]].at].kind
      BY <3>1 DEF Follows
    <3> QED
      BY <1>3, <3>2
  <2> QED
    BY <1>3, <2>1, <2>2 DEF Follows
<1>5. \A k \in DOMAIN t : \E i \in P : t[k] = s[i]
  BY <1>2, <1>3
<1>6. \A i \in P : \E k \in DOMAIN t : t[k] = s[i]
  BY <1>2, <1>3
<1> QED
  BY <1>4, <1>5, <1>6 DEF t

\* So do the lines that TrimSpace leaves.
LEMMA TrimFollows ==
  ASSUME NEW s, Follows(s)
  PROVE  LET t == TrimSpace(s)
         IN /\ Follows(t)
            /\ 1 \in DOMAIN t => t[1].kind # "blank"
            /\ \A k \in DOMAIN t : \E i \in DOMAIN s :
                 /\ t[k].at = s[i].at /\ t[k].kind = s[i].kind
                 /\ t[k].lead <=> s[i].lead /\ k # 1
                 /\ t[k].cr => s[i].cr
            /\ \A i \in DOMAIN s : s[i].kind # "blank" =>
                 \E k \in DOMAIN t : t[k].at = s[i].at
<1> DEFINE t == TrimSpace(s)
<1>1. s \in Seq(Lines) /\ DOMAIN s = 1 .. Len(s) /\ Len(s) \in Nat
  BY LenProperties DEF Follows
<1>2. t \in Seq(Lines) /\ (1 \in DOMAIN t => t[1].kind # "blank")
  BY <1>1, TrimFacts
<1>3. PICK f \in Nat :
        /\ \A k \in DOMAIN t :
             /\ f + k \in DOMAIN s
             /\ t[k].at = s[f + k].at /\ t[k].kind = s[f + k].kind
             /\ t[k].lead <=> s[f + k].lead /\ k # 1
             /\ t[k].cr => s[f + k].cr
        /\ \A i \in DOMAIN s : s[i].kind # "blank" =>
             \E k \in DOMAIN t : f + k = i
  BY <1>1, TrimFacts
<1> HIDE DEF t
<1>4. DOMAIN t = 1 .. Len(t) /\ Len(t) \in Nat
  BY <1>2, LenProperties
<1>5. \A j, k \in DOMAIN t : j < k => t[j].at < t[k].at
  <2> SUFFICES ASSUME NEW j \in DOMAIN t, NEW k \in DOMAIN t, j < k
               PROVE  t[j].at < t[k].at
    OBVIOUS
  <2>1. f + j < f + k /\ f + j \in DOMAIN s /\ f + k \in DOMAIN s
    BY <1>3, <1>4
  <2>2. s[f + j].at < s[f + k].at
    BY <2>1 DEF Follows
  <2>3. t[j].at = s[f + j].at /\ t[k].at = s[f + k].at
    BY <1>3
  <2> QED
    BY <2>2, <2>3
<1>6. Follows(t)
  <2>1. ASSUME NEW k \in DOMAIN t
        PROVE  t[k].at \in DOMAIN mail.body /\ t[k].kind = mail.body[t[k].at].kind
    <3>1. f + k \in DOMAIN s /\ t[k].at = s[f + k].at /\ t[k].kind = s[f + k].kind
      BY <1>3
    <3>2. /\ s[f + k].at \in DOMAIN mail.body
          /\ s[f + k].kind = mail.body[s[f + k].at].kind
      BY <3>1 DEF Follows
    <3> QED
      BY <3>1, <3>2
  <2> QED
    BY <1>2, <1>5, <2>1 DEF Follows
<1>7. \A k \in DOMAIN t : \E i \in DOMAIN s :
        /\ t[k].at = s[i].at /\ t[k].kind = s[i].kind
        /\ t[k].lead <=> s[i].lead /\ k # 1
        /\ t[k].cr => s[i].cr
  BY <1>3
<1>8. \A i \in DOMAIN s : s[i].kind # "blank" => \E k \in DOMAIN t : t[k].at = s[i].at
  BY <1>3
<1> QED
  BY <1>2, <1>6, <1>7, <1>8 DEF t

-----------------------------------------------------------------------------
(* White space                                                             *)

\* What normalizeWhitespace makes of the text: no written line is lost, none
\* is indented that was not, and the first is not indented.  If lines end in LF
\* only, lines without a word are empty.
Normal(s) ==
  /\ Follows(s)
  /\ \A i \in Written : \E k \in DOMAIN s : s[k].at = i
  /\ \A k \in DOMAIN s : s[k].kind # "blank" =>
       (s[k].lead <=> mail.body[s[k].at].lead /\ s[k].at # First(Written))
  /\ ~mail.crlf => \A k \in DOMAIN s : ~s[k].cr /\ (s[k].kind = "blank" => ~s[k].lead)

\* The text of the message with its lines trimmed on the right.
LEMMA TrimmedText ==
  ASSUME MailType
  PROVE  LET text == TextOf(mail)
             lines == [i \in DOMAIN text |-> TrimRight(text[i])]
         IN /\ Follows(lines)
            /\ DOMAIN lines = DOMAIN mail.body
            /\ \A i \in DOMAIN lines :
                 /\ lines[i].at = i
                 /\ lines[i].kind # "blank" => lines[i].lead = mail.body[i].lead
                 /\ ~mail.crlf => ~lines[i].cr /\ (lines[i].kind = "blank" => ~lines[i].lead)
<1> DEFINE text == TextOf(mail)
           lines == [i \in DOMAIN text |-> TrimRight(text[i])]
           n == Len(mail.body)
<1>1. DOMAIN mail.body = 1 .. n /\ n \in Nat /\ \A i \in 1 .. n : mail.body[i] \in Forms
  BY LenProperties, ElementOfSeq DEF MailType
<1>2. DOMAIN text = 1 .. n
  BY <1>1 DEF TextOf
<1>3. ASSUME NEW i \in 1 .. n
      PROVE  /\ lines[i] \in Lines
             /\ lines[i].at = i
             /\ lines[i].kind = mail.body[i].kind
             /\ lines[i].kind # "blank" => lines[i].lead = mail.body[i].lead
             /\ ~mail.crlf => ~lines[i].cr /\ (lines[i].kind = "blank" => ~lines[i].lead)
  <2> DEFINE l == text[i]
  <2>1. l = [at |-> i, kind |-> mail.body[i].kind, lead |-> mail.body[i].lead,
             cr |-> mail.crlf /\ i < n]
    BY <1>1 DEF TextOf
  <2>2. mail.body[i].kind \in Kinds /\ mail.body[i].lead \in BOOLEAN /\ mail.crlf \in BOOLEAN
    BY <1>1 DEF Forms, MailType
  <2>3. l \in Lines
    BY <1>1, <2>1, <2>2 DEF Lines
  <2>4. lines[i] = TrimRight(l)
    BY <1>2
  <2> HIDE DEF l, lines, text, n
  <2>5. /\ l.at = i /\ l.kind = mail.body[i].kind /\ l.lead = mail.body[i].lead
        /\ ~mail.crlf => ~l.cr
    BY <2>1
  <2>6. CASE l.kind = "blank" /\ ~l.cr
    <3>1. lines[i] = [l EXCEPT !.lead = FALSE]
      BY <2>4, <2>6 DEF TrimRight
    <3> QED
      BY <2>3, <2>5, <2>6, <3>1 DEF Lines
  <2>7. CASE ~(l.kind = "blank" /\ ~l.cr)
    <3>1. lines[i] = l
      BY <2>4, <2>7 DEF TrimRight
    <3> QED
      BY <2>3, <2>5, <2>7, <3>1
  <2> QED
    BY <2>6, <2>7
<1>4. lines \in [1 .. n -> Lines]
  BY <1>2, <1>3
<1>5. lines \in Seq(Lines) /\ DOMAIN lines = 1 .. n
  BY <1>1, <1>4, FunctionIsSeq
<1> HIDE DEF lines, text, n
<1>6. Follows(lines)
  BY <1>1, <1>3, <1>5 DEF Follows
<1> QED
  BY <1>1, <1>3, <1>5, <1>6 DEF lines, text

\* A written line of a text that follows the message is a written line of the
\* message, and the first of them is the first.
LEMMA FollowsFacts ==
  ASSUME MailType, NEW s, Follows(s)
  PROVE  /\ DOMAIN s = 1 .. Len(s) /\ Len(s) \in Nat
         /\ \A k \in DOMAIN s :
              /\ s[k] \in Lines
              /\ s[k].at \in DOMAIN mail.body /\ s[k].at \in Nat
              /\ s[k].at \in Written <=> s[k].kind # "blank"
<1>1. DOMAIN s = 1 .. Len(s) /\ Len(s) \in Nat /\ \A k \in DOMAIN s : s[k] \in Lines
  BY LenProperties, ElementOfSeq DEF Follows
<1>2. \A k \in DOMAIN s : s[k].at \in Nat
  BY <1>1 DEF Lines
<1>3. \A k \in DOMAIN s : s[k].at \in DOMAIN mail.body /\ s[k].kind = mail.body[s[k].at].kind
  BY DEF Follows
<1> QED
  BY <1>1, <1>2, <1>3 DEF Written

\* The first written line is one, and no other is before it.
LEMMA FirstWritten ==
  ASSUME MailType, Written # {}
  PROVE  First(Written) \in Written /\ \A i \in Written : First(Written) <= i
<1>1. DOMAIN mail.body = 1 .. Len(mail.body) /\ Len(mail.body) \in Nat
  BY LenProperties DEF MailType
<1>2. Written \in SUBSET (1 .. Len(mail.body))
  BY <1>1 DEF Written
<1> QED
  BY <1>1, <1>2, FirstLast

\* normalizeWhitespace loses no written line.
LEMMA NormalizeFacts ==
  ASSUME MailType
  PROVE  Normal(normalizeWhitespace(TextOf(mail)))
<1> DEFINE text == TextOf(mail)
           lines == [i \in DOMAIN text |-> TrimRight(text[i])]
           kept == { i \in DOMAIN lines : ~(Empty(lines[i]) /\ i > 1 /\ Empty(lines[i - 1])) }
           sel == SelectAt(lines, kept)
           t == TrimSpace(sel)
<1>1. /\ Follows(lines)
      /\ DOMAIN lines = DOMAIN mail.body
      /\ \A i \in DOMAIN lines :
           /\ lines[i].at = i
           /\ lines[i].kind # "blank" => lines[i].lead = mail.body[i].lead
           /\ ~mail.crlf => ~lines[i].cr /\ (lines[i].kind = "blank" => ~lines[i].lead)
  BY TrimmedText
<1>2. normalizeWhitespace(text) = t
  BY DEF normalizeWhitespace
<1>3. kept \in SUBSET DOMAIN lines /\ \A i \in DOMAIN lines : lines[i].kind # "blank" => i \in kept
  BY DEF Empty
<1> HIDE DEF kept, lines
<1>4. /\ Follows(sel)
      /\ \A k \in DOMAIN sel : \E i \in kept : sel[k] = lines[i]
      /\ \A i \in kept : \E k \in DOMAIN sel : sel[k] = lines[i]
  <2>1. Follows(lines) /\ kept \in SUBSET DOMAIN lines
    BY <1>1, <1>3
  <2> QED
    BY <2>1, SelectFollows, Zenon
<1> HIDE DEF sel
<1>5. /\ Follows(t)
      /\ 1 \in DOMAIN t => t[1].kind # "blank"
      /\ \A k \in DOMAIN t : \E i \in DOMAIN sel :
           /\ t[k].at = sel[i].at /\ t[k].kind = sel[i].kind
           /\ t[k].lead <=> sel[i].lead /\ k # 1
           /\ t[k].cr => sel[i].cr
      /\ \A i \in DOMAIN sel : sel[i].kind # "blank" =>
           \E k \in DOMAIN t : t[k].at = sel[i].at
  BY <1>4, TrimFollows
<1> HIDE DEF t
<1>6. \A k \in DOMAIN t :
        /\ t[k].at \in DOMAIN lines
        /\ t[k].kind = lines[t[k].at].kind
        /\ t[k].lead <=> lines[t[k].at].lead /\ k # 1
        /\ t[k].cr => lines[t[k].at].cr
  <2> SUFFICES ASSUME NEW k \in DOMAIN t
               PROVE  /\ t[k].at \in DOMAIN lines
                      /\ t[k].kind = lines[t[k].at].kind
                      /\ t[k].lead <=> lines[t[k].at].lead /\ k # 1
                      /\ t[k].cr => lines[t[k].at].cr
    OBVIOUS
  <2>1. PICK j \in DOMAIN sel : /\ t[k].at = sel[j].at /\ t[k].kind = sel[j].kind
                                /\ t[k].lead <=> sel[j].lead /\ k # 1
                                /\ t[k].cr => sel[j].cr
    BY <1>5
  <2>2. PICK i \in kept : sel[j] = lines[i]
    BY <1>4
  <2>3. i \in DOMAIN lines /\ lines[i].at = i
    BY <1>1, <1>3
  <2> QED
    BY <2>1, <2>2, <2>3
<1>7. \A i \in Written : \E k \in DOMAIN t : t[k].at = i
  <2> SUFFICES ASSUME NEW i \in Written
               PROVE  \E k \in DOMAIN t : t[k].at = i
    OBVIOUS
  <2>1. i \in DOMAIN lines /\ lines[i].at = i /\ lines[i].kind # "blank"
    BY <1>1 DEF Written, Follows
  <2>2. PICK j \in DOMAIN sel : sel[j] = lines[i]
    BY <1>3, <1>4, <2>1
  <2> QED
    BY <1>5, <2>1, <2>2
<1>8. /\ DOMAIN t = 1 .. Len(t) /\ Len(t) \in Nat
      /\ \A k \in DOMAIN t : /\ t[k].at \in Nat
                             /\ t[k].at \in Written <=> t[k].kind # "blank"
  BY <1>5, FollowsFacts
<1>9. ASSUME NEW k \in DOMAIN t, t[k].kind # "blank"
      PROVE  t[k].lead <=> mail.body[t[k].at].lead /\ t[k].at # First(Written)
  <2> DEFINE f == First(Written)
  <2>1. t[k].at \in Written
    BY <1>8, <1>9
  <2>2. f \in Written /\ \A i \in Written : f <= i
    BY <2>1, FirstWritten
  <2> HIDE DEF f
  <2>3. 1 \in DOMAIN t /\ k \in Nat /\ k >= 1
    BY <1>8
  <2>4. t[1].at \in Written /\ t[1].at \in Nat /\ f <= t[1].at
    BY <1>5, <1>8, <2>2, <2>3
  <2>5. PICK m \in DOMAIN t : t[m].at = f
    BY <1>7, <2>2
  <2>6. m \in Nat /\ m >= 1 /\ f \in Nat
    BY <1>8, <2>5
  <2>7. m = 1
    <3> SUFFICES ASSUME 1 < m
                 PROVE  FALSE
      BY <2>6
    <3>1. t[1].at < t[m].at
      BY <1>5, <2>3 DEF Follows
    <3> QED
      BY <2>4, <2>5, <2>6, <3>1
  <2>8. k # 1 => t[1].at < t[k].at
    BY <1>5, <2>3 DEF Follows
  <2>9. k = 1 <=> t[k].at = f
    BY <1>8, <2>4, <2>5, <2>6, <2>7, <2>8
  <2>10. lines[t[k].at].lead = mail.body[t[k].at].lead
    BY <1>1, <1>6, <1>9
  <2> QED
    BY <1>6, <2>9, <2>10 DEF f
<1>10. ASSUME ~mail.crlf, NEW k \in DOMAIN t
       PROVE  ~t[k].cr /\ (t[k].kind = "blank" => ~t[k].lead)
  BY <1>1, <1>6, <1>10
<1>11. Normal(t)
  BY <1>5, <1>7, <1>9, <1>10 DEF Normal
<1> QED
  BY <1>2, <1>11

-----------------------------------------------------------------------------
(* Quotes and the signature                                                *)

\* Places in a text that follows the message compare as places in the message.
LEMMA OrderFacts ==
  ASSUME MailType, NEW s, Follows(s), NEW j \in DOMAIN s, NEW k \in DOMAIN s
  PROVE  /\ s[j].at < s[k].at <=> j < k
         /\ s[j].at <= s[k].at <=> j <= k
<1>1. j \in Nat /\ k \in Nat /\ s[j].at \in Nat /\ s[k].at \in Nat
  BY FollowsFacts
<1>2. (j < k => s[j].at < s[k].at) /\ (k < j => s[k].at < s[j].at)
  BY DEF Follows
<1> QED
  BY <1>1, <1>2

\* What the code sees in the normalized text is what Starts says of the
\* message.
LEMMA StartsFacts ==
  ASSUME MailType, NEW s, Normal(s), NEW k \in DOMAIN s, NEW K, K # "blank"
  PROVE  s[k].kind = K /\ ~s[k].lead <=> Starts(s[k].at, K)
<1>1. s[k].kind = mail.body[s[k].at].kind
  BY DEF Normal, Follows
<1>2. s[k].kind # "blank" =>
        (s[k].lead <=> mail.body[s[k].at].lead /\ s[k].at # First(Written))
  BY DEF Normal
<1> QED
  BY <1>1, <1>2 DEF Starts

\* CutSignature keeps the lines before the first delimiter.
LEMMA CutFacts ==
  ASSUME NEW s \in Seq(Lines)
  PROVE  \E m \in 0 .. Len(s) :
           /\ CutSignature(s) \in Seq(Lines)
           /\ DOMAIN CutSignature(s) = 1 .. m /\ Len(CutSignature(s)) = m
           /\ \A k \in 1 .. m : CutSignature(s)[k] = s[k] /\ ~IsDelimiter(s[k])
           /\ m < Len(s) => IsDelimiter(s[m + 1])
<1> DEFINE ends == { i \in DOMAIN s : IsDelimiter(s[i]) }
           c == CutSignature(s)
<1>1. DOMAIN s = 1 .. Len(s) /\ Len(s) \in Nat
  BY LenProperties
<1>2. CASE ends = {}
  <2>1. c = s
    BY <1>2 DEF CutSignature
  <2>2. Len(s) \in 0 .. Len(s) /\ ~(Len(s) < Len(s))
    BY <1>1
  <2> QED
    BY <1>1, <1>2, <2>1, <2>2
<1>3. CASE ends # {}
  <2> DEFINE e == First(ends)
  <2>1. ends \in SUBSET (1 .. Len(s))
    BY <1>1
  <2>2. e \in ends /\ \A j \in ends : e <= j
    <3> HIDE DEF ends
    <3> QED
      BY <1>1, <1>3, <2>1, FirstLast
  <2>3. c = SubSeq(s, 1, e - 1)
    BY <1>3 DEF CutSignature
  <2> HIDE DEF e
  <2>4. e \in 1 .. Len(s) /\ IsDelimiter(s[e])
    BY <1>1, <2>2
  <2>5. e - 1 \in 0 .. Len(s) /\ e - 1 + 1 = e /\ e - 1 \in Nat
    BY <1>1, <2>4
  <2>6. /\ c \in Seq(Lines)
        /\ Len(c) = e - 1
        /\ \A k \in 1 .. e - 1 : c[k] = s[k]
    <3>1. /\ SubSeq(s, 1, e - 1) \in Seq(Lines)
          /\ Len(SubSeq(s, 1, e - 1)) = IF 1 <= e - 1 THEN e - 1 - 1 + 1 ELSE 0
          /\ \A k \in 1 .. e - 1 - 1 + 1 : SubSeq(s, 1, e - 1)[k] = s[1 + k - 1]
      BY <1>1, <2>4, SubSeqProperties
    <3>2. e - 1 - 1 + 1 = e - 1 /\ \A k \in 1 .. e - 1 : 1 + k - 1 = k
      BY <1>1, <2>4
    <3>3. (IF 1 <= e - 1 THEN e - 1 - 1 + 1 ELSE 0) = e - 1
      BY <1>1, <2>4
    <3> QED
      BY <2>3, <3>1, <3>2, <3>3
  <2> HIDE DEF c
  <2>9. DOMAIN c = 1 .. e - 1
    BY <2>6, LenProperties
  <2>10. \A k \in 1 .. e - 1 : c[k] = s[k] /\ ~IsDelimiter(s[k])
    <3> SUFFICES ASSUME NEW k \in 1 .. e - 1
                 PROVE  c[k] = s[k] /\ ~IsDelimiter(s[k])
      OBVIOUS
    <3>1. k \in DOMAIN s /\ ~(e <= k)
      BY <1>1, <2>4
    <3> QED
      BY <2>2, <2>6, <3>1
  <2>11. IsDelimiter(s[e - 1 + 1])
    BY <2>4, <2>5
  <2> QED
    BY <2>5, <2>6, <2>9, <2>10, <2>11 DEF c
<1> QED
  BY <1>2, <1>3

\* The cut text follows the message too.
LEMMA CutFollows ==
  ASSUME NEW s, Follows(s)
  PROVE  Follows(CutSignature(s))
<1> DEFINE c == CutSignature(s)
<1>1. s \in Seq(Lines) /\ DOMAIN s = 1 .. Len(s) /\ Len(s) \in Nat
  BY LenProperties DEF Follows
<1>2. PICK m \in 0 .. Len(s) :
        /\ c \in Seq(Lines)
        /\ DOMAIN c = 1 .. m
        /\ \A k \in 1 .. m : c[k] = s[k]
  BY <1>1, CutFacts
<1> HIDE DEF c
<1>3. 1 .. m \subseteq DOMAIN s
  BY <1>1
<1>4. \A j, k \in 1 .. m : j < k => c[j].at < c[k].at
  BY <1>2, <1>3 DEF Follows
<1>5. \A k \in 1 .. m : c[k].at \in DOMAIN mail.body /\ c[k].kind = mail.body[c[k].at].kind
  BY <1>2, <1>3 DEF Follows
<1>6. Follows(c)
  BY <1>2, <1>4, <1>5 DEF Follows
<1> QED
  BY <1>6 DEF c

\* StripQuotedText keeps the lines of the normalized text that stand before the
\* first delimiter and are neither quoted nor introduce a quote.
LEMMA StripFollows ==
  ASSUME NEW s, Follows(s)
  PROVE  LET lines == CutSignature(s)
             kept == { i \in DOMAIN lines :
                         /\ ~IsQuoted(lines[i])
                         /\ ~(isQuoteHeader(lines[i]) /\ NextIsQuoted(lines, i)) }
             t == StripQuotedText(s)
         IN /\ Follows(t)
            /\ \A k \in DOMAIN t : \E i \in kept : t[k].at = lines[i].at
            /\ \A i \in kept : lines[i].kind # "blank" =>
                 \E k \in DOMAIN t : t[k].at = lines[i].at
<1> DEFINE lines == CutSignature(s)
           kept == { i \in DOMAIN lines :
                       /\ ~IsQuoted(lines[i])
                       /\ ~(isQuoteHeader(lines[i]) /\ NextIsQuoted(lines, i)) }
           sel == SelectAt(lines, kept)
           t == TrimSpace(sel)
<1>1. StripQuotedText(s) = t
  BY DEF StripQuotedText
<1>2. kept \in SUBSET DOMAIN lines
  OBVIOUS
<1> HIDE DEF kept
<1>3. Follows(lines)
  BY CutFollows
<1> HIDE DEF lines
<1>4. /\ Follows(sel)
      /\ \A k \in DOMAIN sel : \E i \in kept : sel[k] = lines[i]
      /\ \A i \in kept : \E k \in DOMAIN sel : sel[k] = lines[i]
  BY <1>2, <1>3, SelectFollows, Zenon
<1> HIDE DEF sel
<1>5. /\ Follows(t)
      /\ \A k \in DOMAIN t : \E i \in DOMAIN sel : t[k].at = sel[i].at
      /\ \A i \in DOMAIN sel : sel[i].kind # "blank" =>
           \E k \in DOMAIN t : t[k].at = sel[i].at
  BY <1>4, TrimFollows
<1> HIDE DEF t
<1>6. \A k \in DOMAIN t : \E i \in kept : t[k].at = lines[i].at
  BY <1>4, <1>5
<1>7. \A i \in kept : lines[i].kind # "blank" => \E k \in DOMAIN t : t[k].at = lines[i].at
  BY <1>4, <1>5
<1> QED
  BY <1>1, <1>5, <1>6, <1>7 DEF lines, kept

\* What StripQuotedText keeps: a written line that is lost belongs to the
\* signature, introduces a quote or is quoted; and no quoted line is kept, nor,
\* if lines end in LF, one of the signature or one that introduces a quote.
LEMMA StripFacts ==
  ASSUME MailType, NEW s, Normal(s)
  PROVE  LET t == StripQuotedText(s)
         IN /\ Follows(t)
            /\ \A i \in Written :
                 \/ \E k \in DOMAIN t : t[k].at = i
                 \/ InSignature(i) \/ Introduces(i) \/ Starts(i, "quote")
            /\ \A k \in DOMAIN t :
                 /\ ~Starts(t[k].at, "quote")
                 /\ InSignature(t[k].at) \/ Introduces(t[k].at) => mail.crlf
<1> DEFINE lines == CutSignature(s)
           kept == { i \in DOMAIN lines :
                       /\ ~IsQuoted(lines[i])
                       /\ ~(isQuoteHeader(lines[i]) /\ NextIsQuoted(lines, i)) }
           t == StripQuotedText(s)
<1>1. /\ Follows(s) /\ s \in Seq(Lines)
      /\ DOMAIN s = 1 .. Len(s) /\ Len(s) \in Nat
      /\ \A k \in DOMAIN s :
           /\ s[k] \in Lines
           /\ s[k].at \in DOMAIN mail.body /\ s[k].at \in Nat
           /\ s[k].at \in Written <=> s[k].kind # "blank"
  <2>1. Follows(s)
    BY DEF Normal
  <2> QED
    BY <2>1, FollowsFacts DEF Follows
<1>2. \A i \in Written : \E k \in DOMAIN s : s[k].at = i
  BY DEF Normal
<1>3. PICK m \in 0 .. Len(s) :
        /\ lines \in Seq(Lines)
        /\ DOMAIN lines = 1 .. m /\ Len(lines) = m
        /\ \A k \in 1 .. m : lines[k] = s[k] /\ ~IsDelimiter(s[k])
        /\ m < Len(s) => IsDelimiter(s[m + 1])
  BY <1>1, CutFacts
<1>4. /\ Follows(t)
      /\ \A k \in DOMAIN t : \E i \in kept : t[k].at = lines[i].at
      /\ \A i \in kept : lines[i].kind # "blank" =>
           \E k \in DOMAIN t : t[k].at = lines[i].at
  BY <1>1, StripFollows
<1> HIDE DEF t, lines
<1>5. m \in Nat /\ 1 .. m \subseteq DOMAIN s
  BY <1>1, <1>3
<1>6. ASSUME NEW i \in Written
      PROVE  \/ \E k \in DOMAIN t : t[k].at = i
             \/ InSignature(i) \/ Introduces(i) \/ Starts(i, "quote")
  <2>1. PICK k \in DOMAIN s : s[k].at = i
    BY <1>2
  <2>2. CASE k > m
    <3>1. m + 1 \in DOMAIN s /\ IsDelimiter(s[m + 1]) /\ m + 1 <= k
      BY <1>1, <1>3, <1>5, <2>2
    <3>2. Starts(s[m + 1].at, "signature")
      BY <3>1, StartsFacts DEF IsDelimiter
    <3>3. s[m + 1].at \in Written
      BY <1>1, <3>1 DEF IsDelimiter
    <3>4. s[m + 1].at <= i
      BY <1>1, <2>1, <3>1, OrderFacts
    <3> QED
      BY <3>2, <3>3, <3>4 DEF InSignature
  <2>3. CASE k <= m
    <3>1. k \in 1 .. m /\ lines[k] = s[k] /\ k \in DOMAIN lines
      BY <1>1, <1>3, <1>5, <2>3
    <3>2. s[k].kind # "blank"
      BY <1>1, <2>1
    <3>3. CASE k \in kept
      BY <1>4, <2>1, <3>1, <3>2, <3>3
    <3>4. CASE IsQuoted(s[k])
      BY <2>1, <3>4, StartsFacts DEF IsQuoted
    <3>5. CASE isQuoteHeader(s[k]) /\ NextIsQuoted(lines, k)
      <4>1. Starts(i, "header")
        BY <2>1, <3>5, StartsFacts DEF isQuoteHeader
      <4>2. PICK j \in k + 1 .. m :
              IsQuoted(lines[j]) /\ \A n \in k + 1 .. j - 1 : Empty(lines[n])
        BY <1>3, <3>5 DEF NextIsQuoted
      <4>3. j \in 1 .. m /\ j \in DOMAIN s /\ lines[j] = s[j] /\ k < j /\ j \in Nat /\ k \in Nat
        BY <1>3, <1>5, <3>1, <4>2
      <4>4. Starts(s[j].at, "quote") /\ s[j].at \in Written
        BY <1>1, <4>2, <4>3, StartsFacts DEF IsQuoted
      <4>5. i < s[j].at
        BY <1>1, <2>1, <4>3, OrderFacts
      <4>6. ASSUME NEW w \in Written
            PROVE  w <= i \/ s[j].at <= w
        <5>1. PICK n \in DOMAIN s : s[n].at = w
          BY <1>2
        <5>2. n \in Nat
          BY <1>1
        <5>3. CASE n <= k
          BY <1>1, <2>1, <5>1, <5>3, OrderFacts
        <5>4. CASE j <= n
          BY <1>1, <4>3, <5>1, <5>4, OrderFacts
        <5>5. CASE k < n /\ n < j
          <6>1. n \in k + 1 .. j - 1 /\ n \in 1 .. m
            BY <4>2, <4>3, <5>2, <5>5
          <6>2. Empty(s[n])
            BY <1>3, <4>2, <6>1
          <6> QED
            BY <1>1, <5>1, <6>2 DEF Empty
        <5> QED
          BY <4>3, <5>2, <5>3, <5>4, <5>5
      <4> QED
        BY <4>1, <4>4, <4>5, <4>6 DEF Introduces
    <3> QED
      BY <3>1, <3>3, <3>4, <3>5
  <2> QED
    BY <1>1, <1>5, <2>2, <2>3
<1>7. ASSUME NEW k \in DOMAIN t
      PROVE  /\ ~Starts(t[k].at, "quote")
             /\ InSignature(t[k].at) \/ Introduces(t[k].at) => mail.crlf
  <2>1. PICK p \in kept : t[k].at = lines[p].at
    BY <1>4
  <2>2. p \in 1 .. m /\ p \in DOMAIN s /\ lines[p] = s[p] /\ t[k].at = s[p].at /\ p \in Nat
    BY <1>3, <1>5, <2>1
  <2>3. ~IsQuoted(s[p]) /\ ~(isQuoteHeader(s[p]) /\ NextIsQuoted(lines, p))
    BY <2>1, <2>2
  <2>4. ~Starts(s[p].at, "quote")
    BY <2>2, <2>3, StartsFacts DEF IsQuoted
  <2>5. ASSUME InSignature(s[p].at), ~mail.crlf
        PROVE  FALSE
    <3>1. PICK d \in Written : d <= s[p].at /\ Starts(d, "signature")
      BY <2>5 DEF InSignature
    <3>2. PICK q \in DOMAIN s : s[q].at = d
      BY <1>2
    <3>3. s[q].kind = "signature" /\ ~s[q].lead
      BY <3>1, <3>2, StartsFacts
    <3>4. IsDelimiter(s[q])
      BY <2>5, <3>3 DEF IsDelimiter, Normal
    <3>5. q <= p /\ q \in 1 .. m
      <4>1. q <= p
        BY <1>1, <2>2, <3>1, <3>2, OrderFacts
      <4> QED
        BY <1>1, <1>5, <2>2, <4>1
    <3> QED
      BY <1>3, <3>4, <3>5
  <2>6. ASSUME Introduces(s[p].at), ~mail.crlf
        PROVE  FALSE
    <3>1. isQuoteHeader(s[p])
      BY <2>2, <2>6, StartsFacts DEF Introduces, isQuoteHeader
    <3>2. PICK j \in Written :
            /\ s[p].at < j /\ Starts(j, "quote")
            /\ \A w \in Written : w <= s[p].at \/ j <= w
      BY <2>6 DEF Introduces
    <3>3. PICK q \in DOMAIN s : s[q].at = j
      BY <1>2
    <3>4. s[q].kind = "quote" /\ IsQuoted(s[q]) /\ q \in Nat
      <4>1. s[q].kind = "quote" /\ ~s[q].lead
        BY <3>2, <3>3, StartsFacts
      <4> QED
        BY <1>1, <4>1 DEF IsQuoted
    <3>5. p < q
      BY <1>1, <2>2, <3>2, <3>3, OrderFacts
    <3>6. ASSUME NEW n \in DOMAIN s, p < n, n < q
          PROVE  s[n].kind = "blank"
      <4>1. s[p].at < s[n].at /\ s[n].at < s[q].at
        BY <2>2, <3>6, <1>1 DEF Follows
      <4>2. ~(s[n].at <= s[p].at \/ j <= s[n].at)
        BY <1>1, <2>2, <3>3, <4>1
      <4> QED
        BY <1>1, <3>2, <4>2
    <3>7. q <= m
      <4> SUFFICES ASSUME m < q
                   PROVE  FALSE
        BY <1>5, <3>4
      <4>1. m + 1 \in DOMAIN s /\ IsDelimiter(s[m + 1]) /\ p < m + 1 /\ m + 1 <= q
        BY <1>1, <1>3, <1>5, <2>2, <3>4
      <4>2. s[m + 1].kind = "signature"
        BY <4>1 DEF IsDelimiter
      <4>3. m + 1 # q
        BY <3>4, <4>2
      <4>4. m + 1 < q
        BY <1>5, <3>4, <4>1, <4>3
      <4>5. s[m + 1].kind = "blank"
        BY <3>6, <4>1, <4>4
      <4> QED
        BY <4>2, <4>5
    <3>8. q \in p + 1 .. m /\ q \in 1 .. m
      BY <1>5, <2>2, <3>4, <3>5, <3>7
    <3>9. ASSUME NEW n \in p + 1 .. q - 1
          PROVE  Empty(lines[n])
      <4>1. n \in 1 .. m /\ n \in DOMAIN s /\ p < n /\ n < q
        BY <1>5, <2>2, <3>4, <3>8
      <4>2. s[n].kind = "blank"
        BY <3>6, <4>1
      <4>3. ~s[n].cr /\ ~s[n].lead
        BY <2>6, <4>1, <4>2 DEF Normal
      <4> QED
        BY <1>3, <4>1, <4>2, <4>3 DEF Empty
    <3>10. NextIsQuoted(lines, p)
      BY <1>3, <3>4, <3>8, <3>9 DEF NextIsQuoted
    <3> QED
      BY <2>3, <3>1, <3>10
  <2>7. mail.crlf \in BOOLEAN
    BY DEF MailType
  <2> QED
    BY <2>2, <2>4, <2>5, <2>6, <2>7
<1> QED
  BY <1>4, <1>6, <1>7 DEF t

-----------------------------------------------------------------------------
(* The limit                                                               *)

\* What ReplyReachesModel and QuotesStayOut say of a body.
Reaches(body, truncated) ==
  LET sent == { body[k].at : k \in DOMAIN body }
  IN  /\ \A j, k \in DOMAIN body : j < k => body[j].at < body[k].at
      /\ \A i \in Written :
           \/ i \in sent
           \/ InSignature(i) \/ Introduces(i) \/ Starts(i, "quote")
           \/ truncated /\ \A s \in sent : s < i

Clean(body) ==
  \A k \in DOMAIN body :
    LET i == body[k].at
    IN  /\ ~Starts(i, "quote")
        /\ InSignature(i) \/ Introduces(i) => mail.crlf

\* Truncate keeps the lines up to the limit.
LEMMA TruncateFacts ==
  ASSUME NEW s \in Seq(Lines), NEW limit \in Nat
  PROVE  LET t == Truncate(s, limit)
         IN /\ t \in Seq(Lines)
            /\ limit > 0 => Len(t) <= limit
            /\ DOMAIN t \subseteq DOMAIN s
            /\ \A k \in DOMAIN t : t[k] = s[k]
            /\ \A k \in DOMAIN s \ DOMAIN t :
                 Exceeds(s, limit) /\ \A j \in DOMAIN t : j < k
<1> DEFINE t == Truncate(s, limit)
<1>1. DOMAIN s = 1 .. Len(s) /\ Len(s) \in Nat
  BY LenProperties
<1>2. CASE ~Exceeds(s, limit)
  <2>1. t = s
    BY <1>2 DEF Truncate
  <2>2. limit > 0 => Len(s) <= limit
    BY <1>1, <1>2 DEF Exceeds
  <2> QED
    BY <2>1, <2>2
<1>3. CASE Exceeds(s, limit)
  <2>1. limit > 0 /\ Len(s) > limit
    BY <1>3 DEF Exceeds
  <2>2. t = SubSeq(s, 1, limit)
    BY <1>3 DEF Truncate
  <2>3. \A k \in 1 .. limit : s[k] \in Lines
    BY <1>1, <2>1, ElementOfSeq
  <2>4. /\ SubSeq(s, 1, limit) \in Seq(Lines)
        /\ Len(SubSeq(s, 1, limit)) = IF 1 <= limit THEN limit - 1 + 1 ELSE 0
        /\ \A k \in 1 .. limit - 1 + 1 : SubSeq(s, 1, limit)[k] = s[1 + k - 1]
    BY <2>3, SubSeqProperties
  <2>5. limit - 1 + 1 = limit /\ 1 <= limit /\ \A k \in 1 .. limit : 1 + k - 1 = k
    BY <2>1
  <2>6. t \in Seq(Lines) /\ Len(t) = limit /\ \A k \in 1 .. limit : t[k] = s[k]
    BY <2>2, <2>4, <2>5
  <2> HIDE DEF t
  <2>7. DOMAIN t = 1 .. limit
    BY <2>6, LenProperties
  <2>8. limit <= limit
    OBVIOUS
  <2>9. \A k \in DOMAIN s \ DOMAIN t : \A j \in DOMAIN t : j < k
    BY <1>1, <2>7
  <2> QED
    BY <1>1, <1>3, <2>1, <2>6, <2>7, <2>8, <2>9 DEF t
<1> QED
  BY <1>2, <1>3

\* What Message makes of a message keeps the sender's lines and nothing else,
\* up to the limit.
LEMMA ParsedFacts ==
  ASSUME MailType
  PROVE  LET p == ParsedOf(mail)
         IN /\ p.body \in Seq(Lines)
            /\ BodyCharLimit > 0 => Len(p.body) <= BodyCharLimit
            /\ Reaches(p.body, p.truncated)
            /\ Clean(p.body)
<1> DEFINE s == normalizeWhitespace(TextOf(mail))
           b == StripQuotedText(s)
           t == Truncate(b, BodyCharLimit)
           cut == Exceeds(b, BodyCharLimit)
<1>1. ParsedOf(mail).body = t /\ ParsedOf(mail).truncated = cut
  BY DEF ParsedOf
<1>2. Normal(s)
  BY NormalizeFacts
<1> HIDE DEF s
<1>3. /\ Follows(b)
      /\ \A i \in Written :
           \/ \E k \in DOMAIN b : b[k].at = i
           \/ InSignature(i) \/ Introduces(i) \/ Starts(i, "quote")
      /\ \A k \in DOMAIN b :
           /\ ~Starts(b[k].at, "quote")
           /\ InSignature(b[k].at) \/ Introduces(b[k].at) => mail.crlf
  BY <1>2, StripFacts
<1> HIDE DEF b
<1>4. b \in Seq(Lines) /\ BodyCharLimit \in Nat
  BY <1>3, MessagePathAssumption DEF Follows
<1>5. /\ t \in Seq(Lines)
      /\ BodyCharLimit > 0 => Len(t) <= BodyCharLimit
      /\ DOMAIN t \subseteq DOMAIN b
      /\ \A k \in DOMAIN t : t[k] = b[k]
      /\ \A k \in DOMAIN b \ DOMAIN t : cut /\ \A j \in DOMAIN t : j < k
  BY <1>4, TruncateFacts
<1> HIDE DEF t, cut
<1>6. \A j, k \in DOMAIN b : j < k => b[j].at < b[k].at
  BY <1>3 DEF Follows
<1>7. \A j, k \in DOMAIN t : j < k => t[j].at < t[k].at
  BY <1>5, <1>6
<1>8. ASSUME NEW i \in Written
      PROVE  \/ i \in { t[k].at : k \in DOMAIN t }
             \/ InSignature(i) \/ Introduces(i) \/ Starts(i, "quote")
             \/ cut /\ \A x \in { t[k].at : k \in DOMAIN t } : x < i
  <2>1. CASE ~\E k \in DOMAIN b : b[k].at = i
    BY <1>3, <2>1
  <2>2. ASSUME NEW k \in DOMAIN b, b[k].at = i
        PROVE  \/ i \in { t[j].at : j \in DOMAIN t }
               \/ cut /\ \A x \in { t[j].at : j \in DOMAIN t } : x < i
    <3>1. CASE k \in DOMAIN t
      BY <1>5, <2>2, <3>1
    <3>2. CASE k \notin DOMAIN t
      <4>1. cut /\ \A j \in DOMAIN t : j < k
        BY <1>5, <3>2
      <4>2. \A j \in DOMAIN t : t[j].at < i
        BY <1>5, <1>6, <2>2, <4>1
      <4> QED
        BY <4>1, <4>2
    <3> QED
      BY <3>1, <3>2
  <2> QED
    BY <2>1, <2>2
<1>9. Reaches(t, cut)
  BY <1>7, <1>8 DEF Reaches
<1>10. Clean(t)
  BY <1>3, <1>5 DEF Clean
<1> QED
  BY <1>1, <1>5, <1>9, <1>10

-----------------------------------------------------------------------------
(* The allowlist                                                           *)

\* Folding twice is folding once: the list holds the folded entries that are
\* not empty.
LEMMA AllowlistFacts ==
  ASSUME entries \subseteq Addresses
  PROVE  Allowlist = { Fold[a] : a \in entries } \ {NoAddress}
<1>1. \A a \in entries : Fold[a] \in Addresses /\ Fold[Fold[a]] = Fold[a]
  BY MessagePathAssumption
<1> QED
  BY <1>1 DEF Allowlist, Normalized

\* A sender is in scope if the list names it, or names nobody.
LEMMA ScopeFacts ==
  ASSUME entries \subseteq Addresses, NEW address \in Addresses
  PROVE  inScope(address) <=>
           \/ \E a \in entries : ~Same(a, NoAddress) /\ Same(a, address)
           \/ \A a \in entries : Same(a, NoAddress)
<1>1. \A x : x \in Allowlist <=> x # NoAddress /\ \E a \in entries : Fold[a] = x
  BY AllowlistFacts
<1>2. \A a : Same(a, NoAddress) <=> Fold[a] = NoAddress
  BY MessagePathAssumption DEF Same
<1>3. Allowlist = {} <=> \A a \in entries : Same(a, NoAddress)
  BY <1>1, <1>2
<1>4. Fold[address] \in Allowlist <=>
        \E a \in entries : ~Same(a, NoAddress) /\ Same(a, address)
  BY <1>1, <1>2 DEF Same
<1> QED
  BY <1>3, <1>4 DEF inScope

-----------------------------------------------------------------------------
(* The inductive invariant                                                 *)

\* What is kept of a message that did not parse.
Failure == [text |-> "failed", action |-> "", tone |-> "", status |-> "error"]

\* The message is one of the cases and stays the same.
CaseInv == \E c \in Cases : entries = c.entries /\ mail = c.mail

\* How far the message has come, and what Message returned.
ParsedInv ==
  /\ step \in {"raw", "parsed", "stored", "shown"}
  /\ parsed = IF step # "raw" /\ mail.whole THEN ParsedOf(mail) ELSE NoParsed

\* The three ways a row comes about, and what the language model was sent.
StoredInv ==
  \/ /\ ~mail.whole
     /\ prompt = NoPrompt
     /\ row = RowOf(Failure, TRUE)
  \/ /\ mail.whole
     /\ ~inScope(mail.addr)
     /\ prompt = NoPrompt
     /\ row = RowOf(Skipped, FALSE)
  \/ /\ mail.whole
     /\ inScope(mail.addr)
     /\ prompt = parsed.body
     /\ \E summary \in Summaries : row = RowOf(summary, TRUE)

\* Before a row is there nothing was sent.
RowInv ==
  /\ step \in {"raw", "parsed"} => prompt = NoPrompt /\ row = NoRow
  /\ step \in {"stored", "shown"} => StoredInv

ShownInv == step = "shown" => shown = makeRenderRow(row)

MessagePathInv == CaseInv /\ ParsedInv /\ RowInv /\ ShownInv

\* What a case is.
LEMMA CaseFacts ==
  ASSUME CaseInv
  PROVE  /\ entries \subseteq Addresses
         /\ mail.addr \in Addresses
         /\ mail.whole \in BOOLEAN
         /\ MailType
<1>1. PICK c \in Cases : entries = c.entries /\ mail = c.mail
  BY DEF CaseInv
<1>2. c \in [entries : SUBSET Addresses,
             mail : [whole : BOOLEAN, name : BOOLEAN, addr : Addresses,
                     subject : {"", "sender", "white"}, crlf : BOOLEAN, body : Seq(Forms)]]
  BY MessagePathAssumption
<1>3. /\ c.entries \in SUBSET Addresses
      /\ c.mail \in [whole : BOOLEAN, name : BOOLEAN, addr : Addresses,
                     subject : {"", "sender", "white"}, crlf : BOOLEAN, body : Seq(Forms)]
  BY <1>2
<1> QED
  BY <1>1, <1>3 DEF MailType

\* The message in the state after a step that keeps it.
LEMMA SameScope ==
  ASSUME UNCHANGED <<entries, mail>>
  PROVE  /\ CaseInv => CaseInv'
         /\ \A address : inScope(address)' = inScope(address)
  BY DEF CaseInv, inScope, Allowlist

\* The address and the body of a parsed message.
LEMMA ParsedFields ==
  /\ ParsedOf(mail).addr = mail.addr
  /\ NoParsed.body = <<>> /\ NoParsed.addr = NoAddress
  BY DEF ParsedOf, NoParsed

\* Parsing leaves the message without a row.
LEMMA ParseStep ==
  ASSUME MessagePathInv, ParseMessage
  PROVE  MessagePathInv'
<1> USE DEF ParseMessage
<1>1. CaseInv'
  BY SameScope DEF MessagePathInv
<1>2. ParsedInv'
  BY DEF MessagePathInv, ParsedInv, ParsedOf
<1>3. RowInv'
  BY DEF MessagePathInv, RowInv
<1>4. ShownInv'
  BY DEF ShownInv
<1> QED
  BY <1>1, <1>2, <1>3, <1>4 DEF MessagePathInv

\* A row is inserted in one of three ways.
LEMMA InsertStep ==
  ASSUME MessagePathInv, NEW summary, NEW scope, step = "parsed",
         Insert(summary, scope), StoredInv'
  PROVE  MessagePathInv'
<1> USE DEF Insert
<1>1. CaseInv'
  BY SameScope DEF MessagePathInv
<1>2. ParsedInv'
  BY DEF MessagePathInv, ParsedInv, ParsedOf
<1>3. RowInv'
  BY DEF RowInv
<1>4. ShownInv'
  BY DEF ShownInv
<1> QED
  BY <1>1, <1>2, <1>3, <1>4 DEF MessagePathInv

\* A message that did not parse.
LEMMA UnparsedStep ==
  ASSUME MessagePathInv, KeepUnparsed
  PROVE  MessagePathInv'
<1>1. step = "parsed" /\ Insert(Failure, TRUE) /\ ~mail.whole /\ UNCHANGED prompt
  BY DEF KeepUnparsed, Failure
<1>2. prompt = NoPrompt
  BY <1>1 DEF MessagePathInv, RowInv
<1>3. row' = RowOf(Failure, TRUE)' /\ mail' = mail
  BY <1>1 DEF Insert, RowOf, Failure
<1>4. StoredInv'
  BY <1>1, <1>2, <1>3 DEF StoredInv
<1> QED
  BY <1>1, <1>4, InsertStep

\* A message out of scope.
LEMMA OutOfScopeStep ==
  ASSUME MessagePathInv, KeepOutOfScope
  PROVE  MessagePathInv'
<1>1. /\ step = "parsed" /\ mail.whole /\ ~inScope(parsed.addr)
      /\ Insert(Skipped, FALSE) /\ UNCHANGED prompt
  BY DEF KeepOutOfScope
<1>2. prompt = NoPrompt /\ parsed.addr = mail.addr
  BY <1>1, ParsedFields DEF MessagePathInv, RowInv, ParsedInv
<1>3. row' = RowOf(Skipped, FALSE)' /\ mail' = mail
  BY <1>1 DEF Insert, RowOf, Skipped
<1>4. inScope(mail.addr)' = inScope(mail.addr)
  BY <1>1 DEF Insert, inScope, Allowlist
<1>5. StoredInv'
  BY <1>1, <1>2, <1>3, <1>4 DEF StoredInv
<1> QED
  BY <1>1, <1>5, InsertStep

\* A message that is summarized.
LEMMA SummarizeStep ==
  ASSUME MessagePathInv, Summarize
  PROVE  MessagePathInv'
<1>1. PICK summary \in Summaries :
        /\ step = "parsed" /\ mail.whole /\ inScope(parsed.addr)
        /\ prompt' = parsed.body
        /\ Insert(summary, TRUE)
  BY DEF Summarize
<1>2. parsed.addr = mail.addr
  BY <1>1, ParsedFields DEF MessagePathInv, ParsedInv
<1>3. /\ row' = RowOf(summary, TRUE)'
      /\ mail' = mail /\ parsed' = parsed
  BY <1>1 DEF Insert, RowOf
<1>4. inScope(mail.addr)' = inScope(mail.addr)
  BY <1>1 DEF Insert, inScope, Allowlist
<1>5. StoredInv'
  BY <1>1, <1>2, <1>3, <1>4 DEF StoredInv
<1> QED
  BY <1>1, <1>5, InsertStep

\* The row is shown as it was stored.
LEMMA RenderStep ==
  ASSUME MessagePathInv, Render
  PROVE  MessagePathInv'
<1> USE DEF Render
<1>1. CaseInv'
  BY SameScope DEF MessagePathInv
<1>2. ParsedInv'
  BY DEF MessagePathInv, ParsedInv, ParsedOf
<1>3. StoredInv'
  BY DEF MessagePathInv, RowInv, StoredInv, RowOf, inScope, Allowlist
<1>4. RowInv'
  BY <1>3 DEF RowInv
<1>5. ShownInv'
  BY DEF ShownInv
<1> QED
  BY <1>1, <1>2, <1>4, <1>5 DEF MessagePathInv

\* MessagePathInv is inductive.
THEOREM MessagePathInvariant == Spec => []MessagePathInv
<1>1. Init => MessagePathInv
  BY DEF Init, MessagePathInv, CaseInv, ParsedInv, RowInv, ShownInv
<1>2. MessagePathInv /\ [Next]_vars => MessagePathInv'
  <2> SUFFICES ASSUME MessagePathInv, [Next]_vars
               PROVE  MessagePathInv'
    OBVIOUS
  <2>1. CASE ParseMessage
    BY <2>1, ParseStep
  <2>2. CASE KeepUnparsed
    BY <2>2, UnparsedStep
  <2>3. CASE KeepOutOfScope
    BY <2>3, OutOfScopeStep
  <2>4. CASE Summarize
    BY <2>4, SummarizeStep
  <2>5. CASE Render
    BY <2>5, RenderStep
  <2>6. CASE UNCHANGED vars
    BY <2>6 DEF vars, MessagePathInv, CaseInv, ParsedInv, ParsedOf, RowInv, StoredInv, RowOf,
                inScope, Allowlist, ShownInv
  <2> QED
    BY <2>1, <2>2, <2>3, <2>4, <2>5, <2>6 DEF Next
<1> QED
  BY <1>1, <1>2, PTL DEF Spec

-----------------------------------------------------------------------------
(* What follows                                                            *)

\* The parsed body, sent or not, keeps the promises of ParsedFacts; of what did
\* not parse there is none.
LEMMA ParsedBody ==
  ASSUME MessagePathInv
  PROVE  /\ parsed.body \in Seq(Lines)
         /\ BodyCharLimit > 0 => Len(parsed.body) <= BodyCharLimit
         /\ step # "raw" /\ mail.whole =>
              Reaches(parsed.body, parsed.truncated) /\ Clean(parsed.body)
<1>1. CASE step # "raw" /\ mail.whole
  <2>1. parsed = ParsedOf(mail)
    BY <1>1 DEF MessagePathInv, ParsedInv
  <2>2. MailType
    BY CaseFacts DEF MessagePathInv
  <2> QED
    BY <2>1, <2>2, ParsedFacts
<1>2. CASE ~(step # "raw" /\ mail.whole)
  <2>1. parsed.body = <<>>
    BY <1>2, ParsedFields DEF MessagePathInv, ParsedInv
  <2>2. BodyCharLimit \in Nat
    BY MessagePathAssumption
  <2>3. parsed.body \in Seq(Lines) /\ Len(parsed.body) = 0
    BY <2>1, EmptySeq
  <2> QED
    BY <1>2, <2>2, <2>3
<1> QED
  BY <1>1, <1>2

\* Something was sent exactly if the message is in scope and has its row; then
\* it is the parsed body.
LEMMA SentFacts ==
  ASSUME MessagePathInv
  PROVE  /\ prompt # NoPrompt =>
              step \in {"stored", "shown"} /\ mail.whole /\ prompt = parsed.body
         /\ step \in {"stored", "shown"} =>
              (prompt # NoPrompt <=> mail.whole /\ inScope(mail.addr))
<1>1. parsed.body # NoPrompt
  BY ParsedBody, MessagePathAssumption
<1>2. step \in {"raw", "parsed", "stored", "shown"}
  BY DEF MessagePathInv, ParsedInv
<1> QED
  BY <1>1, <1>2 DEF MessagePathInv, RowInv, StoredInv

\* What the columns of a stored row can hold.
LEMMA RowFacts ==
  ASSUME MessagePathInv, step \in {"stored", "shown"}
  PROVE  /\ row.status \in {"ok", "error"}
         /\ row.summary \in {"failed", "fallback", "skipped", "model", "white"}
         /\ row.action \in {"", "none", "reply"}
         /\ row.tone \in {"", "neutral", "heated"}
         /\ row.status # "error" /\ row.inScope =>
              row.summary \in {"model", "white"} /\ prompt # NoPrompt
<1>1. parsed.body # NoPrompt
  BY ParsedBody, MessagePathAssumption
<1>2. StoredInv
  BY DEF MessagePathInv, RowInv
<1>3. CASE row = RowOf(Failure, TRUE)
  BY <1>3 DEF RowOf, Failure
<1>4. CASE row = RowOf(Skipped, FALSE)
  BY <1>4 DEF RowOf, Skipped
<1>5. ASSUME NEW summary \in Summaries, row = RowOf(summary, TRUE), prompt = parsed.body
      PROVE  /\ row.status \in {"ok", "error"}
             /\ row.summary \in {"failed", "fallback", "skipped", "model", "white"}
             /\ row.action \in {"", "none", "reply"}
             /\ row.tone \in {"", "neutral", "heated"}
             /\ row.status # "error" /\ row.inScope =>
                  row.summary \in {"model", "white"} /\ prompt # NoPrompt
  <2>1. /\ row.status = summary.status /\ row.summary = summary.text
        /\ row.action = summary.action /\ row.tone = summary.tone
    BY <1>5 DEF RowOf
  <2>2. \/ summary \in [text : {"model", "white"}, action : {"reply"},
                        tone : {"neutral", "heated"}, status : {"ok"}]
        \/ summary = [text |-> "fallback", action |-> "", tone |-> "", status |-> "error"]
    BY DEF Summaries
  <2>3. /\ summary.action \in {"", "reply"} /\ summary.tone \in {"", "neutral", "heated"}
        /\ summary.text \in {"fallback", "model", "white"} /\ summary.status \in {"ok", "error"}
        /\ summary.status # "error" => summary.text \in {"model", "white"}
    <3>1. CASE summary \in [text : {"model", "white"}, action : {"reply"},
                            tone : {"neutral", "heated"}, status : {"ok"}]
      <4>1. /\ summary.text \in {"model", "white"} /\ summary.action = "reply"
            /\ summary.tone \in {"neutral", "heated"} /\ summary.status = "ok"
        BY <3>1
      <4> QED
        BY <4>1
    <3>2. CASE summary = [text |-> "fallback", action |-> "", tone |-> "", status |-> "error"]
      BY <3>2
    <3> QED
      BY <2>2, <3>1, <3>2
  <2>4. prompt # NoPrompt
    BY <1>1, <1>5
  <2> QED
    BY <2>1, <2>3, <2>4
<1> QED
  BY <1>2, <1>3, <1>4, <1>5 DEF StoredInv

\* The values of the variables, and the limit of a body.
THEOREM MessageTypeCorrect == Spec => []TypeOK
<1>1. MessagePathInv => TypeOK
  <2> SUFFICES ASSUME MessagePathInv
               PROVE  TypeOK
    OBVIOUS
  <2>1. entries \subseteq Addresses /\ mail.addr \in Addresses
    BY CaseFacts DEF MessagePathInv
  <2>2. step \in {"raw", "parsed", "stored", "shown"}
    BY DEF MessagePathInv, ParsedInv
  <2>3. prompt \in {NoPrompt, parsed.body}
    BY SentFacts
  <2>4. row.status \in {"", "ok", "error"}
    <3>1. CASE step \in {"stored", "shown"}
      BY <3>1, RowFacts
    <3>2. CASE step \in {"raw", "parsed"}
      <4>1. row = NoRow
        BY <3>2 DEF MessagePathInv, RowInv
      <4> QED
        BY <4>1 DEF NoRow
    <3> QED
      BY <2>2, <3>1, <3>2
  <2> QED
    BY <2>1, <2>2, <2>3, <2>4, ParsedBody DEF TypeOK
<1> QED
  BY <1>1, MessagePathInvariant, PTL

\* Of a text of any length, whatever lies between the quotes, every line that
\* the sender wrote before the signature reaches the language model, in its
\* place, unless the limit cuts the text before it.
THEOREM ReplyReachesModelHolds == Spec => []ReplyReachesModel
<1>1. MessagePathInv => ReplyReachesModel
  BY SentFacts, ParsedBody DEF ReplyReachesModel, Reaches
<1> QED
  BY <1>1, MessagePathInvariant, PTL

\* Of a text of any length no quoted line reaches the language model, nor, if
\* its lines end in LF, the introduction of a quote or the signature.
THEOREM QuotesStayOutHolds == Spec => []QuotesStayOut
<1>1. MessagePathInv => QuotesStayOut
  BY SentFacts, ParsedBody DEF QuotesStayOut, Clean
<1> QED
  BY <1>1, MessagePathInvariant, PTL

\* Whatever the list and the sender, the message goes to the language model
\* exactly if it parsed and the list names its sender or names nobody.
THEOREM ListDecidesHolds == Spec => []ListDecides
<1>1. MessagePathInv => ListDecides
  <2> SUFFICES ASSUME MessagePathInv
               PROVE  ListDecides
    OBVIOUS
  <2>1. entries \subseteq Addresses /\ mail.addr \in Addresses
    BY CaseFacts DEF MessagePathInv
  <2>2. inScope(mail.addr) <=>
          \/ \E a \in entries : ~Same(a, NoAddress) /\ Same(a, mail.addr)
          \/ \A a \in entries : Same(a, NoAddress)
    BY <2>1, ScopeFacts
  <2> QED
    BY <2>2, SentFacts DEF ListDecides
<1> QED
  BY <1>1, MessagePathInvariant, PTL

\* No part of a shown row is empty or white.
THEOREM NothingShownBlankHolds == Spec => []NothingShownBlank
<1>1. MessagePathInv => NothingShownBlank
  <2> SUFFICES ASSUME MessagePathInv, step = "shown"
               PROVE  NothingShownBlank
    BY DEF NothingShownBlank
  <2>1. shown = makeRenderRow(row)
    BY DEF MessagePathInv, ShownInv
  <2>2. row.action \in {"", "none", "reply"} /\ row.tone \in {"", "neutral", "heated"}
    BY RowFacts
  <2>3. ~IsBlank(shown.from)
    BY <2>1 DEF makeRenderRow, IsBlank
  <2>4. ~IsBlank(shown.subject) /\ ~IsBlank(shown.summary)
    BY <2>1 DEF makeRenderRow, IsBlank, TrimmedOrElse
  <2>5. ~IsBlank(shown.action) /\ ~IsBlank(shown.tone)
    BY <2>1, <2>2 DEF makeRenderRow, IsBlank, OrElse
  <2> QED
    BY <2>3, <2>4, <2>5 DEF NothingShownBlank
<1> QED
  BY <1>1, MessagePathInvariant, PTL

\* A summary without a mark is the model's, or sends the owner to the original.
THEOREM UnmarkedSummaryIsGenuineHolds == Spec => []UnmarkedSummaryIsGenuine
<1>1. MessagePathInv => UnmarkedSummaryIsGenuine
  <2> SUFFICES ASSUME MessagePathInv, step = "shown", ~shown.error, ~shown.outOfScope,
                      shown.summary # "failed"
               PROVE  shown.summary = "model" /\ prompt # NoPrompt
    BY DEF UnmarkedSummaryIsGenuine
  <2>1. shown = makeRenderRow(row)
    BY DEF MessagePathInv, ShownInv
  <2>2. row.status # "error" /\ row.inScope
    BY <2>1 DEF makeRenderRow
  <2>3. row.summary \in {"model", "white"} /\ prompt # NoPrompt
    BY <2>2, RowFacts
  <2>4. shown.summary = TrimmedOrElse(row.summary, "failed")
    BY <2>1 DEF makeRenderRow
  <2> QED
    BY <2>3, <2>4 DEF TrimmedOrElse, IsBlank
<1> QED
  BY <1>1, MessagePathInvariant, PTL

=============================================================================
