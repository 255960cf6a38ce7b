-------------------------- MODULE SummarizerProofs --------------------------
(***************************************************************************)
(* What holds of Summarizer for all timeouts, deadlines and limits.        *)
(***************************************************************************)
EXTENDS Summarizer, TLAPS

\* The three invariants are preserved together.
SummarizerInv == TypeOK /\ WithinBudget /\ SummaryPersistable

\* validate lets only texts within the limit and known values through.
LEMMA ValidSummaryPersistable ==
  ASSUME NEW c \in Contents, Valid(c)
  PROVE  /\ ValidSummary(c).status = "ok"
         /\ ValidSummary(c).text \in 1 .. MaxRunes
         /\ ValidSummary(c).action \in Actions
         /\ ValidSummary(c).tone \in Tones
         /\ ValidSummary(c).deadline \in {"date", "empty"}
         /\ ValidSummary(c) = [status |-> "ok", text |-> ValidSummary(c).text,
                               action |-> ValidSummary(c).action,
                               tone |-> ValidSummary(c).tone,
                               deadline |-> ValidSummary(c).deadline]
<1>1. c \in Fields
  BY DEF Contents, Malformed, Valid
<1>2. c.length \in Nat \ {0} /\ c.deadline \in {"null", "empty", "date"}
  BY <1>1, SummarizerAssumption DEF Fields, Valid
<1>3. Cut(c.length) \in 1 .. MaxRunes
  BY <1>2, SummarizerAssumption DEF Cut
<1> QED
  BY <1>2, <1>3 DEF ValidSummary, Valid

\* Every step of Summarize and every answer keeps them.
LEMMA SummarizerStep == SummarizerInv /\ [Next]_vars => SummarizerInv'
<1> SUFFICES ASSUME SummarizerInv, [Next]_vars
             PROVE  SummarizerInv'
  OBVIOUS
<1> USE SummarizerAssumption
    DEF SummarizerInv, TypeOK, WithinBudget, SummaryPersistable
<1>1. ErrorSummary \in [status : {"empty", "ok", "error"},
                        text : 1 .. MaxRunes \union {Fallback},
                        action : Actions \union {"empty"},
                        tone : Tones \union {"empty"},
                        deadline : {"empty", "date", "other"}]
  BY DEF ErrorSummary
<1>2. ASSUME Fallthrough
      PROVE  SummarizerInv'
  BY <1>1, <1>2 DEF Fallthrough, Return
<1>3. CASE Tick
  BY <1>3 DEF Tick, Pending, Expiry
<1>4. ASSUME NEW c \in Contents, Answer(c)
      PROVE  SummarizerInv'
  <2>1. CASE Valid(c)
    BY <1>4, <2>1, ValidSummaryPersistable DEF Answer, Return
  <2>2. CASE ~Valid(c)
    BY <1>2, <1>4, <2>2 DEF Answer
  <2> QED
    BY <2>1, <2>2
<1>5. CASE CallFails
  BY <1>2, <1>5 DEF CallFails
<1>6. CASE CallExpires
  BY <1>2, <1>6 DEF CallExpires
<1>7. CASE UNCHANGED vars
  BY <1>7 DEF vars
<1> QED
  BY <1>3, <1>4, <1>5, <1>6, <1>7 DEF Next

\* All three hold throughout, for any timeouts and limits.
THEOREM SummarizerInvariant == Spec => []SummarizerInv
<1>1. Init => SummarizerInv
  BY SummarizerAssumption
     DEF Init, SummarizerInv, TypeOK, WithinBudget, SummaryPersistable, NoSummary
<1> QED
  BY <1>1, SummarizerStep, PTL DEF Spec

\* Every variable of Summarizer keeps its type.
THEOREM SummarizerTypeCorrect == Spec => []TypeOK
<1>1. SummarizerInv => TypeOK
  BY DEF SummarizerInv
<1> QED
  BY <1>1, SummarizerInvariant, PTL

\* Whatever the language model sends, the row that processOne persists has a
\* text within the limit and known values, or the fallback.
THEOREM SummaryPersistableHolds == Spec => []SummaryPersistable
<1>1. SummarizerInv => SummaryPersistable
  BY DEF SummarizerInv
<1> QED
  BY <1>1, SummarizerInvariant, PTL

\* Both calls together end by the deadline processOne sets.
THEOREM WithinBudgetHolds == Spec => []WithinBudget
<1>1. SummarizerInv => WithinBudget
  BY DEF SummarizerInv
<1> QED
  BY <1>1, SummarizerInvariant, PTL
=============================================================================
