----------------------------- MODULE Summarizer -----------------------------
(***************************************************************************)
(* llm.Client.Summarize as processOne calls it: one call to the language   *)
(* model, a second one if the first brings no valid summary, and an answer *)
(* that can be persisted in every case.                                    *)
(*                                                                         *)
(* Two clocks limit it.  The HTTP client gives each call a timeout of its  *)
(* own, and the context that processOne passes has a deadline for both     *)
(* calls together.  An answer races with them.                             *)
(*                                                                         *)
(* Time counts from the call of Summarize.  Of an answer the module keeps  *)
(* what validate looks at; the text of a summary is its number of runes.   *)
(***************************************************************************)
EXTENDS Naturals

CONSTANTS
  CallTimeout,  \* the timeout of the HTTP client
  Budget,       \* the time to the deadline of the context
  MaxRunes,     \* the longest summary text
  MaxLength,    \* bound: the longest text the language model sends
  Fallback      \* the text "could not summarize"

ASSUME SummarizerAssumption ==
  /\ CallTimeout \in Nat \ {0}
  /\ Budget \in Nat \ {0}
  /\ MaxRunes \in Nat \ {0}
  /\ MaxLength \in Nat
  /\ Fallback \notin Nat

VARIABLES
  now,          \* the clock
  pc,           \* which call is under way
  asked,        \* when it began
  summary       \* what Summarize returned

vars == <<now, pc, asked, summary>>

-----------------------------------------------------------------------------
(* Answers of the language model                                           *)

Actions == {"none", "reply", "action", "fyi"}
Tones == {"neutral", "heated"}

\* The content of an answer: not JSON of the wanted shape, or the fields,
\* which the model need not keep to the schema.
Malformed == [json |-> FALSE]
Fields ==
  [json : {TRUE}, length : 0 .. MaxLength, action : Actions \union {"other"},
   tone : Tones \union {"other"}, deadline : {"null", "empty", "date", "other"}]
Contents == {Malformed} \union Fields

\* Mutant of Valid: the deadline is not parsed.
ValidBarDeadline(c) ==
  /\ c.json
  /\ c.length > 0
  /\ c.action \in Actions
  /\ c.tone \in Tones

\* validate finds no fault with the content.
Valid(c) ==
  /\ c.json
  /\ c.length > 0
  /\ c.action \in Actions
  /\ c.tone \in Tones
  /\ c.deadline # "other"

\* Mutant of Cut: a long text is kept.
CutNot(length) == length

\* The length of a text that is cut to the limit.
Cut(length) == IF length > MaxRunes THEN MaxRunes ELSE length

\* The summary validate makes of a valid content.
ValidSummary(c) ==
  [status |-> "ok", text |-> Cut(c.length), action |-> c.action, tone |-> c.tone,
   deadline |-> IF c.deadline = "null" THEN "empty" ELSE c.deadline]

\* The summary of a message that could not be summarized.
ErrorSummary ==
  [status |-> "error", text |-> Fallback,
   action |-> "empty", tone |-> "empty", deadline |-> "empty"]

\* Summarize has not returned.
NoSummary ==
  [status |-> "empty", text |-> Fallback,
   action |-> "empty", tone |-> "empty", deadline |-> "empty"]

\* The values of every variable.
TypeOK ==
  /\ now \in Nat
  /\ pc \in {"first", "second", "done"}
  /\ asked \in 0 .. now
  /\ summary \in [status : {"empty", "ok", "error"},
                  text : 1 .. MaxRunes \union {Fallback},
                  action : Actions \union {"empty"},
                  tone : Tones \union {"empty"},
                  deadline : {"empty", "date", "other"}]

Init ==
  /\ now = 0
  /\ pc = "first"
  /\ asked = 0
  /\ summary = NoSummary

-----------------------------------------------------------------------------
(* Summarize                                                               *)

\* Mutant of Expiry: the context has no deadline.
ExpiryOfCall == asked + CallTimeout

\* When the call under way fails for want of an answer.
Expiry == IF asked + CallTimeout < Budget THEN asked + CallTimeout ELSE Budget

Pending == pc # "done" /\ now < Expiry

\* Time passes while the language model works.
Tick ==
  /\ Pending
  /\ now' = now + 1
  /\ UNCHANGED <<pc, asked, summary>>

Return(s) ==
  /\ summary' = s
  /\ pc' = "done"
  /\ UNCHANGED <<now, asked>>

\* Mutant of Fallthrough: the call is repeated until it succeeds.
FallthroughRepeating ==
  /\ pc' = "second"
  /\ asked' = now
  /\ UNCHANGED <<now, summary>>

\* The call brought no valid summary: the stricter prompt is tried at once, or
\* the message is given up.
Fallthrough ==
  \/ /\ pc = "first"
     /\ pc' = "second"
     /\ asked' = now
     /\ UNCHANGED <<now, summary>>
  \/ pc = "second" /\ Return(ErrorSummary)

\* The language model answers in time.
Answer(c) ==
  /\ Pending
  /\ IF Valid(c) THEN Return(ValidSummary(c)) ELSE Fallthrough

\* The call fails in time: no connection, an HTTP status, an unreadable body.
CallFails ==
  /\ Pending
  /\ Fallthrough

\* The call runs into its timeout or into the deadline; one that is made after
\* the deadline does so at once.
CallExpires ==
  /\ pc # "done"
  /\ now >= Expiry
  /\ Fallthrough

-----------------------------------------------------------------------------
Next ==
  \/ Tick
  \/ \E c \in Contents : Answer(c)
  \/ CallFails
  \/ CallExpires

Spec == Init /\ [][Next]_vars

\* Time passes, and a timer that has run out fires; the language model need
\* not answer.
FairSpec == Spec /\ WF_vars(Tick) /\ WF_vars(CallExpires)

-----------------------------------------------------------------------------
(* Properties                                                              *)

\* TestSummarize_FailOpenContract: whatever the language model sends, what
\* Summarize returns can be persisted and rendered: a text within the limit
\* with known values beside it, or the fallback with status error.
SummaryPersistable ==
  pc = "done" =>
    \/ summary = ErrorSummary
    \/ /\ summary.status = "ok"
       /\ summary.text \in 1 .. MaxRunes
       /\ summary.action \in Actions
       /\ summary.tone \in Tones
       /\ summary.deadline \in {"date", "empty"}

\* The deadline that processOne sets bounds both calls together, so the run
\* lock is not held longer than that for one message.
WithinBudget == now <= Budget

\* Summarize returns, even if the language model never answers.
SummarizeReturns == <>(pc = "done")

\* "It retries once with a stricter prompt on any failure": the second call is
\* made while there is time for it.
RetryHasTime == pc = "second" => asked < Budget
=============================================================================
