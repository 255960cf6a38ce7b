---------------------------- MODULE MessagePath ----------------------------
(***************************************************************************)
(* The way of one message from its bytes to the digest: parse.Message, the *)
(* decision of processOne what goes to the language model and what into    *)
(* the row (internal/poll), and the rendered row (internal/digest).  Each  *)
(* step may lose something, and the digest is all that the owner sees.     *)
(*                                                                         *)
(* A text shown to the owner is named after its origin: "sender" wrote it, *)
(* or the "model"; "white" is white space; the others stand for fixed      *)
(* phrases of the code: "failed" for the one that sends the owner to the   *)
(* original, "fallback" for the one of internal/llm, which does not.       *)
(***************************************************************************)
EXTENDS Naturals, Sequences, Parser

CONSTANTS
  Addresses,    \* addresses as they are written
  NoAddress,    \* the empty address
  Fold,         \* an address in lower case, without white space around it
  Cases,        \* messages, each with a value of IMAP_ALLOWLIST; the address of
                \* a message has no white space around it
  BodyCharLimit, \* the limit of a body
  NoPrompt      \* nothing was sent to the language model

ASSUME MessagePathAssumption ==
  /\ NoAddress \in Addresses
  /\ Fold \in [Addresses -> Addresses]
  /\ \A a \in Addresses : Fold[Fold[a]] = Fold[a]
  /\ Fold[NoAddress] = NoAddress
  /\ Cases \subseteq
       [entries : SUBSET Addresses,
        mail : [whole : BOOLEAN, name : BOOLEAN, addr : Addresses,
                subject : {"", "sender", "white"}, crlf : BOOLEAN, body : Seq(Forms)]]
  /\ \A c \in Cases : Fold[c.mail.addr] = NoAddress => c.mail.addr = NoAddress
  /\ BodyCharLimit \in Nat
  /\ NoPrompt \notin Seq(Lines)

VARIABLES
  entries,      \* IMAP_ALLOWLIST, as a set
  mail,         \* the message
  step,         \* how far it has come
  parsed,       \* what parse.Message returned
  prompt,       \* the body that went to the language model
  row,          \* the row in the emails table
  shown         \* the row in the digest

vars == <<entries, mail, step, parsed, prompt, row, shown>>

-----------------------------------------------------------------------------
(* The allowlist                                                           *)

\* config.Load folds the entries and drops the empty ones; so does poll.New.
Normalized(list) == { Fold[a] : a \in list } \ {NoAddress}

Allowlist == Normalized(Normalized(entries))

\* Mutant of inScope: addresses are compared as they are written.
inScopeLiteral(address) == Allowlist = {} \/ address \in Allowlist

\* No list means that everyone is in scope.
inScope(address) == Allowlist = {} \/ Fold[address] \in Allowlist

-----------------------------------------------------------------------------
(* The records                                                             *)

\* The text of a message: the end of its last line is not part of it.
TextOf(m) ==
  [i \in DOMAIN m.body |-> [at |-> i, kind |-> m.body[i].kind, lead |-> m.body[i].lead,
                            cr |-> m.crlf /\ i < Len(m.body)]]

\* What Message returns with an error.
NoParsed == [name |-> FALSE, addr |-> NoAddress, subject |-> "",
             body |-> <<>>, truncated |-> FALSE]

\* A header that is not an address list is taken for an address as a whole,
\* so it is one of Addresses too, without a name.
ParsedOf(m) ==
  LET body == StripQuotedText(normalizeWhitespace(TextOf(m)))
  IN  [name |-> m.name, addr |-> m.addr, subject |-> m.subject,
       body |-> Truncate(body, BodyCharLimit),
       truncated |-> Exceeds(body, BodyCharLimit)]

\* What Summarize may return: a valid answer, whose text may be white space,
\* or the fallback.
Summaries ==
  [text : {"model", "white"}, action : {"reply"}, tone : {"neutral", "heated"},
   status : {"ok"}]
  \union {[text |-> "fallback", action |-> "", tone |-> "", status |-> "error"]}

\* The columns of a row that the digest reads.
RowOf(summary, scope) ==
  [name |-> parsed.name, addr |-> parsed.addr, subject |-> parsed.subject,
   summary |-> summary.text, action |-> summary.action, tone |-> summary.tone,
   status |-> summary.status, inScope |-> scope]

\* strings.TrimSpace and the test for the empty string.
IsBlank(text) == text \in {"", "white"}

OrElse(text, default) == IF text = "" THEN default ELSE text
TrimmedOrElse(text, default) == IF IsBlank(text) THEN default ELSE text

\* Mutant of makeRenderRow: the summary is not trimmed.
makeRenderRowUntrimmed(r) ==
  [from |-> IF r.addr = NoAddress /\ ~r.name THEN "unknown sender" ELSE "sender",
   subject |-> TrimmedOrElse(r.subject, "no subject"),
   summary |-> OrElse(r.summary, "failed"),
   action |-> OrElse(r.action, "none"), tone |-> OrElse(r.tone, "neutral"),
   error |-> r.status = "error", outOfScope |-> ~r.inScope]

\* One row of makeRenderView.
makeRenderRow(r) ==
  [from |-> IF r.addr = NoAddress /\ ~r.name THEN "unknown sender" ELSE "sender",
   subject |-> TrimmedOrElse(r.subject, "no subject"),
   summary |-> TrimmedOrElse(r.summary, "failed"),
   action |-> OrElse(r.action, "none"), tone |-> OrElse(r.tone, "neutral"),
   error |-> r.status = "error", outOfScope |-> ~r.inScope]

NoRow == [status |-> ""]

-----------------------------------------------------------------------------
Init ==
  /\ \E c \in Cases : entries = c.entries /\ mail = c.mail
  /\ step = "raw"
  /\ parsed = NoParsed
  /\ prompt = NoPrompt
  /\ row = NoRow
  /\ shown = NoRow

\* parse.Message succeeds or fails.
ParseMessage ==
  /\ step = "raw"
  /\ parsed' = IF mail.whole THEN ParsedOf(mail) ELSE NoParsed
  /\ step' = "parsed"
  /\ UNCHANGED <<entries, mail, prompt, row, shown>>

\* The row is inserted.
Insert(summary, scope) ==
  /\ row' = RowOf(summary, scope)
  /\ step' = "stored"
  /\ UNCHANGED <<entries, mail, parsed, shown>>

\* A message that did not parse is kept as an error.
KeepUnparsed ==
  /\ step = "parsed"
  /\ ~mail.whole
  /\ Insert([text |-> "failed", action |-> "", tone |-> "", status |-> "error"], TRUE)
  /\ UNCHANGED prompt

Skipped == [text |-> "skipped", action |-> "none", tone |-> "neutral", status |-> "ok"]

\* Mutant of KeepOutOfScope: the row does not say that it is out of scope.
KeepOutOfScopeUnmarked ==
  /\ step = "parsed"
  /\ mail.whole
  /\ ~inScope(parsed.addr)
  /\ Insert(Skipped, TRUE)
  /\ UNCHANGED prompt

\* A message out of scope is kept without a summary.
KeepOutOfScope ==
  /\ step = "parsed"
  /\ mail.whole
  /\ ~inScope(parsed.addr)
  /\ Insert(Skipped, FALSE)
  /\ UNCHANGED prompt

\* Any other message is summarized.
Summarize ==
  /\ step = "parsed"
  /\ mail.whole
  /\ inScope(parsed.addr)
  /\ prompt' = parsed.body
  /\ \E summary \in Summaries : Insert(summary, TRUE)

\* The row comes into a digest.
Render ==
  /\ step = "stored"
  /\ shown' = makeRenderRow(row)
  /\ step' = "shown"
  /\ UNCHANGED <<entries, mail, parsed, prompt, row>>

Next ==
  \/ ParseMessage
  \/ KeepUnparsed
  \/ KeepOutOfScope
  \/ Summarize
  \/ Render

Spec == Init /\ [][Next]_vars

-----------------------------------------------------------------------------
(* Properties                                                              *)

\* The values of the variables; a parsed body keeps to its limit.
TypeOK ==
  /\ entries \subseteq Addresses
  /\ mail.addr \in Addresses
  /\ step \in {"raw", "parsed", "stored", "shown"}
  /\ parsed.body \in Seq(Lines)
  /\ BodyCharLimit > 0 => Len(parsed.body) <= BodyCharLimit
  /\ prompt \in {NoPrompt, parsed.body}
  /\ row.status \in {"", "ok", "error"}

\* Positions in the text as it arrived.  What is indented does not count as a
\* quote, an introduction or a delimiter, but in the first line: the text is
\* trimmed before it is looked at.
Written == { i \in DOMAIN mail.body : mail.body[i].kind # "blank" }
Starts(i, kind) ==
  mail.body[i].kind = kind /\ (mail.body[i].lead => i = First(Written))
InSignature(i) == \E d \in Written : d <= i /\ Starts(d, "signature")

\* The line that introduces a quote: only white space lies between.
Introduces(i) ==
  /\ Starts(i, "header")
  /\ \E j \in Written : i < j /\ Starts(j, "quote")
       /\ \A k \in Written : k <= i \/ j <= k

\* "This preserves interleaved reply content": a line that the sender wrote
\* before the signature reaches the language model, unless the limit cuts the
\* text before it, however it lies between quotes and white space.
ReplyReachesModel ==
  prompt # NoPrompt =>
    LET sent == { prompt[k].at : k \in DOMAIN prompt }
    IN  /\ \A j, k \in DOMAIN prompt : j < k => prompt[j].at < prompt[k].at
        /\ \A i \in Written :
             \/ i \in sent
             \/ InSignature(i) \/ Introduces(i) \/ Starts(i, "quote")
             \/ parsed.truncated /\ \A s \in sent : s < i

\* A quoted line never reaches the language model, nor, in a text whose lines
\* end in LF, the line that introduces it or a signature.
QuotesStayOut ==
  prompt # NoPrompt =>
    \A k \in DOMAIN prompt :
      LET i == prompt[k].at
      IN  /\ ~Starts(i, "quote")
          /\ InSignature(i) \/ Introduces(i) => mail.crlf

\* The addresses that count as one.
Same(a, b) == Fold[a] = Fold[b]

\* A message goes to the language model exactly when it parsed and the owner's
\* list names its sender, in whatever case and spacing, or names nobody.
ListDecides ==
  step \in {"stored", "shown"} =>
    (prompt # NoPrompt <=>
       /\ mail.whole
       /\ \/ \E a \in entries : ~Same(a, NoAddress) /\ Same(a, mail.addr)
          \/ \A a \in entries : Same(a, NoAddress))

\* Whatever failed on the way, the owner sees no empty sender, subject,
\* summary, action or tone: a white answer of the language model comes out as
\* the phrase that sends the owner to the original.
NothingShownBlank ==
  step = "shown" =>
    /\ ~IsBlank(shown.from) /\ ~IsBlank(shown.subject) /\ ~IsBlank(shown.summary)
    /\ ~IsBlank(shown.action) /\ ~IsBlank(shown.tone)

\* A summary that carries neither the mark of an error nor that of a message out
\* of scope, and is not the phrase that sends the owner to the original, was
\* written by the language model about this message.  (That phrase may stand
\* unmarked, for a white answer; the fallback of internal/llm may not.)
UnmarkedSummaryIsGenuine ==
  step = "shown" /\ ~shown.error /\ ~shown.outOfScope /\ shown.summary # "failed" =>
    shown.summary = "model" /\ prompt # NoPrompt

\* "StripQuotedText removes quoted reply sections and trailing signatures":
\* no line of a signature reaches the language model.
SignatureStaysOut ==
  prompt # NoPrompt => \A k \in DOMAIN prompt : ~InSignature(prompt[k].at)
=============================================================================
