------------------------------- MODULE Parser -------------------------------
(***************************************************************************)
(* What internal/parse makes of the text of a message: white space put in  *)
(* order, quoted replies and the signature taken out, the rest cut to a    *)
(* limit.                                                                  *)
(*                                                                         *)
(* A text is a sequence of lines.  Of a line the module keeps what the     *)
(* code tells apart: what it looks like, whether white space stands before *)
(* it, and whether a carriage return stands behind it, as in a mail whose  *)
(* lines end in CR LF.  `at' is its place in the text as it arrived: it    *)
(* tells lines apart, and no operator of the code reads it.                *)
(***************************************************************************)
EXTENDS Naturals, Sequences, FiniteSets

\* A line of words, of white space only, one that begins with `>', one like
\* "On <date>, <name> wrote:", and one that is `--'.
Kinds == {"text", "blank", "quote", "header", "signature"}

Forms == [kind : Kinds, lead : BOOLEAN]
Lines == [at : Nat, kind : Kinds, lead : BOOLEAN, cr : BOOLEAN]

\* The numbers of a set in ascending order: the k-th has k of them up to it.
Ascending(P) ==
  [k \in 1 .. Cardinality(P) |-> CHOOSE i \in P : Cardinality({ j \in P : j <= i }) = k]

\* The elements of s at the positions in P.
SelectAt(s, P) == [k \in 1 .. Cardinality(P) |-> s[Ascending(P)[k]]]

First(S) == CHOOSE i \in S : \A j \in S : i <= j
Last(S) == CHOOSE i \in S : \A j \in S : j <= i

-----------------------------------------------------------------------------
(* White space                                                             *)

\* The line is the empty string.
Empty(l) == l.kind = "blank" /\ ~l.lead /\ ~l.cr

\* strings.TrimSpace of the joined lines.
TrimSpace(s) ==
  LET ink == { i \in DOMAIN s : s[i].kind # "blank" }
      n   == Last(ink) + 1 - First(ink)
  IN  IF ink = {} THEN <<>>
      ELSE [k \in 1 .. n |-> [s[First(ink) + k - 1] EXCEPT
                                !.lead = @ /\ k # 1, !.cr = @ /\ k # n]]

\* Blanks at the end of a line are cut; a carriage return is not a blank.
TrimRight(l) == IF l.kind = "blank" /\ ~l.cr THEN [l EXCEPT !.lead = FALSE] ELSE l

\* Several empty lines become one.
normalizeWhitespace(body) ==
  LET lines == [i \in DOMAIN body |-> TrimRight(body[i])]
      kept  == { i \in DOMAIN lines : ~(Empty(lines[i]) /\ i > 1 /\ Empty(lines[i - 1])) }
  IN  TrimSpace(SelectAt(lines, kept))

-----------------------------------------------------------------------------
(* Quotes and the signature                                                *)

IsQuoted(l) == l.kind = "quote" /\ ~l.lead
isQuoteHeader(l) == l.kind = "header" /\ ~l.lead
IsDelimiter(l) == l.kind = "signature" /\ ~l.lead /\ ~l.cr

\* The lines before the first signature delimiter.
CutSignature(lines) ==
  LET ends == { i \in DOMAIN lines : IsDelimiter(lines[i]) }
  IN  IF ends = {} THEN lines ELSE SubSeq(lines, 1, First(ends) - 1)

\* Mutants of NextIsQuoted: empty lines are not skipped, and the search does
\* not end at the next line.
NextIsQuotedAdjacent(lines, i) == i < Len(lines) /\ IsQuoted(lines[i + 1])
NextIsQuotedAnywhere(lines, i) == \E j \in i + 1 .. Len(lines) : IsQuoted(lines[j])

\* The next line that is not empty is quoted.
NextIsQuoted(lines, i) ==
  \E j \in i + 1 .. Len(lines) :
    IsQuoted(lines[j]) /\ \A k \in i + 1 .. j - 1 : Empty(lines[k])

StripQuotedText(body) ==
  LET lines == CutSignature(body)
      kept  == { i \in DOMAIN lines :
                   /\ ~IsQuoted(lines[i])
                   /\ ~(isQuoteHeader(lines[i]) /\ NextIsQuoted(lines, i)) }
  IN  TrimSpace(SelectAt(lines, kept))

-----------------------------------------------------------------------------
(* The limit, which the module counts in lines; none if it is 0            *)

Exceeds(s, charLimit) == charLimit > 0 /\ Len(s) > charLimit

\* Mutant of Truncate: the text is kept whole.
TruncateNot(s, charLimit) == s

Truncate(s, charLimit) == IF Exceeds(s, charLimit) THEN SubSeq(s, 1, charLimit) ELSE s
=============================================================================
