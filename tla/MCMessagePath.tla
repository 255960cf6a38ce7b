--------------------------- MODULE MCMessagePath ---------------------------
(***************************************************************************)
(* Instances of MessagePath for TLC: all texts of up to MaxLines lines     *)
(* from one sender, and one text from every sender.                        *)
(***************************************************************************)
EXTENDS MessagePath, TLC

CONSTANTS
  board,        \* an address
  BOARD,        \* the same, written otherwise
  owner,        \* another
  garbled,      \* a From header that is no address
  spaces,       \* white space only
  MaxLines,     \* bound: lines of a text
  LineEnds      \* whether lines may end in CR LF

MCFold == board :> board @@ BOARD :> board @@ owner :> owner
          @@ garbled :> garbled @@ spaces :> NoAddress @@ NoAddress :> NoAddress

Allowlists == {{}, {NoAddress}, {board}, {BOARD, NoAddress}, {spaces, board}}

\* White space before a line of words matters to nothing.
Texts ==
  UNION {[1 .. n -> { f \in Forms : f.kind = "text" => ~f.lead }] : n \in 0 .. MaxLines}

Words == <<[kind |-> "text", lead |-> FALSE]>>

MCCases ==
  [entries : {{}},
   mail : [whole : {TRUE}, name : {FALSE}, addr : {board}, subject : {"sender"},
           crlf : LineEnds, body : Texts]]
  \union
  [entries : Allowlists,
   mail : [whole : BOOLEAN, name : {FALSE}, addr : Addresses \ {spaces},
           subject : {"", "sender", "white"}, crlf : {FALSE}, body : {Words}]
          \union
          [whole : {TRUE}, name : {TRUE}, addr : {board, owner}, subject : {"sender"},
           crlf : {FALSE}, body : {Words}]]
=============================================================================
