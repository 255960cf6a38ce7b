\* Texts of up to four lines, ending in LF or CR LF, cut after three lines.
SPECIFICATION Spec
CONSTANTS
  board = board
  BOARD = BOARD
  owner = owner
  garbled = garbled
  spaces = spaces
  NoAddress = NoAddress
  NoPrompt = NoPrompt
  Addresses = {board, BOARD, owner, garbled, spaces, NoAddress}
  Fold <- MCFold
  Cases <- MCCases
  MaxLines = 4
  LineEnds = {FALSE, TRUE}
  BodyCharLimit = 3
INVARIANTS
  TypeOK
  ReplyReachesModel
  QuotesStayOut
  ListDecides
  NothingShownBlank
  UnmarkedSummaryIsGenuine
\* The message has reached the digest.
CHECK_DEADLOCK FALSE
