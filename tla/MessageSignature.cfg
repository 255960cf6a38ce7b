\* A text whose lines end in CR LF and that has a signature.
SPECIFICATION Spec
CONSTANTS
  board = board
  BOARD = BOARD
  owner = owner
  garbled = garbled
  spaces = spaces
  NoAddress = NoAddress
  NoPrompt = NoPrompt
  Addresses = {board, BOARD, owner, garbled, spaces, NoAddress}
  Fold <- MCFold
  Cases <- MCCases
  MaxLines = 3
  LineEnds = {FALSE, TRUE}
  BodyCharLimit = 0
INVARIANT
  SignatureStaysOut
CHECK_DEADLOCK FALSE
