\* Three deliveries, one of them perhaps after the folder was recreated; UIDs
\* are three values wide below the largest uint32.
SPECIFICATION Spec
CONSTANTS
  board = board
  reply = reply
  notice = notice
  hollow = hollow
  idA = idA
  idB = idB
  NoID = NoID
  Never = Never
  NoMsg = NoMsg
  Messages = {board, reply, notice, hollow}
  MessageIDs = {idA, idB}
  MsgID <- MCMsgID
  Unparseable = {notice}
  OutOfScope = {reply}
  Bodyless = {hollow}
  MaxUID = 4
  TopUID = 3
  FetchLimit = 2
  MayOmitUIDNext = FALSE
  MaxMail = 3
  MaxValidity = 2
INVARIANTS
  TypeOK
  PollInv
  SeenImpliesStored
  CursorSkipsNothing
  BacklogUntouched
  SeenHasItsRow
  RowsWellFormed
PROPERTIES
  CursorNeverMovesBack
  ImplementsMailIngest
