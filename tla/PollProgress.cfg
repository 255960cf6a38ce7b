\* Two deliveries, up to the largest uint32, from a server that may leave
\* UIDNEXT out.
SPECIFICATION FairSpec
CONSTANTS
  board = board
  reply = reply
  notice = notice
  hollow = hollow
  idA = idA
  idB = idB
  NoID = NoID
  Never = Never
  NoMsg = NoMsg
  Messages = {board, reply}
  MessageIDs = {idA, idB}
  MsgID <- MCPair
  Unparseable = {}
  OutOfScope = {}
  Bodyless = {}
  MaxUID = 2
  TopUID = 2
  FetchLimit = 2
  MayOmitUIDNext = TRUE
  MaxMail = 2
  MaxValidity = 2
INVARIANT
  BatchBeyondCursor
PROPERTY
  EveryMessageProcessed
