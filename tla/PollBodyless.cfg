\* A message whose body the server does not return is in the folder.
SPECIFICATION FairSpec
CONSTANTS
  board = board
  reply = reply
  notice = notice
  hollow = hollow
  idA = idA
  idB = idB
  NoID = NoID
  Never = Never
  NoMsg = NoMsg
  Messages = {board, notice}
  MessageIDs = {idA, idB}
  MsgID <- MCPairNoID
  Unparseable = {}
  OutOfScope = {}
  Bodyless = {notice}
  MaxUID = 3
  TopUID = 2
  FetchLimit = 2
  MayOmitUIDNext = FALSE
  MaxMail = 2
  MaxValidity = 1
PROPERTY
  EveryMessageProcessed
