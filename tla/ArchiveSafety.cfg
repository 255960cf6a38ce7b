\* Two calls at a time, three messages that may want one path, two UIDs and two
\* months.
SPECIFICATION Spec
CONSTANTS
  board = board
  reply = reply
  notice = notice
  name1 = name1
  name2 = name2
  hash1 = hash1
  hash2 = hash2
  w1 = w1
  w2 = w2
  Writers = {w1, w2}
  Messages = {board, reply, notice}
  UIDs = {1, 2}
  Name <- MCName
  NoName = NoName
  UIDName <- MCUIDName
  Hash <- MCHash
  NoHash = NoHash
  Dated = {board, reply}
  MonthOf <- MCMonthOf
  Months = {1, 2}
INVARIANTS
  TypeOK
  ReturnedPathHolds
  OneFilePerMonth
PROPERTY
  WriteOnce
