SPECIFICATION Spec
CONSTANTS
  Base = 16
  Byte = {0, 1, 2, 3, 4, 5, 6, 7, 8, 9, 10, 11, 12, 13, 14, 15}
  NoByte = NoByte
  Length = 10
  Messages <- MCMessages
  MessageLengths = {0, 1, 3, 5}
  Fillings = {1, 15}

INVARIANTS
  TypeOK
  StoredIsUnread
  LentIsIntact
  EmptyTakesHalf
PROPERTY IsAQueue
