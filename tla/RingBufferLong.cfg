SPECIFICATION Spec
CONSTANTS
  Base = 4
  Byte = {0, 1, 2, 3}
  NoByte = NoByte
  Length = 10
  Messages <- MCMessages
  MessageLengths = {1, 4}
  Fillings = {1}

INVARIANT StoredIsUnread
