CONSTANTS
  Byte = {0, 1}
  NoError = NoError
  MaxLen = 4
  MaxAsk = 5
SPECIFICATION Spec
INVARIANTS TypeOK TakenOnce
PROPERTY OnlySetErrorRevives
