SPECIFICATION Spec
CONSTANTS
  r1 = r1
  r2 = r2
  Readers = {r1, r2}
  Asks <- MCAsks
  Wire = {r1, r2}
  FileLen = 8
  BlockSize = 4
  AddrSpace = 64
  MaxPayload = 3
  HeaderSize = 0
  RecordSize = 1
  Content <- MCContent
INVARIANT RepeatedDataIsDuplicate
