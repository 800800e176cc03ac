SPECIFICATION Spec
CONSTANTS
  open = open
  fetch = fetch
  wire = wire
  Readers = {open, fetch, wire}
  Asks <- MCAsks
  Wire = {wire}
  FileLen = 19
  BlockSize = 6
  AddrSpace = 60
  MaxPayload = 5
  HeaderSize = 0
  RecordSize = 1
  Content <- MCContent
  
PROPERTY ReadCompletes
