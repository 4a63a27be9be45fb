SPECIFICATION Spec
CONSTANTS
  LastDefault = 0
  LastFP = 0
  LastExtended1 = 3
  LastExtended2 = 0
  TBL = 0
  TBU = 1
  DEC = 2
  GQR0 = 3
  HID2 = 3
  Restored = {3}
  HeaderWords = 1
  BufferWords = 5
  MaxWords = 4
INVARIANTS
  TheHostReads
PROPERTIES
  TheTargetGoesOnWith
