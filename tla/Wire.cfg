SPECIFICATION FairSpec
CONSTANTS
  Scripts <- MCScripts
  MaxPiece = 6
INVARIANTS
  DecodedIsSent
  BufferBounded
PROPERTIES
  ReadIsDecoded
