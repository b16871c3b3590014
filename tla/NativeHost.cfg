CONSTANTS
  Ids <- MCIds
  NoId = NoId
  MaxMessages = 3
  BannerUnits = 1
  ChunkUnits = 4
SPECIFICATION Spec
INVARIANTS
  TypeOK
  
PROPERTIES
  HostExitsOnEOF
