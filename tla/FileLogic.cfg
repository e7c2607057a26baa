CONSTANTS
  f1 = f1
  f2 = f2
  a = a
  b = b
  eoc = eoc
  File <- MCFile
  Byte <- MCByte
  EOC_OPERATOR = eoc
  Uninitialised = Uninitialised
  Data <- MCLengths
  Amount <- MCAmount
  CHUNKS_AMOUNT = 4
  CHUNK_SIZE = 2
  MAX_FILE_CHUNK_EXTENTS_AMOUNT = 3
  SIZE_MODULUS = 16
  BUFFER_SIZE = 4
SPECIFICATION Spec
INVARIANTS
  DataInv
  TypeOK
  FreeCountExact
  ExtentsCompact
  NoSharedChunk
  AllocatedIffOwned
  SizeExact
  WritesNeverRefused
PROPERTIES
  OtherFilesUntouched
  OperationsReturn
