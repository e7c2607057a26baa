CONSTANTS
  f1 = f1
  f2 = f2
  a = a
  b = b
  eoc = eoc
  File <- MCFile
  Byte <- MCByte
  EOC_OPERATOR = eoc
  Uninitialised = Uninitialised
  Data <- MCData
  Amount <- MCAmount
  CHUNKS_AMOUNT = 3
  CHUNK_SIZE = 2
  MAX_FILE_CHUNK_EXTENTS_AMOUNT = 2
  SIZE_MODULUS = 16
  BUFFER_SIZE = 5
SYMMETRY FileSymmetry
SPECIFICATION Spec
INVARIANTS
  ReadsAreExact
  ReadsStayInside
PROPERTY
  ImplementsFileContent
