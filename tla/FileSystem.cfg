CONSTANTS
  d1 = d1 d2 = d2
  f1 = f1 f2 = f2
  n1 = n1 long = long
  a = a
  eoc = eoc
  CHUNKS_AMOUNT = 2
  CHUNK_SIZE = 1
  Byte = {a, eoc}
  EOC_OPERATOR = eoc
  Uninitialised = Uninitialised
  MAX_FILE_CHUNK_EXTENTS_AMOUNT = 2
  Data <- MCData
  Amount = {1}
  Folder = {d1, d2}
  File = {f1, f2}
  ROOT = ROOT
  NULL = NULL
  ROOT_NAME = ROOT_NAME
  Name = {n1, long, ROOT_NAME}
  InvalidName = {}
  LongName = {long}
  MAX_SUB_FILES_AMOUNT = 1
  MAX_SUB_FOLDERS_AMOUNT = 1
  MAX_PATH_NODES_AMOUNT = 1
  SlotAfter <- MCSlotAfter
SPECIFICATION Spec
CHECK_DEADLOCK FALSE
INVARIANT NoLostChunk
PROPERTIES ImplementsEntryStore FilesKeepData CommandsReturn
