CONSTANTS
  d1 = d1 d2 = d2 d3 = d3
  f1 = f1
  n1 = n1 n2 = n2
  long = long
  ROOT = ROOT
  NULL = NULL
  ROOT_NAME = ROOT_NAME
  Folder <- MCThreeFolders
  File = {f1}
  Name <- MCName
  InvalidName = {}
  LongName = {}
  MAX_SUB_FILES_AMOUNT = 1
  MAX_SUB_FOLDERS_AMOUNT = 2
  MAX_PATH_NODES_AMOUNT = 2
  QUERIES_NODE_BUFFER_SIZE = 3
SPECIFICATION Spec
SYMMETRY MCSymmetry
CHECK_DEADLOCK FALSE
INVARIANT PathsAreBounded
