CONSTANTS
  d1 = d1 d2 = d2 d3 = d3
  f1 = f1 f2 = f2
  n1 = n1 n2 = n2 bad = bad long = long
  ROOT = ROOT
  NULL = NULL
  ROOT_NAME = ROOT_NAME
  Folder <- MCThreeFolders
  File <- MCTwoFiles
  Name <- MCName
  InvalidName = {bad}
  LongName = {long}
  MAX_SUB_FILES_AMOUNT = 1
  MAX_SUB_FOLDERS_AMOUNT = 2
  MAX_PATH_NODES_AMOUNT = 2
SPECIFICATION TreeSpec
CHECK_DEADLOCK FALSE
INVARIANTS TypeOK LinksAgree NamesUnique NoOrphans NoOrphanData CallsInEstablished
PROPERTIES RemovalStaysBelow RemovalComplete RemovalReturns
