CONSTANTS
  BLANK = BLANK
  OPTION_PREFIX = OPTION_PREFIX
  NEWLINE = NEWLINE
  x = x
  one = one
  Numeral = {one}
  CommandText <- MCCommandText
  DataText <- MCDataText
  COMMAND_BUFFER_SIZE = 9
  MAX_MULTI_LINE_INPUT_LINES_AMOUNT = 3
  MAX_MULTI_LINE_INPUT_LINE_LENGTH = 3
  MAX_TYPED_AHEAD = 2
SPECIFICATION Spec
INVARIANT DataIsNeverRun
CHECK_DEADLOCK FALSE
