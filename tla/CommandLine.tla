----------------------------- MODULE CommandLine -----------------------------
(***************************************************************************)
(* The command line (src/cli): one loop reads a line, parses it and runs   *)
(* the command, and append, inside of its command, reads lines of data     *)
(* until an end of file. Both read the same terminal, and nothing in what  *)
(* they read says whether the user meant a command or data.                *)
(*                                                                         *)
(* The terminal is external (canonical mode): the user submits pieces of   *)
(* input, by Enter (the piece ends in NEWLINE) or by Ctrl-D (it does not,  *)
(* and is the end of file when it is empty), and may type ahead. A call of *)
(* read() takes from the first piece only, and what it has no room for     *)
(* stays. What a command does to the tree and to the files is left to the  *)
(* other modules.                                                          *)
(***************************************************************************)
EXTENDS Integers, Sequences, FiniteSets, SequencesExt

CONSTANTS
  BLANK, OPTION_PREFIX, NEWLINE,   \* three characters
  Numeral,                         \* the symbols of numbers, each one that a long holds
  CommandText, DataText,           \* what the user types as commands, as lines of data
  COMMAND_BUFFER_SIZE,
  MAX_MULTI_LINE_INPUT_LINES_AMOUNT,
  MAX_MULTI_LINE_INPUT_LINE_LENGTH,
  MAX_TYPED_AHEAD                  \* bound on the pieces that wait to be read

\* The characters that are typed, and the stretches of text that a read can take.
Symbol == UNION {Range(text) : text \in CommandText \cup DataText}
Stretches(text) == {SubSeq(text, i, j) : i, j \in 1 .. Len(text)}
Line == (UNION {Stretches(text) : text \in CommandText \cup DataText}) \ {<<>>}

ASSUME CommandLineAssumption ==
  /\ {COMMAND_BUFFER_SIZE, MAX_MULTI_LINE_INPUT_LINES_AMOUNT,
      MAX_MULTI_LINE_INPUT_LINE_LENGTH, MAX_TYPED_AHEAD} \subseteq Nat \ {0}
  /\ \A text \in CommandText \cup DataText : text \in Seq(Symbol) \ {<<>>}

INPUT_DATA_BUFFER_SIZE ==
  MAX_MULTI_LINE_INPUT_LINE_LENGTH * MAX_MULTI_LINE_INPUT_LINES_AMOUNT

VARIABLES
  mode,     \* who reads next: the "prompt", "append", or nobody, the program "ended"
  lines,    \* the lines multi_line_read has read
  data,     \* the data_buffer of append
  status,   \* how the last read, parse or command ended
  input,    \* the pieces submitted and not read, each with what the user means by it
  typing,   \* what the user types now: "command" or "data"
  block,    \* the data the user has typed since the last append
  blockLines,  \* the lines of it
  careful   \* the user has kept within the limits of the input buffers so far

progVars == <<mode, lines, data, status>>
userVars == <<typing, block, blockLines, careful>>
vars == <<progVars, input, userVars>>

-----------------------------------------------------------------------------
(* commands.c: from a line to a command *)

\* The kth of a set of positions.
Nth(S, k) == CHOOSE i \in S : Cardinality({j \in S : j <= i}) = k

\* cmd_tokenize: the longest stretches without a blank, in order.
Tokens(text) ==
  LET starts == {i \in DOMAIN text : text[i] # BLANK /\ (i = 1 \/ text[i - 1] = BLANK)}
      ends == {i \in DOMAIN text : text[i] # BLANK /\ (i = Len(text) \/ text[i + 1] = BLANK)}
  IN  [k \in 1 .. Cardinality(starts) |-> SubSeq(text, Nth(starts, k), Nth(ends, k))]

MAX_CMD_ARGUMENT_AMOUNT == 3
MAX_CMD_OPTION_AMOUNT == 1
MAX_TOKENS_AMOUNT == 1 + MAX_CMD_ARGUMENT_AMOUNT + MAX_CMD_OPTION_AMOUNT

\* COMMAND_TABLE. A function's name is one symbol here.
CommandFunction ==
  {"cd", "pwd", "ls", "tree", "touch", "mkdir", "rm", "rmdir", "mv", "rename", "find",
   "df", "du", "stat", "cat", "read", "append", "clear", "trunc", "help", "exit"}

IsOption(token) == Head(token) = OPTION_PREFIX
OptionsAt(tokens) == {i \in 2 .. Len(tokens) : IsOption(tokens[i])}
ArgumentsAt(tokens) == {i \in 2 .. Len(tokens) : ~IsOption(tokens[i])}
Argument(tokens, k) == tokens[Nth(ArgumentsAt(tokens), k)]
Function(tokens) == Head(Head(tokens))

\* Faulty variant: the limit on arguments is reached one too early.
ParsesTooFew(tokens) ==
  /\ Len(tokens) \in 1 .. MAX_TOKENS_AMOUNT
  /\ Len(Head(tokens)) = 1 /\ Function(tokens) \in CommandFunction
  /\ Cardinality(OptionsAt(tokens)) <= MAX_CMD_OPTION_AMOUNT
  /\ \A i \in OptionsAt(tokens) : Len(tokens[i]) = 2
  /\ Cardinality(ArgumentsAt(tokens)) < MAX_CMD_ARGUMENT_AMOUNT

\* cmd_parse succeeds. Which of its errors it reports is left out; its test for
\* MAX_COMMAND_LENGTH (961) cannot fail on what fits into the command buffer.
Parses(tokens) ==
  /\ Len(tokens) \in 1 .. MAX_TOKENS_AMOUNT
  /\ Len(Head(tokens)) = 1 /\ Function(tokens) \in CommandFunction
  /\ Cardinality(OptionsAt(tokens)) <= MAX_CMD_OPTION_AMOUNT
  /\ \A i \in OptionsAt(tokens) : Len(tokens[i]) = 2
  /\ Cardinality(ArgumentsAt(tokens)) <= MAX_CMD_ARGUMENT_AMOUNT

-----------------------------------------------------------------------------
(* command_exec.c: what a command takes. cmd_pwd_exec looks at nothing. *)

NavigationTakes == [cd |-> 1 .. 1, pwd |-> 0 .. 3, ls |-> 0 .. 1]
EntryCommandTakes ==
  [touch |-> 1 .. 1, mkdir |-> 1 .. 1, rm |-> 1 .. 1, rmdir |-> 1 .. 1,
   mv |-> 2 .. 2, rename |-> 2 .. 2]
FileIOTakes ==
  [append |-> 1 .. 1, cat |-> 1 .. 1, clear |-> 1 .. 1, read |-> 3 .. 3, trunc |-> 2 .. 2]
QueryTakes == [find |-> 1 .. 1, tree |-> 0 .. 1, help |-> 0 .. 1]
ExitTakes == [exit |-> 0 .. 0]

\* The tables of command_dispatcher.h: df, du and stat are in none of them.
Takes ==
  [func \in UNION {DOMAIN NavigationTakes, DOMAIN EntryCommandTakes, DOMAIN FileIOTakes,
                  DOMAIN QueryTakes, DOMAIN ExitTakes} |->
     CASE func \in DOMAIN NavigationTakes -> NavigationTakes[func]
       [] func \in DOMAIN EntryCommandTakes -> EntryCommandTakes[func]
       [] func \in DOMAIN FileIOTakes -> FileIOTakes[func]
       [] func \in DOMAIN QueryTakes -> QueryTakes[func]
       [] OTHER -> ExitTakes[func]]

TakesOption(func, option) ==
  \/ func = "pwd"
  \/ func = "rmdir" /\ option[2] = "r"

\* strtol reads the token to its end, and a long holds the number: cmd_read_exec and
\* cmd_trunc_exec refuse it otherwise. A numeral is one symbol here, whatever its
\* digits and with its plus sign if it has one, and a number that no long holds is
\* not among them. A negative number never gets so far: it is taken for an option.
IsNumber(token) == Len(token) = 1 /\ token[1] \in Numeral

\* command_dispatch finds an executor, and that one finds no fault with the options
\* and arguments.
Runs(tokens) ==
  LET func == Function(tokens)
  IN  /\ Parses(tokens)
      /\ func \in DOMAIN Takes
      /\ Cardinality(ArgumentsAt(tokens)) \in Takes[func]
      /\ \A i \in OptionsAt(tokens) : TakesOption(func, tokens[i])
      /\ func = "read" => IsNumber(Argument(tokens, 2)) /\ IsNumber(Argument(tokens, 3))
      /\ func = "trunc" => IsNumber(Argument(tokens, 2))

WithoutNewline(text) == IF Last(text) = NEWLINE THEN Front(text) ELSE text

Words == [text \in Line |-> Tokens(WithoutNewline(text))]

\* The command reads a block of data.
StartsBlock(text) == Runs(Words[text]) /\ Function(Words[text]) = "append"

-----------------------------------------------------------------------------
(* The user and the terminal *)

\* A piece of input, and the data the user had typed for its block before it.
Piece == [text : Line \cup {<<>>}, meant : {"command", "data", "submit", "leave"},
          block : Seq(Symbol), line : Nat]

Submit(text, meaning) ==
  /\ mode # "ended"
  /\ Len(input) < MAX_TYPED_AHEAD
  /\ input' = Append(input,
       [text |-> text, meant |-> meaning, block |-> block, line |-> blockLines])
  /\ UNCHANGED progVars

\* After an append the user types data, whatever the program makes of it.
TypeCommand(text) ==
  /\ typing = "command"
  /\ Submit(text, "command")
  /\ careful' = (careful /\ Len(text) < COMMAND_BUFFER_SIZE)
  /\ typing' = IF StartsBlock(text) THEN "data" ELSE "command"
  /\ UNCHANGED <<block, blockLines>>

\* The limits of a block are what multi_line_read can take: one line less than the
\* reads it makes, as one of them has to find the end of file. A block beyond them is
\* not kept in mind.
TypeData(text) ==
  /\ typing = "data"
  /\ Submit(text, "data")
  /\ careful' = (/\ careful
                 /\ Len(text) <= MAX_MULTI_LINE_INPUT_LINE_LENGTH
                 /\ blockLines + 1 < MAX_MULTI_LINE_INPUT_LINES_AMOUNT)
  /\ block' = IF careful' THEN block \o text ELSE <<>>
  /\ blockLines' = IF careful' THEN blockLines + 1 ELSE 0
  /\ UNCHANGED typing

\* Ctrl-D at the start of a line submits the block, or leaves the program.
PressCtrlD ==
  /\ Submit(<<>>, IF typing = "data" THEN "submit" ELSE "leave")
  /\ typing' = "command"
  /\ block' = <<>> /\ blockLines' = 0
  /\ UNCHANGED careful

\* read() with room for amount characters.
Got(amount) == SubSeq(Head(input).text, 1, Min({amount, Len(Head(input).text)}))

Consume(amount) ==
  LET rest == SubSeq(Head(input).text, amount + 1, Len(Head(input).text))
  IN  input' = IF rest = <<>> THEN Tail(input)
               ELSE <<[Head(input) EXCEPT !.text = rest]>> \o Tail(input)

-----------------------------------------------------------------------------
(* cli_run and command_dispatch *)

\* new_line_terminated_read
ReadCommand ==
  /\ mode = "prompt"
  /\ input # <<>>
  /\ Consume(COMMAND_BUFFER_SIZE)

Command == Words[Got(COMMAND_BUFFER_SIZE)]
FitsCommandBuffer == Len(Got(COMMAND_BUFFER_SIZE)) \in 1 .. COMMAND_BUFFER_SIZE - 1

\* An end of file and a line without room for its end are no command: cli_run
\* returns, and the program ends.
CommandUnreadable ==
  /\ ReadCommand
  /\ ~FitsCommandBuffer
  /\ mode' = "ended"
  /\ status' = IF Got(COMMAND_BUFFER_SIZE) = <<>> THEN "ATTEMPTED_TO_READ_AT_EOF"
               ELSE "INPUT_BUFFER_OVER_FLOW"
  /\ UNCHANGED <<lines, data>>

RefuseCommand ==
  /\ ReadCommand
  /\ FitsCommandBuffer
  /\ ~Runs(Command)
  /\ status' = "REFUSED"
  /\ UNCHANGED <<mode, lines, data>>

\* The commands that only call the workspace, which may fail.
RunCommand ==
  /\ ReadCommand
  /\ FitsCommandBuffer
  /\ Runs(Command) /\ Function(Command) \notin {"append", "exit"}
  /\ status' \in {"SUCCESS", "FAILURE"}
  /\ UNCHANGED <<mode, lines, data>>

Exit ==
  /\ ReadCommand
  /\ FitsCommandBuffer
  /\ Runs(Command) /\ Function(Command) = "exit"
  /\ mode' = "ended" /\ status' = "SUCCESS"
  /\ UNCHANGED <<lines, data>>

\* Faulty variant: the block goes behind what the buffer holds.
StartAppendBehind ==
  /\ ReadCommand
  /\ FitsCommandBuffer
  /\ Runs(Command) /\ Function(Command) = "append"
  /\ mode' = "append" /\ lines' = 0 /\ status' = "SUCCESS"
  /\ UNCHANGED data

\* cmd_append_exec begins. The file it names is not looked for yet.
StartAppend ==
  /\ ReadCommand
  /\ FitsCommandBuffer
  /\ Runs(Command) /\ Function(Command) = "append"
  /\ mode' = "append" /\ lines' = 0 /\ data' = <<>> /\ status' = "SUCCESS"

-----------------------------------------------------------------------------
(* multi_line_read *)

\* One more than a line may have, to notice one that is too long.
LINE_READ == MAX_MULTI_LINE_INPUT_LINE_LENGTH + 1

ReadLine ==
  /\ mode = "append"
  /\ input # <<>>
  /\ Consume(LINE_READ)

\* Faulty variant: the end of file is taken for a line without characters.
EndOfFileKept ==
  /\ ReadLine
  /\ Got(LINE_READ) = <<>>
  /\ lines' = lines + 1
  /\ mode' = IF lines' = MAX_MULTI_LINE_INPUT_LINES_AMOUNT THEN "prompt" ELSE mode
  /\ UNCHANGED <<data, status>>

\* The end of file: ws_file_append has the block, unless that is empty.
EndBlock ==
  /\ ReadLine
  /\ Got(LINE_READ) = <<>>
  /\ mode' = "prompt"
  /\ status' \in IF data = <<>> THEN {"SUCCESS"} ELSE {"SUCCESS", "FAILURE"}
  /\ UNCHANGED <<lines, data>>

\* Faulty variant: a line that just fits is too long.
LineTooLongByOne ==
  /\ ReadLine
  /\ Len(Got(LINE_READ)) >= MAX_MULTI_LINE_INPUT_LINE_LENGTH
  /\ mode' = "prompt" /\ status' = "INPUT_LINE_IS_TOO_LONG"
  /\ UNCHANGED <<lines, data>>

LineTooLong ==
  /\ ReadLine
  /\ Len(Got(LINE_READ)) = LINE_READ
  /\ mode' = "prompt" /\ status' = "INPUT_LINE_IS_TOO_LONG"
  /\ UNCHANGED <<lines, data>>

\* Faulty variant: no room is kept for the end of the string.
KeepLineToTheBrim ==
  /\ ReadLine
  /\ Len(Got(LINE_READ)) \in 1 .. LINE_READ - 1
  /\ Len(data) + Len(Got(LINE_READ)) <= INPUT_DATA_BUFFER_SIZE
  /\ data' = data \o Got(LINE_READ)
  /\ lines' = lines + 1
  /\ IF lines' = MAX_MULTI_LINE_INPUT_LINES_AMOUNT
     THEN mode' = "prompt" /\ status' = "TOO_MANY_LINES"
     ELSE UNCHANGED <<mode, status>>

Overflow ==
  /\ ReadLine
  /\ Len(Got(LINE_READ)) \in 1 .. LINE_READ - 1
  /\ Len(data) + Len(Got(LINE_READ)) > INPUT_DATA_BUFFER_SIZE - 1
  /\ mode' = "prompt" /\ status' = "INPUT_BUFFER_OVER_FLOW"
  /\ UNCHANGED <<lines, data>>

\* The block is over with the last line there is a read for, even when the end of
\* file comes right behind it.
KeepLine ==
  /\ ReadLine
  /\ Len(Got(LINE_READ)) \in 1 .. LINE_READ - 1
  /\ Len(data) + Len(Got(LINE_READ)) <= INPUT_DATA_BUFFER_SIZE - 1
  /\ data' = data \o Got(LINE_READ)
  /\ lines' = lines + 1
  /\ IF lines' = MAX_MULTI_LINE_INPUT_LINES_AMOUNT
     THEN mode' = "prompt" /\ status' = "TOO_MANY_LINES"
     ELSE UNCHANGED <<mode, status>>

-----------------------------------------------------------------------------
Init ==
  /\ mode = "prompt" /\ lines = 0 /\ data = <<>> /\ status = "SUCCESS"
  /\ input = <<>>
  /\ typing = "command" /\ block = <<>> /\ blockLines = 0 /\ careful = TRUE

User ==
  \/ \E text \in CommandText : TypeCommand(text)
  \/ \E text \in DataText : TypeData(text)
  \/ PressCtrlD

Program ==
  /\ \/ CommandUnreadable \/ RefuseCommand \/ RunCommand \/ Exit \/ StartAppend
     \/ EndBlock \/ LineTooLong \/ Overflow \/ KeepLine
  /\ UNCHANGED userVars

Next == User \/ Program

\* The program reads what there is to read. Nothing makes the user type.
Spec == Init /\ [][Next]_vars /\ WF_vars(Program)

-----------------------------------------------------------------------------
(* help.h *)

\* The arguments that the synopsis of a function shows, the optional ones included.
HelpHint ==
  [cd |-> 1 .. 1, pwd |-> 0 .. 0, ls |-> 0 .. 1, tree |-> 0 .. 1, touch |-> 1 .. 1,
   mkdir |-> 1 .. 1, rm |-> 1 .. 1, rmdir |-> 1 .. 1, mv |-> 2 .. 2, rename |-> 2 .. 2,
   find |-> 1 .. 1, cat |-> 1 .. 1, read |-> 3 .. 3, append |-> 1 .. 1, clear |-> 1 .. 1,
   trunc |-> 2 .. 2, help |-> 0 .. 1]

\* The line is one of those help shows, with a number that a long holds where it asks
\* for a number.
InHelp(tokens) ==
  LET func == Function(tokens)
  IN  /\ tokens # <<>> /\ Len(Head(tokens)) = 1
      /\ func \in DOMAIN HelpHint
      /\ Cardinality(ArgumentsAt(tokens)) \in HelpHint[func]
      /\ Cardinality(OptionsAt(tokens)) <= 1
      /\ \A i \in OptionsAt(tokens) : func = "rmdir" /\ tokens[i] = <<OPTION_PREFIX, "r">>
      /\ func = "read" => IsNumber(Argument(tokens, 2)) /\ IsNumber(Argument(tokens, 3))
      /\ func = "trunc" => IsNumber(Argument(tokens, 2))

-----------------------------------------------------------------------------
(* Properties *)

\* The type of the state. What append has read leaves room in its buffer for the
\* zero that multi_line_read puts behind it, and while it reads it has not made all
\* of its reads (input_handler.c:79, :91, :102).
CommandLineTypeOK ==
  /\ mode \in {"prompt", "append", "ended"}
  /\ status \in {"SUCCESS", "FAILURE", "REFUSED", "ATTEMPTED_TO_READ_AT_EOF",
                 "INPUT_BUFFER_OVER_FLOW", "INPUT_LINE_IS_TOO_LONG", "TOO_MANY_LINES"}
  /\ lines \in 0 .. MAX_MULTI_LINE_INPUT_LINES_AMOUNT
  /\ mode = "append" => lines < MAX_MULTI_LINE_INPUT_LINES_AMOUNT
  /\ data \in Seq(Symbol) /\ Len(data) < INPUT_DATA_BUFFER_SIZE
  /\ input \in Seq(Piece)
  /\ typing \in {"command", "data"}
  /\ block \in Seq(Symbol) /\ blockLines \in Nat
  /\ careful \in BOOLEAN

\* As long as the user keeps within the limits of the buffers, the program and the
\* user agree on what the next piece of input is, however far ahead it was typed:
\* data goes to append, an end of file that submits data does not end the program,
\* and no limit of multi_line_read is met before the user's own
\* (cli_runtime.c:57, input_handler.c:73-114).
ReadAsMeant ==
  careful => /\ input # <<>> /\ mode # "ended" =>
                  (mode = "append" <=> Head(input).meant \in {"data", "submit"})
             /\ mode = "ended" => status # "INPUT_BUFFER_OVER_FLOW"

\* In the middle of a block append holds exactly what the user had typed of it
\* before the piece that is next, up to the end of file that submits it: nothing of
\* an earlier block that failed or was stored, nothing missing, nothing cut.
BlockIsWhatWasTyped ==
  careful /\ mode = "append" /\ input # <<>> => data = Head(input).block

-----------------------------------------------------------------------------
(* The inductive invariant *)

\* What reads a piece, and what has been typed or read of the block it belongs to.
Place(typingNow, blockNow, linesNow) ==
  [typing |-> typingNow, block |-> blockNow, line |-> linesNow]

AtPrompt == Place("command", <<>>, 0)

\* Where the program is, and where the user is.
ProgramPlace == IF mode = "append" THEN Place("data", data, lines) ELSE AtPrompt
UserPlace == Place(typing, block, blockLines)

\* Where a piece leads to.
After(p) ==
  IF p.meant = "data" THEN Place("data", p.block \o p.text, p.line + 1)
  ELSE IF p.meant = "command" /\ StartsBlock(p.text) THEN Place("data", <<>>, 0)
  ELSE AtPrompt

\* Where a piece is read, when everything before it was read as it was meant.
Before(i) == IF i = 1 THEN ProgramPlace ELSE After(input[i - 1])

\* The piece was typed at that place, and is within the limits.
Fits(p, place) ==
  /\ place = Place(IF p.meant \in {"data", "submit"} THEN "data" ELSE "command",
                   p.block, p.line)
  /\ p.meant = "command" => Len(p.text) \in 1 .. COMMAND_BUFFER_SIZE - 1
  /\ p.meant = "data" => /\ Len(p.text) \in 1 .. MAX_MULTI_LINE_INPUT_LINE_LENGTH
                         /\ p.line + 1 < MAX_MULTI_LINE_INPUT_LINES_AMOUNT
  /\ p.meant \in {"submit", "leave"} => p.text = <<>>

\* The pieces lead from where the program is to where the user is.
Session ==
  /\ \A i \in DOMAIN input : Fits(input[i], Before(i))
  /\ Before(Len(input) + 1) = UserPlace

\* A block is no longer than its lines can be.
BlockBound(place) ==
  place.line < MAX_MULTI_LINE_INPUT_LINES_AMOUNT
  /\ Len(place.block) <= place.line * MAX_MULTI_LINE_INPUT_LINE_LENGTH

\* As long as the user is careful, the program, what is typed ahead and the user are
\* in line. It is what ReadAsMeant and BlockIsWhatWasTyped rest on: neither speaks of
\* the pieces behind the first.
SessionInv ==
  careful =>
    /\ mode # "ended" => Session /\ BlockBound(ProgramPlace) /\ BlockBound(UserPlace)
    /\ mode = "ended" => status # "INPUT_BUFFER_OVER_FLOW"

\* A line as help shows it is never refused by the command line: the table of
\* functions, the limits of the parser, the tables of the dispatcher and the checks
\* of the executors, all in other files, let it through to the workspace. It is all 17
\* synopses of help.h, with and without what they call optional. A number that no
\* long holds is the exception: it is refused where help shows a number
\* (command_exec.c:499, :516, :585), and InHelp leaves it out.
HelpIsTrue ==
  [][mode = "prompt" /\ Len(input') < Len(input) /\ FitsCommandBuffer /\ InHelp(Command)
     => status' # "REFUSED"]_vars

\* A block that was submitted comes to an end: append returns to the prompt, as the
\* program reads on and multi_line_read gives up after some lines.
BlocksEnd ==
  mode = "append" /\ (\E i \in DOMAIN input : input[i].text = <<>>) ~> mode # "append"

\* What the user types behind "append" is data until the user submits it with
\* Ctrl-D, and is never run as a command. help.h:119 has it so: "Starts a multiline
\* prompt. Press CTRL + D to submit."
DataIsNeverRun ==
  mode = "prompt" /\ input # <<>> => Head(input).meant # "data"
=============================================================================
