-------------------------- MODULE CommandLineProofs --------------------------
(***************************************************************************)
(* A user who keeps within the limits is understood, for every size of the *)
(* buffers, every set of lines the user may type and any amount of input   *)
(* typed ahead. First what a read() does to the input, then the two ways   *)
(* in which a session goes on (a piece is typed, a piece is read), then    *)
(* the inductive invariant, one step per action.                           *)
(***************************************************************************)
EXTENDS CommandLine, FiniteSetTheorems, TLAPS

-----------------------------------------------------------------------------
(* Arithmetic of the buffer *)

\* A block of one line more has room for one line more.
LEMMA OneMoreLine ==
  ASSUME NEW m \in Nat, NEW n \in Nat
  PROVE  (m + 1) * n = m * n + n /\ m * n \in Nat
OBVIOUS

\* Fewer lines take less room.
LEMMA FewerLines ==
  ASSUME NEW k \in Nat, NEW m \in Nat, k <= m, NEW n \in Nat
  PROVE  k * n <= m * n
OBVIOUS

\* The data buffer is not empty.
LEMMA BufferSize == INPUT_DATA_BUFFER_SIZE \in Nat /\ INPUT_DATA_BUFFER_SIZE > 0
<1>1. /\ MAX_MULTI_LINE_INPUT_LINES_AMOUNT \in Nat
      /\ MAX_MULTI_LINE_INPUT_LINE_LENGTH \in Nat
      /\ 1 <= MAX_MULTI_LINE_INPUT_LINES_AMOUNT
      /\ 1 <= MAX_MULTI_LINE_INPUT_LINE_LENGTH
  BY CommandLineAssumption
<1>2. MAX_MULTI_LINE_INPUT_LINES_AMOUNT * MAX_MULTI_LINE_INPUT_LINE_LENGTH
        >= MAX_MULTI_LINE_INPUT_LINE_LENGTH
  BY <1>1, FewerLines, 1 * MAX_MULTI_LINE_INPUT_LINE_LENGTH = MAX_MULTI_LINE_INPUT_LINE_LENGTH
<1>3. QED
  BY <1>1, <1>2, OneMoreLine DEF INPUT_DATA_BUFFER_SIZE

-----------------------------------------------------------------------------
(* Stretches of text *)

LEMMA LineIsStretch ==
  ASSUME NEW line
  PROVE  line \in Line <=>
           line # <<>> /\ \E text \in CommandText \cup DataText : line \in Stretches(text)
<1> DEFINE texts == CommandText \cup DataText
<1> DEFINE stretches == {Stretches(text) : text \in texts}
<1>1. line \in UNION stretches <=> \E set \in stretches : line \in set
  OBVIOUS
<1>2. \A set : set \in stretches <=> \E text \in texts : set = Stretches(text)
  OBVIOUS
<1>3. line \in Line <=> line \in UNION stretches /\ line # <<>>
  BY DEF Line
<1>4. (\E set \in stretches : line \in set) <=> \E text \in texts : line \in Stretches(text)
  <2> HIDE DEF stretches
  <2>1. QED
    BY <1>2
<1> HIDE DEF stretches
<1>5. QED
  BY <1>1, <1>3, <1>4

LEMMA LineIsText ==
  ASSUME NEW line \in Line
  PROVE  line \in Seq(Symbol) /\ Len(line) \in Nat
<1>1. PICK text \in CommandText \cup DataText : line \in Stretches(text)
  BY LineIsStretch
<1>2. text \in Seq(Symbol)
  BY CommandLineAssumption
<1>3. PICK i \in 1 .. Len(text), j \in 1 .. Len(text) : line = SubSeq(text, i, j)
  BY <1>1 DEF Stretches
<1>4. QED
  BY <1>2, <1>3

LEMMA TextIsLine ==
  ASSUME NEW text \in CommandText \cup DataText
  PROVE  text \in Line
<1>1. text \in Seq(Symbol) \ {<<>>}
  BY CommandLineAssumption
<1>2. text = SubSeq(text, 1, Len(text)) /\ 1 \in 1 .. Len(text) /\ Len(text) \in 1 .. Len(text)
  BY <1>1
<1>3. text \in Stretches(text)
  BY <1>2 DEF Stretches
<1>4. QED
  BY <1>1, <1>3, LineIsStretch

\* A stretch of a stretch.
LEMMA StretchOfStretch ==
  ASSUME NEW S, NEW text \in Seq(S), NEW i \in 1 .. Len(text), NEW j \in 1 .. Len(text),
         NEW a \in Nat, 1 <= a, NEW b \in Nat, a <= b, b <= Len(SubSeq(text, i, j))
  PROVE  /\ i + a - 1 \in 1 .. Len(text) /\ i + b - 1 \in 1 .. Len(text)
         /\ SubSeq(SubSeq(text, i, j), a, b) = SubSeq(text, i + a - 1, i + b - 1)
<1> DEFINE line == SubSeq(text, i, j)
<1>1. /\ i <= j /\ line \in Seq(S) /\ Len(line) = j - i + 1
      /\ \A k \in 1 .. Len(line) : line[k] = text[i + k - 1]
  OBVIOUS
<1> DEFINE inner == SubSeq(line, a, b)
<1> DEFINE outer == SubSeq(text, i + a - 1, i + b - 1)
<1> HIDE DEF line
<1>2. i + a - 1 \in 1 .. Len(text) /\ i + b - 1 \in 1 .. Len(text)
  BY <1>1 DEF line
<1>3. /\ inner \in Seq(S) /\ Len(inner) = b - a + 1
      /\ \A k \in 1 .. b - a + 1 : inner[k] = line[a + k - 1]
  BY <1>1 DEF line
<1>4. /\ outer \in Seq(S) /\ Len(outer) = b - a + 1
      /\ \A k \in 1 .. b - a + 1 : outer[k] = text[i + a - 1 + k - 1]
  BY <1>2
<1> HIDE DEF inner, outer
<1>5. ASSUME NEW k \in 1 .. b - a + 1 PROVE inner[k] = outer[k]
  <2>1. a + k - 1 \in 1 .. Len(line) /\ i + (a + k - 1) - 1 = i + a - 1 + k - 1
    BY <1>1 DEF line
  <2>2. inner[k] = line[a + k - 1] /\ outer[k] = text[i + a - 1 + k - 1]
    BY <1>3, <1>4
  <2>3. QED
    BY <1>1, <2>1, <2>2
<1>6. inner = outer
  BY <1>3, <1>4, <1>5
<1>7. QED
  BY <1>2, <1>6 DEF inner, outer, line

LEMMA StretchIsLine ==
  ASSUME NEW line \in Line, NEW a \in Nat, 1 <= a, NEW b \in Nat, b <= Len(line)
  PROVE  SubSeq(line, a, b) \in Line \cup {<<>>}
<1>1. CASE b < a
  BY <1>1, LineIsText
<1>2. CASE a <= b
  <2>1. PICK text \in CommandText \cup DataText : line \in Stretches(text)
    BY LineIsStretch
  <2>2. PICK i \in 1 .. Len(text), j \in 1 .. Len(text) : line = SubSeq(text, i, j)
    BY <2>1 DEF Stretches
  <2>3. text \in Seq(Symbol)
    BY CommandLineAssumption
  <2> DEFINE from == i + a - 1
  <2> DEFINE to == i + b - 1
  <2>4. /\ from \in 1 .. Len(text) /\ to \in 1 .. Len(text)
        /\ SubSeq(line, a, b) = SubSeq(text, from, to)
    BY <1>2, <2>2, <2>3, StretchOfStretch
  <2>5. SubSeq(line, a, b) # <<>>
    BY <1>2, LineIsText
  <2> HIDE DEF from, to
  <2>6. SubSeq(line, a, b) \in Stretches(text)
    BY <2>4 DEF Stretches
  <2>7. QED
    BY <2>5, <2>6, LineIsStretch
<1>3. QED
  BY <1>1, <1>2

-----------------------------------------------------------------------------
(* read() *)

LEMMA PieceIsText ==
  ASSUME NEW p \in Piece
  PROVE  /\ p.text \in Seq(Symbol) /\ Len(p.text) \in Nat
         /\ p.block \in Seq(Symbol) /\ p.line \in Nat
         /\ p.meant \in {"command", "data", "submit", "leave"}
<1>1. /\ p.text = <<>> \/ p.text \in Line
      /\ p.block \in Seq(Symbol) /\ p.line \in Nat
      /\ p.meant \in {"command", "data", "submit", "leave"}
  BY DEF Piece
<1>2. CASE p.text = <<>>
  BY <1>1, <1>2
<1>3. CASE p.text \in Line
  BY <1>1, <1>3, LineIsText
<1>4. QED
  BY <1>1, <1>2, <1>3

\* A read yields what it has room for.
LEMMA GotLength ==
  ASSUME input \in Seq(Piece), input # <<>>, NEW amount \in Nat
  PROVE  /\ Head(input) \in Piece
         /\ Got(amount) \in Seq(Symbol)
         /\ Len(Got(amount)) <= amount
         /\ Len(Got(amount)) <= Len(Head(input).text)
         /\ Len(Head(input).text) > amount => Len(Got(amount)) = amount
         /\ Len(Head(input).text) <= amount => Got(amount) = Head(input).text
         /\ Got(amount) \in Line \cup {<<>>}
<1>1. Head(input) \in Piece
  OBVIOUS
<1>0. Head(input).text \in Line \cup {<<>>}
  BY <1>1 DEF Piece
<1>2. Head(input).text \in Seq(Symbol)
  BY <1>1, PieceIsText
<1> DEFINE n == Len(Head(input).text)
<1>3. n \in Nat
  BY <1>2
<1>4. Min({amount, n}) = IF n <= amount THEN n ELSE amount
  BY <1>3 DEF Min
<1>5. CASE n <= amount
  <2>1. Got(amount) = SubSeq(Head(input).text, 1, n)
    BY <1>4, <1>5 DEF Got
  <2>2. SubSeq(Head(input).text, 1, n) = Head(input).text
    BY <1>2
  <2>3. QED
    <3>1. Got(amount) = Head(input).text
      BY <2>1, <2>2
    <3>2. QED
      BY <1>0, <1>1, <1>2, <1>3, <1>5, <3>1
<1>6. CASE ~(n <= amount)
  <2>1. Got(amount) = SubSeq(Head(input).text, 1, amount)
    BY <1>4, <1>6 DEF Got
  <2>2. /\ SubSeq(Head(input).text, 1, amount) \in Seq(Symbol)
        /\ Len(SubSeq(Head(input).text, 1, amount)) = amount
    BY <1>2, <1>3, <1>6
  <2>3. Got(amount) \in Line \cup {<<>>}
    <3>1. Head(input).text \in Line /\ amount <= Len(Head(input).text)
      BY <1>0, <1>3, <1>6
    <3>2. SubSeq(Head(input).text, 1, amount) \in Line \cup {<<>>}
      BY <3>1, 1 \in Nat, 1 <= 1, StretchIsLine
    <3>3. QED
      BY <2>1, <3>2
  <2>4. QED
    BY <1>1, <1>3, <1>6, <2>1, <2>2, <2>3
<1>7. QED
  BY <1>5, <1>6

\* A read takes the first piece, or the front of it.
LEMMA ConsumeTakes ==
  ASSUME input \in Seq(Piece), input # <<>>, NEW amount \in Nat, Consume(amount)
  PROVE  /\ input' \in Seq(Piece)
         /\ Len(Head(input).text) <= amount => input' = Tail(input)
<1> DEFINE rest == SubSeq(Head(input).text, amount + 1, Len(Head(input).text))
<1>1. Head(input) \in Piece /\ Tail(input) \in Seq(Piece)
  OBVIOUS
<1>0. Head(input).text \in Line \cup {<<>>}
  BY <1>1 DEF Piece
<1>2. Head(input).text \in Seq(Symbol)
  BY <1>1, PieceIsText
<1>3. rest \in Line \cup {<<>>}
  <2>1. CASE Head(input).text = <<>>
    BY <2>1
  <2>2. CASE Head(input).text \in Line
    <3>1. /\ amount + 1 \in Nat /\ 1 <= amount + 1
          /\ Len(Head(input).text) \in Nat /\ Len(Head(input).text) <= Len(Head(input).text)
      BY <1>2
    <3>2. QED
      BY <2>2, <3>1, StretchIsLine
  <2>3. QED
    BY <1>0, <2>1, <2>2
<1>4. Len(Head(input).text) <= amount => rest = <<>>
  BY <1>2
<1>5. [Head(input) EXCEPT !.text = rest] \in Piece
  BY <1>1, <1>3 DEF Piece
<1>6. <<[Head(input) EXCEPT !.text = rest]>> \o Tail(input) \in Seq(Piece)
  BY <1>1, <1>5
<1>7. QED
  BY <1>1, <1>4, <1>6 DEF Consume

-----------------------------------------------------------------------------
(* The type invariant *)

LEMMA TypeInit == Init => CommandLineTypeOK
<1> SUFFICES ASSUME Init PROVE CommandLineTypeOK
  OBVIOUS
<1>1. <<>> \in Seq(Symbol) /\ <<>> \in Seq(Piece) /\ Len(<<>>) = 0
  OBVIOUS
<1>2. Len(data) < INPUT_DATA_BUFFER_SIZE
  BY <1>1, BufferSize DEF Init
<1>3. 0 \in 0 .. MAX_MULTI_LINE_INPUT_LINES_AMOUNT
  BY CommandLineAssumption
<1>4. QED
  BY <1>1, <1>2, <1>3 DEF Init, CommandLineTypeOK

\* A step of the user appends a piece.
LEMMA TypeUser == CommandLineTypeOK /\ User => CommandLineTypeOK'
<1> SUFFICES ASSUME CommandLineTypeOK, User PROVE CommandLineTypeOK'
  OBVIOUS
<1> USE DEF CommandLineTypeOK
<1>1. ASSUME NEW text \in Line \cup {<<>>}, NEW meaning \in {"command", "data", "submit", "leave"},
             Submit(text, meaning)
      PROVE  input' \in Seq(Piece) /\ UNCHANGED progVars
  <2>1. [text |-> text, meant |-> meaning, block |-> block, line |-> blockLines] \in Piece
    BY DEF Piece
  <2>2. QED
    BY <1>1, <2>1 DEF Submit
<1>2. ASSUME NEW text \in CommandText, TypeCommand(text) PROVE CommandLineTypeOK'
  <2>1. text \in Line
    BY TextIsLine
  <2>2. input' \in Seq(Piece) /\ UNCHANGED progVars
    BY <1>1, <1>2, <2>1 DEF TypeCommand
  <2>3. typing' \in {"command", "data"} /\ careful' \in BOOLEAN
    BY <1>2 DEF TypeCommand
  <2>4. QED
    BY <1>2, <2>2, <2>3 DEF TypeCommand, progVars
<1>3. ASSUME NEW text \in DataText, TypeData(text) PROVE CommandLineTypeOK'
  <2>1. text \in Seq(Symbol)
    BY CommandLineAssumption
  <2>2. input' \in Seq(Piece) /\ UNCHANGED progVars
    BY <1>1, <1>3, TextIsLine DEF TypeData
  <2>3. careful' \in BOOLEAN
    BY <1>3 DEF TypeData
  <2>4. block' \in Seq(Symbol) /\ blockLines' \in Nat
    BY <1>3, <2>1 DEF TypeData
  <2>5. QED
    BY <1>3, <2>2, <2>3, <2>4 DEF TypeData, progVars
<1>4. ASSUME PressCtrlD PROVE CommandLineTypeOK'
  <2>2. <<>> \in Seq(Symbol) /\ 0 \in Nat /\ <<>> \in Line \cup {<<>>}
    OBVIOUS
  <2> DEFINE meaning == IF typing = "data" THEN "submit" ELSE "leave"
  <2>4. meaning \in {"command", "data", "submit", "leave"} /\ Submit(<<>>, meaning)
    BY <1>4 DEF PressCtrlD
  <2>1. input' \in Seq(Piece) /\ UNCHANGED progVars
    <3> HIDE DEF meaning
    <3>1. QED
      BY <1>1, <2>2, <2>4
  <2>3. QED
    BY <1>4, <2>1, <2>2 DEF PressCtrlD, progVars
<1>5. QED
  BY <1>2, <1>3, <1>4 DEF User

\* A step of the program takes from the input, and only KeepLine fills the buffer.
LEMMA TypeProgram == CommandLineTypeOK /\ Program => CommandLineTypeOK'
<1> SUFFICES ASSUME CommandLineTypeOK, Program PROVE CommandLineTypeOK'
  OBVIOUS
<1> USE DEF CommandLineTypeOK
<1>1. COMMAND_BUFFER_SIZE \in Nat /\ LINE_READ \in Nat
  BY CommandLineAssumption DEF LINE_READ
<1>2. ReadCommand => input' \in Seq(Piece)
  BY <1>1, ConsumeTakes DEF ReadCommand
<1>3. ReadLine => input' \in Seq(Piece)
  BY <1>1, ConsumeTakes DEF ReadLine
<1>4. UNCHANGED userVars
  BY DEF Program
<1>5. CASE CommandUnreadable
  BY <1>2, <1>4, <1>5 DEF CommandUnreadable, userVars
<1>6. CASE RefuseCommand
  BY <1>2, <1>4, <1>6 DEF RefuseCommand, userVars
<1>7. CASE RunCommand
  BY <1>2, <1>4, <1>7 DEF RunCommand, userVars
<1>8. CASE Exit
  BY <1>2, <1>4, <1>8 DEF Exit, userVars
<1>9. CASE StartAppend
  <2>1. data' \in Seq(Symbol) /\ Len(data') < INPUT_DATA_BUFFER_SIZE
    BY <1>9, BufferSize DEF StartAppend
  <2>2. /\ lines' \in 0 .. MAX_MULTI_LINE_INPUT_LINES_AMOUNT
        /\ lines' < MAX_MULTI_LINE_INPUT_LINES_AMOUNT
    BY <1>9, CommandLineAssumption DEF StartAppend
  <2>3. QED
    BY <1>2, <1>4, <1>9, <2>1, <2>2 DEF StartAppend, userVars
<1>10. CASE EndBlock
  BY <1>3, <1>4, <1>10 DEF EndBlock, userVars
<1>11. CASE LineTooLong
  BY <1>3, <1>4, <1>11 DEF LineTooLong, userVars
<1>12. CASE Overflow
  BY <1>3, <1>4, <1>12 DEF Overflow, userVars
<1>13. CASE KeepLine
  <2>1. Got(LINE_READ) \in Seq(Symbol)
    BY <1>1, <1>13, GotLength DEF KeepLine, ReadLine
  <2>2. data' \in Seq(Symbol) /\ Len(data') = Len(data) + Len(Got(LINE_READ))
    BY <1>13, <2>1 DEF KeepLine
  <2>3. Len(data') < INPUT_DATA_BUFFER_SIZE
    BY <1>13, <2>1, <2>2, BufferSize DEF KeepLine
  <2>4. /\ MAX_MULTI_LINE_INPUT_LINES_AMOUNT \in Nat
        /\ lines < MAX_MULTI_LINE_INPUT_LINES_AMOUNT
        /\ lines' = lines + 1
    BY <1>13, CommandLineAssumption DEF KeepLine, ReadLine
  <2>5. /\ mode' \in {"prompt", "append", "ended"}
        /\ mode' = "append" => lines' # MAX_MULTI_LINE_INPUT_LINES_AMOUNT
    BY <1>13 DEF KeepLine
  <2>6. status' \in {"SUCCESS", "FAILURE", "REFUSED", "ATTEMPTED_TO_READ_AT_EOF",
                     "INPUT_BUFFER_OVER_FLOW", "INPUT_LINE_IS_TOO_LONG", "TOO_MANY_LINES"}
    BY <1>13 DEF KeepLine
  <2>7. /\ lines' \in 0 .. MAX_MULTI_LINE_INPUT_LINES_AMOUNT
        /\ mode' = "append" => lines' < MAX_MULTI_LINE_INPUT_LINES_AMOUNT
    BY <2>4, <2>5
  <2>8. input' \in Seq(Piece)
    BY <1>3, <1>13 DEF KeepLine
  <2>9. QED
    BY <1>4, <2>2, <2>3, <2>5, <2>6, <2>7, <2>8 DEF userVars
<1>14. QED
  BY <1>5, <1>6, <1>7, <1>8, <1>9, <1>10, <1>11, <1>12, <1>13 DEF Program

LEMMA TypeStep == CommandLineTypeOK /\ [Next]_vars => CommandLineTypeOK'
BY TypeUser, TypeProgram DEF Next, vars, progVars, userVars, CommandLineTypeOK

\* The data buffer has room for its terminator in every reachable state, and all
\* that is typed and read keeps its shape.
THEOREM TypeCorrect == Spec => []CommandLineTypeOK
BY TypeInit, TypeStep, PTL DEF Spec

-----------------------------------------------------------------------------
(* Places *)

\* The piece that is next was typed at the place where the program is.
LEMMA HeadFits ==
  ASSUME CommandLineTypeOK, Session, input # <<>>
  PROVE  Fits(Head(input), ProgramPlace)
<1>1. 1 \in DOMAIN input /\ input[1] = Head(input)
  BY DEF CommandLineTypeOK
<1>2. QED
  BY <1>1 DEF Session, Before

\* A user who is to type a command has no block half typed.
LEMMA CommandMeansNoBlock ==
  ASSUME Session, typing = "command"
  PROVE  UserPlace = AtPrompt
<1>2. CASE Len(input) + 1 = 1
  <2>1. ProgramPlace = UserPlace
    BY <1>2 DEF Session, Before
  <2>2. QED
    BY <2>1 DEF ProgramPlace, UserPlace, AtPrompt, Place
<1>3. CASE Len(input) + 1 # 1
  <2>1. After(input[Len(input) + 1 - 1]) = UserPlace
    BY <1>3 DEF Session, Before
  <2>2. QED
    BY <2>1 DEF After, UserPlace, AtPrompt, Place
<1>4. QED
  BY <1>2, <1>3

\* A block starts out within its bound.
LEMMA EmptyBlockBound ==
  BlockBound(AtPrompt) /\ BlockBound(Place("data", <<>>, 0))
<1>1. /\ 0 < MAX_MULTI_LINE_INPUT_LINES_AMOUNT
      /\ 0 * MAX_MULTI_LINE_INPUT_LINE_LENGTH = 0
  BY CommandLineAssumption
<1>2. QED
  BY <1>1 DEF BlockBound, AtPrompt, Place

\* A line within the limits keeps a block within its bound, and the bound leaves room
\* for the end of the string.
LEMMA LongerBlock ==
  ASSUME NEW start \in Seq(Symbol), NEW text \in Seq(Symbol), NEW n \in Nat,
         Len(start) <= n * MAX_MULTI_LINE_INPUT_LINE_LENGTH,
         Len(text) <= MAX_MULTI_LINE_INPUT_LINE_LENGTH,
         n + 1 < MAX_MULTI_LINE_INPUT_LINES_AMOUNT
  PROVE  /\ BlockBound(Place("data", start \o text, n + 1))
         /\ Len(start) + Len(text) <= INPUT_DATA_BUFFER_SIZE - 1
<1> DEFINE longest == MAX_MULTI_LINE_INPUT_LINE_LENGTH
<1> DEFINE most == MAX_MULTI_LINE_INPUT_LINES_AMOUNT
<1>1. longest \in Nat /\ longest > 0 /\ most \in Nat /\ n + 2 <= most
  BY CommandLineAssumption
<1> HIDE DEF longest, most
<1>2. (n + 1) * longest = n * longest + longest /\ n * longest \in Nat
  BY <1>1, OneMoreLine
<1>3. (n + 2) * longest = (n + 1) * longest + longest
  BY <1>1, OneMoreLine, n + 1 \in Nat, (n + 1) + 1 = n + 2
<1>4. (n + 2) * longest <= most * longest
  BY <1>1, FewerLines, n + 2 \in Nat
<1>5. longest * most = most * longest /\ most * longest \in Nat
  BY <1>1
<1>6. Len(start) \in Nat /\ Len(text) \in Nat /\ Len(start \o text) = Len(start) + Len(text)
  OBVIOUS
<1>7. Len(start) <= n * longest /\ Len(text) <= longest
  BY DEF longest
<1>8. Len(start) + Len(text) <= (n + 1) * longest
  BY <1>1, <1>2, <1>6, <1>7
<1>9. Len(start) + Len(text) <= INPUT_DATA_BUFFER_SIZE - 1
  <2>1. INPUT_DATA_BUFFER_SIZE = most * longest
    BY <1>5 DEF INPUT_DATA_BUFFER_SIZE, longest, most
  <2> DEFINE full == most * longest
  <2> DEFINE later == (n + 1) * longest
  <2>2. /\ full \in Nat /\ later \in Nat /\ longest \in Nat /\ longest > 0
        /\ later + longest <= full
        /\ Len(start) + Len(text) <= later
    BY <1>1, <1>2, <1>3, <1>4, <1>5, <1>8
  <2>3. INPUT_DATA_BUFFER_SIZE = full
    BY <2>1
  <2> HIDE DEF full, later
  <2>4. QED
    BY <1>6, <2>2, <2>3
<1>10. BlockBound(Place("data", start \o text, n + 1))
  BY <1>1, <1>6, <1>8 DEF BlockBound, Place, longest, most
<1>11. QED
  BY <1>9, <1>10

-----------------------------------------------------------------------------
(* The session goes on *)

\* The user types a piece where the user is.
LEMMA Typed ==
  ASSUME CommandLineTypeOK, Session, NEW p \in Piece, input' = Append(input, p),
         UNCHANGED progVars, Fits(p, UserPlace), UserPlace' = After(p)
  PROVE  Session'
<1> DEFINE n == Len(input)
<1>1. n \in Nat /\ DOMAIN input = 1 .. n
  BY DEF CommandLineTypeOK
<1>2. /\ Len(input') = n + 1 /\ DOMAIN input' = 1 .. n + 1
      /\ \A i \in 1 .. n : input'[i] = input[i]
      /\ input'[n + 1] = p
  BY DEF CommandLineTypeOK
<1>3. ProgramPlace' = ProgramPlace
  BY DEF ProgramPlace, progVars
<1> HIDE DEF n
<1>4. ASSUME NEW i \in 1 .. n + 1 PROVE Before(i)' = Before(i)
  <2>1. CASE i = 1
    BY <1>3, <2>1 DEF Before
  <2>2. CASE i # 1
    <3>1. i - 1 \in 1 .. n
      BY <1>1, <2>2
    <3>2. input'[i - 1] = input[i - 1]
      BY <1>2, <3>1
    <3>3. QED
      BY <2>2, <3>2 DEF Before, After
  <2>3. QED
    BY <2>1, <2>2
<1>5. Before(n + 1) = UserPlace
  BY DEF Session, n
<1>6. \A i \in DOMAIN input' : Fits(input'[i], Before(i)')
  <2>1. ASSUME NEW i \in 1 .. n + 1 PROVE Fits(input'[i], Before(i)')
    <3>1. CASE i \in 1 .. n
      BY <1>1, <1>2, <1>4, <3>1 DEF Session
    <3>2. CASE i = n + 1
      BY <1>2, <1>4, <1>5, <3>2
    <3>3. QED
      BY <1>1, <3>1, <3>2
  <2>2. QED
    BY <1>2, <2>1
<1>7. Before(Len(input) + 1)' = UserPlace'
  <2>1. n + 2 # 1 /\ n + 2 - 1 = n + 1 /\ Len(input') + 1 = n + 2
    BY <1>1, <1>2
  <2>2. QED
    BY <1>2, <2>1 DEF Before, After
<1>8. QED
  BY <1>6, <1>7 DEF Session, Fits

\* The program reads a piece, and goes where it leads to.
LEMMA TakenUp ==
  ASSUME CommandLineTypeOK, Session, input # <<>>, input' = Tail(input),
         UNCHANGED userVars, ProgramPlace' = After(Head(input))
  PROVE  Session'
<1>0. PICK n \in Nat : n = Len(input)
  BY DEF CommandLineTypeOK
<1>1. n \in Nat \ {0} /\ DOMAIN input = 1 .. n /\ Head(input) = input[1]
  BY <1>0 DEF CommandLineTypeOK
<1>2. /\ Len(input') = n - 1 /\ DOMAIN input' = 1 .. n - 1
      /\ \A i \in 1 .. n - 1 : input'[i] = input[i + 1]
  BY <1>0 DEF CommandLineTypeOK
<1>3. ASSUME NEW i \in 1 .. n PROVE Before(i)' = Before(i + 1)
  <2>1. i + 1 # 1 /\ i + 1 - 1 = i
    BY <1>1
  <2>2. Before(i + 1) = After(input[i])
    BY <2>1 DEF Before
  <2>3. CASE i = 1
    BY <1>1, <2>2, <2>3 DEF Before
  <2>4. CASE i # 1
    <3>1. i - 1 \in 1 .. n - 1 /\ i - 1 + 1 = i
      BY <1>1, <2>4
    <3>2. input'[i - 1] = input[i]
      BY <1>2, <3>1
    <3>3. QED
      BY <2>2, <2>4, <3>2 DEF Before, After
  <2>5. QED
    BY <2>3, <2>4
<1>4. \A i \in DOMAIN input' : Fits(input'[i], Before(i)')
  <2>1. ASSUME NEW i \in 1 .. n - 1 PROVE Fits(input'[i], Before(i)')
    <3>1. i \in 1 .. n /\ i + 1 \in 1 .. n
      BY <1>1
    <3>2. QED
      BY <1>1, <1>2, <1>3, <3>1 DEF Session
  <2>2. QED
    BY <1>2, <2>1
<1>5. Before(Len(input) + 1)' = UserPlace'
  <2>1. n \in 1 .. n /\ Len(input') + 1 = n
    BY <1>1, <1>2
  <2>2. Before(n)' = Before(n + 1)
    BY <1>3, <2>1
  <2>3. Before(n + 1) = UserPlace
    BY <1>0 DEF Session
  <2>4. UserPlace' = UserPlace
    BY DEF UserPlace, userVars
  <2>5. QED
    BY <2>1, <2>2, <2>3, <2>4 DEF Before, After
<1>6. QED
  BY <1>4, <1>5 DEF Session, Fits

-----------------------------------------------------------------------------
(* The reads of a session *)

\* The prompt reads a whole command, or the end of file.
LEMMA CommandRead ==
  ASSUME CommandLineTypeOK, Session, ReadCommand
  PROVE  /\ input # <<>> /\ input' = Tail(input)
         /\ Head(input) \in Piece
         /\ Got(COMMAND_BUFFER_SIZE) = Head(input).text
         /\ Head(input).meant \in {"command", "leave"}
         /\ FitsCommandBuffer <=> Head(input).meant = "command"
         /\ ~FitsCommandBuffer => Got(COMMAND_BUFFER_SIZE) = <<>>
<1>1. input # <<>> /\ input \in Seq(Piece) /\ mode = "prompt" /\ Consume(COMMAND_BUFFER_SIZE)
  BY DEF ReadCommand, CommandLineTypeOK
<1>2. Head(input) \in Piece
  BY <1>1
<1>3. Head(input).text \in Seq(Symbol)
      /\ Head(input).meant \in {"command", "data", "submit", "leave"}
  BY <1>2, PieceIsText
<1>4. Fits(Head(input), AtPrompt)
  BY <1>1, HeadFits DEF ProgramPlace
<1>5. Head(input).meant \in {"command", "leave"}
  BY <1>3, <1>4 DEF Fits, AtPrompt, Place
<1>6. COMMAND_BUFFER_SIZE \in Nat /\ COMMAND_BUFFER_SIZE > 0
  BY CommandLineAssumption
<1>7. /\ Head(input).meant = "command" =>
           Len(Head(input).text) \in 1 .. COMMAND_BUFFER_SIZE - 1
      /\ Head(input).meant = "leave" => Head(input).text = <<>>
  BY <1>4 DEF Fits
<1>8. Len(Head(input).text) <= COMMAND_BUFFER_SIZE
  BY <1>3, <1>5, <1>6, <1>7
<1>9. Got(COMMAND_BUFFER_SIZE) = Head(input).text /\ input' = Tail(input)
  BY <1>1, <1>6, <1>8, GotLength, ConsumeTakes
<1>10. QED
  BY <1>1, <1>2, <1>5, <1>7, <1>9 DEF FitsCommandBuffer

\* append reads a whole line of its block, or the end of file that submits it.
LEMMA LineRead ==
  ASSUME CommandLineTypeOK, Session, ReadLine
  PROVE  /\ input # <<>> /\ input' = Tail(input)
         /\ Head(input) \in Piece
         /\ Got(LINE_READ) = Head(input).text
         /\ Head(input).meant \in {"data", "submit"}
         /\ Head(input).block = data /\ Head(input).line = lines
         /\ Head(input).meant = "data" =>
              /\ Len(Head(input).text) \in 1 .. MAX_MULTI_LINE_INPUT_LINE_LENGTH
              /\ lines + 1 < MAX_MULTI_LINE_INPUT_LINES_AMOUNT
         /\ Head(input).meant = "submit" => Head(input).text = <<>>
<1>1. input # <<>> /\ input \in Seq(Piece) /\ mode = "append" /\ Consume(LINE_READ)
  BY DEF ReadLine, CommandLineTypeOK
<1>2. Head(input) \in Piece
  BY <1>1
<1>3. Head(input).text \in Seq(Symbol)
      /\ Head(input).meant \in {"command", "data", "submit", "leave"}
  BY <1>2, PieceIsText
<1>4. Fits(Head(input), Place("data", data, lines))
  BY <1>1, HeadFits DEF ProgramPlace
<1>5. /\ Head(input).meant \in {"data", "submit"}
      /\ Head(input).block = data /\ Head(input).line = lines
  BY <1>3, <1>4 DEF Fits, Place
<1>6. LINE_READ \in Nat /\ LINE_READ = MAX_MULTI_LINE_INPUT_LINE_LENGTH + 1
      /\ MAX_MULTI_LINE_INPUT_LINE_LENGTH \in Nat
  BY CommandLineAssumption DEF LINE_READ
<1>7. /\ Head(input).meant = "data" =>
           /\ Len(Head(input).text) \in 1 .. MAX_MULTI_LINE_INPUT_LINE_LENGTH
           /\ lines + 1 < MAX_MULTI_LINE_INPUT_LINES_AMOUNT
      /\ Head(input).meant = "submit" => Head(input).text = <<>>
  BY <1>4, <1>5 DEF Fits
<1>8. Len(Head(input).text) <= LINE_READ
  BY <1>3, <1>5, <1>6, <1>7
<1>9. Got(LINE_READ) = Head(input).text /\ input' = Tail(input)
  BY <1>1, <1>6, <1>8, GotLength, ConsumeTakes
<1>10. QED
  BY <1>1, <1>2, <1>5, <1>7, <1>9

-----------------------------------------------------------------------------
(* The session is kept *)

LEMMA SessionInit == Init => SessionInv
<1> SUFFICES ASSUME Init PROVE SessionInv
  OBVIOUS
<1>1. mode = "prompt" /\ input = <<>> /\ UserPlace = AtPrompt /\ ProgramPlace = AtPrompt
  BY DEF Init, UserPlace, ProgramPlace, AtPrompt
<1>2. Session
  <2>1. DOMAIN input = {} /\ Len(input) + 1 = 1
    BY <1>1
  <2>2. QED
    BY <1>1, <2>1 DEF Session, Before
<1>3. QED
  BY <1>1, <1>2, EmptyBlockBound DEF SessionInv

LEMMA SessionUser == CommandLineTypeOK /\ SessionInv /\ User => SessionInv'
<1> SUFFICES ASSUME CommandLineTypeOK, SessionInv, User, careful' PROVE SessionInv'
  BY DEF SessionInv
<1>1. careful /\ mode # "ended" /\ UNCHANGED progVars
  BY DEF User, TypeCommand, TypeData, PressCtrlD, Submit
<1>2. Session /\ BlockBound(ProgramPlace) /\ BlockBound(UserPlace)
  BY <1>1 DEF SessionInv
<1>3. block \in Seq(Symbol) /\ blockLines \in Nat /\ typing \in {"command", "data"}
  BY DEF CommandLineTypeOK
<1>4. mode' # "ended" /\ ProgramPlace' = ProgramPlace
  BY <1>1 DEF progVars, ProgramPlace
<1>5. SUFFICES Session' /\ BlockBound(UserPlace')
  BY <1>2, <1>4 DEF SessionInv, BlockBound
<1>6. ASSUME NEW text \in CommandText, TypeCommand(text)
      PROVE  Session' /\ BlockBound(UserPlace')
  <2> DEFINE p == [text |-> text, meant |-> "command", block |-> block, line |-> blockLines]
  <2>1. text \in Seq(Symbol) /\ text # <<>>
    BY CommandLineAssumption
  <2>2. p \in Piece
    BY <1>3, TextIsLine DEF Piece
  <2>3. input' = Append(input, p) /\ typing = "command" /\ UNCHANGED <<block, blockLines>>
        /\ typing' = (IF StartsBlock(text) THEN "data" ELSE "command")
        /\ Len(text) < COMMAND_BUFFER_SIZE
    BY <1>6 DEF TypeCommand, Submit
  <2>4. block = <<>> /\ blockLines = 0
    BY <1>2, <2>3, CommandMeansNoBlock DEF UserPlace, AtPrompt, Place
  <2>5. Len(text) \in 1 .. COMMAND_BUFFER_SIZE - 1
    BY <2>1, <2>3, CommandLineAssumption
  <2>6. Fits(p, UserPlace)
    BY <2>3, <2>5 DEF Fits, UserPlace
  <2>7. UserPlace' = After(p)
    BY <2>3, <2>4 DEF UserPlace, After, AtPrompt
  <2>8. BlockBound(UserPlace')
    BY <2>3, <2>4, EmptyBlockBound DEF UserPlace, AtPrompt
  <2> HIDE DEF p
  <2>9. QED
    BY <1>1, <1>2, <2>2, <2>3, <2>6, <2>7, <2>8, Typed
<1>7. ASSUME NEW text \in DataText, TypeData(text)
      PROVE  Session' /\ BlockBound(UserPlace')
  <2> DEFINE p == [text |-> text, meant |-> "data", block |-> block, line |-> blockLines]
  <2>1. text \in Seq(Symbol) /\ text # <<>>
    BY CommandLineAssumption
  <2>2. p \in Piece
    BY <1>3, TextIsLine DEF Piece
  <2>3. /\ input' = Append(input, p) /\ typing = "data" /\ typing' = "data"
        /\ block' = block \o text /\ blockLines' = blockLines + 1
        /\ Len(text) <= MAX_MULTI_LINE_INPUT_LINE_LENGTH
        /\ blockLines + 1 < MAX_MULTI_LINE_INPUT_LINES_AMOUNT
    BY <1>7 DEF TypeData, Submit
  <2>4. Len(text) \in 1 .. MAX_MULTI_LINE_INPUT_LINE_LENGTH
    BY <2>1, <2>3, CommandLineAssumption
  <2>5. Fits(p, UserPlace)
    BY <2>3, <2>4 DEF Fits, UserPlace
  <2>6. UserPlace' = After(p)
    BY <2>3 DEF UserPlace, After
  <2>7. BlockBound(UserPlace')
    <3>1. Len(block) <= blockLines * MAX_MULTI_LINE_INPUT_LINE_LENGTH
      BY <1>2 DEF BlockBound, UserPlace, Place
    <3>2. BlockBound(Place("data", block \o text, blockLines + 1))
      BY <1>3, <2>1, <2>3, <3>1, LongerBlock
    <3>3. QED
      BY <2>3, <3>2 DEF UserPlace
  <2> HIDE DEF p
  <2>8. QED
    BY <1>1, <1>2, <2>2, <2>3, <2>5, <2>6, <2>7, Typed
<1>8. ASSUME PressCtrlD PROVE Session' /\ BlockBound(UserPlace')
  <2> DEFINE p == [text |-> <<>>, meant |-> IF typing = "data" THEN "submit" ELSE "leave",
                   block |-> block, line |-> blockLines]
  <2>1. p \in Piece
    BY <1>3 DEF Piece
  <2>2. /\ input' = Append(input, p) /\ typing' = "command"
        /\ block' = <<>> /\ blockLines' = 0
    BY <1>8 DEF PressCtrlD, Submit
  <2>3. Fits(p, UserPlace)
    BY <1>3 DEF Fits, UserPlace
  <2>4. UserPlace' = After(p)
    BY <2>2 DEF UserPlace, After, AtPrompt
  <2>5. BlockBound(UserPlace')
    BY <2>2, EmptyBlockBound DEF UserPlace, AtPrompt
  <2> HIDE DEF p
  <2>6. QED
    BY <1>1, <1>2, <2>1, <2>2, <2>3, <2>4, <2>5, Typed
<1>9. QED
  BY <1>6, <1>7, <1>8 DEF User

LEMMA SessionProgram == CommandLineTypeOK /\ SessionInv /\ Program => SessionInv'
<1> SUFFICES ASSUME CommandLineTypeOK, SessionInv, Program, careful' PROVE SessionInv'
  BY DEF SessionInv
<1>1. UNCHANGED userVars /\ careful
  BY DEF Program, userVars
<1>2. mode # "ended"
  BY DEF Program, CommandUnreadable, RefuseCommand, RunCommand, Exit, StartAppend,
         EndBlock, LineTooLong, Overflow, KeepLine, ReadCommand, ReadLine
<1>3. Session /\ BlockBound(ProgramPlace) /\ BlockBound(UserPlace')
  <2>1. UserPlace' = UserPlace
    BY <1>1 DEF userVars, UserPlace
  <2>2. QED
    BY <1>1, <1>2, <2>1 DEF SessionInv
\* The step took the first piece and went where it leads to.
<1>4. ASSUME input # <<>>, input' = Tail(input), ProgramPlace' = After(Head(input)),
             BlockBound(ProgramPlace'), mode' # "ended"
      PROVE  SessionInv'
  <2>1. Session'
    BY <1>1, <1>3, <1>4, TakenUp
  <2>2. QED
    BY <1>3, <1>4, <2>1 DEF SessionInv, BlockBound
<1>5. CASE CommandUnreadable
  <2>1. Got(COMMAND_BUFFER_SIZE) = <<>>
    BY <1>3, <1>5, CommandRead DEF CommandUnreadable
  <2>2. mode' = "ended" /\ status' = "ATTEMPTED_TO_READ_AT_EOF"
    BY <1>5, <2>1 DEF CommandUnreadable
  <2>3. QED
    BY <2>2 DEF SessionInv
<1>6. CASE RefuseCommand
  <2>1. ReadCommand /\ FitsCommandBuffer /\ ~Runs(Command) /\ UNCHANGED <<mode, lines, data>>
    BY <1>6 DEF RefuseCommand
  <2>2. /\ input # <<>> /\ input' = Tail(input) /\ Got(COMMAND_BUFFER_SIZE) = Head(input).text
        /\ Head(input).meant = "command" /\ mode = "prompt"
    BY <1>3, <2>1, CommandRead DEF ReadCommand
  <2>3. ~StartsBlock(Head(input).text)
    BY <2>1, <2>2 DEF StartsBlock, Command
  <2>4. After(Head(input)) = AtPrompt /\ ProgramPlace' = AtPrompt
    BY <2>1, <2>2, <2>3 DEF After, ProgramPlace
  <2>5. QED
    BY <1>4, <2>1, <2>2, <2>4, EmptyBlockBound
<1>7. CASE RunCommand
  <2>1. /\ ReadCommand /\ FitsCommandBuffer /\ UNCHANGED <<mode, lines, data>>
        /\ Function(Command) # "append"
    BY <1>7 DEF RunCommand
  <2>2. /\ input # <<>> /\ input' = Tail(input) /\ Got(COMMAND_BUFFER_SIZE) = Head(input).text
        /\ Head(input).meant = "command" /\ mode = "prompt"
    BY <1>3, <2>1, CommandRead DEF ReadCommand
  <2>3. ~StartsBlock(Head(input).text)
    BY <2>1, <2>2 DEF StartsBlock, Command
  <2>4. After(Head(input)) = AtPrompt /\ ProgramPlace' = AtPrompt
    BY <2>1, <2>2, <2>3 DEF After, ProgramPlace
  <2>5. QED
    BY <1>4, <2>1, <2>2, <2>4, EmptyBlockBound
<1>8. CASE Exit
  BY <1>8 DEF Exit, SessionInv
<1>9. CASE StartAppend
  <2>1. /\ ReadCommand /\ FitsCommandBuffer /\ Runs(Command) /\ Function(Command) = "append"
        /\ mode' = "append" /\ lines' = 0 /\ data' = <<>>
    BY <1>9 DEF StartAppend
  <2>2. /\ input # <<>> /\ input' = Tail(input) /\ Got(COMMAND_BUFFER_SIZE) = Head(input).text
        /\ Head(input).meant = "command"
    BY <1>3, <2>1, CommandRead
  <2>3. StartsBlock(Head(input).text)
    BY <2>1, <2>2 DEF StartsBlock, Command
  <2>4. After(Head(input)) = Place("data", <<>>, 0) /\ ProgramPlace' = Place("data", <<>>, 0)
    BY <2>1, <2>2, <2>3 DEF After, ProgramPlace
  <2>5. QED
    BY <1>4, <2>1, <2>2, <2>4, EmptyBlockBound
<1>10. CASE EndBlock
  <2>1. ReadLine /\ Got(LINE_READ) = <<>> /\ mode' = "prompt"
    BY <1>10 DEF EndBlock
  <2>2. /\ input # <<>> /\ input' = Tail(input) /\ Head(input).meant = "submit"
    BY <1>3, <2>1, LineRead
  <2>3. After(Head(input)) = AtPrompt /\ ProgramPlace' = AtPrompt
    BY <2>1, <2>2 DEF After, ProgramPlace
  <2>4. QED
    BY <1>4, <2>1, <2>2, <2>3, EmptyBlockBound
<1>11. CASE LineTooLong
  <2>1. ReadLine /\ Len(Got(LINE_READ)) = MAX_MULTI_LINE_INPUT_LINE_LENGTH + 1
    BY <1>11 DEF LineTooLong, LINE_READ
  <2>2. MAX_MULTI_LINE_INPUT_LINE_LENGTH \in Nat
    BY CommandLineAssumption
  <2>3. \/ Len(Got(LINE_READ)) \in 1 .. MAX_MULTI_LINE_INPUT_LINE_LENGTH
        \/ Got(LINE_READ) = <<>>
    BY <1>3, <2>1, LineRead
  <2>4. QED
    BY <2>1, <2>2, <2>3
\* A line, in the two actions that look for room for it.
<1>12. ASSUME ReadLine, Len(Got(LINE_READ)) \in 1 .. LINE_READ - 1
       PROVE  /\ input # <<>> /\ input' = Tail(input)
              /\ Head(input).meant = "data"
              /\ Got(LINE_READ) = Head(input).text
              /\ Head(input).block = data /\ Head(input).line = lines
              /\ lines + 1 < MAX_MULTI_LINE_INPUT_LINES_AMOUNT
              /\ BlockBound(Place("data", data \o Got(LINE_READ), lines + 1))
              /\ Len(data) + Len(Got(LINE_READ)) <= INPUT_DATA_BUFFER_SIZE - 1
  <2>1. Got(LINE_READ) # <<>>
    BY <1>12
  <2>2. /\ input # <<>> /\ input' = Tail(input)
        /\ Head(input) \in Piece
        /\ Head(input).meant = "data"
        /\ Got(LINE_READ) = Head(input).text
        /\ Head(input).block = data /\ Head(input).line = lines
        /\ Len(Head(input).text) <= MAX_MULTI_LINE_INPUT_LINE_LENGTH
        /\ lines + 1 < MAX_MULTI_LINE_INPUT_LINES_AMOUNT
    BY <1>3, <1>12, <2>1, LineRead
  <2>3. data \in Seq(Symbol) /\ lines \in Nat /\ Got(LINE_READ) \in Seq(Symbol)
    BY <2>2, PieceIsText DEF CommandLineTypeOK
  <2>4. Len(data) <= lines * MAX_MULTI_LINE_INPUT_LINE_LENGTH
    BY <1>3, <1>12 DEF ReadLine, BlockBound, ProgramPlace, Place
  <2>5. QED
    BY <2>2, <2>3, <2>4, LongerBlock
<1>13. CASE Overflow
  <2>1. /\ ReadLine /\ Len(Got(LINE_READ)) \in 1 .. LINE_READ - 1
        /\ Len(data) + Len(Got(LINE_READ)) > INPUT_DATA_BUFFER_SIZE - 1
    BY <1>13 DEF Overflow
  <2>2. /\ Len(data) + Len(Got(LINE_READ)) \in Nat
        /\ Len(data) + Len(Got(LINE_READ)) <= INPUT_DATA_BUFFER_SIZE - 1
    BY <1>12, <2>1 DEF CommandLineTypeOK
  <2>3. QED
    BY <2>1, <2>2, BufferSize
<1>14. CASE KeepLine
  <2>1. /\ ReadLine /\ Len(Got(LINE_READ)) \in 1 .. LINE_READ - 1
        /\ data' = data \o Got(LINE_READ) /\ lines' = lines + 1
        /\ lines' # MAX_MULTI_LINE_INPUT_LINES_AMOUNT => mode' = mode
    BY <1>14 DEF KeepLine
  <2>2. mode' = "append"
    <3>1. MAX_MULTI_LINE_INPUT_LINES_AMOUNT \in Nat /\ lines \in Nat
      BY CommandLineAssumption DEF CommandLineTypeOK
    <3>2. lines' # MAX_MULTI_LINE_INPUT_LINES_AMOUNT
      BY <1>12, <2>1, <3>1
    <3>3. QED
      BY <2>1, <3>2 DEF ReadLine
  <2>3. /\ ProgramPlace' = Place("data", data \o Got(LINE_READ), lines + 1)
        /\ After(Head(input)) = Place("data", data \o Got(LINE_READ), lines + 1)
    BY <1>12, <2>1, <2>2 DEF ProgramPlace, After
  <2>4. QED
    BY <1>4, <1>12, <2>1, <2>2, <2>3
<1>15. QED
  BY <1>5, <1>6, <1>7, <1>8, <1>9, <1>10, <1>11, <1>13, <1>14 DEF Program

LEMMA SessionStep ==
  CommandLineTypeOK /\ SessionInv /\ [Next]_vars => SessionInv'
<1>1. CommandLineTypeOK /\ SessionInv /\ Next => SessionInv'
  BY SessionUser, SessionProgram DEF Next
<1>2. SessionInv /\ UNCHANGED vars => SessionInv'
  BY DEF vars, progVars, userVars, SessionInv, Session, Before, After, Fits, ProgramPlace,
         UserPlace, BlockBound, Place, AtPrompt
<1>3. QED
  BY <1>1, <1>2

-----------------------------------------------------------------------------
(* The theorems *)

\* As long as the user is careful, program, input and user are in line.
THEOREM SessionInvariant == Spec => []SessionInv
<1>1. Init => CommandLineTypeOK /\ SessionInv
  BY TypeInit, SessionInit
<1>2. CommandLineTypeOK /\ SessionInv /\ [Next]_vars => (CommandLineTypeOK /\ SessionInv)'
  BY TypeStep, SessionStep
<1>3. QED
  BY <1>1, <1>2, PTL DEF Spec

\* What a careful user types is read as it was meant, however far ahead.
THEOREM AlwaysReadAsMeant == Spec => []ReadAsMeant
<1>1. CommandLineTypeOK /\ SessionInv => ReadAsMeant
  <2> SUFFICES ASSUME CommandLineTypeOK, SessionInv, careful PROVE ReadAsMeant
    BY DEF ReadAsMeant
  <2>1. mode = "ended" => status # "INPUT_BUFFER_OVER_FLOW"
    BY DEF SessionInv
  <2>2. ASSUME input # <<>>, mode # "ended"
        PROVE  mode = "append" <=> Head(input).meant \in {"data", "submit"}
    <3>1. Fits(Head(input), ProgramPlace)
      BY <2>2, HeadFits DEF SessionInv
    <3>2. QED
      BY <3>1 DEF Fits, ProgramPlace, AtPrompt, Place
  <2>3. QED
    BY <2>1, <2>2 DEF ReadAsMeant
<1>2. QED
  BY <1>1, TypeCorrect, SessionInvariant, PTL

\* What append holds of a careful user's block is what was typed of it.
THEOREM BlockAlwaysWhatWasTyped == Spec => []BlockIsWhatWasTyped
<1>1. CommandLineTypeOK /\ SessionInv => BlockIsWhatWasTyped
  <2> SUFFICES ASSUME CommandLineTypeOK, SessionInv, careful, mode = "append", input # <<>>
               PROVE  data = Head(input).block
    BY DEF BlockIsWhatWasTyped
  <2>1. Fits(Head(input), ProgramPlace)
    BY HeadFits DEF SessionInv
  <2>2. QED
    BY <2>1 DEF Fits, ProgramPlace, Place
<1>2. QED
  BY <1>1, TypeCorrect, SessionInvariant, PTL

-----------------------------------------------------------------------------
(* Help *)

\* The options and the arguments are what is behind the function.
LEMMA TokenCount ==
  ASSUME NEW tokens, Len(tokens) \in Nat, Len(tokens) > 0
  PROVE  /\ Cardinality(OptionsAt(tokens)) \in Nat
         /\ Cardinality(ArgumentsAt(tokens)) \in Nat
         /\ Len(tokens) = 1 + Cardinality(OptionsAt(tokens)) + Cardinality(ArgumentsAt(tokens))
<1> DEFINE opts == OptionsAt(tokens)
<1> DEFINE args == ArgumentsAt(tokens)
<1>1. opts \cup args = 2 .. Len(tokens) /\ opts \cap args = {}
  BY DEF OptionsAt, ArgumentsAt
<1>2. IsFiniteSet(2 .. Len(tokens)) /\ Cardinality(2 .. Len(tokens)) = Len(tokens) - 1
  BY FS_Interval
<1>3. opts \subseteq 2 .. Len(tokens) /\ args \subseteq 2 .. Len(tokens)
  BY <1>1
<1> HIDE DEF opts, args
<1>4. IsFiniteSet(opts) /\ IsFiniteSet(args)
  BY <1>2, <1>3, FS_Subset
<1>5. Cardinality(opts) \in Nat /\ Cardinality(args) \in Nat
  BY <1>4, FS_CardinalityType
<1>6. Cardinality(opts \cup args) = Cardinality(opts) + Cardinality(args) - Cardinality(opts \cap args)
  BY <1>4, FS_Union
<1>7. Cardinality(opts \cap args) = 0
  BY <1>1, FS_EmptySet
<1>8. Cardinality(opts \cup args) = Len(tokens) - 1
  BY <1>1, <1>2
<1>10. Len(tokens) = 1 + Cardinality(opts) + Cardinality(args)
  BY <1>5, <1>6, <1>7, <1>8
<1>9. QED
  BY <1>5, <1>10 DEF opts, args

\* What help shows of a function, its executor takes.
LEMMA HelpIsTaken ==
  ASSUME NEW func \in DOMAIN HelpHint
  PROVE  /\ func \in CommandFunction /\ func \in DOMAIN Takes
         /\ HelpHint[func] \subseteq Takes[func]
         /\ HelpHint[func] \subseteq 0 .. 3
         /\ func = "rmdir" => HelpHint[func] = 1 .. 1
BY DEF HelpHint, CommandFunction, Takes, NavigationTakes, EntryCommandTakes, FileIOTakes,
       QueryTakes, ExitTakes

\* A line of words is a sequence of tokens.
LEMMA WordsLength ==
  ASSUME NEW line \in Line
  PROVE  Len(Words[line]) \in Nat /\ (Words[line] # <<>> => Len(Words[line]) > 0)
<1> DEFINE text == WithoutNewline(line)
<1> DEFINE starts == {i \in DOMAIN text : text[i] # BLANK /\ (i = 1 \/ text[i - 1] = BLANK)}
<1> DEFINE ends == {i \in DOMAIN text : text[i] # BLANK /\ (i = Len(text) \/ text[i + 1] = BLANK)}
<1> DEFINE n == Cardinality(starts)
<1>1. text \in Seq(Symbol)
  BY LineIsText DEF WithoutNewline, Front
<1>2. n \in Nat
  <2>1. IsFiniteSet(1 .. Len(text))
    BY <1>1, FS_Interval
  <2>2. starts \subseteq 1 .. Len(text)
    BY <1>1
  <2> HIDE DEF starts
  <2>3. QED
    BY <2>1, <2>2, FS_Subset, FS_CardinalityType
<1>3. Words[line] = [k \in 1 .. n |-> SubSeq(text, Nth(starts, k), Nth(ends, k))]
  BY DEF Words, Tokens
<1> HIDE DEF text, starts, ends, n
<1> DEFINE token(k) == SubSeq(text, Nth(starts, k), Nth(ends, k))
<1>4. [k \in 1 .. n |-> token(k)] \in Seq({token(k) : k \in 1 .. n})
  <2> HIDE DEF token
  <2>1. QED
    BY <1>2
<1>5. Words[line] = [k \in 1 .. n |-> token(k)]
  BY <1>3
<1> DEFINE tokens == [k \in 1 .. n |-> token(k)]
<1> HIDE DEF token
<1>6. PICK S : tokens \in Seq(S)
  BY <1>4
<1> HIDE DEF tokens
<1>7. Len(tokens) \in Nat /\ (tokens # <<>> => Len(tokens) > 0)
  BY <1>6
<1>8. QED
  BY <1>5, <1>7 DEF tokens

\* A line that help shows passes every check behind it.
LEMMA HelpPasses ==
  ASSUME NEW line \in Line, InHelp(Words[line])
  PROVE  Runs(Words[line])
<1> DEFINE tokens == Words[line]
<1> DEFINE func == Function(tokens)
<1> DEFINE amount == Cardinality(ArgumentsAt(tokens))
<1> DEFINE opts == Cardinality(OptionsAt(tokens))
<1>1. Len(tokens) \in Nat /\ (tokens # <<>> => Len(tokens) > 0)
  BY WordsLength
<1> HIDE DEF tokens
<1>2. /\ tokens # <<>> /\ Len(Head(tokens)) = 1 /\ func \in DOMAIN HelpHint
      /\ amount \in HelpHint[func] /\ opts <= 1
      /\ \A i \in OptionsAt(tokens) : func = "rmdir" /\ tokens[i] = <<OPTION_PREFIX, "r">>
      /\ func = "read" => IsNumber(Argument(tokens, 2)) /\ IsNumber(Argument(tokens, 3))
      /\ func = "trunc" => IsNumber(Argument(tokens, 2))
  BY DEF InHelp, tokens
<1>3. /\ amount \in Nat /\ opts \in Nat
      /\ Len(tokens) = 1 + opts + amount
  BY <1>1, <1>2, TokenCount
<1>4. /\ func \in CommandFunction /\ func \in DOMAIN Takes
      /\ HelpHint[func] \subseteq Takes[func] /\ HelpHint[func] \subseteq 0 .. 3
  BY <1>2, HelpIsTaken
<1>5. amount \in Takes[func] /\ amount <= MAX_CMD_ARGUMENT_AMOUNT
  BY <1>2, <1>4 DEF MAX_CMD_ARGUMENT_AMOUNT
<1>6. Len(tokens) \in 1 .. MAX_TOKENS_AMOUNT /\ opts <= MAX_CMD_OPTION_AMOUNT
  BY <1>2, <1>3, <1>5
     DEF MAX_TOKENS_AMOUNT, MAX_CMD_ARGUMENT_AMOUNT, MAX_CMD_OPTION_AMOUNT
<1>7. ASSUME NEW i \in OptionsAt(tokens)
      PROVE  Len(tokens[i]) = 2 /\ TakesOption(func, tokens[i])
  <2>1. func = "rmdir" /\ tokens[i] = <<OPTION_PREFIX, "r">>
    BY <1>2
  <2>2. Len(<<OPTION_PREFIX, "r">>) = 2 /\ <<OPTION_PREFIX, "r">>[2] = "r"
    OBVIOUS
  <2> HIDE DEF func
  <2>3. QED
    BY <2>1, <2>2 DEF TakesOption
<1>8. Parses(tokens)
  BY <1>2, <1>4, <1>5, <1>6, <1>7 DEF Parses
<1>9. Runs(tokens)
  BY <1>2, <1>4, <1>5, <1>7, <1>8 DEF Runs
<1>10. QED
  BY <1>9 DEF tokens

\* No line of those help shows is refused, with any buffer, lines and history.
THEOREM HelpAlwaysTrue == Spec => HelpIsTrue
<1>1. ASSUME CommandLineTypeOK, Next, mode = "prompt", Len(input') < Len(input),
             FitsCommandBuffer, InHelp(Command), status' = "REFUSED"
      PROVE  FALSE
  <2>1. input \in Seq(Piece) /\ COMMAND_BUFFER_SIZE \in Nat
    BY <1>1, CommandLineAssumption DEF CommandLineTypeOK
  <2>2. ~User
    <3>1. ASSUME NEW p, input' = Append(input, p) PROVE FALSE
      BY <1>1, <2>1, <3>1
    <3>2. QED
      BY <3>1 DEF User, TypeCommand, TypeData, PressCtrlD, Submit
  <2>3. RefuseCommand
    BY <1>1, <2>2 DEF Next, Program, CommandUnreadable, RunCommand, Exit, StartAppend,
         EndBlock, LineTooLong, Overflow, KeepLine, ReadLine
  <2>4. input # <<>> /\ ~Runs(Command)
    BY <2>3 DEF RefuseCommand, ReadCommand
  <2>5. Got(COMMAND_BUFFER_SIZE) \in Line
    <3>1. Got(COMMAND_BUFFER_SIZE) # <<>>
      BY <1>1, <2>1 DEF FitsCommandBuffer
    <3>2. QED
      BY <2>1, <2>4, <3>1, GotLength
  <2>6. QED
    BY <1>1, <2>4, <2>5, HelpPasses DEF Command
<1>2. CommandLineTypeOK /\ [Next]_vars =>
        [mode = "prompt" /\ Len(input') < Len(input) /\ FitsCommandBuffer /\ InHelp(Command)
           => status' # "REFUSED"]_vars
  BY <1>1
<1>3. QED
  BY <1>2, TypeCorrect, PTL DEF Spec, HelpIsTrue
=============================================================================
