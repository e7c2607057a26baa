----------------------------- MODULE FileContent -----------------------------
(***************************************************************************)
(* What the file operations promise, with no storage in sight: a file is a *)
(* sequence of bytes in whole chunks. An append adds its data, padded with *)
(* EOC_OPERATOR to whole chunks, or adds nothing. A truncation removes     *)
(* whole chunks and blanks the rest of what it was asked for inside the    *)
(* last chunk that stays (the TRUNC help text: it removes storage bytes,   *)
(* not logical bytes). Clearing always empties the file. A refused call    *)
(* changes nothing, and no call touches a file it was not given.           *)
(*                                                                         *)
(* A call that is not refused does all it does in its first step and then  *)
(* has only to return; until then it is the value of running.              *)
(***************************************************************************)
EXTENDS Integers, Sequences

CONSTANTS File, Data, Amount, CHUNK_SIZE, EOC_OPERATOR

VARIABLES
  content,  \* the bytes of each file
  running,  \* the call that has taken effect and not returned yet
  status    \* how the last call ended

vars == <<content, running, status>>

-----------------------------------------------------------------------------
\* The chunks that n bytes need.
ChunksFor(n) == (n + CHUNK_SIZE - 1) \div CHUNK_SIZE

Padded(data) ==
  [b \in 1 .. ChunksFor(Len(data)) * CHUNK_SIZE |->
     IF b <= Len(data) THEN data[b] ELSE EOC_OPERATOR]

\* The bytes left by a truncation by amount: whole chunks go, and what is
\* left of amount is blanked.
Truncated(bytes, amount) ==
  [b \in 1 .. Len(bytes) - (amount \div CHUNK_SIZE) * CHUNK_SIZE |->
     IF b <= Len(bytes) - amount THEN bytes[b] ELSE EOC_OPERATOR]

-----------------------------------------------------------------------------
NoCall == [op |-> "idle"]

Init ==
  /\ content = [f \in File |-> <<>>]
  /\ running = NoCall
  /\ status = "SUCCESS"

Perform(request, f, bytes) ==
  /\ running = NoCall
  /\ running' = request
  /\ content' = [content EXCEPT ![f] = bytes]
  /\ UNCHANGED status

Refuse(reason) ==
  /\ running = NoCall
  /\ status' = reason
  /\ UNCHANGED <<content, running>>

AppendData(f, data) ==
  \/ /\ data # <<>>
     /\ Perform([op |-> "append", file |-> f, data |-> data], f, content[f] \o Padded(data))
  \/ data = <<>> /\ Refuse("INVALID_OPERATION")
  \/ /\ data # <<>>
     /\ \/ Refuse("DATA_OVER_FLOW")
        \/ Refuse("NO_SPACE")
        \/ Refuse("FILE_CHUNK_EXTENT_LIMIT_EXCEEDED")

Truncate(f, amount) ==
  \/ /\ content[f] # <<>>
     /\ amount <= Len(content[f])
     /\ Perform([op |-> "truncate", file |-> f, amount |-> amount],
                f, Truncated(content[f], amount))
  \/ amount > Len(content[f]) /\ Refuse("INDEX_OUT_OF_BOUNDS")
  \/ amount = 0 /\ content[f] = <<>> /\ Refuse("FILE_IS_EMPTY")

DeleteData(f) == Perform([op |-> "delete", file |-> f], f, <<>>)

Finish ==
  /\ running # NoCall
  /\ running' = NoCall
  /\ status' = "SUCCESS"
  /\ UNCHANGED content

Next ==
  \/ \E f \in File :
       \/ \E data \in Data : AppendData(f, data)
       \/ \E amount \in Amount : Truncate(f, amount)
       \/ DeleteData(f)
  \/ Finish

Spec == Init /\ [][Next]_vars
=============================================================================
