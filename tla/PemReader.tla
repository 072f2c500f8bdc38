----------------------------- MODULE PemReader ------------------------------
(***************************************************************************)
(* der::PemReader (der/src/reader/pem.rs), the reader every from_pem goes  *)
(* through, driven by an arbitrary decoder as in SliceReader.              *)
(*                                                                         *)
(* It shares the position tracker with the slice reader and takes its      *)
(* octets from the Base64 decoder, which is here what ByteSource promises  *)
(* (Base64Decoder implements it): the next octets of the data, or an error *)
(* when the text is not sound; after an error, anything.                   *)
(***************************************************************************)
EXTENDS Position, Sequences

CONSTANTS
  InputLen,    \* octets of the PEM document, as its decoder announces them
  DrainBuffer  \* BUFFER_SIZE of Reader::drain (16)

ASSUME PemReaderAssumption ==
  /\ InputLen \in Lengths
  /\ DrainBuffer \in Nat \ {0}

VARIABLES
  sound,     \* is the encapsulated text well-formed to its end?
  served,    \* octets the Base64 decoder has handed out before any error
  broken,    \* has the Base64 decoder returned an error?
  position,  \* the position tracker
  frames,    \* the resumptions of the read_nested calls being executed
  result     \* what the last call to return returned; "Finished" ends it all

decoder == <<sound, served, broken>>
vars == <<sound, served, broken, position, frames, result>>

Errors == (PositionErrors \ {"None"}) \union {"Reader", "Pem", "Value"}
Results == {"Ok", "Finished", "Rejected"} \union Errors

(* finish takes the reader by value: nothing can be called after it.       *)
InUse == result \notin {"Finished", "Rejected"}

(* Reader::is_finished.  Faulty: one octet may be left.                    *)
is_finished_off_by_one == remaining_len(position) <= 1

is_finished == remaining_len(position) = 0

-----------------------------------------------------------------------------
(* PemReader::new, when the document has boundaries and a length.          *)
Init ==
  /\ sound \in BOOLEAN
  /\ served = 0
  /\ broken = FALSE
  /\ position = new(InputLen)
  /\ frames = <<>>
  /\ result = "Ok"

-----------------------------------------------------------------------------
(* The Base64 decoder hands out n octets, or refuses a text that is not    *)
(* sound; once it failed it may do either.                                 *)
Served(n) ==
  /\ served' = IF broken THEN served ELSE served + n
  /\ UNCHANGED <<sound, broken>>

Refused(n) ==
  /\ n > 0
  /\ broken \/ ~sound
  /\ broken' = TRUE
  /\ UNCHANGED <<sound, served>>

(* read_into: the tracker has moved on when the decoder fails.             *)
ReadInto(len) ==
  /\ InUse
  /\ position' = advance(position, len)
  /\ \/ /\ AdvanceError(position, len) # "None"
        /\ result' = AdvanceError(position, len)
        /\ UNCHANGED decoder
     \/ /\ AdvanceError(position, len) = "None"
        /\ \/ Served(len) /\ result' = "Ok"
           \/ Refused(len) /\ result' = "Pem"
  /\ UNCHANGED frames

(* read_slice cannot borrow; the tracker makes the error and does not fail.*)
ReadSlice ==
  /\ InUse
  /\ result' = "Reader"
  /\ UNCHANGED <<sound, served, broken, position, frames>>

(* drain calls read_into for DrainBuffer octets at a time.  It ends at the *)
(* amount, at the first piece the tracker has no room for, or at a piece   *)
(* the decoder refuses.  Faulty: a part of a buffer counts as a whole one. *)
WholeBuffers_up(n) == ((n + DrainBuffer - 1) \div DrainBuffer) * DrainBuffer

WholeBuffers(n) == (n \div DrainBuffer) * DrainBuffer

Piece(amount, before) ==
  IF amount - before < DrainBuffer THEN amount - before ELSE DrainBuffer

DrainAll(amount) ==
  /\ amount <= remaining_len(position)
  /\ Served(amount)
  /\ position' = advance(position, amount)
  /\ result' = "Ok"

DrainUntilTracker(amount) ==
  LET before == WholeBuffers(remaining_len(position)) IN
  /\ amount > remaining_len(position)
  /\ Served(before)
  /\ position' = advance(position, before)
  /\ result' = AdvanceError(advance(position, before), Piece(amount, before))

DrainUntilDecoder(amount) ==
  \E before \in {n \in 0 .. amount : n % DrainBuffer = 0} :
    /\ before < amount
    /\ before + Piece(amount, before) <= remaining_len(position)
    /\ broken \/ ~sound
    /\ broken' = TRUE
    /\ served' = IF broken THEN served ELSE served + before
    /\ UNCHANGED sound
    /\ position' = advance(position, before + Piece(amount, before))
    /\ result' = "Pem"

Drain(amount) ==
  /\ InUse
  /\ \/ DrainAll(amount)
     \/ DrainUntilTracker(amount)
     \/ DrainUntilDecoder(amount)
  /\ UNCHANGED frames

(* Reader::error of a decoder that rejects what it read: the reader does   *)
(* not remember it.                                                        *)
MakeError ==
  /\ InUse
  /\ result' = "Value"
  /\ UNCHANGED <<sound, served, broken, position, frames>>

-----------------------------------------------------------------------------
(* read_nested up to the call of its closure.                              *)
EnterNested(len) ==
  /\ InUse
  /\ position' = split_nested(position, len)
  /\ IF SplitError(position, len) = "None"
     THEN frames' = Append(frames, position.input_len) /\ result' = "Ok"
     ELSE UNCHANGED frames /\ result' = SplitError(position, len)
  /\ UNCHANGED decoder

(* The rest of read_nested: whatever its closure returned.                 *)
LeaveNested(ok) ==
  /\ InUse
  /\ frames # <<>>
  /\ position' = resume_nested(position, frames[Len(frames)])
  /\ frames' = SubSeq(frames, 1, Len(frames) - 1)
  /\ result' = IF ok THEN "Ok" ELSE "Value"
  /\ UNCHANGED decoder

(* finish, which from_pem does not call.                                   *)
Finish ==
  /\ InUse
  /\ frames = <<>>
  /\ result' = IF is_finished THEN "Finished" ELSE "Rejected"
  /\ UNCHANGED <<sound, served, broken, position, frames>>

-----------------------------------------------------------------------------
Next ==
  \/ \E len \in Lengths : ReadInto(len) \/ Drain(len) \/ EnterNested(len)
  \/ \E ok \in BOOLEAN : LeaveNested(ok)
  \/ ReadSlice
  \/ MakeError
  \/ Finish

Spec == Init /\ [][Next]_vars

-----------------------------------------------------------------------------
(***************************************************************************)
(* Properties.                                                             *)
(***************************************************************************)

(* The types of the reader's fields and of the saved resumptions.          *)
TypeOK ==
  /\ sound \in BOOLEAN
  /\ served \in Lengths
  /\ broken \in BOOLEAN
  /\ position \in Positions
  /\ frames \in Seq(Lengths)
  /\ result \in Results

(* The tracker stands for the text: as long as the decoder has not failed, *)
(* the position is the number of octets it handed out, through every       *)
(* nesting and every refusal, so that the length checked against a window  *)
(* is the length of what is read (read_into advances first).               *)
InStep == ~broken => position.position = served

(* The cursor is inside every value being read and inside the document,    *)
(* also when octets were left unread in a nested value (read_nested).      *)
Nested(p, ends) ==
  /\ p.position <= p.input_len
  /\ \A i \in DOMAIN ends : p.input_len <= ends[i]
  /\ \A i, j \in DOMAIN ends : i < j => ends[j] <= ends[i]
  /\ IF ends = <<>> THEN p.input_len = InputLen ELSE ends[1] = InputLen

WithinWindows == Nested(position, frames)

(* The depth counter never falls behind the nested values being read, so   *)
(* that MAX_DEPTH bounds the stack ("prevents stack exhaustion").          *)
StackIsBounded == Len(frames) <= position.depth /\ position.depth <= MaxDepth

(* Of sound text, a read of no more than what remains of the innermost     *)
(* value succeeds, whatever was refused or left unread before: the length  *)
(* announced by the Base64 decoder is the one the reader serves.           *)
ServesWhatRemains ==
  [][\A len \in Lengths :
       (ReadInto(len) \/ Drain(len)) /\ sound /\ len <= remaining_len(position)
         => result' = "Ok"]_vars

(* A reader only finishes when the whole document was read.                *)
FinishesAtTheEnd ==
  result = "Finished" /\ ~broken => served = InputLen

(* "read_nested should return Err when the callback did not consume the    *)
(* complete contents of the nested value" (a test of the slice reader).    *)
NestedReadToItsEnd ==
  [][\A ok \in BOOLEAN : LeaveNested(ok) /\ result' = "Ok" => is_finished]_vars
=============================================================================
