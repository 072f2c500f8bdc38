---------------------------- MODULE SliceReader -----------------------------
(***************************************************************************)
(* der::SliceReader (der/src/reader/slice.rs), the reader every from_der   *)
(* goes through, driven by an arbitrary decoder.                           *)
(*                                                                         *)
(* A decoder is code that calls the reader: it reads octets, drains them,  *)
(* opens nested values with read_nested and hands a closure to it, wraps   *)
(* the decoding of a value in Reader::decode, makes errors, and returns Ok *)
(* or Err from each closure, whether it propagates the errors it saw or    *)
(* not.  Only lengths matter here, so the input is an interval of octets   *)
(* and the slice `bytes`, always a prefix of it, is its length.            *)
(*                                                                         *)
(* Definitions whose comment says "Faulty" are the variants the properties *)
(* are tried against; no action uses them.                                 *)
(*                                                                         *)
(* Calls of read_nested and decode last from one action to another: what   *)
(* such a call keeps in its local variables is a frame of `frames`.        *)
(***************************************************************************)
EXTENDS Position, Sequences

CONSTANTS
  InputLen,    \* octets of input
  DrainBuffer, \* BUFFER_SIZE of Reader::drain (16)
  MaxDecodes   \* bound of the model: decode calls open at one level

ASSUME SliceReaderAssumption ==
  /\ InputLen \in Lengths
  /\ DrainBuffer \in Nat \ {0}
  /\ MaxDecodes \in Nat

VARIABLES
  bytes,     \* length of the slice the reader may look at
  failed,    \* the reader's `failed` flag
  position,  \* its position tracker
  frames,    \* locals of the read_nested calls being executed, outermost first
  decodes,   \* decode calls being executed at the innermost level
  result,    \* what the last call to return returned; "Finished" ends it all
  decodeErr  \* history: some decode call has returned an error

vars == <<bytes, failed, position, frames, decodes, result, decodeErr>>

Errors == (PositionErrors \ {"None"}) \union {"Failed", "TrailingData", "Value"}
Results == {"Ok", "Finished", "Rejected"} \union Errors

(* `bytes` and the resumption as read_nested saved them, and the decode    *)
(* calls that were open when it was called.                                *)
Frames == [bytes : Lengths, input_len : Lengths, decodes : Nat]

(* finish takes the reader by value: nothing can be called after it.       *)
InUse == result \notin {"Finished", "Rejected"}

(* Reader::is_finished.  Faulty: one octet may be left.                    *)
is_finished_off_by_one == remaining_len(position) <= 1

is_finished == remaining_len(position) = 0

-----------------------------------------------------------------------------
(* SliceReader::new.                                                       *)
Init ==
  /\ bytes = InputLen
  /\ failed = FALSE
  /\ position = new(InputLen)
  /\ frames = <<>>
  /\ decodes = 0
  /\ result = "Ok"
  /\ decodeErr = FALSE

-----------------------------------------------------------------------------
(* read_slice.  The Incomplete error is only made, and the reader only     *)
(* failed, when the expected length it reports can be computed.            *)
ReadSlice(len) ==
  /\ InUse
  /\ \/ /\ failed
        /\ result' = "Failed"
        /\ UNCHANGED <<failed, position>>
     \/ /\ ~failed
        /\ position.position + len <= bytes
        /\ position' = advance(position, len)
        /\ result' = IF AdvanceError(position, len) = "None"
                     THEN "Ok" ELSE AdvanceError(position, len)
        /\ UNCHANGED failed
     \/ /\ ~failed
        /\ position.position + len > bytes
        /\ IF AddOverflows(position.position, len)
           THEN result' = "Overflow" /\ UNCHANGED failed
           ELSE result' = "Incomplete" /\ failed' = TRUE
        /\ UNCHANGED position
  /\ UNCHANGED <<bytes, frames, decodes, decodeErr>>

(* drain reads DrainBuffer octets at a time; when it runs out, the whole   *)
(* buffers before have been consumed.                                      *)
WholeBuffers(n) == (n \div DrainBuffer) * DrainBuffer

Drain(amount) ==
  LET available == bytes - position.position
      drained == WholeBuffers(available)
      chunk == IF amount - drained < DrainBuffer
               THEN amount - drained ELSE DrainBuffer
  IN
  /\ InUse
  /\ \/ /\ failed
        /\ result' = IF amount = 0 THEN "Ok" ELSE "Failed"
        /\ UNCHANGED <<failed, position>>
     \/ /\ ~failed
        /\ amount <= available
        /\ position' = advance(position, amount)
        /\ result' = "Ok"
        /\ UNCHANGED failed
     \/ /\ ~failed
        /\ amount > available
        /\ position' = advance(position, drained)
        /\ IF AddOverflows(position.position + drained, chunk)
           THEN result' = "Overflow" /\ UNCHANGED failed
           ELSE result' = "Incomplete" /\ failed' = TRUE
  /\ UNCHANGED <<bytes, frames, decodes, decodeErr>>

(* SliceReader::error, called by a decoder that rejects what it read.      *)
MakeError ==
  /\ InUse
  /\ failed' = TRUE
  /\ result' = "Value"
  /\ UNCHANGED <<bytes, position, frames, decodes, decodeErr>>

-----------------------------------------------------------------------------
(* read_nested up to the call of its closure.  `bytes` is cut before       *)
(* split_nested is tried, and stays cut when that fails.  Faulty: nothing  *)
(* is checked.                                                             *)
EnterNested_unchecked(len) ==
  /\ InUse
  /\ bytes' = position.position + len
  /\ position' = split_nested(position, len)
  /\ result' = "Ok"
  /\ UNCHANGED <<failed, frames, decodes, decodeErr>>

EnterNested(len) ==
  /\ InUse
  /\ \/ /\ AddOverflows(position.position, len)
        /\ result' = "Overflow"
        /\ UNCHANGED <<bytes, position, frames, decodes>>
     \/ /\ ~AddOverflows(position.position, len)
        /\ position.position + len > bytes
        /\ result' = "Incomplete"
        /\ UNCHANGED <<bytes, position, frames, decodes>>
     \/ /\ ~AddOverflows(position.position, len)
        /\ position.position + len <= bytes
        /\ bytes' = position.position + len
        /\ position' = split_nested(position, len)
        /\ IF SplitError(position, len) = "None"
           THEN /\ frames' = Append(frames, [bytes |-> bytes,
                                             input_len |-> position.input_len,
                                             decodes |-> decodes])
                /\ decodes' = 0
                /\ result' = "Ok"
           ELSE /\ result' = SplitError(position, len)
                /\ UNCHANGED <<frames, decodes>>
  /\ UNCHANGED <<failed, decodeErr>>

(* The rest of read_nested, once its closure returned Ok or Err.           *)
LeaveNested(ok) ==
  /\ InUse
  /\ frames # <<>>
  /\ decodes = 0
  /\ LET frame == frames[Len(frames)] IN
       /\ bytes' = frame.bytes
       /\ position' = resume_nested(position, frame.input_len)
       /\ frames' = SubSeq(frames, 1, Len(frames) - 1)
       /\ decodes' = frame.decodes
  /\ \/ ok /\ is_finished /\ result' = "Ok" /\ UNCHANGED failed
     \/ ok /\ ~is_finished /\ result' = "TrailingData" /\ failed' = TRUE
     \/ ~ok /\ result' = "Value" /\ UNCHANGED failed
  /\ UNCHANGED decodeErr

(* Reader::decode of the slice reader: refused when the reader failed ...  *)
EnterDecode ==
  /\ InUse
  /\ \/ /\ failed
        /\ result' = "Failed"
        /\ decodeErr' = TRUE
        /\ UNCHANGED decodes
     \/ /\ ~failed
        /\ decodes < MaxDecodes
        /\ decodes' = decodes + 1
        /\ UNCHANGED <<result, decodeErr>>
  /\ UNCHANGED <<bytes, failed, position, frames>>

(* ... and the reader fails when T::decode returns an error.             *)
LeaveDecode(ok) ==
  /\ InUse
  /\ decodes > 0
  /\ decodes' = decodes - 1
  /\ \/ ok /\ result' = "Ok" /\ UNCHANGED <<failed, decodeErr>>
     \/ ~ok /\ result' = "Value" /\ failed' = TRUE /\ decodeErr' = TRUE
  /\ UNCHANGED <<bytes, position, frames>>

(* finish, once every closure and decode call has returned.  Faulty: the   *)
(* flag is not looked at.                                                  *)
Finish_unchecked ==
  /\ InUse
  /\ frames = <<>>
  /\ decodes = 0
  /\ result' = IF is_finished THEN "Finished" ELSE "Rejected"
  /\ UNCHANGED <<bytes, failed, position, frames, decodes, decodeErr>>

Finish ==
  /\ InUse
  /\ frames = <<>>
  /\ decodes = 0
  /\ result' = IF ~failed /\ is_finished THEN "Finished" ELSE "Rejected"
  /\ failed' = (failed \/ ~is_finished)
  /\ UNCHANGED <<bytes, position, frames, decodes, decodeErr>>

-----------------------------------------------------------------------------
Next ==
  \/ \E len \in Lengths :
       ReadSlice(len) \/ Drain(len) \/ EnterNested(len)
  \/ \E ok \in BOOLEAN : LeaveNested(ok) \/ LeaveDecode(ok)
  \/ MakeError
  \/ EnterDecode
  \/ Finish

Spec == Init /\ [][Next]_vars

-----------------------------------------------------------------------------
(***************************************************************************)
(* Properties.                                                             *)
(***************************************************************************)

(* Where the open windows end, outermost (the input) first.                *)
WindowsOf(saved, tracked) ==
  [i \in 1 .. Len(saved) + 1 |->
     IF i <= Len(saved) THEN saved[i].input_len ELSE tracked.input_len]

Windows == WindowsOf(frames, position)

(* The types of the reader's fields and of the saved locals.               *)
TypeOK ==
  /\ bytes \in Lengths
  /\ failed \in BOOLEAN
  /\ position \in Positions
  /\ frames \in Seq(Frames)
  /\ decodes \in Nat
  /\ result \in Results
  /\ decodeErr \in BOOLEAN

(* The cursor is inside every value being read, however deep: a nested     *)
(* decoder cannot consume octets of what follows its value, and the        *)
(* outermost window is the input (read_nested, Position::advance).         *)
InsideEveryWindow ==
  /\ Windows[1] = InputLen
  /\ \A i \in DOMAIN Windows : position.position <= Windows[i]

(* The slice and the tracker agree: what read_slice takes from the slice   *)
(* the tracker can always advance over, and split_nested never meets a     *)
(* length that read_nested's check of the slice let through.               *)
SliceWithinTracker ==
  /\ position.position <= bytes
  /\ bytes <= position.input_len
  /\ \A i \in DOMAIN frames : frames[i].bytes <= frames[i].input_len

(* The depth counter is the number of nested values being read: no path    *)
(* through read_nested leaks a level or gives one back twice.              *)
DepthIsNesting ==
  /\ position.depth = Len(frames)
  /\ position.depth <= MaxDepth

(* An error a decode call returned is final: even a decoder that drops it  *)
(* cannot bring the reader to finish successfully, as the reader failed.   *)
DecodeErrorIsFinal == decodeErr => failed /\ result # "Finished"

(* A failed reader hands out nothing more, stays failed and is not finished*)
(* successfully, whatever a decoder that drops errors goes on to call.     *)
(* Some of its calls still answer Ok: a drain of nothing, a nested value of*)
(* no octets, a decode whose closure dropped the error.                    *)
FailedReaderIsInert ==
  [][failed => /\ failed'
               /\ position'.position = position.position
               /\ result' # "Finished"]_vars

(* The reader implements the promise of the Reader trait.                  *)
Promise ==
  INSTANCE NestedReader WITH
    Size <- InputLen,
    MaxNesting <- MaxDepth,
    cursor <- position.position,
    ends <- Windows,
    poisoned <- failed,
    outcome <- CASE result = "Ok" -> "ok"
                 [] result = "Finished" -> "finished"
                 [] OTHER -> "err"

(* Every nested value is read to its very end before read_nested returns   *)
(* Ok, windows nest, and closing one restores the one around it.           *)
ImplementsNestedReader == Promise!Spec

=============================================================================
