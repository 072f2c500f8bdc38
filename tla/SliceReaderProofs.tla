------------------------- MODULE SliceReaderProofs --------------------------
(***************************************************************************)
(* Proofs about SliceReader, for every input length, every nesting limit   *)
(* and every decoder.                                                      *)
(***************************************************************************)
EXTENDS SliceReader, SequenceTheorems, TLAPS

(* Every saved window contains the ones opened inside it, pairwise: what   *)
(* read_nested restores when it returns is never smaller than the window   *)
(* it leaves, so the cursor that moved in the inner one is inside it.      *)
FramesNest ==
  /\ \A i \in DOMAIN frames : position.input_len <= frames[i].bytes
  /\ \A i, j \in DOMAIN frames : i < j => frames[j].input_len <= frames[i].bytes

(* The outermost window is the input.                                      *)
OutermostIsInput ==
  IF frames = <<>> THEN position.input_len = InputLen
                   ELSE frames[1].input_len = InputLen

(* The inductive invariant.                                                *)
IInv ==
  /\ TypeOK
  /\ SliceWithinTracker
  /\ FramesNest
  /\ OutermostIsInput
  /\ DepthIsNesting
  /\ DecodeErrorIsFinal

USE PositionAssumption, SliceReaderAssumption
    DEF PositionAssumption, SliceReaderAssumption

-----------------------------------------------------------------------------
LEMMA WholeBuffersWithin ==
  ASSUME NEW n \in Nat
  PROVE  WholeBuffers(n) \in 0 .. n
  BY DEF WholeBuffers

(* The lengths the invariant compares are numbers.                         *)
LEMMA LengthsAreNumbers ==
  ASSUME TypeOK
  PROVE  /\ \A i \in DOMAIN frames :
              /\ frames[i] \in Frames
              /\ frames[i].bytes \in Nat
              /\ frames[i].input_len \in Nat
         /\ bytes \in Nat
         /\ position.input_len \in Nat
         /\ position.position \in Nat
<1>1. ASSUME NEW i \in DOMAIN frames
      PROVE  /\ frames[i] \in Frames
             /\ frames[i].bytes \in Nat
             /\ frames[i].input_len \in Nat
  <2>1. frames[i] \in Frames
    BY DEF TypeOK
  <2> QED
    BY <2>1 DEF Frames, Lengths
<1> QED
  BY <1>1 DEF TypeOK, Positions, Lengths

-----------------------------------------------------------------------------
LEMMA InitIInv == Init => IInv
<1> SUFFICES ASSUME Init PROVE IInv
  OBVIOUS
<1> USE DEF Init
<1>1. /\ position \in Positions
      /\ position.input_len = InputLen
      /\ position.position = 0
      /\ position.depth = 0
  BY DEF new, tracker, Positions, Lengths
<1>2. bytes \in Lengths /\ decodes \in Nat /\ result \in Results
  BY DEF Results, Lengths
<1>3. frames \in Seq(Frames)
  OBVIOUS
<1>6. failed \in BOOLEAN /\ decodeErr \in BOOLEAN
  OBVIOUS
<1>4. SliceWithinTracker /\ OutermostIsInput /\ DepthIsNesting
  BY <1>1 DEF SliceWithinTracker, OutermostIsInput, DepthIsNesting, Lengths
<1>5. FramesNest
  BY DEF FramesNest
<1> QED
  BY <1>1, <1>2, <1>3, <1>4, <1>5, <1>6 DEF IInv, TypeOK, DecodeErrorIsFinal

(* The calls that leave `frames` and the windows alone and only move the   *)
(* cursor inside `bytes`.                                                  *)
LEMMA CursorMoves ==
  ASSUME IInv,
         UNCHANGED <<bytes, frames>>,
         position' \in Positions,
         position'.position <= bytes,
         position'.input_len = position.input_len,
         position'.depth = position.depth,
         failed' \in BOOLEAN, decodes' \in Nat, decodeErr' \in BOOLEAN,
         result' \in Results,
         decodeErr' => failed' /\ result' # "Finished"
  PROVE  IInv'
  BY DEF IInv, TypeOK, SliceWithinTracker, FramesNest, OutermostIsInput,
         DepthIsNesting, DecodeErrorIsFinal

LEMMA ReadSliceIInv ==
  ASSUME IInv, NEW len \in Lengths, ReadSlice(len)
  PROVE  IInv'
<1> USE DEF IInv, TypeOK
<1>1. CASE failed
  BY <1>1, CursorMoves DEF ReadSlice, Results, Errors, SliceWithinTracker,
     DecodeErrorIsFinal, InUse
<1>2. CASE ~failed /\ position.position + len <= bytes
  <2>1. position.position + len <= position.input_len
    BY <1>2 DEF SliceWithinTracker, Positions, Lengths
  <2> QED
    BY <1>2, <2>1, AdvanceWithin, CursorMoves
       DEF ReadSlice, Results, DecodeErrorIsFinal, Lengths, Positions
<1>3. CASE ~failed /\ position.position + len > bytes
  <2>1. /\ UNCHANGED <<bytes, position, frames, decodes, decodeErr>>
        /\ result' \in {"Overflow", "Incomplete"}
        /\ failed' \in BOOLEAN
    <3>1. ~(position.position + len <= bytes)
      BY <1>3 DEF Lengths, Positions
    <3> QED
      BY <1>3, <3>1 DEF ReadSlice
  <2>2. failed => failed'
    BY <1>3
  <2> QED
    BY <2>1, <2>2, CursorMoves DEF Results, Errors, PositionErrors,
       SliceWithinTracker, DecodeErrorIsFinal
<1> QED
  BY <1>1, <1>2, <1>3 DEF Lengths, Positions

LEMMA DrainIInv ==
  ASSUME IInv, NEW amount \in Lengths, Drain(amount)
  PROVE  IInv'
<1> USE DEF IInv, TypeOK
<1> DEFINE available == bytes - position.position
           drained == WholeBuffers(available)
<1>0. available \in Nat
  BY DEF SliceWithinTracker, Positions, Lengths
<1>1. available \in Nat /\ drained \in 0 .. available
  BY <1>0, WholeBuffersWithin
<1>2. CASE failed
  BY <1>2, CursorMoves DEF Drain, Results, Errors, SliceWithinTracker,
     DecodeErrorIsFinal
<1>3. CASE ~failed /\ amount <= available
  <2>1. position.position + amount <= position.input_len
    BY <1>3 DEF SliceWithinTracker, Positions, Lengths
  <2>2. position' = advance(position, amount) /\ result' = "Ok" /\ failed' = failed
    BY <1>3 DEF Drain, Lengths, Positions
  <2> QED
    BY <1>3, <2>1, <2>2, AdvanceWithin, CursorMoves
       DEF Drain, Results, DecodeErrorIsFinal, Lengths, Positions
<1>4. CASE ~failed /\ amount > available
  <2>1. position.position + drained <= position.input_len
    BY <1>1 DEF SliceWithinTracker, Positions, Lengths
  <2>2. ~(amount <= available)
    BY <1>0, <1>4 DEF Lengths
  <2>3. /\ position' = advance(position, drained)
        /\ result' \in {"Overflow", "Incomplete"}
        /\ failed' \in BOOLEAN
    BY <1>4, <2>2 DEF Drain
  <2>4. position.position + drained <= bytes
    BY <1>1 DEF Positions, Lengths
  <2> QED
    BY <1>1, <1>4, <2>1, <2>3, <2>4, AdvanceWithin, CursorMoves
       DEF Drain, Results, Errors, PositionErrors, DecodeErrorIsFinal
<1> QED
  BY <1>1, <1>2, <1>3, <1>4 DEF Lengths

LEMMA EnterNestedIInv ==
  ASSUME IInv, NEW len \in Lengths, EnterNested(len)
  PROVE  IInv'
<1> USE DEF IInv, TypeOK
<1>1. CASE \/ AddOverflows(position.position, len)
           \/ position.position + len > bytes
  BY <1>1, CursorMoves DEF EnterNested, Results, Errors, PositionErrors,
     SliceWithinTracker, DecodeErrorIsFinal, Lengths, Positions
<1>2. CASE /\ ~AddOverflows(position.position, len)
           /\ position.position + len <= bytes
  <2>1. /\ position.position + len <= position.input_len
        /\ position.position + len \in Lengths
        /\ bytes' = position.position + len
        /\ position' = split_nested(position, len)
        /\ failed' = failed /\ decodeErr' = decodeErr
    BY <1>2 DEF EnterNested, SliceWithinTracker, Positions, Lengths
  <2>2. CASE SplitError(position, len) = "NestingDepth"
    <3>1. position' = position
      BY <2>1, <2>2, SplitWithin DEF Lengths
    <3>2. frames' = frames /\ decodes' = decodes /\ result' = "NestingDepth"
      BY <1>2, <2>2 DEF EnterNested, Lengths, Positions
    <3> QED
      BY <2>1, <3>1, <3>2 DEF SliceWithinTracker, FramesNest, OutermostIsInput,
         DepthIsNesting, DecodeErrorIsFinal, Results, Errors, PositionErrors,
         Lengths, Positions
  <2>3. CASE SplitError(position, len) = "None"
    <3> DEFINE frame == [bytes |-> bytes, input_len |-> position.input_len,
                         decodes |-> decodes]
    <3>1. /\ frames' = Append(frames, frame)
          /\ decodes' = 0 /\ result' = "Ok"
      BY <1>2, <2>3 DEF EnterNested, Lengths, Positions
    <3>2. /\ position' \in Positions
          /\ position'.position = position.position
          /\ position'.input_len = position.position + len
          /\ position'.depth = position.depth + 1
          /\ position.depth < MaxDepth
      BY <2>1, <2>3, SplitWithin DEF Lengths
    <3>3. frame \in Frames
      BY DEF Frames, Positions
    <3>4. /\ frames' \in Seq(Frames)
          /\ Len(frames') = Len(frames) + 1
          /\ DOMAIN frames = 1 .. Len(frames)
          /\ DOMAIN frames' = 1 .. Len(frames) + 1
          /\ \A i \in DOMAIN frames : frames'[i] = frames[i]
          /\ frames'[Len(frames) + 1] = frame
      BY <3>1, <3>3
    <3>10. len \in Nat
      BY DEF Lengths
    <3>5. TypeOK'
      BY <2>1, <3>1, <3>2, <3>4 DEF Results
    <3>6. SliceWithinTracker'
      <4>1. position'.position <= bytes' /\ bytes' <= position'.input_len
        BY <2>1, <3>2, <3>10, LengthsAreNumbers
      <4>2. ASSUME NEW i \in DOMAIN frames'
            PROVE  frames'[i].bytes <= frames'[i].input_len
        <5>1. CASE i \in DOMAIN frames
          BY <3>4, <5>1 DEF SliceWithinTracker
        <5>2. CASE i = Len(frames) + 1
          <6>1. /\ frames'[i].bytes = bytes
                /\ frames'[i].input_len = position.input_len
            BY <3>4, <5>2
          <6> QED
            BY <6>1 DEF SliceWithinTracker
        <5> QED  BY <3>4, <5>1, <5>2
      <4> QED
        BY <4>1, <4>2 DEF SliceWithinTracker
    <3>7. FramesNest'
      <4>1. ASSUME NEW i \in DOMAIN frames'
            PROVE  position'.input_len <= frames'[i].bytes
        <5>1. CASE i \in DOMAIN frames
          BY <2>1, <3>2, <3>4, LengthsAreNumbers, <3>10, <5>1, SMTT(30) DEF FramesNest
        <5>2. CASE i = Len(frames) + 1
          <6>1. frames'[i].bytes = bytes
            BY <3>4, <5>2
          <6> QED
            BY <1>2, <3>2, <6>1
        <5> QED  BY <3>4, <5>1, <5>2
      <4>2. ASSUME NEW i \in DOMAIN frames', NEW j \in DOMAIN frames', i < j
            PROVE  frames'[j].input_len <= frames'[i].bytes
        <5>1. i \in DOMAIN frames
          BY <3>4, <4>2
        <5>2. CASE j \in DOMAIN frames
          BY <3>4, LengthsAreNumbers, <4>2, <5>1, <5>2 DEF FramesNest
        <5>3. CASE j = Len(frames) + 1
          BY <3>4, LengthsAreNumbers, <3>10, <5>1, <5>3 DEF FramesNest
        <5> QED  BY <3>4, <5>2, <5>3
      <4> QED  BY <4>1, <4>2 DEF FramesNest
    <3>8. OutermostIsInput'
      BY <3>4 DEF OutermostIsInput
    <3>9. DepthIsNesting'
      BY <3>2, <3>4 DEF DepthIsNesting, Positions
    <3> QED
      BY <2>1, <3>1, <3>5, <3>6, <3>7, <3>8, <3>9 DEF DecodeErrorIsFinal
  <2> QED
    BY <2>1, <2>2, <2>3, SplitWithin DEF Lengths
<1> QED
  BY <1>1, <1>2 DEF Lengths, Positions

LEMMA LeaveNestedIInv ==
  ASSUME IInv, NEW ok \in BOOLEAN, LeaveNested(ok)
  PROVE  IInv'
<1> USE DEF IInv, TypeOK
<1> DEFINE n == Len(frames)
           frame == frames[n]
<1>1. /\ n \in Nat /\ n > 0
      /\ DOMAIN frames = 1 .. n
      /\ frame \in Frames
  BY DEF LeaveNested
<1>2. /\ bytes' = frame.bytes
      /\ position' = resume_nested(position, frame.input_len)
      /\ frames' = SubSeq(frames, 1, n - 1)
      /\ decodes' = frame.decodes
      /\ decodeErr' = decodeErr
  BY DEF LeaveNested
<1>3. /\ frames' \in Seq(Frames)
      /\ Len(frames') = n - 1
      /\ DOMAIN frames' = 1 .. n - 1
      /\ \A i \in DOMAIN frames' : frames'[i] = frames[i]
  BY <1>1, <1>2
<1>4. /\ position' \in Positions
      /\ position'.position = position.position
      /\ position'.input_len = frame.input_len
      /\ position'.depth = position.depth - 1
  BY <1>1, <1>2, Resume DEF DepthIsNesting, Frames
<1>5. result' \in {"Ok", "TrailingData", "Value"}
  BY DEF LeaveNested
<1>12. failed' \in BOOLEAN /\ (failed => failed')
  <2>1. failed' = failed \/ failed' = TRUE
    BY DEF LeaveNested
  <2> QED
    BY <2>1
<1>6. TypeOK'
  BY <1>1, <1>2, <1>3, <1>4, <1>5, <1>12 DEF Frames, Results, Errors
<1>7. SliceWithinTracker'
  <2>1. position.input_len <= frame.bytes /\ position.position <= position.input_len
    BY <1>1, LengthsAreNumbers DEF SliceWithinTracker, FramesNest
  <2>2. position.position <= frame.bytes
    BY <1>1, <2>1, LengthsAreNumbers
  <2> QED
    BY <1>1, <1>2, <1>3, <1>4, <2>1, <2>2 DEF SliceWithinTracker
<1>8. FramesNest'
  BY <1>1, <1>3, <1>4 DEF FramesNest
<1>9. OutermostIsInput'
  BY <1>1, <1>3, <1>4 DEF OutermostIsInput
<1>10. DepthIsNesting'
  BY <1>1, <1>3, <1>4 DEF DepthIsNesting, Positions
<1>11. DecodeErrorIsFinal'
  BY <1>2, <1>5, <1>12 DEF DecodeErrorIsFinal
<1> QED
  BY <1>6, <1>7, <1>8, <1>9, <1>10, <1>11

LEMMA OtherIInv ==
  ASSUME IInv,
         \/ MakeError \/ EnterDecode \/ Finish
         \/ \E ok \in BOOLEAN : LeaveDecode(ok)
  PROVE  IInv'
<1> USE DEF IInv, TypeOK
<1>1. CASE MakeError
  BY <1>1, CursorMoves DEF MakeError, Results, Errors, SliceWithinTracker
<1>2. CASE EnterDecode
  <2>1. /\ UNCHANGED <<bytes, position, frames, failed>>
        /\ decodes' \in Nat
        /\ result' \in Results
    BY <1>2 DEF EnterDecode, Results, Errors
  <2>2. decodeErr' \in BOOLEAN
    BY <1>2 DEF EnterDecode
  <2>3. decodeErr' => failed' /\ result' # "Finished"
    BY <1>2 DEF EnterDecode, DecodeErrorIsFinal
  <2> QED
    BY <2>1, <2>2, <2>3, CursorMoves DEF SliceWithinTracker
<1>3. CASE Finish
  BY <1>3, CursorMoves DEF Finish, Results, Errors, SliceWithinTracker,
     DecodeErrorIsFinal
<1>4. ASSUME NEW ok \in BOOLEAN, LeaveDecode(ok)
      PROVE  IInv'
  <2>1. /\ UNCHANGED <<bytes, position, frames>>
        /\ decodes' \in Nat
        /\ result' \in {"Ok", "Value"}
    BY <1>4 DEF LeaveDecode
  <2>2. failed' \in BOOLEAN /\ decodeErr' \in BOOLEAN
    BY <1>4 DEF LeaveDecode
  <2>3. decodeErr' => failed'
    <3>1. \/ failed' = failed /\ decodeErr' = decodeErr
          \/ failed' = TRUE
      BY <1>4 DEF LeaveDecode
    <3> QED
      BY <3>1 DEF DecodeErrorIsFinal
  <2> QED
    BY <2>1, <2>2, <2>3, CursorMoves DEF SliceWithinTracker, Results, Errors
<1> QED
  BY <1>1, <1>2, <1>3, <1>4

LEMMA NextIInv == IInv /\ [Next]_vars => IInv'
<1> SUFFICES ASSUME IInv, [Next]_vars PROVE IInv'
  OBVIOUS
<1>1. CASE Next
  BY <1>1, ReadSliceIInv, DrainIInv, EnterNestedIInv, LeaveNestedIInv, OtherIInv
     DEF Next
<1>2. CASE UNCHANGED vars
  BY <1>2 DEF vars, IInv, TypeOK, SliceWithinTracker, FramesNest,
     OutermostIsInput, DepthIsNesting, DecodeErrorIsFinal
<1> QED
  BY <1>1, <1>2

THEOREM Invariance == Spec => []IInv
  BY InitIInv, NextIInv, PTL DEF Spec

-----------------------------------------------------------------------------
(* Type correctness of the reader's fields and saved locals.               *)
THEOREM TypeCorrect == Spec => []TypeOK
<1>1. IInv => TypeOK
  BY DEF IInv
<1> QED
  BY Invariance, <1>1, PTL

LEMMA IInvInsideEveryWindow == IInv => InsideEveryWindow
<1> SUFFICES ASSUME IInv PROVE InsideEveryWindow
  OBVIOUS
<1> USE DEF IInv, TypeOK
<1>1. Windows[1] = InputLen
  BY DEF Windows, WindowsOf, OutermostIsInput
<1>2. ASSUME NEW i \in DOMAIN Windows PROVE position.position <= Windows[i]
  <2>1. position.position <= bytes /\ bytes <= position.input_len
    BY DEF SliceWithinTracker
  <2>2. CASE i \in DOMAIN frames
    <3>1. Windows[i] = frames[i].input_len
      BY <1>2, <2>2 DEF Windows, WindowsOf
    <3>2. /\ position.input_len <= frames[i].bytes
          /\ frames[i].bytes <= frames[i].input_len
      BY <2>2 DEF FramesNest, SliceWithinTracker
    <3> QED
      BY <2>1, <2>2, <3>1, <3>2, LengthsAreNumbers
  <2>3. CASE i = Len(frames) + 1
    BY <2>1, <2>3, LengthsAreNumbers DEF Windows, WindowsOf
  <2> QED
    BY <2>2, <2>3 DEF Windows, WindowsOf
<1> QED
  BY <1>1, <1>2 DEF InsideEveryWindow

(* However deep the values being read are nested, and whatever the decoder *)
(* asks for, the cursor is inside every one of them; the slice and the     *)
(* tracker agree; the depth counter is exact; an error a decode call       *)
(* returned can never be followed by a successful finish.                  *)
THEOREM Safety ==
  Spec => []( /\ InsideEveryWindow
              /\ SliceWithinTracker
              /\ DepthIsNesting
              /\ DecodeErrorIsFinal )
<1>1. IInv => /\ InsideEveryWindow
              /\ SliceWithinTracker
              /\ DepthIsNesting
              /\ DecodeErrorIsFinal
  BY IInvInsideEveryWindow DEF IInv
<1> QED
  BY Invariance, <1>1, PTL

(* The depth counter is the number of nested values being read, through    *)
(* every path of read_nested, and never exceeds MAX_DEPTH: the guard that  *)
(* protects the stack (Position::split_nested, resume_nested).             *)
THEOREM DepthIsExact == Spec => []DepthIsNesting
<1>1. IInv => DepthIsNesting
  BY DEF IInv
<1> QED
  BY Invariance, <1>1, PTL

(* A failed reader does not move, does not recover and does not finish     *)
(* successfully.                                                           *)
THEOREM FailedInert == Spec => FailedReaderIsInert
<1> DEFINE Inert == failed => /\ failed'
                             /\ position'.position = position.position
                             /\ result' # "Finished"
<1>1. ASSUME IInv, Next PROVE Inert
  <2> SUFFICES ASSUME failed PROVE /\ failed'
                                   /\ position'.position = position.position
                                   /\ result' # "Finished"
    OBVIOUS
  <2> USE DEF IInv, TypeOK
  <2>1. ASSUME NEW len \in Lengths, ReadSlice(len) PROVE Inert
    BY <2>1 DEF ReadSlice
  <2>2. ASSUME NEW len \in Lengths, Drain(len) PROVE Inert
    BY <2>2 DEF Drain
  <2>3. ASSUME NEW len \in Lengths, EnterNested(len) PROVE Inert
    <3>1. failed' = failed
      BY <2>3 DEF EnterNested
    <3>2. position'.position = position.position
      BY <2>3 DEF EnterNested, split_nested, tracker
    <3>3. result' # "Finished"
      BY <2>3 DEF EnterNested, SplitError, AdvanceError
    <3> QED
      BY <3>1, <3>2, <3>3
  <2>4. ASSUME NEW ok \in BOOLEAN, LeaveNested(ok) PROVE Inert
    <3>1. failed' = failed \/ failed' = TRUE
      BY <2>4 DEF LeaveNested
    <3>2. position'.position = position.position
      BY <2>4 DEF LeaveNested, resume_nested, tracker
    <3>3. result' # "Finished"
      BY <2>4 DEF LeaveNested
    <3> QED
      BY <3>1, <3>2, <3>3
  <2>5. ASSUME NEW ok \in BOOLEAN, LeaveDecode(ok) PROVE Inert
    BY <2>5 DEF LeaveDecode
  <2>6. CASE MakeError
    BY <2>6 DEF MakeError
  <2>7. CASE EnterDecode
    BY <2>7 DEF EnterDecode
  <2>8. CASE Finish
    BY <2>8 DEF Finish
  <2> QED
    BY <1>1, <2>1, <2>2, <2>3, <2>4, <2>5, <2>6, <2>7, <2>8 DEF Next
<1>2. IInv /\ [Next]_vars => [Inert]_vars
  BY <1>1
<1> QED
  BY Invariance, <1>2, PTL DEF Spec, FailedReaderIsInert

-----------------------------------------------------------------------------
(***************************************************************************)
(* The refinement of NestedReader.                                         *)
(***************************************************************************)

(* The windows are the frames' saved lengths and the innermost one.        *)
LEMMA WindowsSeq ==
  ASSUME NEW saved \in Seq(Frames), NEW tracked \in Positions
  PROVE  /\ WindowsOf(saved, tracked) \in Seq(Lengths)
         /\ Len(WindowsOf(saved, tracked)) = Len(saved) + 1
         /\ WindowsOf(saved, tracked)[Len(saved) + 1] = tracked.input_len
         /\ \A i \in 1 .. Len(saved) :
               WindowsOf(saved, tracked)[i] = saved[i].input_len
<1> DEFINE windows == WindowsOf(saved, tracked)
           n == Len(saved)
<1>1. n \in Nat /\ \A i \in 1 .. n : saved[i] \in Frames
  OBVIOUS
<1>2. ASSUME NEW i \in 1 .. n + 1
      PROVE  (IF i <= n THEN saved[i].input_len ELSE tracked.input_len) \in Lengths
  <2>1. CASE i <= n
    <3>1. saved[i] \in Frames
      BY <1>1, <1>2, <2>1
    <3> QED
      BY <2>1, <3>1 DEF Frames
  <2>2. CASE ~(i <= n)
    BY <2>2 DEF Positions
  <2> QED
    BY <2>1, <2>2
<1>3. windows \in [1 .. n + 1 -> Lengths]
  BY <1>2 DEF WindowsOf
<1>4. windows \in Seq(Lengths) /\ Len(windows) = n + 1
  BY <1>1, <1>3
<1> QED
  BY <1>1, <1>4 DEF WindowsOf

LEMMA SameWindows ==
  ASSUME UNCHANGED frames, position'.input_len = position.input_len
  PROVE  Windows' = Windows
  BY DEF Windows, WindowsOf

LEMMA InitRefines == Init => Promise!Init
<1> SUFFICES ASSUME Init PROVE Promise!Init
  OBVIOUS
<1>1. TypeOK
  BY InitIInv DEF IInv
<1>2. position.position = 0 /\ position.input_len = InputLen /\ frames = <<>>
  BY DEF Init, new, tracker
<1>3. Windows \in Seq(Lengths) /\ Len(Windows) = 1 /\ Windows[1] = InputLen
  <2>1. Len(frames) = 0 /\ frames \in Seq(Frames) /\ position \in Positions
    BY <1>1, <1>2 DEF TypeOK
  <2>2. /\ Windows \in Seq(Lengths)
        /\ Len(Windows) = Len(frames) + 1
        /\ Windows[Len(frames) + 1] = position.input_len
    BY <2>1, WindowsSeq DEF Windows
  <2> QED
    BY <1>2, <2>1, <2>2
<1>4. Windows = <<InputLen>>
  BY <1>3
<1> QED
  BY <1>2, <1>4 DEF Init, Promise!Init

(* A call that returns an error and moves nothing, as the promise has it.  *)
LEMMA Refused ==
  ASSUME InUse, result' \in Errors \union {"Rejected"},
         UNCHANGED frames,
         position'.position = position.position,
         position'.input_len = position.input_len,
         failed' = failed \/ failed' = TRUE
  PROVE  Promise!Refuse
<1>1. result # "Finished" /\ result' # "Ok" /\ result' # "Finished"
  BY DEF InUse, Errors, PositionErrors
<1>2. Windows' = Windows
  BY SameWindows
<1> QED
  BY <1>1, <1>2 DEF Promise!Refuse

LEMMA ReadSliceRefines ==
  ASSUME IInv, NEW len \in Lengths, ReadSlice(len)
  PROVE  Promise!Next
<1> USE DEF IInv, TypeOK
<1>1. InUse /\ UNCHANGED frames
  BY DEF ReadSlice
<1>2. CASE failed
  BY <1>1, <1>2, Refused DEF ReadSlice, Errors, Promise!Next
<1>3. CASE ~failed /\ position.position + len <= bytes
  <2>1. /\ position.position + len <= position.input_len
        /\ len \in Nat
    BY <1>3, LengthsAreNumbers DEF SliceWithinTracker, Lengths
  <2>2. /\ position'.position = position.position + len
        /\ position'.input_len = position.input_len
        /\ result' = "Ok"
        /\ failed' = failed
    <3>1. /\ position' = advance(position, len)
          /\ result' = IF AdvanceError(position, len) = "None"
                       THEN "Ok" ELSE AdvanceError(position, len)
          /\ failed' = failed
      BY <1>3, LengthsAreNumbers, <2>1 DEF ReadSlice
    <3> QED
      BY <2>1, <3>1, AdvanceWithin
  <2>3. Windows' = Windows
    BY <1>1, <2>2, SameWindows
  <2>4. position'.position \in position.position .. Windows[Len(Windows)]
    BY <2>1, <2>2, WindowsSeq, LengthsAreNumbers DEF Windows
  <2>5. Promise!Read
    BY <1>1, <1>3, <2>2, <2>3, <2>4 DEF Promise!Read, Promise!Innermost, InUse
  <2> QED
    BY <2>5 DEF Promise!Next
<1>4. CASE ~failed /\ ~(position.position + len <= bytes)
  <2>1. /\ position' = position
        /\ result' \in {"Overflow", "Incomplete"}
        /\ failed' = failed \/ failed' = TRUE
    BY <1>4 DEF ReadSlice
  <2> QED
    BY <1>1, <2>1, Refused DEF Errors, PositionErrors, Promise!Next
<1> QED
  BY <1>2, <1>3, <1>4

LEMMA DrainRefines ==
  ASSUME IInv, NEW amount \in Lengths, Drain(amount)
  PROVE  Promise!Next
<1> USE DEF IInv, TypeOK
<1> DEFINE available == bytes - position.position
           drained == WholeBuffers(available)
<1>1. InUse /\ UNCHANGED frames
  BY DEF Drain
<1>2. /\ available \in Nat
      /\ available <= position.input_len - position.position
      /\ amount \in Nat
  BY LengthsAreNumbers DEF SliceWithinTracker, Lengths
<1>3. drained \in 0 .. available
  BY <1>2, WholeBuffersWithin
(* Whatever was drained lies inside the innermost window.                  *)
<1>4. ASSUME NEW n \in 0 .. available, ~failed,
             position' = advance(position, n),
             \/ result' = "Ok" /\ failed' = failed
             \/ /\ result' \in {"Overflow", "Incomplete"}
                /\ failed' = failed \/ failed' = TRUE
      PROVE  Promise!Next
  <2>1. n \in Nat /\ position.position + n <= position.input_len
    BY <1>2, LengthsAreNumbers
  <2>2. /\ position'.position = position.position + n
        /\ position'.input_len = position.input_len
    BY <1>4, <2>1, AdvanceWithin
  <2>3. Windows' = Windows
    BY <1>1, <2>2, SameWindows
  <2>4. position'.position \in position.position .. Windows[Len(Windows)]
    BY <2>1, <2>2, WindowsSeq, LengthsAreNumbers DEF Windows
  <2>5. Promise!Read
    BY <1>1, <1>4, <2>3, <2>4 DEF Promise!Read, Promise!Innermost, InUse
  <2> QED
    BY <2>5 DEF Promise!Next
<1>5. CASE failed
  <2>1. /\ result' \in {"Ok", "Failed"}
        /\ failed' = failed /\ position' = position
    BY <1>5 DEF Drain
  <2>2. CASE result' = "Ok"
    <3>1. Windows' = Windows
      BY <1>1, <2>1, SameWindows
    <3>2. Promise!Return
      BY <1>1, <2>1, <2>2, <3>1 DEF Promise!Return, InUse
    <3> QED
      BY <3>2 DEF Promise!Next
  <2>3. CASE result' = "Failed"
    BY <1>1, <2>1, <2>3, Refused DEF Errors, Promise!Next
  <2> QED
    BY <2>1, <2>2, <2>3
<1>6. CASE ~failed /\ amount <= available
  <2>1. position' = advance(position, amount) /\ result' = "Ok" /\ failed' = failed
    BY <1>2, <1>6 DEF Drain
  <2> QED
    BY <1>2, <1>4, <1>6, <2>1
<1>7. CASE ~failed /\ ~(amount <= available)
  <2>1. /\ position' = advance(position, drained)
        /\ result' \in {"Overflow", "Incomplete"}
        /\ failed' = failed \/ failed' = TRUE
    BY <1>7 DEF Drain
  <2> QED
    BY <1>3, <1>4, <1>7, <2>1
<1> QED
  BY <1>5, <1>6, <1>7

LEMMA EnterNestedRefines ==
  ASSUME IInv, NEW len \in Lengths, EnterNested(len)
  PROVE  Promise!Next
<1> USE DEF IInv, TypeOK
<1>1. InUse /\ failed' = failed /\ len \in Nat
  BY DEF EnterNested, Lengths
<1>2. CASE \/ AddOverflows(position.position, len)
           \/ ~(position.position + len <= bytes)
  <2>1. /\ position' = position /\ frames' = frames
        /\ result' \in {"Overflow", "Incomplete"}
    BY <1>2 DEF EnterNested
  <2> QED
    BY <1>1, <2>1, Refused DEF Errors, PositionErrors, Promise!Next
<1>3. CASE /\ ~AddOverflows(position.position, len)
           /\ position.position + len <= bytes
  <2>1. /\ position.position + len <= position.input_len
        /\ position' = split_nested(position, len)
    BY <1>1, <1>3, LengthsAreNumbers DEF EnterNested, SliceWithinTracker
  <2>2. CASE SplitError(position, len) = "NestingDepth"
    <3>1. position' = position
      BY <1>1, <2>1, <2>2, SplitWithin
    <3>2. frames' = frames /\ result' = "NestingDepth"
      BY <1>1, <1>3, <2>2, LengthsAreNumbers DEF EnterNested
    <3> QED
      BY <1>1, <3>1, <3>2, Refused DEF Errors, PositionErrors, Promise!Next
  <2>3. CASE SplitError(position, len) = "None"
    <3> DEFINE end == position.position + len
    <3>1. /\ position'.position = position.position
          /\ position'.input_len = end
          /\ position.depth < MaxDepth
      BY <1>1, <2>1, <2>3, SplitWithin
    <3>2. /\ result' = "Ok"
          /\ frames' = Append(frames, [bytes |-> bytes,
                                       input_len |-> position.input_len,
                                       decodes |-> decodes])
      BY <1>1, <1>3, <2>3, LengthsAreNumbers DEF EnterNested
    <3>3. /\ TypeOK'
          /\ Len(frames') = Len(frames) + 1
          /\ \A i \in 1 .. Len(frames) : frames'[i] = frames[i]
          /\ frames'[Len(frames) + 1].input_len = position.input_len
      BY <3>2, EnterNestedIInv
    <3>4. /\ Windows \in Seq(Lengths)
          /\ Windows' \in Seq(Lengths)
          /\ Len(Windows') = Len(Windows) + 1
          /\ Len(Windows) = Len(frames) + 1
          /\ Windows'[Len(Windows) + 1] = end
          /\ Windows[Len(Windows)] = position.input_len
      BY <3>1, <3>3, WindowsSeq DEF Windows
    <3>5. \A i \in 1 .. Len(Windows) : Windows'[i] = Windows[i]
      <4> SUFFICES ASSUME NEW i \in 1 .. Len(Windows)
                   PROVE  Windows'[i] = Windows[i]
        OBVIOUS
      <4>1. CASE i \in 1 .. Len(frames)
        BY <3>3, <4>1 DEF Windows, WindowsOf
      <4>2. CASE i = Len(frames) + 1
        BY <3>3, <4>2 DEF Windows, WindowsOf
      <4> QED
        BY <3>4, <4>1, <4>2
    <3>6. end \in Lengths /\ end \in position.position .. Windows[Len(Windows)]
      BY <1>1, <1>3, <2>1, <3>4, LengthsAreNumbers, SMTT(30) DEF AddOverflows, Lengths
    <3>7. Windows' = Append(Windows, end)
      BY <3>4, <3>5, <3>6, AppendProperties, SeqEqual
    <3>8. Promise!Open
      BY <1>1, <3>1, <3>2, <3>4, <3>6, <3>7
         DEF Promise!Open, Promise!Innermost, InUse, DepthIsNesting
    <3> QED
      BY <3>8 DEF Promise!Next
  <2> QED
    BY <1>1, <2>1, <2>2, <2>3, SplitWithin
<1> QED
  BY <1>2, <1>3

LEMMA LeaveNestedRefines ==
  ASSUME IInv, NEW ok \in BOOLEAN, LeaveNested(ok)
  PROVE  Promise!Next
<1> USE DEF IInv, TypeOK
<1> DEFINE n == Len(frames)
<1>1. /\ InUse
      /\ n \in Nat /\ n > 0
      /\ frames[n] \in Frames
      /\ position' = resume_nested(position, frames[n].input_len)
      /\ frames' = SubSeq(frames, 1, n - 1)
  BY DEF LeaveNested
<1>2. /\ position'.position = position.position
      /\ position'.input_len = frames[n].input_len
  BY <1>1 DEF resume_nested, tracker
<1>3. /\ TypeOK'
      /\ Len(frames') = n - 1
      /\ \A i \in 1 .. n - 1 : frames'[i] = frames[i]
  <2>1. TypeOK'
    BY LeaveNestedIInv
  <2>2. DOMAIN frames = 1 .. n /\ frames \in Seq(Frames)
    OBVIOUS
  <2>3. /\ Len(frames') = n - 1
        /\ \A i \in 1 .. n - 1 : frames'[i] = frames[i]
    BY <1>1, <2>2
  <2> QED
    BY <2>1, <2>3
<1>4. /\ Windows \in Seq(Lengths)
      /\ Windows' \in Seq(Lengths)
      /\ Len(Windows) = n + 1
      /\ Len(Windows') = n
      /\ Windows[n + 1] = position.input_len
      /\ Windows[n] = frames[n].input_len
      /\ Windows'[n] = frames[n].input_len
      /\ \A i \in 1 .. n - 1 : Windows[i] = frames[i].input_len
      /\ \A i \in 1 .. n - 1 : Windows'[i] = frames'[i].input_len
  <2>1. frames \in Seq(Frames) /\ position \in Positions /\ Len(frames) = n
    OBVIOUS
  <2>2. frames' \in Seq(Frames) /\ position' \in Positions
    BY <1>3
  <2>3. n - 1 + 1 = n
    BY <1>1
  <2> HIDE DEF n
  <2>4. /\ Windows \in Seq(Lengths)
        /\ Len(Windows) = n + 1
        /\ Windows[n + 1] = position.input_len
        /\ \A i \in 1 .. n : Windows[i] = frames[i].input_len
    BY <2>1, WindowsSeq DEF Windows
  <2>5. /\ Windows' \in Seq(Lengths)
        /\ Len(Windows') = n
        /\ Windows'[n] = position'.input_len
        /\ \A i \in 1 .. n - 1 : Windows'[i] = frames'[i].input_len
    BY <1>3, <2>2, <2>3, WindowsSeq DEF Windows
  <2> QED
    BY <1>1, <1>2, <2>4, <2>5
<1>5. \A i \in 1 .. n : Windows'[i] = Windows[i]
  <2> SUFFICES ASSUME NEW i \in 1 .. n PROVE Windows'[i] = Windows[i]
    OBVIOUS
  <2>1. CASE i = n
    BY <1>4, <2>1
  <2>2. CASE i \in 1 .. n - 1
    BY <1>3, <1>4, <2>2
  <2> QED
    BY <1>1, <2>1, <2>2
<1>6. Windows' = SubSeq(Windows, 1, Len(Windows) - 1)
  <2> DEFINE outer == SubSeq(Windows, 1, n)
  <2>1. \A i \in 1 .. n : Windows[i] \in Lengths
    BY <1>1, <1>4, ElementOfSeq
  <2>2. /\ outer \in Seq(Lengths)
        /\ Len(outer) = n
        /\ \A i \in 1 .. n : outer[i] = Windows[i]
    BY <1>1, <1>4, <2>1, SubSeqProperties
  <2>3. Windows' = outer
    BY <1>1, <1>4, <1>5, <2>2, SeqEqual
  <2> QED
    BY <1>1, <1>4, <2>3
<1>7. \/ /\ result' = "Ok" /\ failed' = failed
         /\ position.position = Windows[Len(Windows)]
      \/ /\ result' \in {"TrailingData", "Value"}
         /\ failed' = failed \/ failed' = TRUE
  <2>1. CASE ok /\ is_finished
    <3>1. result' = "Ok" /\ failed' = failed
      BY <2>1 DEF LeaveNested
    <3>2. position.position = position.input_len
      BY <2>1, LengthsAreNumbers
         DEF is_finished, remaining_len, saturating_sub, SliceWithinTracker
    <3> QED
      BY <1>1, <1>4, <3>1, <3>2
  <2>2. CASE ~(ok /\ is_finished)
    BY <2>2 DEF LeaveNested
  <2> QED
    BY <2>1, <2>2
<1>8. Promise!Close
  <2>1. Len(Windows) > 1
    BY <1>1, <1>4
  <2>2. result # "Finished"
    BY <1>1 DEF InUse
  <2>3. CASE result' = "Ok"
    BY <1>2, <1>6, <1>7, <2>1, <2>2, <2>3
       DEF Promise!Close, Promise!Innermost
  <2>4. CASE result' \in {"TrailingData", "Value"}
    BY <1>2, <1>6, <1>7, <2>1, <2>2, <2>4
       DEF Promise!Close, Promise!Innermost
  <2> QED
    BY <1>7, <2>3, <2>4
<1> QED
  BY <1>8 DEF Promise!Next

LEMMA OtherRefines ==
  ASSUME IInv,
         \/ MakeError \/ EnterDecode \/ Finish
         \/ \E ok \in BOOLEAN : LeaveDecode(ok)
  PROVE  [Promise!Next]_(Promise!vars)
<1> USE DEF IInv, TypeOK
<1>1. CASE MakeError
  BY <1>1, Refused DEF MakeError, Errors, Promise!Next
<1>2. CASE EnterDecode /\ failed
  BY <1>2, Refused DEF EnterDecode, Errors, Promise!Next
<1>3. CASE EnterDecode /\ ~failed
  <2>1. UNCHANGED <<position, frames, failed, result>>
    BY <1>3 DEF EnterDecode
  <2>2. Windows' = Windows
    BY <2>1, SameWindows
  <2> QED
    BY <2>1, <2>2 DEF Promise!vars
<1>4. ASSUME NEW ok \in BOOLEAN, LeaveDecode(ok)
      PROVE  Promise!Next
  <2>1. InUse /\ UNCHANGED <<position, frames>>
    BY <1>4 DEF LeaveDecode
  <2>2. Windows' = Windows
    BY <2>1, SameWindows
  <2>3. CASE ok
    <3>1. result' = "Ok" /\ failed' = failed
      BY <1>4, <2>3 DEF LeaveDecode
    <3>2. Promise!Return
      BY <2>1, <2>2, <3>1 DEF Promise!Return, InUse
    <3> QED
      BY <3>2 DEF Promise!Next
  <2>4. CASE ~ok
    <3>1. result' = "Value" /\ failed' = TRUE
      BY <1>4, <2>4 DEF LeaveDecode
    <3> QED
      BY <2>1, <3>1, Refused DEF Errors, Promise!Next
  <2> QED
    BY <2>3, <2>4
<1>5. CASE Finish /\ ~failed /\ is_finished
  <2>1. /\ result # "Finished" /\ result' = "Finished"
        /\ failed' = failed
        /\ UNCHANGED <<position, frames>>
    BY <1>5 DEF Finish, InUse
  <2>2. Windows' = Windows
    BY <2>1, SameWindows
  <2>3. frames = <<>> /\ Len(frames) = 0 /\ position.input_len = InputLen
    BY <1>5 DEF Finish, OutermostIsInput
  <2>4. Len(Windows) = 1
    <3>1. Len(Windows) = Len(frames) + 1
      BY WindowsSeq DEF Windows
    <3> QED
      BY <2>3, <3>1
  <2>5. position.position = InputLen
    BY <1>5, <2>3, LengthsAreNumbers
       DEF is_finished, remaining_len, saturating_sub, SliceWithinTracker
  <2>6. Promise!Finish
    BY <1>5, <2>1, <2>2, <2>4, <2>5 DEF Promise!Finish
  <2> QED
    BY <2>6 DEF Promise!Next
<1>6. CASE Finish /\ ~(~failed /\ is_finished)
  <2>1. /\ InUse /\ result' = "Rejected"
        /\ failed' = failed \/ failed' = TRUE
        /\ UNCHANGED <<position, frames>>
    BY <1>6 DEF Finish
  <2> QED
    BY <2>1, Refused DEF Promise!Next
<1> QED
  BY <1>1, <1>2, <1>3, <1>4, <1>5, <1>6

LEMMA NextRefines == IInv /\ [Next]_vars => [Promise!Next]_(Promise!vars)
<1> SUFFICES ASSUME IInv, [Next]_vars PROVE [Promise!Next]_(Promise!vars)
  OBVIOUS
<1>1. CASE Next
  BY <1>1, ReadSliceRefines, DrainRefines, EnterNestedRefines,
     LeaveNestedRefines, OtherRefines DEF Next
<1>2. CASE UNCHANGED vars
  <2>1. UNCHANGED <<position, frames, failed, result>>
    BY <1>2 DEF vars
  <2>2. Windows' = Windows
    BY <2>1, SameWindows
  <2> QED
    BY <2>1, <2>2 DEF Promise!vars
<1> QED
  BY <1>1, <1>2

(* The slice reader implements what the Reader trait promises: windows     *)
(* nest, a nested value is reported as read only when it was read to its   *)
(* very end, leaving it restores the window around it, and the reader      *)
(* finishes only at the end of an input it read without failing.           *)
THEOREM Refinement == Spec => ImplementsNestedReader
<1>1. Spec => Promise!Init /\ [][Promise!Next]_(Promise!vars)
  BY Invariance, InitRefines, NextRefines, PTL DEF Spec
<1> QED
  BY <1>1 DEF ImplementsNestedReader, Promise!Spec

=============================================================================
