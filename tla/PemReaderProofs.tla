-------------------------- MODULE PemReaderProofs ---------------------------
(***************************************************************************)
(* Proofs about PemReader, for every document length, every nesting limit  *)
(* and every decoder.                                                      *)
(***************************************************************************)
EXTENDS PemReader, SequenceTheorems, TLAPS

(* Sound text never makes the decoder fail.                                *)
SoundNeverBreaks == sound => ~broken

(* The inductive invariant.                                                *)
IInv ==
  /\ SoundNeverBreaks
  /\ TypeOK
  /\ InStep
  /\ WithinWindows
  /\ StackIsBounded
  /\ FinishesAtTheEnd

USE PositionAssumption, PemReaderAssumption
    DEF PositionAssumption, PemReaderAssumption

-----------------------------------------------------------------------------
(* Moving the cursor inside the innermost window keeps it in all of them.  *)
LEMMA CursorMoves ==
  ASSUME NEW p \in Positions, NEW q \in Positions, NEW ends \in Seq(Lengths),
         Nested(p, ends), q.input_len = p.input_len, q.position <= q.input_len
  PROVE  Nested(q, ends)
  BY DEF Nested

(* A window opened inside the innermost one is inside all of them.         *)
LEMMA WindowOpens ==
  ASSUME NEW p \in Positions, NEW q \in Positions, NEW ends \in Seq(Lengths),
         Nested(p, ends),
         q.position <= q.input_len, q.input_len <= p.input_len
  PROVE  /\ Append(ends, p.input_len) \in Seq(Lengths)
         /\ Len(Append(ends, p.input_len)) = Len(ends) + 1
         /\ Nested(q, Append(ends, p.input_len))
<1> DEFINE after == Append(ends, p.input_len)
<1>1. /\ after \in Seq(Lengths)
      /\ Len(after) = Len(ends) + 1
      /\ \A i \in DOMAIN ends : i \in DOMAIN after /\ after[i] = ends[i]
      /\ after[Len(ends) + 1] = p.input_len
      /\ after # <<>>
      /\ \A i \in DOMAIN after : i \in DOMAIN ends \/ i = Len(ends) + 1
      /\ \A i \in DOMAIN ends : i \in Nat /\ 1 <= i /\ i <= Len(ends)
  BY AppendProperties DEF Positions
<1>2. /\ p.input_len \in Nat /\ q.input_len \in Nat
      /\ \A i \in DOMAIN ends : ends[i] \in Nat
  BY ElementOfSeq DEF Positions, Lengths
<1>3. \A i \in DOMAIN after : q.input_len <= after[i]
  BY <1>1, <1>2 DEF Nested
<1>4. \A i, j \in DOMAIN after : i < j => after[j] <= after[i]
  BY <1>1, <1>2 DEF Nested
<1>5. after[1] = InputLen
  <2>1. CASE ends = <<>>
    BY <2>1, <1>1 DEF Nested
  <2>2. CASE ends # <<>>
    <3>1. 1 \in DOMAIN ends
      BY <2>2
    <3>. QED BY <3>1, <2>2, <1>1 DEF Nested
  <2>. QED BY <2>1, <2>2
<1>. QED BY <1>1, <1>3, <1>4, <1>5 DEF Nested

(* Closing a window leaves the cursor inside the ones around it.           *)
LEMMA WindowCloses ==
  ASSUME NEW p \in Positions, NEW q \in Positions, NEW ends \in Seq(Lengths),
         ends # <<>>, Nested(p, ends),
         q.position = p.position, q.input_len = ends[Len(ends)]
  PROVE  /\ SubSeq(ends, 1, Len(ends) - 1) \in Seq(Lengths)
         /\ Len(SubSeq(ends, 1, Len(ends) - 1)) = Len(ends) - 1
         /\ Nested(q, SubSeq(ends, 1, Len(ends) - 1))
<1> DEFINE n == Len(ends)
           left == SubSeq(ends, 1, n - 1)
<1>1. n \in Nat /\ n >= 1 /\ n \in DOMAIN ends /\ DOMAIN ends = 1 .. n
  OBVIOUS
<1>2. /\ left \in Seq(Lengths)
      /\ Len(left) = n - 1
      /\ DOMAIN left = 1 .. n - 1
      /\ \A i \in 1 .. n - 1 : left[i] = ends[i]
  BY <1>1, SubSeqProperties
<1>3. /\ p.position \in Nat /\ p.input_len \in Nat
      /\ \A i \in DOMAIN ends : ends[i] \in Nat
  BY ElementOfSeq DEF Positions, Lengths
<1>4. q.position <= q.input_len
  BY <1>1, <1>3 DEF Nested
<1>5. \A i \in DOMAIN left : q.input_len <= left[i]
  BY <1>1, <1>2, <1>3 DEF Nested
<1>6. \A i, j \in DOMAIN left : i < j => left[j] <= left[i]
  BY <1>1, <1>2 DEF Nested
<1>7. IF left = <<>> THEN q.input_len = InputLen ELSE left[1] = InputLen
  <2>1. CASE n = 1
    BY <2>1, <1>1, <1>2 DEF Nested
  <2>2. CASE n > 1
    BY <2>2, <1>1, <1>2 DEF Nested
  <2>. QED BY <2>1, <2>2, <1>1
<1>. QED BY <1>2, <1>4, <1>5, <1>6, <1>7 DEF Nested

LEMMA WholeBuffersWithin ==
  ASSUME NEW n \in Nat
  PROVE  WholeBuffers(n) \in 0 .. n
  BY DEF WholeBuffers

-----------------------------------------------------------------------------
LEMMA InitIInv == Init => IInv
<1> SUFFICES ASSUME Init PROVE IInv
  OBVIOUS
<1>1. position = [input_len |-> InputLen, position |-> 0, depth |-> 0]
  BY DEF Init, new, tracker
<1>2. position \in Positions
  BY <1>1 DEF Positions, Lengths
<1>3. frames = <<>> /\ frames \in Seq(Lengths) /\ DOMAIN frames = {} /\ Len(frames) = 0
  BY EmptySeq DEF Init
<1>4. sound \in BOOLEAN /\ served = 0 /\ broken = FALSE /\ result = "Ok"
  BY DEF Init
<1>5. TypeOK
  <2>1. served \in Lengths
    BY <1>4 DEF Lengths
  <2>2. result \in Results /\ broken \in BOOLEAN
    BY <1>4 DEF Results
  <2>. QED BY <1>2, <1>3, <1>4, <2>1, <2>2 DEF TypeOK
<1>6. WithinWindows
  BY <1>1, <1>3 DEF WithinWindows, Nested, Lengths
<1>7. StackIsBounded /\ InStep /\ FinishesAtTheEnd /\ SoundNeverBreaks
  BY <1>1, <1>3, <1>4 DEF SoundNeverBreaks, StackIsBounded, InStep, FinishesAtTheEnd
<1>. QED BY <1>5, <1>6, <1>7 DEF IInv

(* A step that reads: some octets counted, the same number of them handed  *)
(* out unless the Base64 decoder failed.                                   *)
LEMMA Reads ==
  ASSUME IInv, NEW n \in Nat, position.position + n <= position.input_len,
         position' = advance(position, n), UNCHANGED frames,
         sound' = sound, broken' \in BOOLEAN, sound => broken' = broken, served' \in Lengths,
         result' \in Results \ {"Finished"},
         ~broken' => ~broken /\ served' = served + n
  PROVE  IInv'
<1>1. /\ position \in Positions /\ frames \in Seq(Lengths)
      /\ Nested(position, frames)
  BY DEF IInv, TypeOK, WithinWindows
<1>2. /\ position' \in Positions
      /\ position'.position = position.position + n
      /\ position'.input_len = position.input_len
      /\ position'.depth = position.depth
  BY <1>1, AdvanceWithin
<1>3. Nested(position', frames)
  BY <1>1, <1>2, CursorMoves
<1>4. TypeOK'
  BY <1>1, <1>2 DEF IInv, TypeOK
<1>5. InStep'
  BY <1>2 DEF IInv, InStep
<1>6. WithinWindows'
  BY <1>3 DEF WithinWindows, Nested
<1>7. StackIsBounded'
  BY <1>2 DEF IInv, StackIsBounded
<1>8. FinishesAtTheEnd' /\ SoundNeverBreaks'
  BY DEF FinishesAtTheEnd, IInv, SoundNeverBreaks
<1>. QED BY <1>4, <1>5, <1>6, <1>7, <1>8 DEF IInv

(* A step that reads nothing and finishes nothing.                         *)
LEMMA Idles ==
  ASSUME IInv, UNCHANGED <<sound, served, broken, position, frames>>,
         result' \in Results \ {"Finished"}
  PROVE  IInv'
  BY DEF IInv, TypeOK, InStep, WithinWindows, Nested, StackIsBounded,
         FinishesAtTheEnd, SoundNeverBreaks

(* Numbers the arithmetic below is about.                                  *)
LEMMA Numbers ==
  ASSUME IInv
  PROVE  /\ position \in Positions
         /\ position.position \in Nat
         /\ position.input_len \in Nat
         /\ position.input_len <= MaxLength
         /\ served \in Lengths
         /\ position.position <= position.input_len
         /\ remaining_len(position) = position.input_len - position.position
         /\ ~broken => served = position.position
  BY DEF IInv, TypeOK, InStep, WithinWindows, Nested, Positions, Lengths,
         remaining_len, saturating_sub

LEMMA ReadIntoIInv ==
  ASSUME IInv, NEW len \in Lengths, ReadInto(len)
  PROVE  IInv'
<1>1. len \in Nat
  BY DEF Lengths
<1>2. CASE position.position + len > position.input_len
  <2>1. /\ AdvanceError(position, len) \in {"Overflow", "Incomplete"}
        /\ advance(position, len) = position
    BY <1>1, <1>2, Numbers, AdvanceRefused
  <2>. QED
    BY <2>1, Idles DEF ReadInto, decoder, Results, Errors, PositionErrors
<1>3. CASE position.position + len <= position.input_len
  <2>1. AdvanceError(position, len) = "None"
    BY <1>1, <1>3, Numbers, AdvanceWithin
  <2>2. /\ position' = advance(position, len)
        /\ UNCHANGED frames
        /\ \/ Served(len) /\ result' = "Ok"
           \/ Refused(len) /\ result' = "Pem"
    BY <2>1 DEF ReadInto
  <2>3. result' \in Results \ {"Finished"}
    BY <2>2 DEF Results, Errors
  <2>4. sound \in BOOLEAN /\ broken \in BOOLEAN
    BY DEF IInv, TypeOK
  <2>5. CASE Served(len)
    <3>1. served' \in Lengths
      BY <2>5, <1>1, <1>3, Numbers DEF Served, Lengths
    <3>2. sound' = sound /\ broken' = broken /\ (~broken => served' = served + len)
      BY <2>5 DEF Served
    <3>. QED BY <3>1, <3>2, <2>2, <2>3, <2>4, <1>1, <1>3, Reads
  <2>6. CASE Refused(len)
    BY <2>6, <2>2, <2>3, <2>4, <1>1, <1>3, Numbers, Reads DEF Refused
  <2>. QED BY <2>2, <2>5, <2>6
<1>. QED BY <1>1, <1>2, <1>3, Numbers

LEMMA DrainIInv ==
  ASSUME IInv, NEW amount \in Lengths, Drain(amount)
  PROVE  IInv'
<1>1. amount \in Nat /\ sound \in BOOLEAN /\ broken \in BOOLEAN
  BY DEF Lengths, IInv, TypeOK
<1>2. UNCHANGED frames
  BY DEF Drain
<1>3. CASE DrainAll(amount)
  <2>1. position.position + amount <= position.input_len
    BY <1>3, <1>1, Numbers DEF DrainAll
  <2>2. /\ served' \in Lengths
        /\ sound' = sound /\ broken' = broken
        /\ ~broken => served' = served + amount
    BY <1>3, <1>1, <2>1, Numbers DEF DrainAll, Served, Lengths
  <2>3. position' = advance(position, amount) /\ result' \in Results \ {"Finished"}
    BY <1>3 DEF DrainAll, Results
  <2>. QED BY <1>1, <1>2, <2>1, <2>2, <2>3, Reads
<1>4. CASE DrainUntilTracker(amount)
  <2> DEFINE before == WholeBuffers(remaining_len(position))
             after == advance(position, before)
             piece == Piece(amount, before)
  <2>1. /\ before \in Nat
        /\ before <= position.input_len - position.position
        /\ before <= amount
    <3>1. remaining_len(position) \in Nat /\ remaining_len(position) < amount
      BY <1>4, <1>1, Numbers DEF DrainUntilTracker
    <3>. QED BY <3>1, <1>1, Numbers, WholeBuffersWithin
  <2>2. /\ served' \in Lengths
        /\ sound' = sound /\ broken' = broken
        /\ ~broken => served' = served + before
    BY <1>4, <2>1, Numbers DEF DrainUntilTracker, Served, Lengths
  <2>3. position' = after /\ result' = AdvanceError(after, piece)
    BY <1>4 DEF DrainUntilTracker
  <2>4. /\ after \in Positions
        /\ after.position = position.position + before
        /\ after.input_len = position.input_len
    BY <2>1, Numbers, AdvanceWithin
  <2>5. AdvanceError(after, piece) \in PositionErrors
    BY DEF AdvanceError, PositionErrors
  <2>6. after.position + piece > after.input_len
    <3>1. before + piece > remaining_len(position)
      <4>1. CASE amount - before < DrainBuffer
        BY <4>1, <1>4, <1>1, <2>1, Numbers DEF Piece, DrainUntilTracker
      <4>2. CASE ~(amount - before < DrainBuffer)
        <5>1. piece = DrainBuffer
          BY <4>2 DEF Piece
        <5>2. \A r \in Nat : WholeBuffers(r) + DrainBuffer > r
          BY DEF WholeBuffers
        <5>3. remaining_len(position) \in Nat
          BY Numbers
        <5>. QED BY <5>1, <5>2, <5>3
      <4>. QED BY <4>1, <4>2
    <3>2. piece \in Nat
      BY <1>1, <2>1 DEF Piece
    <3>. QED BY <3>1, <3>2, <2>1, <2>4, Numbers
  <2>7. result' \in Results \ {"Finished"}
    <3>1. piece \in Nat
      BY <1>1, <2>1 DEF Piece
    <3>2. AdvanceError(after, piece) \in {"Overflow", "Incomplete"}
      BY <3>1, <2>4, <2>6, AdvanceRefused
    <3>. QED BY <3>2, <2>3 DEF Results, Errors, PositionErrors
  <2>8. position.position + before <= position.input_len
    BY <2>1, Numbers
  <2>. QED BY <1>1, <1>2, <2>1, <2>2, <2>3, <2>7, <2>8, Reads
<1>5. CASE DrainUntilDecoder(amount)
  <2>1. PICK before \in {n \in 0 .. amount : n % DrainBuffer = 0} :
          /\ before < amount
          /\ before + Piece(amount, before) <= remaining_len(position)
          /\ broken \/ ~sound
          /\ broken' = TRUE
          /\ served' = IF broken THEN served ELSE served + before
          /\ UNCHANGED sound
          /\ position' = advance(position, before + Piece(amount, before))
          /\ result' = "Pem"
    BY <1>5 DEF DrainUntilDecoder
  <2> DEFINE n == before + Piece(amount, before)
  <2>2. n \in Nat /\ before \in Nat /\ before <= n
    BY <1>1, <2>1 DEF Piece
  <2>3. position.position + n <= position.input_len
    BY <2>1, <2>2, Numbers
  <2>4. served' \in Lengths
    BY <2>1, <2>2, <2>3, Numbers DEF Lengths
  <2>5. result' \in Results \ {"Finished"}
    BY <2>1 DEF Results, Errors
  <2>. QED BY <1>1, <1>2, <2>1, <2>2, <2>3, <2>4, <2>5, Reads
<1>. QED BY <1>3, <1>4, <1>5 DEF Drain

LEMMA EnterNestedIInv ==
  ASSUME IInv, NEW len \in Lengths, EnterNested(len)
  PROVE  IInv'
<1>1. /\ position \in Positions /\ frames \in Seq(Lengths)
      /\ Nested(position, frames) /\ len \in Nat
      /\ position' = split_nested(position, len)
      /\ UNCHANGED <<sound, served, broken>>
  BY DEF IInv, TypeOK, WithinWindows, Lengths, EnterNested, decoder
<1>2. position.depth \in Nat /\ Len(frames) <= position.depth /\ position.depth <= MaxDepth
  BY <1>1 DEF IInv, StackIsBounded, Positions
<1>3. CASE SplitError(position, len) = "None"
  <2>1. /\ position' \in Positions
        /\ position'.position = position.position
        /\ position'.input_len = position.position + len
        /\ position'.depth = position.depth + 1
        /\ position.depth < MaxDepth
        /\ position.position + len <= position.input_len
    <3>1. position.position + len <= position.input_len
      BY <1>1, <1>3, SplitRefused, Numbers
    <3>. QED BY <1>1, <1>3, <3>1, SplitWithin
  <2>2. frames' = Append(frames, position.input_len) /\ result' = "Ok"
    BY <1>3 DEF EnterNested
  <2>3. /\ frames' \in Seq(Lengths)
        /\ Len(frames') = Len(frames) + 1
        /\ Nested(position', frames')
    BY <1>1, <2>1, <2>2, WindowOpens, Numbers, SMTT(30)
  <2>4. TypeOK'
    BY <1>1, <2>1, <2>2, <2>3 DEF IInv, TypeOK, Results
  <2>5. WithinWindows'
    BY <2>3 DEF WithinWindows, Nested
  <2>6. StackIsBounded'
    BY <1>1, <1>2, <2>1, <2>3 DEF StackIsBounded
  <2>7. InStep' /\ FinishesAtTheEnd' /\ SoundNeverBreaks'
    BY <1>1, <2>1, <2>2 DEF IInv, SoundNeverBreaks, InStep, FinishesAtTheEnd
  <2>. QED BY <2>4, <2>5, <2>6, <2>7 DEF IInv
<1>4. CASE SplitError(position, len) # "None"
  <2>1. UNCHANGED frames /\ result' = SplitError(position, len)
    BY <1>4 DEF EnterNested
  <2>2. /\ position' \in Positions
        /\ position'.position = position.position
        /\ position'.input_len = position.input_len
        /\ \/ position'.depth = position.depth
           \/ position.depth < MaxDepth /\ position'.depth = position.depth + 1
        /\ SplitError(position, len) \in {"NestingDepth", "Overflow", "Incomplete"}
    <3>1. CASE position.position + len <= position.input_len
      BY <1>1, <1>4, <3>1, SplitWithin
    <3>2. CASE position.position + len > position.input_len
      BY <1>1, <3>2, SplitRefused
    <3>. QED BY <1>1, <3>1, <3>2, Numbers
  <2>3. Nested(position', frames)
    BY <1>1, <2>2, CursorMoves, Numbers
  <2>4. TypeOK'
    BY <1>1, <2>1, <2>2 DEF IInv, TypeOK, Results, Errors, PositionErrors
  <2>5. WithinWindows'
    BY <2>1, <2>3 DEF WithinWindows, Nested
  <2>6. StackIsBounded'
    BY <1>2, <2>1, <2>2 DEF StackIsBounded
  <2>7. InStep' /\ FinishesAtTheEnd' /\ SoundNeverBreaks'
    BY <1>1, <2>1, <2>2 DEF IInv, SoundNeverBreaks, InStep, FinishesAtTheEnd
  <2>. QED BY <2>4, <2>5, <2>6, <2>7 DEF IInv
<1>. QED BY <1>3, <1>4

LEMMA LeaveNestedIInv ==
  ASSUME IInv, NEW ok \in BOOLEAN, LeaveNested(ok)
  PROVE  IInv'
<1>1. /\ position \in Positions /\ frames \in Seq(Lengths) /\ frames # <<>>
      /\ Nested(position, frames)
      /\ position' = resume_nested(position, frames[Len(frames)])
      /\ frames' = SubSeq(frames, 1, Len(frames) - 1)
      /\ UNCHANGED <<sound, served, broken>>
      /\ result' \in {"Ok", "Value"}
  BY DEF IInv, TypeOK, WithinWindows, LeaveNested, decoder
<1>2. /\ position.depth \in Nat /\ Len(frames) <= position.depth
      /\ position.depth <= MaxDepth /\ Len(frames) > 0 /\ Len(frames) \in Nat
  BY <1>1 DEF IInv, StackIsBounded, Positions
<1>3. frames[Len(frames)] \in Lengths
  BY <1>1, <1>2, ElementOfSeq
<1>4. /\ position' \in Positions
      /\ position'.position = position.position
      /\ position'.input_len = frames[Len(frames)]
      /\ position'.depth = position.depth - 1
  BY <1>1, <1>2, <1>3, Resume
<1>5. /\ frames' \in Seq(Lengths)
      /\ Len(frames') = Len(frames) - 1
      /\ Nested(position', frames')
  BY <1>1, <1>4, WindowCloses
<1>6. TypeOK'
  BY <1>1, <1>4, <1>5 DEF IInv, TypeOK, Results, Errors
<1>7. WithinWindows'
  BY <1>5 DEF WithinWindows, Nested
<1>8. StackIsBounded'
  BY <1>2, <1>4, <1>5 DEF StackIsBounded
<1>9. InStep' /\ FinishesAtTheEnd' /\ SoundNeverBreaks'
  BY <1>1, <1>4 DEF IInv, SoundNeverBreaks, InStep, FinishesAtTheEnd
<1>. QED BY <1>6, <1>7, <1>8, <1>9 DEF IInv

LEMMA FinishIInv ==
  ASSUME IInv, Finish
  PROVE  IInv'
<1>1. /\ UNCHANGED <<sound, served, broken, position, frames>>
      /\ frames = <<>>
      /\ result' = IF is_finished THEN "Finished" ELSE "Rejected"
  BY DEF Finish
<1>2. /\ TypeOK' /\ InStep' /\ WithinWindows' /\ StackIsBounded'
      /\ SoundNeverBreaks'
  BY <1>1 DEF IInv, SoundNeverBreaks, TypeOK, InStep, WithinWindows, Nested, StackIsBounded, Results
<1>3. FinishesAtTheEnd'
  <2>1. position.input_len = InputLen
    BY <1>1 DEF IInv, WithinWindows, Nested
  <2>2. result' = "Finished" => position.position = position.input_len
    BY <1>1, Numbers DEF is_finished
  <2>. QED BY <1>1, <2>1, <2>2, Numbers DEF FinishesAtTheEnd
<1>. QED BY <1>2, <1>3 DEF IInv

LEMMA NextIInv == IInv /\ [Next]_vars => IInv'
<1> SUFFICES ASSUME IInv, [Next]_vars PROVE IInv'
  OBVIOUS
<1>1. ASSUME NEW len \in Lengths, ReadInto(len) PROVE IInv'
  BY <1>1, ReadIntoIInv
<1>2. ASSUME NEW len \in Lengths, Drain(len) PROVE IInv'
  BY <1>2, DrainIInv
<1>3. ASSUME NEW len \in Lengths, EnterNested(len) PROVE IInv'
  BY <1>3, EnterNestedIInv
<1>4. ASSUME NEW ok \in BOOLEAN, LeaveNested(ok) PROVE IInv'
  BY <1>4, LeaveNestedIInv
<1>5. CASE ReadSlice
  BY <1>5, Idles DEF ReadSlice, Results, Errors
<1>6. CASE MakeError
  BY <1>6, Idles DEF MakeError, Results, Errors
<1>7. CASE Finish
  BY <1>7, FinishIInv
<1>8. CASE UNCHANGED vars
  BY <1>8 DEF vars, IInv, TypeOK, InStep, WithinWindows, Nested,
         StackIsBounded, FinishesAtTheEnd, SoundNeverBreaks
<1>. QED BY <1>1, <1>2, <1>3, <1>4, <1>5, <1>6, <1>7, <1>8 DEF Next

-----------------------------------------------------------------------------
(* The invariant holds in every reachable state.                           *)
THEOREM Invariance == Spec => []IInv
<1>1. Init => IInv
  BY InitIInv
<1>2. IInv /\ [Next]_vars => IInv'
  BY NextIInv
<1>. QED BY <1>1, <1>2, PTL DEF Spec

(* The reader's fields and saved resumptions keep their types.             *)
THEOREM TypeCorrect == Spec => []TypeOK
<1>1. IInv => TypeOK
  BY DEF IInv
<1>. QED BY <1>1, Invariance, PTL

(* Tracker and Base64 decoder stay in step, the cursor is inside every     *)
(* open window, the depth counter bounds the stack, and finish means that  *)
(* the whole document was read (PemReader::read_into, read_nested, finish).*)
THEOREM Safety ==
  Spec => [](InStep /\ WithinWindows /\ StackIsBounded /\ FinishesAtTheEnd)
<1>1. IInv => InStep /\ WithinWindows /\ StackIsBounded /\ FinishesAtTheEnd
  BY DEF IInv
<1>. QED BY <1>1, Invariance, PTL

(* The cursor is inside every value being read, whatever was left unread or*)
(* refused in the ones that ended (PemReader::read_nested).                *)
THEOREM Windows == Spec => []WithinWindows
<1>1. IInv => WithinWindows
  BY DEF IInv
<1>. QED BY <1>1, Invariance, PTL

(* A reader that finishes has read the whole document (PemReader::finish). *)
THEOREM Finishing == Spec => []FinishesAtTheEnd
<1>1. IInv => FinishesAtTheEnd
  BY DEF IInv
<1>. QED BY <1>1, Invariance, PTL

(* Of sound text, whatever remains of the innermost value can be read: the *)
(* tracker refuses nothing the Base64 decoder would serve, and the decoder *)
(* nothing the tracker lets through (PemReader::new, read_into, drain).    *)
THEOREM Serving == Spec => ServesWhatRemains
<1> DEFINE Serves(len) ==
      (ReadInto(len) \/ Drain(len)) /\ sound /\ len <= remaining_len(position)
         => result' = "Ok"
<1>1. ASSUME IInv, NEW len \in Lengths PROVE Serves(len)
  <2> SUFFICES ASSUME ReadInto(len) \/ Drain(len), sound,
                      len <= remaining_len(position)
               PROVE  result' = "Ok"
    OBVIOUS
  <2>1. ~broken /\ len \in Nat /\ position.position + len <= position.input_len
    BY <1>1, Numbers DEF IInv, SoundNeverBreaks, Lengths
  <2>2. AdvanceError(position, len) = "None"
    BY <1>1, <2>1, Numbers, AdvanceWithin
  <2>3. CASE ReadInto(len)
    BY <2>1, <2>2, <2>3 DEF ReadInto, Refused
  <2>4. CASE Drain(len)
    <3>1. ~DrainUntilTracker(len)
      BY <1>1, <2>1, Numbers DEF DrainUntilTracker
    <3>2. ~DrainUntilDecoder(len)
      BY <2>1 DEF DrainUntilDecoder
    <3>. QED BY <2>4, <3>1, <3>2 DEF Drain, DrainAll
  <2>. QED BY <2>3, <2>4
<1>2. IInv => [\A len \in Lengths : Serves(len)]_vars
  BY <1>1
<1>. QED BY <1>2, Invariance, PTL DEF ServesWhatRemains

=============================================================================
