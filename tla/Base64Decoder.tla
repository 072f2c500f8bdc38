---------------------------- MODULE Base64Decoder ---------------------------
(***************************************************************************)
(* base64ct::Decoder (base64ct/src/decoder.rs): decoding line-wrapped      *)
(* Base64 piece by piece, into buffers of any length.                      *)
(*                                                                         *)
(* A call of decode is a loop whose every pass uses up the block buffer,   *)
(* moves to the next line, decodes whole blocks straight into the output   *)
(* and otherwise decodes one block, possibly split across two lines, into  *)
(* the block buffer.  Each of these is an action; `pc` says which is next. *)
(***************************************************************************)
EXTENDS Base64Encoding

CONSTANTS
  Inputs,     \* records [text, width, padded]; width 0 is an unwrapped text
  MaxRequest  \* bound: the longest buffer a caller passes

ASSUME InputsAssumption ==
  /\ MaxRequest \in Nat
  /\ \A in \in Inputs : in.text \in Seq(Nat) /\ in.width \in Nat /\ in.padded \in BOOLEAN

VARIABLES
  input,         \* the text being decoded
  meant,         \* history: what the text stands for
  line,          \* what is left of the current line
  rest,          \* line_reader.remaining
  remaining_len, \* octets the decoder says are left
  block,         \* the unread octets of the block buffer
  out,           \* what the current call has written: out[..out_pos]
  request,       \* out.len() of the current or last call
  pc,            \* the step the call is at; "idle" between calls
  delivered,     \* history: what successful calls returned before any error
  erred          \* history: has a call returned an error?

vars == <<input, meant, line, rest, remaining_len, block, out, request, pc,
          delivered, erred>>

Init ==
  /\ input \in {in \in Inputs : Constructs(in)}
  /\ meant = Meaning(input)
  /\ line = <<>>
  /\ rest = input.text
  /\ remaining_len = DecodedLen(input).len
  /\ block = <<>>
  /\ out = <<>>
  /\ request = 0
  /\ pc = "idle"
  /\ delivered = <<>>
  /\ erred = FALSE

(* is_finished, of what is left of the line and after it.  Faulty: also    *)
(* the announced length must be used up.                                   *)
finished_counted(l, r) == l = <<>> /\ r = <<>> /\ block = <<>> /\ remaining_len = 0

finished(l, r) == l = <<>> /\ r = <<>> /\ block = <<>>

is_finished == finished(line, rest)

(* How much of the caller's buffer is still to be filled.                  *)
out_rem == request - Len(out)

(* perform_decode: padding is only allowed in the last block.  Faulty: it  *)
(* is allowed nowhere; errors are dropped.                                 *)
perform_decode_never_padded(src, room, last) == decode(FALSE, src, room)
perform_decode_unchecked(src, room, last) == Ok(DecodeSextets(src))

perform_decode(src, room, last) ==
  decode(input.padded /\ last, src, room)

Fail ==
  /\ pc' = "idle"
  /\ erred' = TRUE
  /\ UNCHANGED <<input, meant, remaining_len, request, delivered>>

-----------------------------------------------------------------------------
(* The caller passes a buffer of n octets to decode or read_exact ...      *)
Decode(n) ==
  /\ pc = "idle"
  /\ request' = n
  /\ out' = <<>>
  /\ pc' = "enter"
  /\ UNCHANGED <<input, meant, line, rest, remaining_len, block, delivered, erred>>

(* ... or to read, which asks for no more than what remains; decode_to_end *)
(* and read_to_end ask for all of it.                                      *)
Read(n) ==
  /\ pc = "idle"
  /\ ~is_finished
  /\ request' = MinOf(n, remaining_len)
  /\ out' = <<>>
  /\ pc' = "enter"
  /\ UNCHANGED <<input, meant, line, rest, remaining_len, block, delivered, erred>>

Enter ==
  /\ pc = "enter"
  /\ IF is_finished /\ request > 0
     THEN Fail
     ELSE /\ pc' = "loop"
          /\ UNCHANGED <<input, meant, remaining_len, request, delivered, erred>>
  /\ UNCHANGED <<line, rest, block, out>>

(* BlockBuffer::take.                                                      *)
TakeBuffered ==
  /\ pc = "loop"
  /\ Len(out) < request
  /\ out' = out \o Taken(block, out_rem)
  /\ block' = After(block, out_rem)
  /\ pc' = "advance"
  /\ UNCHANGED <<input, meant, line, rest, remaining_len, request, delivered, erred>>

(* advance_line, when it is needed.                                        *)
AdvanceLine ==
  /\ pc = "advance"
  /\ IF line = <<>> /\ rest # <<>>
     THEN LET n == NextLine(rest, input.width) IN
            /\ rest' = n.rest
            /\ IF n.kind = "Line"
               THEN /\ line' = n.line
                    /\ pc' = "stride"
                    /\ UNCHANGED <<input, meant, remaining_len, request, delivered, erred>>
               ELSE Fail /\ UNCHANGED line
     ELSE /\ pc' = "stride"
          /\ UNCHANGED <<input, meant, line, rest, remaining_len, request, delivered, erred>>
  /\ UNCHANGED <<block, out>>

(* Whole blocks of the line go straight to the output.                     *)
DecodeStride ==
  LET blocks == MinOf(Len(line) \div 4, out_rem \div 3)
      src == Taken(line, 4 * blocks)
      left == After(line, 4 * blocks)
      r == perform_decode(src, 3 * blocks, finished(left, rest))
  IN
  /\ pc = "stride"
  /\ line' = left
  /\ IF blocks > 0 /\ r.err # "None"
     THEN Fail /\ UNCHANGED out
     ELSE /\ out' = IF blocks > 0 THEN out \o r.out ELSE out
          /\ IF Len(out') < request /\ finished(left, rest)
             THEN Fail
             ELSE /\ pc' = IF Len(out') < request THEN "fill" ELSE "loop"
                  /\ UNCHANGED <<input, meant, remaining_len, request, delivered, erred>>
  /\ UNCHANGED <<rest, block>>

(* fill_block_buffer: one more block, which may begin on this line and end *)
(* on the next.                                                            *)
FillBlock ==
  LET begin == Taken(line, 4)
      split == Len(line) < 4 /\ rest # <<>>
      n == NextLine(rest, input.width)
      end == Taken(n.line, 4 - Len(begin))
      src == IF split THEN begin \o end ELSE begin
      line1 == IF split THEN After(n.line, 4 - Len(begin)) ELSE After(line, 4)
      rest1 == IF split THEN n.rest ELSE rest
      r == perform_decode(src, 3, finished(line1, rest1))
  IN
  /\ pc = "fill"
  /\ rest' = rest1
  /\ \/ /\ split /\ n.kind # "Line"
        /\ line' = <<>>
        /\ Fail
        /\ UNCHANGED block
     \/ /\ split => n.kind = "Line"
        /\ line' = line1
        /\ IF r.err = "None"
           THEN /\ block' = r.out
                /\ pc' = "loop"
                /\ UNCHANGED <<input, meant, remaining_len, request, delivered, erred>>
           ELSE Fail /\ UNCHANGED block
  /\ UNCHANGED out

(* The loop is over.                                                       *)
Return ==
  /\ pc = "loop"
  /\ Len(out) >= request
  /\ IF request > remaining_len
     THEN Fail
     ELSE /\ remaining_len' = remaining_len - request
          /\ delivered' = IF erred THEN delivered ELSE delivered \o out
          /\ pc' = "idle"
          /\ UNCHANGED <<input, meant, request, erred>>
  /\ UNCHANGED <<line, rest, block, out>>

Step == Enter \/ TakeBuffered \/ AdvanceLine \/ DecodeStride \/ FillBlock \/ Return

Next == Step \/ \E n \in 0 .. MaxRequest : Decode(n) \/ Read(n)

Spec == Init /\ [][Next]_vars

(* A call that was made keeps running: the loop is ordinary code.          *)
FairSpec == Spec /\ WF_vars(Step)

-----------------------------------------------------------------------------
(***************************************************************************)
(* Properties.                                                             *)
(***************************************************************************)
(* remaining_len counts down exactly what was not delivered, from the      *)
(* length computed before anything was decoded; of sound text nothing is   *)
(* left over when all of that has been delivered, and the decoder is not   *)
(* finished before.                                                        *)
LengthIsExact ==
  ~erred /\ pc = "idle" =>
    /\ remaining_len = Len(meant.data) - Len(delivered)
    /\ meant.sound => (is_finished <=> remaining_len = 0)

(* What is decoded to its end piece by piece, decode accepts in one piece: *)
(* splitting a text over calls and lines never makes it acceptable.        *)
NoLaxerThanOneShot ==
  ~erred /\ pc = "idle" /\ remaining_len = 0 => meant.whole = Ok(delivered)

(* Calls hand out the next octets of the data, however the text is wrapped *)
(* and whatever lengths the callers ask for; sound text is never refused.  *)
Source ==
  INSTANCE ByteSource WITH
    data <- meant.data,
    sound <- meant.sound,
    asked <- IF pc = "idle" THEN -1 ELSE request,
    broken <- erred

ImplementsByteSource == Source!Spec

(* Every call of decode returns.                                           *)
CallsReturn == pc # "idle" ~> pc = "idle"

=============================================================================
