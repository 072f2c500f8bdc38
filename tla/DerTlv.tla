--------------------------------- MODULE DerTlv ---------------------------------
(***************************************************************************)
(* Values in values: Header::decode, read_value (der/src/reader.rs) and    *)
(* Encode (der/src/encode.rs), driven by a decoder that opens every value  *)
(* that is constructed and takes the octets of every other one: the `walk` *)
(* of der/tests/nesting.rs, for any constructed tag.                       *)
(*                                                                         *)
(* A behaviour reads one input three times: by the rules of DER, by those  *)
(* of BER, and then what encoding the BER values gave, by those of DER.    *)
(***************************************************************************)
EXTENDS DerHeader

CONSTANTS
  MaxDepth,  \* 64: how many values may be open at once
  Inputs,    \* octets that nobody is known to have written
  Values     \* values to write and read back

VARIABLES
  input,     \* the octets being read
  source,    \* the value they were written for, if any
  round,     \* "der", "ber", "again", "over"
  position,  \* octets read
  frames,    \* values being read, outermost first
  root,      \* the outermost value, once read
  answers    \* what each round returned: a value or an error

vars == <<input, source, round, position, frames, root, answers>>

Rounds == {"der", "ber", "again"}
Pending == [state |-> "pending"]
Rules == IF round = "ber" THEN "Ber" ELSE "Der"

--------------------------------------------------------------------------------
Init ==
  /\ \/ input \in Inputs /\ source = Err
     \/ \E v \in Values : Fits(v) /\ input = Encode(v) /\ source = Ok(v)
  /\ round = "der"
  /\ position = 0 /\ frames = <<>> /\ root = Err
  /\ answers = [r \in Rounds |-> Pending]

Top == frames[Len(frames)]
Limit == IF frames = <<>> THEN Len(input) ELSE Top.end

(* Another value is read at the top, and inside as long as there is more.  *)
ExpectsValue ==
  /\ round \in Rounds
  /\ IF frames = <<>> THEN root = Err ELSE position < Top.end

(* Where the value ends, without its end-of-contents octets (sans_eoc).    *)
(* Faulty: BER is taken to be indefinite.                                  *)
ValueEnd_by_rules(h) == h.next + h.length - (IF Rules = "Ber" THEN 2 ELSE 0)

ValueEnd(h) == h.next + h.length - (IF h.indefinite THEN 2 ELSE 0)

Opens(h) == h.tag.constructed

(* decode_value_parts of a constructed octet string: the segments are put  *)
(* together; segments of indefinite length are refused (read_constructed_- *)
(* vec), and constructed strings of definite length.                       *)
Segments(h) ==
  LET rest[p \in h.next .. ValueEnd(h)] ==
        LET Segment(c, after) ==
              IF c.tag # h.tag \/ c.indefinite \/ after > ValueEnd(h) THEN Err
              ELSE Then(rest[after], LAMBDA more : Ok(SubSeq(input, c.next + 1, after) \o more))
        IN  IF p = ValueEnd(h) THEN Ok(<<>>)
            ELSE Then(DecodeHeader(input, p, ValueEnd(h), Rules),
                      LAMBDA c : Segment(c, c.next + c.length))
  IN  rest[h.next]

(* decode_value_parts.                                                     *)
Contents(h) ==
  IF ~h.constructed THEN Ok(SubSeq(input, h.next + 1, ValueEnd(h)))
  ELSE IF ~h.indefinite THEN Err ELSE Segments(h)

(* The header of the next value, if the value can be read: its window must *)
(* be one that read_nested can open, and its contents must be acceptable.  *)
Accepts(h) ==
  /\ ValueEnd(h) <= Limit
  /\ Len(frames) < MaxDepth
  /\ Opens(h) \/ Contents(h) # Err

Accepted == {h \in ToSet(DecodeHeader(input, position, Limit, Rules)) : Accepts(h)}

Deliver(value) ==
  IF frames = <<>>
  THEN root' = Ok(value) /\ UNCHANGED frames
  ELSE /\ frames' = [frames EXCEPT ![Len(frames)].items = Append(@, value)]
       /\ UNCHANGED root

(* read_value takes the end-of-contents octets of a value it has read.     *)
PastEoc(h) == IF h.indefinite THEN ValueEnd(h) + 2 ELSE ValueEnd(h)

ReadLeaf ==
  /\ ExpectsValue
  /\ \E h \in Accepted :
       /\ ~Opens(h)
       /\ position' = PastEoc(h)
       /\ Deliver(Leaf(h.tag, Contents(h)[1]))
  /\ UNCHANGED <<input, source, round, answers>>

Frame(h) == [tag |-> h.tag, end |-> ValueEnd(h), indefinite |-> h.indefinite, items |-> <<>>]

OpenValue ==
  /\ ExpectsValue
  /\ \E h \in Accepted :
       /\ Opens(h)
       /\ position' = h.next
       /\ frames' = Append(frames, Frame(h))
  /\ UNCHANGED <<input, source, round, root, answers>>

(* read_value after its closure: read_eoc finds two zeros or fails.        *)
OuterLimit == IF Len(frames) = 1 THEN Len(input) ELSE frames[Len(frames) - 1].end

EocIsThere == IF Top.indefinite THEN read_eoc(input, Top.end, OuterLimit) ELSE TRUE

CloseValue ==
  /\ frames # <<>> /\ position = Top.end /\ EocIsThere
  /\ position' = IF Top.indefinite THEN Top.end + 2 ELSE Top.end
  /\ LET outer == Front(frames)
         value == Node(Top.tag, Top.items)
     IN  IF outer = <<>>
         THEN frames' = outer /\ root' = Ok(value)
         ELSE frames' = [outer EXCEPT ![Len(outer)].items = Append(@, value)] /\ UNCHANGED root
  /\ UNCHANGED <<input, source, round, answers>>

--------------------------------------------------------------------------------
(* from_der and from_ber return.                                           *)
Return(answer) ==
  /\ answers' = [answers EXCEPT ![round] = answer]
  /\ position' = 0 /\ frames' = <<>> /\ root' = Err
  /\ CASE round = "der" -> round' = "ber" /\ UNCHANGED input
       [] round = "ber" /\ answer.state = "Ok" ->
            IF Fits(answer.value)
            THEN round' = "again" /\ input' = Encode(answer.value)
            ELSE round' = "over" /\ UNCHANGED input
       [] OTHER -> round' = "over" /\ UNCHANGED input
  /\ UNCHANGED source

Fail ==
  /\ \/ ExpectsValue /\ Accepted = {}
     \/ frames # <<>> /\ position = Top.end /\ ~EocIsThere
  /\ Return([state |-> "Err"])

(* finish: nothing may follow the outermost value.                         *)
Finish ==
  /\ root # Err
  /\ Return(IF position = Len(input) THEN [state |-> "Ok", value |-> root[1]]
                                     ELSE [state |-> "Err"])

Next == ReadLeaf \/ OpenValue \/ CloseValue \/ Fail \/ Finish

Spec == Init /\ [][Next]_vars

--------------------------------------------------------------------------------
Returned(r) == answers[r].state = "Ok"

(* DER is canonical: writing what was read gives the octets it was read    *)
(* from, so no two inputs are read as the same value, and as many as       *)
(* encoded_len announced (Tag, Length and Header, decoders and encoders).  *)
DerIsCanonical ==
  round = "ber" /\ Returned("der") =>
    /\ Encode(answers["der"].value) = input
    /\ encoded_len(answers["der"].value) = Len(input)

(* What is written is read as it was meant, whatever its tags and lengths. *)
ReadsBackWhatWasWritten ==
  source # Err /\ round = "ber" =>
    Returned("der") /\ answers["der"].value = source[1]

(* BER only adds to DER: what DER reads, BER reads as the same value.      *)
BerExtendsDer ==
  round \in {"again", "over"} /\ Returned("der") => answers["ber"] = answers["der"]

(* The end that was looked for ahead of the contents of a value of         *)
(* indefinite length is where reading the contents arrives.                *)
EndIsWhereContentsEnd ==
  frames # <<>> /\ position = Top.end /\ Top.indefinite =>
    Top.end + 2 <= OuterLimit /\ SubSeq(input, Top.end + 1, Top.end + 2) = <<0, 0>>

(* A document of BER can be rewritten as DER: the values it was read as    *)
(* are written so that DER reads them back, end-of-contents octets and     *)
(* segments gone; and no value ended elsewhere than was found ahead.       *)
BerBecomesDer ==
  /\ EndIsWhereContentsEnd
  /\ round = "over" /\ answers["again"] # Pending => answers["again"] = answers["ber"]
================================================================================
