--------------------------------- MODULE PemText ---------------------------------
(***************************************************************************)
(* base64ct::Encoder, which encodes piece by piece and wraps lines         *)
(* (base64ct/src/encoder.rs), and PEM documents around it (pem-rfc7468).   *)
(*                                                                         *)
(* Characters are those of Base64Encoding, and the ones below.  The        *)
(* octets of a document are read as Base64Decoder reads the lines of       *)
(* Base64Encoding; what it returns for all of them is Meaning there.          *)
(* Results are <<x>> or, for an error, <<>>.                               *)
(***************************************************************************)
LOCAL INSTANCE Integers
LOCAL INSTANCE Sequences
LOCAL INSTANCE SequencesExt
LOCAL INSTANCE Functions
LOCAL INSTANCE Base64Encoding

SP == 69
Dash == 70
NUL == 71
Sign == 72        \* any other visible character

(* LineEnding.                                                             *)
Endings == [CR |-> <<CR>>, LF |-> <<LF>>, CRLF |-> <<CR, LF>>]

--------------------------------------------------------------------------------
(* An encoder at work: the output so far, the octets of a block that is    *)
(* not complete, and line_wrapper.remaining.  `o` is [padded, width,       *)
(* ending, room]: width 0 is no wrapping, room is the output's length.     *)
Started(o) == [out |-> <<>>, buffer |-> <<>>, remaining |-> o.width, failed |-> FALSE]
Failed(e) == [e EXCEPT !.failed = TRUE]

(* LineWrapper::wrap_blocks: whole blocks for this line.                   *)
wrap_blocks(o, e, blocks) ==
  IF o.width > 0 /\ 4 * blocks >= e.remaining THEN e.remaining \div 4 ELSE blocks

(* perform_encode, with LineWrapper::insert_newlines.                      *)
Breaks(e, chars) == Len(chars) > e.remaining

WrapChars(o, e, chars, left) ==
  CASE Len(chars) > left -> Failed(e)
    [] Len(chars) <= left /\ o.width = 0 -> [e EXCEPT !.out = @ \o chars]
    [] Len(chars) <= left /\ o.width > 0 /\ ~Breaks(e, chars) ->
         [e EXCEPT !.out = @ \o chars, !.remaining = @ - Len(chars)]
    [] OTHER ->
         IF Len(chars) + Len(Endings[o.ending]) >= left THEN Failed(e)
         ELSE [e EXCEPT !.out = @ \o Taken(chars, e.remaining) \o Endings[o.ending]
                                  \o After(chars, e.remaining),
                        !.remaining = o.width - (Len(chars) - e.remaining)]
perform_encode(o, e, octets) ==
  WrapChars(o, e, encode(o.padded, octets), o.room - Len(e.out))

(* process_buffer: the block is completed, and encoded when it is.         *)
Filled(o, e, buffer) ==
  IF Len(buffer) = 3 THEN perform_encode(o, [e EXCEPT !.buffer = <<>>], buffer)
  ELSE [e EXCEPT !.buffer = buffer]
process_buffer(o, e, input) ==
  [encoder |-> Filled(o, e, e.buffer \o Taken(input, 3 - Len(e.buffer))),
   input |-> After(input, 3 - Len(e.buffer))]

(* One pass of the loop of encode, over an encoder and the input left.     *)
Remainder(o, at) ==
  IF at.encoder.failed \/ at.input = <<>> THEN at
  ELSE process_buffer(o, at.encoder, at.input)
Stride(o, at, blocks) ==
  IF blocks = 0 THEN at
  ELSE [encoder |-> perform_encode(o, at.encoder, Taken(at.input, 3 * blocks)),
        input |-> After(at.input, 3 * blocks)]
Pass(o, at) ==
  IF at.encoder.failed \/ at.input = <<>> THEN at
  ELSE Remainder(o, Stride(o, at,
         wrap_blocks(o, at.encoder,
                     MinOf(Len(at.input) \div 3, (o.room - Len(at.encoder.out)) \div 4))))

(* Encoder::encode of one piece.                                           *)
Fed(o, e, piece) ==
  FoldLeft(LAMBDA at, i : IF i = 0 /\ at.encoder.buffer # <<>> THEN Remainder(o, at)
                          ELSE Pass(o, at),
           [encoder |-> e, input |-> piece], [i \in 1 .. Len(piece) + 1 |-> i - 1]).encoder

(* Octets fed in pieces of n, and finish.                                  *)
Pieces(octets, n) ==
  [i \in 1 .. (Len(octets) + n - 1) \div n |->
     SubSeq(octets, n * (i - 1) + 1, MinOf(n * i, Len(octets)))]
Finish(o, e) == IF e.failed \/ e.buffer = <<>> THEN e ELSE perform_encode(o, e, e.buffer)
OutputOf(e) == IF e.failed THEN <<>> ELSE <<e.out>>
EncodePieces(o, octets, n) ==
  IF o.room = 0 \/ o.width \in 1 .. MIN_LINE_WIDTH - 1 THEN <<>>
  ELSE OutputOf(Finish(o, FoldLeft(LAMBDA e, piece : Fed(o, e, piece),
                                   Started(o), Pieces(octets, n))))

(* base64_len_wrapped.                                                     *)
base64_len_wrapped(len, width, ending) ==
  len + (IF width = 0 \/ len = 0 THEN 0 ELSE (len - 1) \div width) * Len(Endings[ending])

(* The octets of wrapped text, read to the end.                            *)
SoundData(m) == IF m.sound THEN <<m.data>> ELSE <<>>
DecodeLines(in) == IF Constructs(in) THEN SoundData(Meaning(in)) ELSE <<>>

--------------------------------------------------------------------------------
(* PEM: the document is <<label, octets>>, `p` is [width, ending].         *)
Delimiter == <<Dash, Dash, Dash, Dash, Dash>>
PRE_ENCAPSULATION_BOUNDARY == Delimiter \o <<1, 4, 6, 8, 13, SP>>
POST_ENCAPSULATION_BOUNDARY == Delimiter \o <<4, 13, 3, SP>>

is_labelchar(c) == c \in Sextets \union {Pad, Sign}
is_wsp(c) == c = SP

HasRepeatedSpace(label) == \E i \in DOMAIN Tail(label) : is_wsp(label[i]) /\ is_wsp(label[i + 1])
validate_label(label) ==
  /\ \A i \in DOMAIN label : is_labelchar(label[i]) \/ is_wsp(label[i])
  /\ label = <<>> \/ ~HasRepeatedSpace(label)

encapsulated_len_wrapped(label, width, ending, n) ==
  Len(PRE_ENCAPSULATION_BOUNDARY) + Len(POST_ENCAPSULATION_BOUNDARY)
    + 2 * (Len(label) + Len(Delimiter)) + 3 * Len(Endings[ending])
    + base64_len_wrapped((((n * 4) \div 3 + 3) \div 4) * 4, width, ending)

(* Encoder::new_wrapped, encode and finish, into a buffer of the length    *)
(* announced.                                                              *)
Encapsulate(begin, body, end, len) ==
  IF body = <<>> THEN <<>>
  ELSE IF Len(begin) + Len(body[1]) + Len(end) <= len THEN <<begin \o body[1] \o end>>
  ELSE <<>>
PemEncodeInto(p, label, octets, len, eol) ==
  Encapsulate(
    PRE_ENCAPSULATION_BOUNDARY \o label \o Delimiter \o eol,
    EncodePieces([padded |-> TRUE, width |-> p.width, ending |-> p.ending,
                  room |-> len - (Len(PRE_ENCAPSULATION_BOUNDARY) + Len(label)
                                    + Len(Delimiter) + Len(eol))],
                 octets, Len(octets) + 1),
    eol \o POST_ENCAPSULATION_BOUNDARY \o label \o Delimiter \o eol,
    len)
PemEncode(p, document) ==
  IF validate_label(document[1])
  THEN PemEncodeInto(p, document[1], document[2],
         encapsulated_len_wrapped(document[1], p.width, p.ending, Len(document[2])),
         Endings[p.ending])
  ELSE <<>>

(* Encapsulation::parse, which takes a text apart: <<label, text>>.        *)
FirstOf(S) == CHOOSE k \in S : \A j \in S : k <= j
strip_preamble(text) ==
  LET starts == {k \in DOMAIN text :
                   /\ k = 1 \/ text[k - 1] = LF
                   /\ IsPrefix(PRE_ENCAPSULATION_BOUNDARY, SubSeq(text, k, Len(text)))}
  IN  IF starts = {} THEN <<>>
      ELSE IF \E k \in 1 .. FirstOf(starts) - 1 : text[k] = NUL THEN <<>>
      ELSE <<SubSeq(text, FirstOf(starts), Len(text))>>

EndOfLine(s) == IF s = <<>> THEN 0 ELSE EolLen(s)
strip_leading_eol(s) == IF EndOfLine(s) = 0 THEN <<>> ELSE <<After(s, EndOfLine(s))>>
strip_trailing_eol(s) == IF s = <<>> \/ trim_end(s) = s THEN <<>> ELSE <<trim_end(s)>>

(* <<label, body>>.                                                        *)
SplitAt(s, label, body) ==
  IF /\ validate_label(label) /\ (label # <<>> => ~is_wsp(label[1]))
     /\ SubSeq(s, Len(label) + 1, Len(label) + 5) = Delimiter
     /\ body # <<>>
  THEN <<label, body[1]>>
  ELSE <<>>
split_label(s) ==
  LET dashes == {k \in DOMAIN s : s[k] = Dash} IN
  IF dashes = {} THEN <<>>
  ELSE SplitAt(s, SubSeq(s, 1, FirstOf(dashes) - 1),
               strip_leading_eol(SubSeq(s, FirstOf(dashes) + 5, Len(s))))

Without(s, suffix) == SubSeq(s, 1, Len(s) - Len(suffix))
Inner(label, inner) == IF inner = <<>> THEN <<>> ELSE <<label, inner[1]>>
Enclosed(label, body, boundary) ==
  IF IsSuffix(boundary, body) THEN Inner(label, strip_trailing_eol(Without(body, boundary)))
  ELSE <<>>
ParseLabel(split) ==
  IF split = <<>> THEN <<>>
  ELSE Enclosed(split[1], trim_end(split[2]), POST_ENCAPSULATION_BOUNDARY \o split[1] \o Delimiter)
ParseData(data) ==
  IF data = <<>> THEN <<>>
  ELSE ParseLabel(split_label(After(data[1], Len(PRE_ENCAPSULATION_BOUNDARY))))
parse(text) == ParseData(strip_preamble(text))

(* Decoder::new_wrapped, or new_detect_wrap with the width of the first    *)
(* line; then all the octets, and is_finished at the end.                  *)
Document(label, octets) == IF octets = <<>> THEN <<>> ELSE << <<label, octets[1]>> >>
DecodeInner(e, width) ==
  IF e = <<>> \/ width < MIN_LINE_WIDTH THEN <<>>
  ELSE Document(e[1], DecodeLines([text |-> e[2], width |-> width, padded |-> TRUE]))
PemDecode(p, text) == DecodeInner(parse(text), p.width)

detect_base64_line_width(e) ==
  LET breaks == {k \in DOMAIN e[2] : e[2][k] \in {CR, LF}} IN
  IF e = <<>> THEN 0 ELSE IF breaks = {} THEN Len(e[2]) ELSE FirstOf(breaks) - 1
DetectInner(e) == DecodeInner(e, detect_base64_line_width(e))
PemDetect(text) == DetectInner(parse(text))

================================================================================
