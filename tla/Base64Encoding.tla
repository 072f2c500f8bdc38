--------------------------- MODULE Base64Encoding ---------------------------
(***************************************************************************)
(* The one-shot Base64 codec of base64ct (base64ct/src/encoding.rs and     *)
(* alphabet.rs) as operators on sequences.                                 *)
(*                                                                         *)
(* An alphabet only renames the 64 characters, so a character is the       *)
(* sextet it stands for, or Pad, or one of the line ending characters;     *)
(* every other number is a character outside the alphabet.  Octets are     *)
(* 0 .. 255.  The constant-time arithmetic of the code is modelled by what *)
(* it computes.                                                            *)
(***************************************************************************)
EXTENDS Integers, Sequences, SequencesExt

Pad == 64
CR  == 66
LF  == 67

Sextets == 0 .. 63

Ok(out) == [err |-> "None", out |-> out]
Err(kind) == [err |-> kind, out |-> <<>>]

-----------------------------------------------------------------------------
(* Alphabet::decode_3bytes and encode_3bytes, on characters known to be    *)
(* sextets.                                                                *)
decode_3bytes(c) ==
  << c[1] * 4 + c[2] \div 16,
     (c[2] % 16) * 16 + c[3] \div 4,
     (c[3] % 4) * 64 + c[4] >>

encode_3bytes(b) ==
  << b[1] \div 4,
     (b[1] % 4) * 16 + b[2] \div 16,
     (b[2] % 16) * 4 + b[3] \div 64,
     b[3] % 64 >>

(* The k-th block of n elements, filled up with zeros.                     *)
Block(s, n, k) ==
  [j \in 1 .. n |-> IF n * k + j <= Len(s) THEN s[n * k + j] ELSE 0]

-----------------------------------------------------------------------------
decoded_len(n) ==
  LET k == n \div 4
      l == n - 4 * k
  IN  3 * k + (3 * l) \div 4

encoded_len(n, padded) ==
  LET len == 4 * ((n + 2) \div 3)
  IN  IF padded \/ n % 3 = 0 THEN len ELSE len - (3 - (n % 3))

-----------------------------------------------------------------------------
(* Encoding::encode into a buffer that is large enough.                    *)
encode(padded, bytes) ==
  [i \in 1 .. encoded_len(Len(bytes), padded) |->
     IF i > encoded_len(Len(bytes), FALSE) THEN Pad
     ELSE encode_3bytes(Block(bytes, 3, (i - 1) \div 4))[((i - 1) % 4) + 1]]

(* The octets of unpadded text, the last block filled up with A's.         *)
DecodeSextets(src) ==
  [i \in 1 .. decoded_len(Len(src)) |->
     decode_3bytes(Block(src, 4, (i - 1) \div 3))[((i - 1) % 3) + 1]]

(* decode_padding: how many characters of a padded text are not padding,   *)
(* -1 for a text that is not whole blocks; "=x" at the end counts one pad  *)
(* that is not there, which is an error of the characters.                 *)
PadAt(src, i) == IF src[i] = Pad THEN 1 ELSE 0
PadsAtEnd(src) ==
  LET n == Len(src) IN IF n < 2 THEN 0 ELSE PadAt(src, n - 1) + PadAt(src, n)

decode_padding(src) ==
  IF Len(src) % 4 # 0 THEN -1 ELSE Len(src) - PadsAtEnd(src)

MisplacedPad(src) == PadsAtEnd(src) > 0 /\ src[Len(src)] # Pad

(* Faulty: every text passes.                                              *)
validate_last_block_never(padded, encoded, decoded) == TRUE

(* validate_last_block: the last block of the output encodes back to the   *)
(* last block of the text, as far as both go.                              *)
LastBlockStart(n, size) == ((IF n = 0 THEN 0 ELSE n - 1) \div size) * size

validate_last_block(padded, encoded, decoded) ==
  LET enc == SubSeq(encoded, LastBlockStart(Len(encoded), 4) + 1, Len(encoded))
      dec == SubSeq(decoded, LastBlockStart(Len(decoded), 3) + 1, Len(decoded))
      block == encode(padded, dec)
  IN  \A i \in DOMAIN block \intersect DOMAIN enc : block[i] = enc[i]

(* Encoding::decode into a buffer of `room` octets.  Length errors come    *)
(* first; everything the characters themselves do wrong is gathered in one *)
(* error.  The octets are bound once, so that TLC computes them once.      *)
Misspelled(padded, src, len) ==
  \/ padded /\ MisplacedPad(src)
  \/ \E i \in 1 .. len : src[i] \notin Sextets
  \/ len % 4 = 1

decode(padded, src, room) ==
  LET len == IF padded THEN decode_padding(src) ELSE Len(src)
      out == DecodeSextets(SubSeq(src, 1, len))
  IN  IF len = -1 THEN Err("InvalidEncoding")
      ELSE IF decoded_len(len) > room THEN Err("InvalidLength")
      ELSE IF \/ Misspelled(padded, src, len)
              \/ \E octets \in {out} : ~validate_last_block(padded, src, octets)
      THEN Err("InvalidEncoding")
      ELSE Ok(out)

-----------------------------------------------------------------------------
(* Encoding::decode_in_place: blocks are decoded one after the other, each *)
(* written over text that was already read.  The last block's unused bits  *)
(* are not looked at.  Faulty: octets written one place further on.        *)
WriteAt_ahead(buf, offset, octets) ==
  [i \in DOMAIN buf |->
     IF i - offset - 1 \in DOMAIN octets THEN octets[i - offset - 1] ELSE buf[i]]

WriteAt(buf, offset, octets) ==
  [i \in DOMAIN buf |->
     IF i - offset \in DOMAIN octets THEN octets[i - offset] ELSE buf[i]]

decode_in_place(padded, src) ==
  LET len == IF padded THEN decode_padding(src) ELSE Len(src)
      full == len \div 4
      after[k \in 0 .. full] ==
        IF k = 0 THEN SubSeq(src, 1, len)
        ELSE WriteAt(after[k - 1], 3 * (k - 1),
                     decode_3bytes(Block(after[k - 1], 4, k - 1)))
      remainder == decode_3bytes(Block(after[full], 4, full))
      out == WriteAt(after[full], 3 * full,
                     SubSeq(remainder, 1, decoded_len(len) - 3 * full))
  IN
  CASE len = -1 -> Err("InvalidEncoding")
    [] \/ padded /\ MisplacedPad(src)
       \/ \E k \in 0 .. full, j \in 1 .. 4 : Block(after[k], 4, k)[j] \notin Sextets
       \/ len % 4 = 1
       -> Err("InvalidEncoding")
    [] OTHER -> Ok(SubSeq(out, 1, decoded_len(len)))

-----------------------------------------------------------------------------
(***************************************************************************)
(* The lines of wrapped Base64 text (LineReader of base64ct/src/decoder.rs)*)
(* and the length that is computed from them before anything is decoded.   *)
(* An input is a record [text, width, padded]; width 0 is an unwrapped     *)
(* text.                                                                   *)
(***************************************************************************)

MIN_LINE_WIDTH == 4

MinOf(a, b) == IF a < b THEN a ELSE b

(* Line::take: what it returns and what it leaves, after n elements or all *)
(* there are.                                                              *)
Taken(s, n) == SubSeq(s, 1, MinOf(n, Len(s)))

After(s, n) == SubSeq(s, MinOf(n, Len(s)) + 1, Len(s))

-----------------------------------------------------------------------------
(* Line::trim_end and LineReader::next.                                    *)
trim_end(s) ==
  LET n == Len(s) IN
  IF n >= 2 /\ s[n - 1] = CR /\ s[n] = LF THEN SubSeq(s, 1, n - 2)
  ELSE IF n >= 1 /\ s[n] \in {CR, LF} THEN SubSeq(s, 1, n - 1)
  ELSE s

(* The end of line a text begins with, in characters; 0 when there is none.*)
EolLen(s) ==
  IF s[1] = CR /\ Len(s) >= 2 /\ s[2] = LF THEN 2
  ELSE IF s[1] \in {CR, LF} THEN 1
  ELSE 0

ALine(line, rest) == [kind |-> "Line", line |-> line, rest |-> rest]
NoLine == [kind |-> "End", line |-> <<>>, rest |-> <<>>]
LastLine(line, width) == IF line = <<>> /\ width = 0 THEN NoLine ELSE ALine(line, <<>>)
WholeLine(text, width, eol) ==
  IF eol = 0 THEN [kind |-> "Error", line |-> <<>>, rest |-> text]
  ELSE ALine(Taken(text, width), After(text, width + eol))
NextLine(text, width) ==
  IF text = <<>> THEN NoLine
  ELSE IF width = 0 \/ Len(text) <= width THEN LastLine(trim_end(text), width)
  ELSE WholeLine(text, width, EolLen(After(text, width)))

(* All the lines of a text: the reader advanced until it has no other.  A  *)
(* line uses up at least one character; `last` is the latest line, if any. *)
WithLine(was, n) ==
  [kind |-> n.kind, rest |-> n.rest, joined |-> was.joined \o n.line,
   last |-> IF n.kind = "Line" THEN <<n.line>> ELSE was.last]
Advanced(was, width) ==
  IF was.kind = "Line" THEN WithLine(was, NextLine(was.rest, width)) ELSE was
Lines(text, width) ==
  LET after[k \in 0 .. Len(text) + 1] ==
        IF k = 0 THEN [kind |-> "Line", rest |-> text, joined |-> <<>>, last |-> <<>>]
        ELSE Advanced(after[k - 1], width)
  IN  after
LinesOf(text, width) == Lines(text, width)[Len(text) + 1]

(* Faulty: the last whole block is not looked at.                          *)
LastBlockLen_rest(n) == n % 4

LastBlockLen(n) == IF n % 4 = 0 THEN 4 ELSE n % 4

(* LineReader::decoded_len: all blocks but the last have three octets, and *)
(* the last one is put together from the last two lines and decoded.       *)
LenWith(before, tail) == [err |-> tail.err, len |-> decoded_len(before) + Len(tail.out)]
LenOfJoined(padded, joined, before) ==
  IF before < 0 THEN [err |-> "InvalidLength", len |-> 0]
  ELSE LenWith(before, decode(padded, SubSeq(joined, before + 1, Len(joined)), 3))
LenOfText(padded, joined) == LenOfJoined(padded, joined, Len(joined) - LastBlockLen(Len(joined)))
LenOfLines(padded, all) ==
  IF all.kind = "Error" THEN [err |-> "InvalidEncoding", len |-> 0]
  ELSE IF all.last = <<>> THEN [err |-> "None", len |-> 0]
  ELSE LenOfText(padded, all.joined)
DecodedLen(in) == LenOfLines(in.padded, LinesOf(in.text, in.width))

(* What a text stands for, however it is wrapped and whatever the decoder  *)
(* thinks of it: its lines joined, `data` being the octets of the joined   *)
(* text, a character outside the alphabet counting as zero bits, `whole`   *)
(* what the one-shot decode says of it; `sound` is text decode accepts and *)
(* without an empty last line ("Trailing newlines are not supported").     *)
AsSextets(text) == [i \in DOMAIN text |-> IF text[i] \in Sextets THEN text[i] ELSE 0]
Unpadded(padded, text) == SubSeq(text, 1, Len(text) - IF padded THEN PadsAtEnd(text) ELSE 0)
Means(padded, all) ==
  LET whole == decode(padded, all.joined, Len(all.joined))
  IN  [data |-> DecodeSextets(AsSextets(Unpadded(padded, all.joined))), whole |-> whole,
       sound |-> whole.err = "None" /\ all.last \notin {<<>>, <<<<>>>>}]
Meaning(in) == Means(in.padded, LinesOf(in.text, in.width))

(* Decoder::new and new_wrapped, when they return a decoder.               *)
Constructs(in) ==
  /\ in.text # <<>>
  /\ in.width = 0 \/ in.width >= MIN_LINE_WIDTH
  /\ DecodedLen(in).err = "None"

=============================================================================
