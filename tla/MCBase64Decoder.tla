--------------------------- MODULE MCBase64Decoder --------------------------
(***************************************************************************)
(* Instances of Base64Decoder: texts of up to four blocks, with  *)
(* every character different so that no two octets can be confused, wrapped*)
(* at widths that are and are not multiples of a block, with all the line  *)
(* endings; and the same texts spoilt in one place.                        *)
(***************************************************************************)
EXTENDS Base64Decoder

Lengths == {2, 3, 4, 6, 7, 8, 10, 11, 12, 15}
Widths == {0, 4, 5, 6, 7}
Outside == 255

(* n characters; those of an incomplete block end in zero bits.            *)
Chars(n) == [i \in 1 .. n |-> IF i = n /\ n % 4 # 0 THEN 48 ELSE 5 * i]
Padding(n) == [i \in 1 .. (4 - (n % 4)) % 4 |-> Pad]
Text(n, padded) == Chars(n) \o (IF padded THEN Padding(n) ELSE <<>>)

Eols == << <<LF>>, <<CR, LF>>, <<CR>> >>

RECURSIVE Wrap(_, _, _)
Wrap(s, width, k) ==
  IF width = 0 \/ Len(s) <= width THEN s
  ELSE Taken(s, width) \o Eols[(k % 3) + 1] \o Wrap(After(s, width), width, k + 1)

Good ==
  {[text |-> Wrap(Text(n, padded), width, k), width |-> width, padded |-> padded] :
     n \in Lengths, padded \in BOOLEAN, width \in Widths, k \in 0 .. 1}

(* One character replaced: one outside the alphabet, or padding; a last    *)
(* character with bits that belong to no octet; newlines after the text;   *)
(* a width that is not the text's.                                         *)
Spoilt ==
  {[text |-> Wrap([Text(8, padded) EXCEPT ![i] = c], width, 0),
    width |-> width, padded |-> padded] :
     i \in {1, 4, 6, 8}, c \in {Outside, Pad}, width \in {0, 5}, padded \in BOOLEAN}
  \union
  {[text |-> Wrap([Text(7, padded) EXCEPT ![7] = 49], width, 0),
    width |-> width, padded |-> padded] :
     width \in {0, 5}, padded \in BOOLEAN}
  \union
  {[text |-> Wrap(Text(n, padded), width, 0) \o eol, width |-> width, padded |-> padded] :
     n \in {7, 8}, padded \in BOOLEAN, width \in {0, 4, 5},
     eol \in { <<LF>>, <<CR, LF>>, <<LF, LF>> }}
  \union
  {[text |-> <<LF>>, width |-> 0, padded |-> TRUE]}
  \union
  {[text |-> Wrap(Text(11, TRUE), 5, 0), width |-> width, padded |-> TRUE] :
     width \in {0, 4, 6, 64}}

InputsDef == Good \union Spoilt

=============================================================================
