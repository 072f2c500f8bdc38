------------------------------ MODULE OidEncoding ------------------------------
(***************************************************************************)
(* The BER contents of an OBJECT IDENTIFIER as const-oid builds and reads  *)
(* them (const-oid/src/encoder.rs, arcs.rs, buffer.rs).  The source's      *)
(* numbers are parameters, so that small ones can be checked:              *)
(*   Base           0x80, what one octet of an arc holds                   *)
(*   ArcMax         u32::MAX                                               *)
(*   ArcBytes       5, the octets of the largest arc                       *)
(*   ARC_MAX_SECOND 39                                                     *)
(*   MaxSize        MAX_SIZE, the octets of the array (39)                 *)
(***************************************************************************)
EXTENDS Naturals, Sequences, FiniteSetsExt

CONSTANTS Base, ArcMax, ArcBytes, ARC_MAX_SECOND, MaxSize

ARC_MAX_FIRST == 2

(* What n octets of an arc count up to: 1 shifted by 7 * n bits.           *)
Power(n) == LET power[k \in 0 .. n] == IF k = 0 THEN 1 ELSE power[k - 1] * Base IN power[n]

(* The root arcs are arcs, every pair of them has an octet below Base, the *)
(* largest arc needs ArcBytes octets, and the array has room for the root. *)
(* MAX_SIZE is a parameter of the type and `length` a u8: of an array of   *)
(* 256 octets or more the length would be cut off, which nothing refuses.  *)
ASSUME OidAssumption ==
  /\ {Base, ArcMax, ArcBytes, ARC_MAX_SECOND, MaxSize} \subseteq Nat \ {0}
  /\ ARC_MAX_FIRST <= ArcMax /\ ARC_MAX_SECOND <= ArcMax
  /\ (ARC_MAX_FIRST + 1) * (ARC_MAX_SECOND + 1) <= Base
  /\ Power(ArcBytes - 1) <= ArcMax /\ ArcMax < Power(ArcBytes)
  /\ MaxSize < 2 * Base

(* `as u8`.                                                                *)
as_u8(n) == n % (2 * Base)

Octets == 0 .. 2 * Base - 1
Arcs == 0 .. ArcMax

Ok(v) == [kind |-> "Ok", value |-> v]
Err(e) == [kind |-> "Err", error |-> e]
IsOk(r) == r.kind = "Ok"

--------------------------------------------------------------------------------
(* Buffer: the whole array and how much of it counts.                      *)
as_bytes(ber) == SubSeq(ber.bytes, 1, ber.length)

FirstDifference(s, t) == CHOOSE i \in DOMAIN s : s[i] # t[i] /\ \A j \in 1 .. i - 1 : s[j] = t[j]

Less_bytes_only(a, b) == \* Faulty: the length counts for nothing.
  a.bytes # b.bytes /\ LET i == FirstDifference(a.bytes, b.bytes) IN a.bytes[i] < b.bytes[i]

(* `==`, Hash and Ord of ObjectIdentifier are derived: the length first,   *)
(* then the whole array, the octets after the length included.             *)
Less(a, b) ==
  IF a.length # b.length
  THEN a.length < b.length
  ELSE a.bytes # b.bytes /\ LET i == FirstDifference(a.bytes, b.bytes) IN a.bytes[i] < b.bytes[i]

(* Ord of ObjectIdentifierRef is that of a slice: lexicographic.           *)
LessRef(s, t) ==
  LET n == IF Len(s) < Len(t) THEN Len(s) ELSE Len(t)
  IN  IF SubSeq(s, 1, n) = SubSeq(t, 1, n)
      THEN Len(s) < Len(t)
      ELSE LET i == FirstDifference(SubSeq(s, 1, n), SubSeq(t, 1, n)) IN s[i] < t[i]

--------------------------------------------------------------------------------
(* Encoder: the array, the cursor, and how many arcs it has seen.          *)
encoder(state, first, bytes, cursor) ==
  [state |-> state, first |-> first, bytes |-> bytes, cursor |-> cursor]

Encoders == [state: {"Initial", "FirstArc", "Body"}, first: 0 .. ARC_MAX_FIRST,
             bytes: [1 .. MaxSize -> Octets], cursor: 0 .. MaxSize]

NewEncoder == encoder("Initial", 0, [i \in 1 .. MaxSize |-> 0], 0)
extend(ber) == encoder("Body", 0, ber.bytes, ber.length)

base128_len_off_by_one(arc) == \* Faulty: the largest value of a length gets one octet too few.
  Min({n \in 1 .. ArcBytes : arc <= Power(n)} \cup {ArcBytes})

base128_len(arc) == Min({n \in 1 .. ArcBytes : arc < Power(n)} \cup {ArcBytes})

base128_byte(arc, pos, total) ==
  ((arc \div Power(total - pos - 1)) % Base) + (IF pos + 1 = total THEN 0 ELSE Base)

encode_base128(e, arc) ==
  LET nbytes == base128_len(arc)
      end_pos == e.cursor + nbytes
  IN  IF end_pos > MaxSize
      THEN Err("Length")
      ELSE Ok(encoder(e.state, e.first,
                [i \in 1 .. MaxSize |-> IF i \in e.cursor + 1 .. end_pos
                                        THEN base128_byte(arc, i - e.cursor - 1, nbytes)
                                        ELSE e.bytes[i]], end_pos))

arc(e, a) ==
  CASE e.state = "Initial" ->
         IF a > ARC_MAX_FIRST THEN Err("ArcInvalid") ELSE Ok(encoder("FirstArc", a, e.bytes, 0))
    [] e.state = "FirstArc" ->
         IF a > ARC_MAX_SECOND
         THEN Err("ArcInvalid")
         ELSE Ok(encoder("Body", 0, [e.bytes EXCEPT ![1] = (ARC_MAX_SECOND + 1) * e.first + a], 1))
    [] e.state = "Body" -> encode_base128(e, a)

finish(e) ==
  IF e.cursor = 0 THEN Err("Empty") ELSE Ok([length |-> as_u8(e.cursor), bytes |-> e.bytes])

(* `?` on every arc in turn: the first refusal is the answer.              *)
EncodeArcs(e, arcs) ==
  LET after[n \in 0 .. Len(arcs)] ==
        IF n = 0 THEN Ok(e)
        ELSE LET was == after[n - 1] IN IF IsOk(was) THEN arc(was.value, arcs[n]) ELSE was
  IN  after[Len(arcs)]

EncodeAll(e, arcs) ==
  LET done == EncodeArcs(e, arcs) IN IF IsOk(done) THEN finish(done.value) ELSE done

from_arcs(arcs) == EncodeAll(NewEncoder, arcs)
push_arc(ber, a) == EncodeAll(extend(ber), <<a>>)

--------------------------------------------------------------------------------
(* The iterator Arcs.  Its cursor, an Option<usize>, is <<>> before the    *)
(* first arc, <<0>> before the second, and then the octets behind it.      *)
RootArcs(octet) ==
  LET first == octet \div (ARC_MAX_SECOND + 1)
  IN  IF first > ARC_MAX_FIRST
      THEN Err("ArcInvalid")
      ELSE Ok(<<first, octet % (ARC_MAX_SECOND + 1)>>)

Spelled_wrapping(bytes, offset, n) == \* Faulty: as in 0.9, the value wraps around.
  LET value[k \in 0 .. n] == IF k = 0 THEN 0
                             ELSE (value[k - 1] * Base + (bytes[offset + k] % Base)) % (ArcMax + 1)
  IN  value[n]

(* What octets offset + 1 .. offset + n spell.  The checked u32 arithmetic *)
(* of the source fails at the first prefix above ArcMax, and a prefix only *)
(* grows, so it fails exactly if this number exceeds ArcMax.               *)
Spelled(bytes, offset, n) ==
  LET value[k \in 0 .. n] == IF k = 0 THEN 0 ELSE value[k - 1] * Base + (bytes[offset + k] % Base)
  IN  value[n]

NextBody(bytes, offset) ==
  LET rest == Len(bytes) - offset
      closing == {n \in 1 .. rest : bytes[offset + n] < Base}
      n == IF closing = {} THEN rest ELSE Min(closing)
  IN  IF rest = 0 THEN Ok(<<>>)
      ELSE IF Spelled(bytes, offset, n) > ArcMax THEN Err("ArcTooBig")
      ELSE IF closing = {} THEN Err("Base128")
      ELSE Ok(<<Spelled(bytes, offset, n), offset + n>>)

(* try_next: the arc it yields, as a sequence of at most one, and the      *)
(* cursor it leaves.                                                       *)
try_next(bytes, cursor) ==
  LET root == IF bytes = <<>> THEN Err("Empty") ELSE RootArcs(bytes[1])
      body == NextBody(bytes, cursor[1])
  IN  CASE cursor = <<>> -> IF IsOk(root) THEN Ok([arc |-> <<root.value[1]>>, cursor |-> <<0>>]) ELSE root
        [] cursor = <<0>> -> IF IsOk(root) THEN Ok([arc |-> <<root.value[2]>>, cursor |-> <<1>>]) ELSE root
        [] OTHER -> IF ~ IsOk(body) THEN body
                    ELSE IF body.value = <<>> THEN Ok([arc |-> <<>>, cursor |-> cursor])
                    ELSE Ok([arc |-> <<body.value[1]>>, cursor |-> <<body.value[2]>>])

(* What n calls of try_next, each where the one before left the cursor,    *)
(* have yielded, and whether one more may yield more.                      *)
Advance(bytes, was) ==
  LET call == try_next(bytes, was.cursor)
  IN  IF was.state # "more" THEN was
      ELSE IF ~ IsOk(call) THEN [was EXCEPT !.state = call.error]
      ELSE IF call.value.arc = <<>> THEN [was EXCEPT !.state = "done"]
      ELSE [cursor |-> call.value.cursor, arcs |-> was.arcs \o call.value.arc, state |-> "more"]

Iterate(bytes, n) ==
  LET after[k \in 0 .. n] == IF k = 0 THEN [cursor |-> <<>>, arcs |-> <<>>, state |-> "more"]
                             ELSE Advance(bytes, after[k - 1])
  IN  after[n]

(* All the arcs, or the first error: at most one call per octet, one more  *)
(* for the root's second arc and one that yields nothing.                  *)
ArcsOf(bytes) ==
  LET last == Iterate(bytes, Len(bytes) + 2)
  IN  IF last.state = "done" THEN Ok(last.arcs) ELSE Err(last.state)

(* ObjectIdentifierRef::from_bytes, then the copy into the array.          *)
from_bytes(bytes) ==
  IF ~ IsOk(ArcsOf(bytes)) THEN Err(ArcsOf(bytes).error)
  ELSE IF Len(bytes) > MaxSize THEN Err("Length")
  ELSE Ok([length |-> as_u8(Len(bytes)),
           bytes |-> [i \in 1 .. MaxSize |-> IF i <= Len(bytes) THEN bytes[i] ELSE 0]])

parent_truncating(ber) == \* Faulty: only the length shrinks, the octets of the last arc stay.
  LET starts == {i \in 2 .. ber.length : ber.bytes[i - 1] < Base}
  IN  IF starts = {} THEN Err("Empty") ELSE Ok([ber EXCEPT !.length = Max(starts) - 1])

parent(ber) ==
  LET arcs == ArcsOf(as_bytes(ber)).value IN from_arcs(SubSeq(arcs, 1, Len(arcs) - 1))

starts_with(ber, other) ==
  /\ other.length <= ber.length
  /\ \A i \in 1 .. other.length : ber.bytes[i] = other.bytes[i]
================================================================================
