---------------------------------- MODULE SetOf ----------------------------------
(***************************************************************************)
(* SET OF and SEQUENCE OF: SetOf and SetOfVec keep their elements sorted,  *)
(* SetOfRef is a view of sorted elements or octets, SequenceOf and arrays  *)
(* keep the order given.  An element is a natural number that stands for   *)
(* its encoding, in the order of the encodings; the contents of an encoded *)
(* SET OF are the sequence of its elements.  Comparisons do not fail.      *)
(* (der/src/asn1/set_of.rs, sequence_of.rs)                                *)
(***************************************************************************)
EXTENDS Integers, Sequences
LOCAL INSTANCE SequencesExt
LOCAL INSTANCE TLC

Foreign == 9           \* a TLV that is not an element of the type
Unbounded == 99        \* the capacity of SetOfVec and Vec

LastOf(s) == s[Len(s)]

(* der_sort and check_der_ordering.                                        *)
der_sort(items) == SortSeq(items, <)
InOrder(a, b) == a <= b
Sorted(items) == \A i \in 1 .. Len(items) - 1 : InOrder(items[i], items[i + 1])

Full(capacity, set) == Len(set) >= capacity

(* The mutating calls, which leave the set as it was when they fail.       *)
try_push(capacity, set, item) == IF Full(capacity, set) THEN set ELSE Append(set, item)
insert(capacity, set, item) == der_sort(try_push(capacity, set, item))
insert_ordered(capacity, set, item) ==
  IF set # <<>> /\ ~InOrder(LastOf(set), item) THEN set ELSE try_push(capacity, set, item)
extend(set, items) == der_sort(set \o items)

SetCall(capacity, set, call) ==
  CASE call[1] = "insert" -> insert(capacity, set, call[2])
    [] call[1] = "insert_ordered" -> insert_ordered(capacity, set, call[2])
    [] call[1] = "extend" -> extend(set, call[2])
AfterSetCalls(capacity, calls) ==
  FoldLeft(LAMBDA set, call : SetCall(capacity, set, call), <<>>, calls)

(* try_from of arrays and vectors, and from_iter.                          *)
SetFrom(items) == der_sort(items)

(* SetOf::decode_value, of DER.                                            *)
OfType(items) == \A i \in DOMAIN items : items[i] # Foreign
SequenceDecode(capacity, t) ==
  IF OfType(t) /\ Len(t) <= capacity THEN <<t>> ELSE <<>>
SetDecode(capacity, t) ==
  LET items == SequenceDecode(capacity, t) IN
  IF items = <<>> THEN <<>> ELSE <<der_sort(items[1])>>

(* The iterator of SetOfRef ends at the first element of octets that is    *)
(* not of the type; from_bytes asks only that they are TLVs, and that those*)
(* the iterator returns are sorted.  `length` is what len() announces.     *)
UpToForeign(t) ==
  LET n == CHOOSE k \in 0 .. Len(t) :
             OfType(SubSeq(t, 1, k)) /\ (k < Len(t) => t[k + 1] = Foreign)
  IN  SubSeq(t, 1, n)
SetOfRefDecode(t) ==
  IF Sorted(UpToForeign(t)) THEN <<[items |-> UpToForeign(t), length |-> Len(t)]>> ELSE <<>>
SetOfRefFrom(items) == IF Sorted(items) THEN <<[items |-> items, length |-> Len(items)]>> ELSE <<>>

(* [T; N]: as many elements as the array has.                              *)
ArrayDecode(n, t) == IF Len(t) = n THEN SequenceDecode(n, t) ELSE <<>>

(* SequenceOf::add, as often as there is room.                             *)
AfterAdds(capacity, items) ==
  FoldLeft(LAMBDA kept, item : try_push(capacity, kept, item), <<>>, items)
================================================================================
