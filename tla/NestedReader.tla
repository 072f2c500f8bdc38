---------------------------- MODULE NestedReader ----------------------------
(***************************************************************************)
(* What the Reader trait of the `der` crate promises to a decoder          *)
(* (der/src/reader.rs): a cursor that only moves forward over the input, a *)
(* stack of nested windows it can never leave while they are open, and a   *)
(* nested value that is only reported as read when it was read to its very *)
(* end.  A reader that has failed does not move again and never finishes   *)
(* successfully.                                                           *)
(*                                                                         *)
(* The module knows nothing of byte slices, saved lengths or depth         *)
(* counters; SliceReader is shown to implement it.                         *)
(***************************************************************************)
EXTENDS Integers, Sequences

CONSTANTS
  Size,       \* the number of octets of input
  MaxNesting  \* how many windows may be open at once

VARIABLES
  cursor,     \* octets consumed so far
  ends,       \* where the open windows end, outermost (the input) first
  poisoned,   \* has the reader failed?
  outcome     \* of the last call: "ok", "err", or "finished"

vars == <<cursor, ends, poisoned, outcome>>

Innermost == ends[Len(ends)]

Init ==
  /\ cursor = 0
  /\ ends = <<Size>>
  /\ poisoned = FALSE
  /\ outcome = "ok"

(* Octets are read inside the innermost window.  An error may come after   *)
(* some of them were read; it then fails the reader.                       *)
Read ==
  /\ ~poisoned
  /\ outcome # "finished"
  /\ cursor' \in cursor .. Innermost
  /\ \/ outcome' = "ok" /\ UNCHANGED poisoned
     \/ outcome' = "err" /\ poisoned' \in {TRUE, poisoned}
  /\ UNCHANGED ends

(* A nested window lies inside the one it is opened in.                    *)
Open ==
  /\ outcome # "finished"
  /\ Len(ends) <= MaxNesting
  /\ \E end \in cursor .. Innermost : ends' = Append(ends, end)
  /\ outcome' = "ok"
  /\ UNCHANGED <<cursor, poisoned>>

(* Leaving a window restores the one around it; it succeeds only when the  *)
(* nested value was read completely.                                       *)
Close ==
  /\ outcome # "finished"
  /\ Len(ends) > 1
  /\ ends' = SubSeq(ends, 1, Len(ends) - 1)
  /\ \/ outcome' = "ok" /\ cursor = Innermost /\ UNCHANGED poisoned
     \/ outcome' = "err" /\ poisoned' \in {TRUE, poisoned}
  /\ UNCHANGED cursor

(* Any call may be refused; the refusal moves nothing.                     *)
Refuse ==
  /\ outcome # "finished"
  /\ outcome' = "err"
  /\ poisoned' \in {TRUE, poisoned}
  /\ UNCHANGED <<cursor, ends>>

(* A decode call may return Ok without having read anything.               *)
Return ==
  /\ outcome # "finished"
  /\ outcome' = "ok"
  /\ UNCHANGED <<cursor, ends, poisoned>>

(* The whole input was read and nothing failed.                            *)
Finish ==
  /\ outcome # "finished"
  /\ ~poisoned
  /\ Len(ends) = 1
  /\ cursor = Size
  /\ outcome' = "finished"
  /\ UNCHANGED <<cursor, ends, poisoned>>

Next == Read \/ Open \/ Close \/ Refuse \/ Return \/ Finish

Spec == Init /\ [][Next]_vars

=============================================================================
