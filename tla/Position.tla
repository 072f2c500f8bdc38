------------------------------ MODULE Position ------------------------------
(***************************************************************************)
(* The position tracker shared by the readers of the `der` crate           *)
(* (der/src/reader/position.rs), as operators over a record                *)
(*                                                                         *)
(*     [input_len, position, depth]                                        *)
(*                                                                         *)
(* and the checked arithmetic of `Length` (der/src/length.rs) it relies on.*)
(* `MaxLength` stands for u32::MAX and `MaxDepth` for                      *)
(* Position::MAX_DEPTH (64): both are parameters, so that the boundaries   *)
(* can be reached by a small model and proved about for every value.       *)
(***************************************************************************)
EXTENDS Integers, TLAPS

CONSTANTS
  MaxLength,   \* the largest value of a Length
  MaxDepth     \* how many nested messages a reader tolerates

ASSUME PositionAssumption ==
  /\ MaxLength \in Nat
  /\ MaxDepth \in Nat

Lengths == 0 .. MaxLength

Positions == [input_len : Lengths, position : Lengths, depth : Nat]

tracker(input_len, pos, depth) ==
  [input_len |-> input_len, position |-> pos, depth |-> depth]

(* The error kinds a tracker returns; "None" when it returns Ok.           *)
PositionErrors == {"None", "Overflow", "Incomplete", "NestingDepth"}

-----------------------------------------------------------------------------
(* Add for Length: `checked_add`, an Overflow error instead of a wrap.     *)
AddOverflows(a, b) == a + b > MaxLength

(* Length::saturating_sub.                                                 *)
saturating_sub(a, b) == IF a >= b THEN a - b ELSE 0

-----------------------------------------------------------------------------
(* Position::new.                                                          *)
new(input_len) == tracker(input_len, 0, 0)

remaining_len(p) == saturating_sub(p.input_len, p.position)

(* Position::advance: the error it returns, and the tracker afterwards.    *)
(* Faulty: a read that ends where the input ends is refused.               *)
AdvanceError_exclusive(p, amount) ==
  IF p.position + amount >= p.input_len THEN "Incomplete" ELSE "None"

AdvanceError(p, amount) ==
  IF AddOverflows(p.position, amount) THEN "Overflow"
  ELSE IF p.position + amount > p.input_len THEN "Incomplete"
  ELSE "None"

advance(p, amount) ==
  IF AdvanceError(p, amount) = "None"
  THEN tracker(p.input_len, p.position + amount, p.depth)
  ELSE p

(* Position::split_nested: the depth is counted first, so that the two     *)
(* errors after the depth check leave it incremented.                      *)
SplitError(p, len) ==
  IF p.depth + 1 > MaxDepth THEN "NestingDepth"
  ELSE AdvanceError(p, len)

split_nested(p, len) ==
  CASE SplitError(p, len) = "NestingDepth" -> p
    [] SplitError(p, len) \in {"Overflow", "Incomplete"} ->
         tracker(p.input_len, p.position, p.depth + 1)
    [] OTHER ->
         tracker(p.position + len, p.position, p.depth + 1)

(* Position::resume_nested; the resumption is the saved outer input_len.   *)
(* Faulty: only the depth is given back; only the window is.               *)
resume_nested_keeping_window(p, resumption) ==
  tracker(p.input_len, p.position, saturating_sub(p.depth, 1))

resume_nested_keeping_depth(p, resumption) ==
  tracker(resumption, p.position, p.depth)

resume_nested(p, resumption) ==
  tracker(resumption, p.position, saturating_sub(p.depth, 1))

-----------------------------------------------------------------------------
(* What these operators return, for every tracker: the facts the proofs    *)
(* about the two readers rest on.                                          *)
USE PositionAssumption DEF PositionAssumption

LEMMA AdvanceWithin ==
  ASSUME NEW p \in Positions, NEW n \in Nat, p.position + n <= p.input_len
  PROVE  /\ AdvanceError(p, n) = "None"
         /\ advance(p, n) \in Positions
         /\ advance(p, n).position = p.position + n
         /\ advance(p, n).input_len = p.input_len
         /\ advance(p, n).depth = p.depth
  BY DEF AdvanceError, AddOverflows, advance, tracker, Positions, Lengths

LEMMA AdvanceRefused ==
  ASSUME NEW p \in Positions, NEW n \in Nat, p.position + n > p.input_len
  PROVE  /\ AdvanceError(p, n) \in {"Overflow", "Incomplete"}
         /\ advance(p, n) = p
  BY DEF AdvanceError, AddOverflows, advance, Positions, Lengths

LEMMA SplitWithin ==
  ASSUME NEW p \in Positions, NEW n \in Nat, p.position + n <= p.input_len
  PROVE  \/ /\ SplitError(p, n) = "NestingDepth"
            /\ p.depth >= MaxDepth
            /\ split_nested(p, n) = p
         \/ /\ SplitError(p, n) = "None"
            /\ p.depth < MaxDepth
            /\ split_nested(p, n) \in Positions
            /\ split_nested(p, n).position = p.position
            /\ split_nested(p, n).input_len = p.position + n
            /\ split_nested(p, n).depth = p.depth + 1
  BY AdvanceWithin DEF SplitError, split_nested, tracker, Positions, Lengths

LEMMA SplitRefused ==
  ASSUME NEW p \in Positions, NEW n \in Nat, p.position + n > p.input_len
  PROVE  /\ SplitError(p, n) \in {"NestingDepth", "Overflow", "Incomplete"}
         /\ split_nested(p, n) \in Positions
         /\ split_nested(p, n).position = p.position
         /\ split_nested(p, n).input_len = p.input_len
         /\ \/ split_nested(p, n).depth = p.depth
            \/ /\ p.depth < MaxDepth
               /\ split_nested(p, n).depth = p.depth + 1
  BY AdvanceRefused DEF SplitError, split_nested, tracker, Positions, Lengths

LEMMA Resume ==
  ASSUME NEW p \in Positions, NEW r \in Lengths, p.depth > 0
  PROVE  /\ resume_nested(p, r) \in Positions
         /\ resume_nested(p, r).position = p.position
         /\ resume_nested(p, r).input_len = r
         /\ resume_nested(p, r).depth = p.depth - 1
  BY DEF resume_nested, tracker, saturating_sub, Positions, Lengths

=============================================================================
