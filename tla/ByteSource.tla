----------------------------- MODULE ByteSource -----------------------------
(***************************************************************************)
(* What a streaming decoder promises its caller: every call that succeeds  *)
(* hands out exactly the octets it was asked for, the next ones of the     *)
(* data; of sound data, a call fails only when it asks for more than what  *)
(* is left.                                                                *)
(***************************************************************************)
EXTENDS Integers, Sequences

VARIABLES
  data,       \* all there is to hand out
  sound,      \* is the encoded form of the data well-formed to its end?
  delivered,  \* what was handed out before any failure
  asked,      \* how many octets the current call wants; -1 between calls
  broken      \* has a call failed?

vars == <<data, sound, delivered, asked, broken>>

Left == Len(data) - Len(delivered)

Init ==
  /\ delivered = <<>>
  /\ asked = -1
  /\ broken = FALSE

Ask ==
  /\ asked = -1
  /\ asked' \in Nat
  /\ UNCHANGED <<data, sound, delivered, broken>>

Deliver ==
  /\ asked >= 0
  /\ asked' = -1
  /\ \/ /\ ~broken
        /\ asked <= Left
        /\ delivered' = SubSeq(data, 1, Len(delivered) + asked)
     \/ broken /\ UNCHANGED delivered
  /\ UNCHANGED <<data, sound, broken>>

Refuse ==
  /\ asked >= 0
  /\ sound => broken \/ asked > Left
  /\ asked' = -1
  /\ broken' = TRUE
  /\ UNCHANGED <<data, sound, delivered>>

Next == Ask \/ Deliver \/ Refuse

Spec == Init /\ [][Next]_vars

=============================================================================
