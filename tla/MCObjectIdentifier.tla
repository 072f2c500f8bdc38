--------------------------- MODULE MCObjectIdentifier ---------------------------
(***************************************************************************)
(* ObjectIdentifier for TLC: octets of four bits (Base 8), arcs of five,   *)
(* arrays of three octets, texts with three digits.                         *)
(***************************************************************************)
EXTENDS ObjectIdentifier

(* Octets that open and close arcs: roots of every kind, a zero digit on   *)
(* its own and as a leading one, digits below, at and above the one with   *)
(* which the largest arc begins.                                           *)
SomeOctets == {0, 1, 5, 6, 7, 8, 9, 11, 12}
ByteInputsDef == SeqOf(SomeOctets, MaxSize + 1)

(* Arcs on both sides of what one octet holds, and the largest.            *)
SomeArcs == {0, 1, 7, 8, 31}
ArcInputsDef ==
  SeqOf(SomeArcs, 2) \cup
  {<<first, second>> \o rest : first \in 0 .. 3, second \in 0 .. 2, rest \in SeqOf(SomeArcs, 2)}

(* Every text of up to five digits and dots, longer ones that begin with   *)
(* good arcs, so that the array fills, and shorter ones with a character   *)
(* that is neither.                                                        *)
TextsDef ==
       SeqOf(0 .. DOT, 5)
  \cup {<<0, DOT, 1, DOT>> \o rest : rest \in SeqOf(0 .. DOT, 5)}
  \cup SeqOf(0 .. LETTER, 3)
================================================================================
