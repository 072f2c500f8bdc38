-------------------------------- MODULE MCDerTlv --------------------------------
(***************************************************************************)
(* DerTlv for TLC: octets of five bits, OCTET STRING numbered 1 and        *)
(* SEQUENCE 2, lengths of up to two octets and tag numbers up to 63.       *)
(*                                                                         *)
(*   1 OCTET STRING  5 the same, constructed  6 SEQUENCE                   *)
(*   16 [0], and the indefinite length        17 [1], and a one-octet long *)
(*   length          20 [0], constructed      19 [31 ...] and a length of  *)
(*   three octets, which is too long          0 the end of contents        *)
(***************************************************************************)
EXTENDS DerTlv

SomeOctets == {0, 1, 2, 5, 6, 16, 17, 19}
FewOctets == {0, 1, 2, 5, 16}

(* Anything short; and what may be in values of indefinite length.         *)
InputsDef ==
       SeqOf(SomeOctets, 5)
  \cup {<<6, 16>> \o s : s \in SeqOf(FewOctets, 6)}
  \cup {<<5, 16>> \o s : s \in SeqOf(FewOctets, 6)}
  \cup {<<6, 16, 6, 16>> \o s : s \in SeqOf({0, 1, 6, 16}, 6)}
  \cup {<<6, 4, 6, 2, 6, 0>>, <<6, 6, 6, 4, 6, 2, 6, 0>>}
  \cup {<<19>> \o s : s \in SeqOf({0, 1, 3, 16, 17, 20, 31}, 4)}

SomeTags ==
  {Tag(0, 1, FALSE)} \cup
  {Tag(class, number, FALSE) : class \in {1, 2, 3}, number \in {0, 2, 3, 15, 16, 63}}
SomeConstructed ==
  {Tag(0, 2, TRUE)} \cup {Tag(2, number, TRUE) : number \in {0, 3, 16}}

Ones(n) == [i \in 1 .. n |-> 1]
Leaves == {Leaf(tag, Ones(n)) : tag \in SomeTags, n \in {0, 1, 15, 16, 31, 32, 33}}
FewLeaves == {Leaf(tag, Ones(n)) : tag \in {Tag(0, 1, FALSE), Tag(2, 3, FALSE)}, n \in {0, 12, 13, 14}}
Nodes == {Node(tag, items) : tag \in SomeConstructed, items \in SeqOf(FewLeaves, 2)}
Nested ==
  {Node(tag, <<node>>) : tag \in SomeConstructed, node \in Nodes}
Long == {Leaf(Tag(0, 1, FALSE), Ones(n)) : n \in 1019 .. 1022}

ValuesDef == Leaves \cup Nodes \cup Nested \cup Long
================================================================================
