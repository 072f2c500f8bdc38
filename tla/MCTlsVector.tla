------------------------------ MODULE MCTlsVector ------------------------------
(***************************************************************************)
(* TlsVector for TLC: octets of three bits, so that one, two, four and     *)
(* eight octets of length begin with 0..1, 2..3, 4..5 and 6..7.            *)
(***************************************************************************)
EXTENDS TlsVector

(* Short inputs: every tag, lengths that are and are not minimal, and ones *)
(* that end before, with and after what they declare.                      *)
SomeOctets == {0, 1, 2, 3, 4, 7}
InputsDef ==
       SeqOf(SomeOctets, 4)
  \cup {<<4, 0, 0>> \o s : s \in SeqOf({0, 1, 2, 3}, 4)}
  \cup {<<3>> \o s : s \in SeqOf({0, 1, 2, 3}, 5)}
  \cup {<<6, 0, 0, 0, 0, 0, 0, n>> \o s : n \in 0 .. 2, s \in SeqOf({0, 2}, 3)}

(* One octet more than MAX_MLS_LEN, declared in eight.                     *)
LongInputsDef == {<<6, 0, 0, 0, 2, 0, 0, 0>> \o [i \in 1 .. n |-> 0] : n \in {1023, 1024, 1025}}

(* Contents on both sides of the steps of the length, and of MAX_MLS_LEN.  *)
Ones(n) == [i \in 1 .. n |-> 1]
Many == {0, 1, 2, 7, 8, 15, 16, 17}
VectorsDef ==
  [u8 |-> SeqOf({0, 7}, 3) \cup {Ones(n) : n \in Many},
   u16 |-> SeqOf({0, 9, 63}, 2) \cup {Ones(n) : n \in Many},
   unit |-> {<<>>, <<"()">>, <<"()", "()">>},
   option |-> SeqOf({<<>>, <<0>>, <<1>>, <<7>>}, 3) \cup {[i \in 1 .. n |-> <<>>] : n \in Many},
   VLBytes |-> SeqOf({Ones(n) : n \in Many}, 2),
   octets |-> SeqOf({0, 7}, 3) \cup {Ones(n) : n \in Many \cup {1023, 1024}}]

TailsDef == {<<>>, <<0>>, <<1, 1>>}
================================================================================
