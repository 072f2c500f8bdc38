---------------------------- MODULE ObjectIdentifier ----------------------------
(***************************************************************************)
(* A program that builds an ObjectIdentifier from a text, from arcs or     *)
(* from octets, derives children and parents of it, and compares it with   *)
(* others (const-oid/src/lib.rs).  `meant` and `made` are history: the     *)
(* arcs the OID stands for, and whether it was built arc by arc ("arcs")   *)
(* or its octets were taken over ("bytes").                                *)
(* The parser (const-oid/src/parser.rs) reads a dotted text octet by octet,*)
(* hands each completed number to the Encoder, and the whole is finished   *)
(* into an ObjectIdentifier.  A text is a sequence over the digits         *)
(* 0 .. Radix - 1, DOT and LETTER.                                         *)
(***************************************************************************)
EXTENDS OidEncoding, SequencesExt

CONSTANTS Radix,   \* 10
          Texts    \* the texts handed to ObjectIdentifier::new

DOT == Radix
LETTER == Radix + 1

ASSUME TextAssumption == Radix \in Nat \ {0} /\ Texts \subseteq Seq(0 .. LETTER)

Digits == 0 .. Radix - 1

VARIABLES text,         \* history: the whole text
          remaining,    \* what parse_bytes has not seen yet
          current_arc,  \* Option<Arc>: <<>> or <<arc>>
          enc,          \* the Encoder
          result        \* no call, a running one, or what it returned
parser_vars == <<text, remaining, current_arc, enc, result>>

Idle == [kind |-> "idle"]
Running == [kind |-> "parsing"]
Parsing == result = Running
Parsed == IsOk(result)

ParserInit ==
  text = <<>> /\ remaining = <<>> /\ current_arc = <<>> /\ enc = NewEncoder /\ result = Idle

(* Parser::parse looks at the first octet before it begins.                *)
Parse(t) ==
  /\ result = Idle
  /\ text' = t
  /\ remaining' = t
  /\ result' = IF t = <<>> THEN Err("Empty")
               ELSE IF t[1] \notin Digits THEN Err("DigitExpected")
               ELSE Running
  /\ UNCHANGED <<current_arc, enc>>

(* The caller has its answer.                                              *)
Return ==
  /\ result.kind \in {"Ok", "Err"}
  /\ text' = <<>> /\ remaining' = <<>> /\ current_arc' = <<>> /\ enc' = NewEncoder
  /\ result' = Idle

Fail(e) == result' = Err(e) /\ UNCHANGED <<text, remaining, current_arc, enc>>

--------------------------------------------------------------------------------
(* The end closes the arc in progress; Parser::finish is Encoder::finish.  *)
EndOfText ==
  /\ Parsing /\ remaining = <<>>
  /\ IF current_arc = <<>>
     THEN Fail("TrailingDot")
     ELSE LET r == arc(enc, current_arc[1]) IN
          IF IsOk(r)
          THEN /\ enc' = r.value
               /\ result' = finish(r.value)
               /\ UNCHANGED <<text, remaining, current_arc>>
          ELSE Fail(r.error)

(* checked_mul and checked_add: refused as soon as it exceeds ArcMax.      *)
Digit ==
  /\ Parsing /\ remaining # <<>> /\ Head(remaining) \in Digits
  /\ LET so_far == IF current_arc = <<>> THEN 0 ELSE current_arc[1]
         longer == so_far * Radix + Head(remaining)
     IN  IF longer > ArcMax
         THEN Fail("ArcTooBig")
         ELSE /\ current_arc' = <<longer>>
              /\ remaining' = Tail(remaining)
              /\ UNCHANGED <<text, enc, result>>

Dot_keeping_arc == \* Faulty: the next arc goes on from the one just handed over.
  /\ Parsing /\ remaining # <<>> /\ Head(remaining) = DOT
  /\ IF current_arc = <<>> THEN Fail("RepeatedDot")
     ELSE IF Tail(remaining) = <<>> THEN Fail("TrailingDot")
     ELSE LET r == arc(enc, current_arc[1]) IN
          IF IsOk(r)
          THEN /\ enc' = r.value
               /\ remaining' = Tail(remaining)
               /\ UNCHANGED <<text, current_arc, result>>
          ELSE Fail(r.error)

Dot ==
  /\ Parsing /\ remaining # <<>> /\ Head(remaining) = DOT
  /\ IF current_arc = <<>> THEN Fail("RepeatedDot")
     ELSE IF Tail(remaining) = <<>> THEN Fail("TrailingDot")
     ELSE LET r == arc(enc, current_arc[1]) IN
          IF IsOk(r)
          THEN /\ enc' = r.value
               /\ current_arc' = <<>>
               /\ remaining' = Tail(remaining)
               /\ UNCHANGED <<text, result>>
          ELSE Fail(r.error)

Letter ==
  /\ Parsing /\ remaining # <<>> /\ Head(remaining) = LETTER
  /\ Fail("DigitExpected")

ParseStep == EndOfText \/ Digit \/ Dot \/ Letter

--------------------------------------------------------------------------------
(* A dotted text, read without the parser: the runs between the dots are   *)
(* numbers, none of them empty.  Fields(t, n) are the runs of the first n. *)
AddCharacter(fields, c) ==
  IF c = DOT THEN Append(fields, <<>>)
  ELSE [fields EXCEPT ![Len(fields)] = Append(fields[Len(fields)], c)]
Fields(t, n) ==
  LET fields[k \in 0 .. n] == IF k = 0 THEN << <<>> >> ELSE AddCharacter(fields[k - 1], t[k]) IN fields[n]
AllFields(t) == Fields(t, Len(t))
Number(digits) ==
  LET value[k \in 0 .. Len(digits)] == IF k = 0 THEN 0 ELSE value[k - 1] * Radix + digits[k]
  IN  value[Len(digits)]
Dotted(t) ==
  /\ \A i \in DOMAIN t : t[i] # LETTER
  /\ \A k \in DOMAIN AllFields(t) : AllFields(t)[k] # <<>>
Numbers(t) == [k \in DOMAIN AllFields(t) |-> Number(AllFields(t)[k])]

(* The octets of an OID, and numbers that can be the arcs of one: the first*)
(* two in their ranges, the others no larger than an arc.                  *)
OctetsNeeded(numbers) ==
  LET octets[k \in 0 .. Len(numbers)] ==
        IF k = 0 THEN 1 ELSE octets[k - 1] + (IF k <= 2 THEN 0 ELSE base128_len(numbers[k]))
  IN  octets[Len(numbers)]
AreArcs(numbers) ==
  /\ Len(numbers) >= 2
  /\ numbers[1] <= ARC_MAX_FIRST /\ numbers[2] <= ARC_MAX_SECOND
  /\ \A k \in DOMAIN numbers : numbers[k] \in Arcs

(* The criteria of validity that lib.rs:57 lists, and what the library     *)
(* takes beyond them: OIDs of two arcs, which line 60 excludes, and OIDs   *)
(* that fill the array, where line 63 asks for shorter ones.               *)
MeetsCriteria(numbers) ==
  AreArcs(numbers) /\ Len(numbers) >= 3 /\ OctetsNeeded(numbers) < MaxSize
IsBeyondCriteria(numbers) ==
  AreArcs(numbers) /\ (Len(numbers) = 2 \/ OctetsNeeded(numbers) = MaxSize)
Representable(numbers) == MeetsCriteria(numbers) \/ IsBeyondCriteria(numbers)

(* ObjectIdentifier::new accepts every dotted text of an OID that is valid *)
(* by the documented criteria, and besides exactly those that are beyond   *)
(* them by two arcs or a full array; the documentation, which excludes     *)
(* both, is stricter than the code.  What the parser carries from octet to *)
(* octet never leaks from one arc into the next, nothing is lost at the    *)
(* end, and no good text is refused.                                       *)
AcceptsDottedTexts ==
  result.kind \in {"Ok", "Err"} =>
    (Parsed <=> text # <<>> /\ Dotted(text) /\ Representable(Numbers(text)))

--------------------------------------------------------------------------------

CONSTANTS ByteInputs,  \* the octet sequences handed to from_bytes
          ArcInputs    \* the arc sequences handed to from_arcs

ASSUME InputAssumption == ByteInputs \subseteq Seq(Octets) /\ ArcInputs \subseteq Seq(Arcs)

VARIABLES oid, meant, made
oid_vars == <<oid, meant, made>>
vars == <<oid, meant, made, text, remaining, current_arc, enc, result>>

NoOid == [length |-> 0, bytes |-> [i \in 1 .. MaxSize |-> 0]]
Held == made # "none"

Init == oid = NoOid /\ meant = <<>> /\ made = "none" /\ ParserInit

--------------------------------------------------------------------------------
(* What the first n octets mean, read without the iterator: the root octet *)
(* is two arcs, and every later octet below Base closes one.               *)
Unread == [arcs |-> <<>>, open |-> 0]
ReadOctet(was, octet) ==
  IF was = Unread
  THEN [arcs |-> <<octet \div (ARC_MAX_SECOND + 1), octet % (ARC_MAX_SECOND + 1)>>, open |-> 0]
  ELSE IF octet >= Base
  THEN [was EXCEPT !.open = was.open * Base + (octet - Base)]
  ELSE [arcs |-> Append(was.arcs, was.open * Base + octet), open |-> 0]
Reading(bytes, n) ==
  LET read[k \in 0 .. n] == IF k = 0 THEN Unread ELSE ReadOctet(read[k - 1], bytes[k]) IN read[n]
Meaning(bytes) == Reading(bytes, Len(bytes)).arcs

(* ObjectIdentifier::new: the parser runs, and the caller takes its OID.   *)
New(t) == ~ Held /\ Parse(t) /\ UNCHANGED oid_vars
Parser == ParseStep /\ UNCHANGED oid_vars
TakeParsed ==
  /\ Return
  /\ IF Parsed
     THEN oid' = result.value /\ meant' = Numbers(text) /\ made' = "arcs"
     ELSE UNCHANGED oid_vars

FromBytes(bytes) ==
  /\ ~ Held /\ result = Idle /\ UNCHANGED parser_vars
  /\ LET r == from_bytes(bytes) IN
       IF IsOk(r)
       THEN oid' = r.value /\ meant' = Meaning(bytes) /\ made' = "bytes"
       ELSE UNCHANGED oid_vars

FromArcs(arcs) ==
  /\ ~ Held /\ result = Idle /\ UNCHANGED parser_vars
  /\ LET r == from_arcs(arcs) IN
       IF IsOk(r)
       THEN oid' = r.value /\ meant' = arcs /\ made' = "arcs"
       ELSE UNCHANGED oid_vars

(* ObjectIdentifier is Copy: a refused push leaves the caller its own.     *)
PushArc(a) ==
  /\ Held /\ UNCHANGED parser_vars
  /\ LET r == push_arc(oid, a) IN
       IF IsOk(r)
       THEN oid' = r.value /\ meant' = Append(meant, a) /\ UNCHANGED made
       ELSE UNCHANGED oid_vars

(* The parent is encoded anew, from its arcs.                              *)
Parent ==
  /\ Held /\ UNCHANGED parser_vars
  /\ LET r == parent(oid) IN
       IF IsOk(r)
       THEN oid' = r.value /\ meant' = Front(meant) /\ made' = "arcs"
       ELSE UNCHANGED oid_vars

Drop ==
  /\ Held /\ UNCHANGED parser_vars
  /\ oid' = NoOid /\ meant' = <<>> /\ made' = "none"

Next ==
  \/ \E t \in Texts : New(t)
  \/ Parser
  \/ TakeParsed
  \/ \E bytes \in ByteInputs : FromBytes(bytes)
  \/ \E arcs \in ArcInputs : FromArcs(arcs)
  \/ \E a \in Arcs : PushArc(a)
  \/ Parent
  \/ Drop

Spec == Init /\ [][Next]_vars

--------------------------------------------------------------------------------
(* However an OID came about, iterating over it yields the arcs it stands  *)
(* for: Arcs::next never meets the malformed OID it would panic at, no arc *)
(* is truncated and none is split.                                         *)
IteratesAsMeant == Held => ArcsOf(as_bytes(oid)) = Ok(meant)

(* The OIDs the others are compared with.                                  *)
Known == {from_arcs(arcs).value : arcs \in {s \in ArcInputs : IsOk(from_arcs(s))}}
ArcsIn(ber) == ArcsOf(as_bytes(ber)).value

(* Comparing OIDs built from arcs compares their arcs, although the code   *)
(* compares octets: `==` (derived, so that it also looks at the unused end *)
(* of the array, where no push, refusal or parent may leave anything       *)
(* behind) holds exactly for the same arcs, and starts_with exactly for a  *)
(* prefix, never for an arc that begins with the octets of another.        *)
ComparesByArcs ==
  made = "arcs" =>
    \A other \in Known :
       /\ oid = other <=> meant = ArcsIn(other)
       /\ starts_with(oid, other) <=> IsPrefix(ArcsIn(other), meant)

(* OrdIsValueOrd (der/src/asn1/oid.rs:44): the derived Ord is the order of *)
(* the DER encodings, in which the length octet comes first.               *)
SortsLikeDer ==
  Held => \A other \in Known :
            Less(oid, other) <=> LessRef(<<oid.length>> \o as_bytes(oid), <<other.length>> \o as_bytes(other))

(* parent() undoes push_arc, octet for octet, for an OID built from arcs.  *)
ParentUndoesPush ==
  [][made = "arcs" /\ Len(meant') > Len(meant) => parent(oid') = Ok(oid)]_vars
================================================================================
