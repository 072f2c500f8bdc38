------------------------------- MODULE TlsVector -------------------------------
(***************************************************************************)
(* Vectors of tls_codec: a length in octets and elements to fill it        *)
(* (tls_codec/src/quic_vec.rs, tls_vec.rs).  Each behaviour takes one      *)
(* input, an arbitrary one or what serialising a vector wrote, through both*)
(* decoders: tls_deserialize_bytes, which walks a slice and counts what the*)
(* elements took, and tls_deserialize, which cuts its reader off after the *)
(* declared length.                                                        *)
(*                                                                         *)
(*     lengths    kind       type                                          *)
(*     "varint"   of Kinds   Vec<T>                                        *)
(*     "varint"   "octets"   VLBytes, VLByteVec                            *)
(*     "u8"       of Kinds   TlsVecU8<T>                                   *)
(*     "u8"       "octets"   TlsByteVecU8                                  *)
(***************************************************************************)
EXTENDS TlsElement

CONSTANTS
  Inputs,      \* octets that nobody is known to have written
  LongInputs,  \* and long ones, for vectors of octets only
  Vectors,     \* for every kind, vectors to serialise
  Tails        \* what may follow a vector

(* The values of the elements, or of the octets.                           *)
Values(kind) ==
  IF kind = "u16" THEN 0 .. ByteBase * ByteBase - 1
  ELSE IF kind = "unit" THEN {"()"}
  ELSE IF kind = "option" THEN {<<>>} \cup {<<octet>> : octet \in Octets}
  ELSE IF kind = "VLBytes" THEN Seq(Octets)
  ELSE Octets

ASSUME InputsAssumption ==
  /\ Inputs \cup LongInputs \cup Tails \subseteq Seq(Octets)
  /\ \A kind \in Kinds \cup {"octets"} : Vectors[kind] \subseteq Seq(Values(kind))

VARIABLES
  job,      \* lengths, kind, mls, the octets, and the vector they were written for
  path,     \* which decoder is at work
  phase,    \* "write", "length", "elements", "octets", "refused", "done"
  rest,     \* octets that decoder has not consumed
  length,   \* the declared length
  read,     \* octets the elements have taken of it
  result,   \* elements decoded so far
  answers   \* what each decoder has returned: nothing yet, or Ok or Err

vars == <<job, path, phase, rest, length, read, result, answers>>

IsVarInt == job.lengths = "varint"
Pending == [state |-> "pending"]
Failed == [state |-> "Err"]
Success(value, remainder) == [state |-> "Ok", value |-> value, rest |-> remainder]
Succeeded(p) == answers[p].state = "Ok"

--------------------------------------------------------------------------------
(* Serialising: the length is computed from tls_serialized_len before any  *)
(* element is written, and what was written is compared with it.           *)
ContentLength(kind, v, mls) ==
  IF kind = "octets" THEN Len(v)
  ELSE FoldLeft(LAMBDA n, e : n + tls_serialized_len(kind, e, mls), 0, v)

get_content_lengths(n) == IF n > ByteBase - 1 THEN Err ELSE Ok(<<n>>)

LengthOctets(lengths, n, mls) ==
  IF lengths = "varint" THEN WriteLength(n, mls) ELSE get_content_lengths(n)

Contents(kind, v, mls) ==
  IF \E i \in DOMAIN v : Write(kind, v[i], mls) = Err THEN Err
  ELSE Ok(FlattenSeq([i \in DOMAIN v |-> Write(kind, v[i], mls)[1]]))

SerializeElements(lengths, kind, v, mls) ==
  LET size == LengthOctets(lengths, ContentLength(kind, v, mls), mls)
      contents == Contents(kind, v, mls)
  IN  IF size = Err \/ contents = Err THEN Err
      ELSE IF Len(contents[1]) # ContentLength(kind, v, mls) THEN Err
      ELSE Ok(size[1] \o contents[1])

SerializeOctets(lengths, v, mls) ==
  IF lengths = "varint" THEN WriteVLBytes(v, mls)
  ELSE LET size == get_content_lengths(Len(v)) IN IF size = Err THEN Err ELSE Ok(size[1] \o v)

Serialize(lengths, kind, v, mls) ==
  IF kind = "octets" THEN SerializeOctets(lengths, v, mls)
  ELSE SerializeElements(lengths, kind, v, mls)

(* tls_serialized_len of the vector, for whoever writes it as a part of    *)
(* something else.                                                         *)
ByteSize(lengths, n, mls) ==
  IF lengths = "varint" THEN tls_serialize_bytes_len(n, mls) ELSE 1 + n

ElementsSize(lengths, kind, v, mls) ==
  LET n == ContentLength(kind, v, mls)
  IN  n + IF lengths = "varint" THEN LengthWidth(n, mls) ELSE 1

Size(lengths, kind, v, mls) ==
  IF kind = "octets" THEN ByteSize(lengths, Len(v), mls) ELSE ElementsSize(lengths, kind, v, mls)

--------------------------------------------------------------------------------
Job(lengths, kind, mls, input, written, suffix) ==
  [lengths |-> lengths, kind |-> kind, mls |-> mls,
   input |-> input, written |-> written, suffix |-> suffix]

Init ==
  /\ \E lengths \in {"varint", "u8"}, kind \in Kinds \cup {"octets"}, mls \in BOOLEAN :
       \/ \E s \in Inputs \cup (IF kind = "octets" THEN LongInputs ELSE {}) :
            /\ job = Job(lengths, kind, mls, s, Err, <<>>)
            /\ phase = "length"
            /\ rest = s
       \/ \E v \in Vectors[kind], suffix \in Tails :
            /\ job = Job(lengths, kind, mls, <<>>, Ok(v), suffix)
            /\ phase = "write"
            /\ rest = <<>>
  /\ path = "bytes"
  /\ length = 0 /\ read = 0 /\ result = <<>>
  /\ answers = [p \in Paths |-> Pending]

(* tls_serialize, tls_serialize_bytes; what was written is then decoded.   *)
WriteVector ==
  /\ phase = "write"
  /\ LET out == Serialize(job.lengths, job.kind, job.written[1], job.mls)
     IN  IF out = Err
         THEN phase' = "refused" /\ UNCHANGED <<job, rest>>
         ELSE /\ phase' = "length"
              /\ job' = [job EXCEPT !.input = out[1] \o job.suffix]
              /\ rest' = out[1] \o job.suffix
  /\ UNCHANGED <<path, length, read, result, answers>>

(* A decoder returns; the other one begins at the input's first octet.     *)
Return(answer) ==
  /\ answers' = [answers EXCEPT ![path] = answer]
  /\ length' = 0 /\ read' = 0 /\ result' = <<>>
  /\ IF path = "bytes"
     THEN path' = "read" /\ phase' = "length" /\ rest' = job.input
     ELSE phase' = "done" /\ rest' = <<>> /\ UNCHANGED path
  /\ UNCHANGED job

Enter(next) ==
  /\ length' = next.value
  /\ rest' = next.rest
  /\ phase' = IF job.kind = "octets" THEN "octets" ELSE "elements"
  /\ UNCHANGED <<job, path, read, result, answers>>

LengthOfInput(p, lengths, s, mls) ==
  IF lengths = "u8" THEN ReadUnsigned(1, s)
  ELSE IF p = "bytes" THEN ReadLengthBytes(s, mls) ELSE ReadLengthRead(s, mls)

ReadLength ==
  /\ phase = "length"
  /\ LET r == LengthOfInput(path, job.lengths, rest, job.mls)
     IN  IF r = Err THEN Return(Failed) ELSE Enter(r[1])

--------------------------------------------------------------------------------
(* The loop of tls_deserialize_bytes: an element may take octets that      *)
(* follow the vector; the sum is compared when the loop is over.           *)
BytesElement_trusting == \* Faulty: an element of no octets goes round again.
  /\ path = "bytes" /\ phase = "elements" /\ read < length
  /\ LET r == Read(job.kind, path, rest, job.mls)
     IN  IF r = Err
         THEN Return(Failed)
         ELSE /\ rest' = r[1].rest
              /\ read' = read + (Len(rest) - Len(r[1].rest))
              /\ result' = Append(result, r[1].value)
              /\ UNCHANGED <<job, path, phase, length, answers>>

BytesElement ==
  /\ path = "bytes" /\ phase = "elements" /\ read < length
  /\ LET r == Read(job.kind, path, rest, job.mls)
     IN  IF r = Err \/ Len(r[1].rest) = Len(rest)
         THEN Return(Failed)
         ELSE /\ rest' = r[1].rest
              /\ read' = read + (Len(rest) - Len(r[1].rest))
              /\ result' = Append(result, r[1].value)
              /\ UNCHANGED <<job, path, phase, length, answers>>

BytesLoopEnds ==
  /\ path = "bytes" /\ phase = "elements" /\ read >= length
  /\ Return(IF read # length THEN Failed ELSE Success(result, rest))

(* The loop of tls_deserialize: the element sees a reader that ends with   *)
(* the vector (or earlier, with the input).                                *)
ReadElement_unlimited == \* Faulty: the reader itself, not a part of it.
  /\ path = "read" /\ phase = "elements" /\ read < length
  /\ LET r == Read(job.kind, path, rest, job.mls)
     IN  IF r = Err \/ Len(r[1].rest) = Len(rest)
         THEN Return(Failed)
         ELSE /\ rest' = r[1].rest
              /\ read' = read + (Len(rest) - Len(r[1].rest))
              /\ result' = Append(result, r[1].value)
              /\ UNCHANGED <<job, path, phase, length, answers>>

ReadElement ==
  /\ path = "read" /\ phase = "elements" /\ read < length
  /\ LET sub == SubSeq(rest, 1, IF length - read < Len(rest) THEN length - read ELSE Len(rest))
         r == Read(job.kind, path, sub, job.mls)
     IN  IF r = Err \/ Len(r[1].rest) = Len(sub)
         THEN Return(Failed)
         ELSE LET consumed == Len(sub) - Len(r[1].rest)
              IN  /\ rest' = Skip(rest, consumed)
                  /\ read' = read + consumed
                  /\ result' = Append(result, r[1].value)
                  /\ UNCHANGED <<job, path, phase, length, answers>>

ReadLoopEnds ==
  /\ path = "read" /\ phase = "elements" /\ read >= length
  /\ Return(Success(result, rest))

(* Vectors of octets are taken whole: from a slice that is long enough, and*)
(* from a reader by read_bytes_bounded.                                    *)
SliceOctets ==
  /\ path = "bytes" /\ phase = "octets"
  /\ Return(IF Len(rest) < length THEN Failed
            ELSE Success(SubSeq(rest, 1, length), Skip(rest, length)))

ReadOctets ==
  /\ path = "read" /\ phase = "octets"
  /\ LET r == read_bytes_bounded(rest, length)
     IN  Return(IF r = Err THEN Failed ELSE Success(r[1].value, r[1].rest))

Next ==
  \/ WriteVector \/ ReadLength
  \/ BytesElement \/ BytesLoopEnds
  \/ ReadElement \/ ReadLoopEnds
  \/ SliceOctets \/ ReadOctets

Spec == Init /\ [][Next]_vars

--------------------------------------------------------------------------------
(* What the input declares, and the octets in front of it.                 *)
Declared == LengthOfInput("bytes", job.lengths, job.input, job.mls)[1]
WithinMls == ~job.mls \/ Declared.value <= MAX_MLS_LEN
Consumed(p) == SubSeq(job.input, 1, Len(job.input) - Len(answers[p].rest))

(* Both decoders take exactly the declared number of octets off the input, *)
(* or fail: a last element that overshoots is never accepted, and what the *)
(* caller goes on with is what follows the vector.                         *)
DeclaredLengthIsExact ==
  \A p \in Paths : Succeeded(p) =>
    /\ answers[p].rest = Skip(Declared.rest, Declared.value)
    /\ Len(Declared.rest) >= Declared.value

(* The two decoders accept the same inputs, with the same elements and the *)
(* same remainder, encodings that are not minimal included (tls_vec.rs:100,*)
(* tests/decode.rs:334), up to the length that `mls` allows.               *)
PathsAgree ==
  /\ DeclaredLengthIsExact
  /\ phase = "done" /\ ({p \in Paths : Succeeded(p)} # {} => WithinMls)
       => answers["bytes"] = answers["read"]

(* No element leaves a loop where it was: element loops end whatever the   *)
(* input declares (quic_vec.rs:112, tls_vec.rs:107).                       *)
LoopsAdvance ==
  [][phase = "elements" /\ phase' = "elements" /\ path' = path
       => Len(rest') < Len(rest) /\ read' > read]_vars

(* Where lengths must be minimal, with `mls` or in vectors without variable*)
(* lengths, a value has one encoding: writing what was read gives the      *)
(* octets it was read from (quic_vec.rs:6).                                *)
EncodingsAreUnique ==
  \A p \in Paths :
    Succeeded(p) /\ WithinMls /\ (job.mls \/ (~IsVarInt /\ job.kind # "VLBytes"))
      => Serialize(job.lengths, job.kind, answers[p].value, job.mls) = Ok(Consumed(p))

(* The longest contents: `mls` leaves variable lengths 30 bits.            *)
Limit == IF ~IsVarInt THEN ByteBase - 1 ELSE IF job.mls THEN MAX_MLS_LEN ELSE MAX

(* A vector is refused only if its contents do not fit the length; what is *)
(* written for any other has the length that tls_serialized_len announces  *)
(* and is read back by both decoders, which leave what follows it.         *)
(* Elements of no octets are gone: a vector of them is empty.              *)
ReadsBackWhatWasWritten ==
  job.written # Err =>
    LET v == job.written[1]
        size == ContentLength(job.kind, v, job.mls)
    IN  /\ phase = "refused" <=> phase # "write" /\ size > Limit
        /\ phase \notin {"write", "refused"} =>
             Len(job.input) = Size(job.lengths, job.kind, v, job.mls) + Len(job.suffix)
        /\ \A p \in Paths : answers[p].state \in {"Ok", "Err"} =>
             answers[p] = Success(IF job.kind = "unit" THEN <<>> ELSE v, job.suffix)
================================================================================
