# Formal models of the formats crates

TLA+ modules, TLC configurations and TLAPS proofs for the crates of this
repository: parsers and writers of ASN.1 (`der` and the crates built on it),
Base64 and PEM, OIDs, TLS vectors and password hash strings. The models are
translated from the Rust sources; paths are relative to the repository's root.
`PROJECT.json` relates every definition to its source lines and lists the
hazards the properties are for.

Contents: 1 the system; 2 modules and runs; 3 each part in detail; 4 bounds and
fairness; 5 proofs; 6 differences between code and documentation; 7 what is not
modelled; 8 plan.

## 1. The system

The repository is a set of libraries. Nothing runs concurrently and nothing is
persisted: the state is that of readers, decoders, encoders and builders while
a caller drives them. What is hard is therefore of four kinds: *protocols of
calls* (a caller may make any sequence of calls, may drop an error and go on),
*state kept twice* (a slice and a position, a text and the length computed from
it), *boundaries* (widths, maxima, the last block), and *two ways of doing the
same thing* that have to agree (borrowed and owned, streaming and one-shot,
read and peeked).

| component | state it keeps | operations | hard behaviour | what makes it correct |
|---|---|---|---|---|
| `der` reader (`der/src/reader*`) | slice, `failed`, `Position` (window, cursor, depth) | `read_slice`, `drain`, `read_nested`, `decode`, `error`, `finish` | windows saved and restored around a closure that does anything; errors that are dropped | the cursor stays inside every open value; a nested value is read to its end; a failed reader is dead |
| PEM reader (`der/src/reader/pem.rs`) | a Base64 decoder, `Position` | the same, reading through the decoder | the tracker and the decoder move separately, one may fail after the other moved | both stay in step; what remains can be read |
| `der` lengths, tags, headers | none | decode and encode | widths, minimality, BER's indefinite lengths found by looking ahead | DER is canonical; BER extends it; look-ahead and reading agree |
| `der` values (`encode.rs`, `decode.rs`, `bytes.rs`) | a reader or a writer | `Decode`, `Encode`, `from_der`, `from_ber` | lengths computed before anything is written | what is written is read back, and as long as announced |
| `der` SET OF, SEQUENCE OF (`asn1/set_of.rs`) | a list or an array | insert, extend, sort, decode, view | order and duplicates under every way of building one | sorted after every call; the encoding is that of the sorted elements |
| `der` types (`der/src/asn1`, `datetime.rs`, `document.rs`) | none | contents read, written, compared | signs, leading zeros, unused bits, calendars, leap years | the same number, bits, day; the order of the contents |
| schemas (`der_derive`, `asn1/{choice,optional,context_specific,sequence}.rs`) | none | derived decoders and encoders | optional fields are found by peeking at a tag | decoding undoes encoding; alternatives are disjoint |
| `base64ct` one-shot | none | `decode`, `decode_in_place`, `encode` | unused bits, padding, writing over the text being read | one text per data; in place agrees with into a buffer |
| `base64ct::Decoder` | line, rest of the text, block buffer, `remaining_len` | `decode`, `read`, `decode_to_end` | blocks split over lines and calls; length known in advance | pieces are the next octets of the data; the length is exact; calls return |
| `base64ct::Encoder`, `pem-rfc7468` | block buffer, line wrapper | `encode`, `finish` | the same on the writing side; output full | the text is that of the one-shot encoder |
| `const-oid` | octets in an array; parser and encoder with a state | `new`, `from_bytes`, `from_arcs`, `push_arc`, `parent`, comparisons | root octet of two arcs; base-128 widths; array full | an OID stands for its arcs, whichever way it was built |
| `tls_codec` | the input, how much of it was taken | `tls_serialize`, `tls_deserialize`, the same for slices | lengths of 1, 2, 4, 8 octets; elements of no octets; elements ending past the vector | both paths agree, consume what is declared, undo serialisation |
| `x509-cert`, `cms`, `x509-ocsp` builders | a structure being filled | add..., `finalize`, `assemble`, `build` | `finalize` twice, a call between it and `assemble`, a failure between two steps | the signed octets are the returned ones; versions fit contents; key identifiers chain; recipients can open what is for them |
| `x509-cert` names, `const-oid` database | none; a table | `Display`, `FromStr`, `by_name`, `by_oid` | escapes, names that two OIDs share | a name read back from its text is the name |
| `phc`, `mcf`, `serdect` | a string under construction | add parameters, iterate, parse | a refused addition; limits | what was added is iterated and parsed |
| `x509-cert`, `cms`, `x509-*`, `crmf`, `cmpv2`, `gss-api`, `spki`, `sec1`, `pkcs1`, `pkcs8` data types | none | derived or hand-written codecs | versions, defaults, alternatives | round trips |
| `tls_codec_derive`, `x509-cert` SCTs | none | derived codecs of structs and enums | discriminants given three ways, attributes, nested lengths | both paths agree; lengths are exact |
| `pkcs5`, `pkcs12` | a buffer | derive, encrypt, decrypt in place | padding, room in the buffer, sizes | decryption undoes encryption; a derived key is RFC 7292's |
| `tai64`, `base16ct`, `base32ct` | none | conversions | carries, unused bits | the value means what its label says |
| `der::Document`, the key traits of `spki`, `pkcs1`, `pkcs8`, `sec1`, `load_pem_chain` | none | from and to DER, PEM, files | labels, what follows the document | reading undoes writing; the label decides the type |

How they interact: a decoder of a structure calls `Reader` operations, which
call it back inside `read_nested`; `PemReader` is a `Reader` that calls
`pem_rfc7468::Decoder`, which calls `base64ct::Decoder`; both readers own a
`Position`. Encoders ask every value for its length before they write it. The
structure crates only use `der`'s traits.

## 2. Modules and runs

| part | modules | composed how | runs |
|---|---|---|---|
| position tracker | `Position` | pure operators and what they return, extended by both readers | — |
| slice reader | `SliceReader`, `SliceReaderProofs` | implements `NestedReader` (abstract) | `SliceReader_safety` |
| PEM reader | `PemReader`, `PemReaderProofs` | `Position` and the promise that `ByteSource` makes | `PemReader_safety`, `PemReader_nested` |
| headers | `DerHeader` | pure operators, with trees of values; extended by `DerTlv` and `Asn1Schema` | — |
| values in values | `DerTlv`, `MCDerTlv` | headers, segments, encoder | `DerTlv_safety` |
| structures | `Asn1Schema` (what declarations mean), `X509Schema`, `CmsSchema`, `PkixSchema` (the declarations), `Schemas`, `MCSchemas` | `Schemas` drives `Asn1Schema` over declarations that are data | `Schemas_safety`, `Schemas_order` |
| conversions | `BaseEncodings`, `Base64Encoding`, `DerValues`, `Times`, `PemText`, `NameText`, `HashStrings`, `SetOf`, `TlsSchema`, `PasswordEncryption`, `KeyDocuments` (pure), `Codecs`, `MCCodecs` | `Codecs` drives them all as codecs | `Codecs_safety` |
| Base64 decoder | `Base64Decoder`, `MCBase64Decoder`, `Base64DecoderProofs` | uses `Base64Encoding`, implements `ByteSource` (abstract) | `Base64Decoder_stream` |
| OIDs | `OidEncoding` (pure), `ObjectIdentifier`, `MCObjectIdentifier`, `ObjectIdentifierProofs` | encoder and arcs, then the parser and a program that uses OIDs | `ObjectIdentifier_safety` |
| TLS vectors | `TlsElement` (pure), `TlsVector`, `MCTlsVector`, `TlsVectorProofs` | elements, then both deserialisers' loops over them | `TlsVector_safety` |
| builders | `X509Builder`, `CmsBuilder` (functions), `Builders`, `MCBuilders`, `BuildersProofs` | `Builders` is a program that calls them and keeps what was issued | `Builders_safety`, `Builders_kari` |
| lemmas | `SequenceLemmas` | sequences, induction and recursion over natural numbers, quotients; used by the proofs of the Base64 decoder, OIDs, TLS vectors and builders | — |

`ByteSource` is what joins the chain of readers: `Base64Decoder` is shown to
implement it, and `PemReader` is built on what it says (a call hands out what
was asked or fails, and of sound text fails only beyond the end).

Operators named `..._something` with a comment "Faulty" are plausible bugs of
the operator after them. They are used by nothing; substituting one for the
operator must make the property it is listed with fail, which shows that the
property and the bounds see that code.

## 3. The parts

**SliceReader.** Variables `bytes` (length of the slice that `read_slice` may
serve, counted from the input's beginning), `failed`, `position` (the
`Position` record), `frames` (the locals `read_nested` saves around its
closure, outermost first), `decodes` (open `decode` calls), `result`,
`decodeErr`. One action per operation; `read_nested` and `decode` are two
actions each, as the closure runs in between and may call anything, whatever
the call before returned. `drain` reads whole buffers and keeps what it
consumed when a later buffer fails. `SliceReader_safety` shows that the cursor
is inside every window, that the depth counter is the number of open windows,
that a failed reader neither moves nor recovers nor finishes, and that the
reader implements `NestedReader`: a nested value is reported as read only when
it was read to its end, whatever was nested in it. The slice and the tracker
agreeing (`SliceWithinTracker`) is part of the inductive invariant and proved.

**PemReader.** The same operations over a Base64 decoder that has served
`served` octets and may be broken. `read_into` advances the tracker before it
asks the decoder; `InStep` says that they nevertheless agree as long as the
decoder has not failed. The depth counter is only bounded from below by the
nesting (`StackIsBounded`), since a `split_nested` that is refused after the
depth check leaves the counter incremented and this reader has no `failed`
flag. Unsound text may break the decoder at any read.

**DerHeader, DerTlv.** `DerHeader` decodes and encodes tags (one octet, or a
number in base 128), lengths (one octet, or announced by a first octet, or
indefinite), and headers, from a window of the input. `EndOfContents` is
`decode_indefinite_length`: it looks ahead on a clone of the reader. `DerTlv`
drives them like the `walk` of `der/tests/nesting.rs`: constructed values are
opened, others are taken as octets; a constructed octet string of BER is put
together from its segments. A behaviour reads one input by DER, then by BER,
and, if BER accepted it, re-encodes the value and reads that by DER. Inputs are
arbitrary octets, and the encodings of written values (`source` remembers which).
`DerIsCanonical`, `ReadsBackWhatWasWritten`, `BerExtendsDer` and `BerBecomesDer`
relate the rounds to each other and to the value written; the look-ahead and
the reading agreeing on where contents end is part of them.

**Asn1Schema, X509Schema, CmsSchema, PkixSchema, Schemas.** What `der_derive`
generates is one algorithm over the declaration of a type, and so are the
traits it calls. `Asn1Schema` is that algorithm: a record of fields (required,
OPTIONAL, with a DEFAULT, ignored, forbidden), a choice, SEQUENCE OF and SET OF,
explicit and implicit tags, ANY, and the orders (`DerCmp`). Types written by
hand (versions that depend on contents, `Time`, `PrivateKeyInfo`, ...) have
forms of their own in it. The declarations of thirteen crates are data, each
with the lines of its type. `Schemas` writes a value, perhaps alters the
encoding in one place (a value dropped, doubled, exchanged, added, its tag
changed, DEFAULT values written out), reads it and writes it again:
`ReadsBackWhatWasWritten` (optional fields can be told apart; a value is refused
just if a variant in it is declared in a form that is never read),
`ReadsOneEncoding` (what is read, whatever arrived, is a value that it is an
encoding of by `IsEncodingOf`, a relation between declarations, values and trees
that shares nothing with the reader and has the liberties of a declaration as its
only alternatives: a default written out, a field skipped, extensions ignored,
the order of a SET OF), `OrderIsTotal` (with sets being the same in any order).
The order is stated pair by pair: it is total unless the comparison comes to an
optional part that both values leave out, of which each is less than the other
(section 6); what follows for the sets that contain such pairs (`HasTies`) is
part of the first and the third property. `DerSort` is the insertion sort that the
standard library uses for up to 20 elements, so that what it makes of such pairs
is what a program sees.

**Codecs.** One machine for every conversion that has two directions:
`value -> written -> read` or `text -> read`. The modules below give the two
operators of each kind, and `Codecs` names them. `ReadsBackWhatWasWritten`
includes the length announced before anything is written; values that the code
holds but cannot write (`Malformed`) are the exceptions, each with a reason.
`ReadsOneEncoding` says that a text that is read is the text that is written for
what it was read as, exactly unless `Liberty` names why not.
`MeansWhatItSays` compares with definitions that share nothing with the code's
algorithms: bits one by one, days counted, separators by parity, RFC 7292's key
derivation. `OrderIsThatOfContents` is about `value_cmp`, `InPlaceAgrees` about
`decode_in_place`, which never runs `validate_last_block`.

- `BaseEncodings`: Base16, Base32, and serdect's arrays, slices and vectors.
- `Base64Encoding`: the one-shot codec over sextets, and the lines of a wrapped
  text as the streaming decoder's line reader finds them.
- `DerValues`: BOOLEAN, INTEGER native, owned and borrowed, BIT STRING, flag
  sets, strings with an alphabet, REAL, serial numbers, encoded points.
- `Times`: `DateTime` from and to days and seconds, UTCTime, GeneralizedTime
  (with nanoseconds), RFC 3339 text, TAI64 and TAI64N with their arithmetic.
- `PemText`: `base64ct::Encoder` fed in pieces (its stride, its block buffer, its
  line wrapper and check for room), and PEM documents with their announced
  length, boundaries, preamble and line endings.
- `NameText`: names, relative names and attributes as the text of RFC 4514,
  with `by_name`, `by_oid` and the entries of the database for attribute types.
- `HashStrings`: PHC parameters in their buffer under every short sequence of
  additions, salts, outputs, the whole string; MCF hashes.
- `SetOf`: `SetOf`, `SetOfVec`, `SetOfRef`, `SequenceOf`, arrays.
- `TlsSchema`: types with a TLS encoding and what the derive macros make of
  structs and enums, with both deserialisers; SCT lists built on them.
- `PasswordEncryption`: PBES2 (parameters, padding, room, refusals) and the key
  derivation of PKCS#12 with its loops.
- `KeyDocuments`: documents in DER and PEM, the traits that read and write keys
  with them, encrypted private keys, chains of certificates.

**Base64Decoder.** The program counter `pc` steps through the loop of
`Decoder::decode` (`loop`, `advance`, `stride`, `fill`); `line`, `rest`, `block`,
`remaining_len` are the fields. `meant` is what the text means by the one-shot
codec, `delivered` and `erred` are history. Between calls the caller picks any
request. `ImplementsByteSource` is the refinement: pieces are the next octets of
the data and sound text is never refused. `LengthIsExact` is about the length
computed in advance from the ends of the text; `NoLaxerThanOneShot` says that
splitting a text over calls never makes it acceptable.

**OidEncoding, ObjectIdentifier.** The encoder's states, arcs read by the
iterator, the text parser octet by octet, and a program that builds an OID one
of three ways, extends it, takes parents and compares it with others. The
history variable `meant` is the list of arcs, computed without the iterator.
The properties compare everything the OID answers with `meant`;
`AcceptsDottedTexts` says which texts are accepted, independently of the parser;
`ParentUndoesPush` is the action property.

**TlsElement, TlsVector.** Both decoders read the same input, one after the
other, element by element. Elements have one octet, two, none, an option tag,
or a length of their own; `mls` is a boolean of the job. `PathsAgree` relates
the two answers to each other and to the declared length, `LoopsAdvance` is the
action property that ends the loops, `EncodingsAreUnique` and
`ReadsBackWhatWasWritten` relate reading and writing.

**X509Builder, CmsBuilder, Builders.** A builder is a record and each of its
methods a function from the record to the record; serialisation is the
structure itself, so "the signed octets" are the structure that was signed.
`Builders` is a program with one builder at a time: it adds extensions,
attributes, signers, recipients, calls `finalize`, signs what the last
successful `finalize` returned and assembles, in any order that the types
allow; what was issued stays, and a CRL or a certificate can be issued under a
certificate issued before. A `finalize` may also fail at each of its errors, and
the builder keeps what it had done by then (`CertificateFinalizeFailed` and its
like); the program may go on. The recipients of an envelope are sorted when it is
built (`SortedOrders`: by the tags of their kinds, those of one kind in any order,
since their octets decide). `log` and `asked` are history. `SignatureFits`: the
signature covers the object and names the signer, unless a later `finalize`
failed or, for the builders whose calls reach it, what is signed was added to
after it was signed. `NothingTwice`: no extension
or attribute twice, unless the program asked twice. `VersionsFit`,
`KeyIdentifiersChain`, `NamesAreChecked`, `EnvelopeIsReadable`: as their
comments say. Conditions such as `FinalizedOnce` in them mark what the code
does not promise (section 6, builders).

The findings' runs check one property each that a comment, a test or a document
states and the code does not keep: see section 6.

## 4. Bounds and fairness

| run | constants | why they are enough |
|---|---|---|
| SliceReader, PemReader | input of 4 / 5 octets, `Length::MAX` 6 / 7, depth 2 / 3, drain buffer 2 | lengths exist inside a window, at its end, past it, past the input and past `Length::MAX`; the depth limit is reached; a drain takes several buffers. `decode` may be open once. The proofs have no bounds |
| DerTlv | octets of five bits (`HalfBase` 16), tags of at most three octets with numbers to 63, lengths of at most two after the first | every width of lengths and tags and the value on either side of each step is among `Values`; the longest length and one more; arbitrary inputs of up to 5 octets over 8 octets, of up to 8 inside an indefinite value; depth 3 with nesting beyond it |
| Schemas | every declared type; values with every field at its extremes and one field varied, lists of up to two such elements; alterations down to two levels (`EDIT_DEPTH`) | fields are told apart by tags alone, so that one field present or absent next to full and empty neighbours reaches every confusion of two; real widths of tags and lengths |
| Codecs | values on both sides of every boundary of a type; every short text over the few symbols that the reader tells apart; every text one edit away from a written one | readers look at most one block, one separator or one field ahead. Scaled down: TAI64's words (8 bits, 3 ns to the second), REAL's words (16 bits), PHC's limits (an eighth), SET OF arrays (2 elements, 3 calls), ciphers and hashes of other crates (arithmetic; PBES2 has the real block sizes and messages of 0 to 17 octets, with and without room). Native integers have 1, 2 and 16 octets; lines of 0, 4, 5, 6 characters; names all 80 entries of the database's fragment; about 55 TLS types, with 36 combinations of attributes for an enum of three variants |
| Base64Decoder_stream | 4 blocks, lines of 0 (unwrapped), 4 to 7, requests up to 12 | blocks split over lines at every place, over calls at every place, all line endings, one spoilt character, bits or newlines; safety and `CallsReturn` on the same states |
| ObjectIdentifier | octets of 4 bits, arcs of 5, arrays of 3, base-3 digits | arcs of one octet and of two, the largest arc and texts with larger ones, an array full and one too small. All five properties are proved without bounds |
| TlsVector | octets of 3 bits (two first octets for every width of length), contents of up to 17, long ones around the longest that `mls` allows (1023) | every width of length, the limit `mls` imposes and one more, contents that end before, with and after the declared length. All four properties are proved without bounds |
| Builders | three calls (`MaxCalls`), a `finalize` that fails among them, two objects (`MaxIssued`), the second only after a straightforward first | an addition before, between and after `finalize`s; every profile and option; names with every order of up to four attributes; every kind of recipient twice. Four of the six properties are proved for any number of calls and objects |

Widths are parameters rather than 8, 32 and 128: the code's arithmetic is
expressed in them, and every boundary is reached with few octets. Deadlock is
checked for `ObjectIdentifier` and `Base64Decoder`, whose callers can always
make another call; in the other runs a reader that is finished, an input that
was read to its end, a conversion that is over or a program that made its last
call stops.

Fairness is used once: `Base64Decoder!FairSpec` assumes `WF_vars(Step)`, that a
call of `decode` that was made keeps running. It is an ordinary loop without
blocking, so this is what running the program means; the caller is not assumed
to call again. `CallsReturn` holds under it.

## 5. Proofs

Proved by TLAPS, for every value of the constants:

| theorem | says |
|---|---|
| `SliceReaderProofs!TypeCorrect`, `Safety`, `DepthIsExact` | types; the cursor inside every window; slice within tracker; the depth counter is the nesting and within the limit; a decode error is final |
| `SliceReaderProofs!FailedInert` | the action property of a failed reader |
| `SliceReaderProofs!Refinement` | every step of the reader is a step of `NestedReader` or a stutter |
| `PemReaderProofs!TypeCorrect`, `Safety` | types; tracker and decoder in step; windows nest; the stack is bounded |
| `PemReaderProofs!Windows`, `Finishing` | the cursor is in every window and in the document; a finish that succeeds is at the end |
| `PemReaderProofs!Serving` | of sound text, what remains of the innermost value can be read |
| `Base64DecoderProofs!LengthExact` | the length computed in advance is that of the data, and is counted down exactly |
| `Base64DecoderProofs!NoLaxer` | what is decoded to its end in pieces, the one-shot decode accepts and decodes the same |
| `Base64DecoderProofs!Refinement` | every step of the streaming decoder is a step of `ByteSource` or a stutter |
| `TlsVectorProofs!Agreement` | both deserialisers take the declared octets and return the same |
| `TlsVectorProofs!Advancing` | every turn of an element loop takes octets |
| `TlsVectorProofs!ReadingBack` | a vector that fits is written, takes what was announced, and is read back by both deserialisers; one that does not is refused |
| `TlsVectorProofs!Uniqueness` | where lengths must be minimal, what was read is written as the same octets |
| `ObjectIdentifierProofs!Iterating` | however an OID came about, its iterator yields the arcs it stands for |
| `ObjectIdentifierProofs!Comparing`, `Sorting` | equality of arrays is equality of arcs, `starts_with` is a prefix of the arcs; the derived order is that of the DER encodings |
| `ObjectIdentifierProofs!Accepting` | the parser accepts exactly the dotted texts of OIDs that the array can hold |
| `ObjectIdentifierProofs!ParentOfPush` | `parent` undoes `push_arc`, octet for octet |
| `ObjectIdentifierProofs!ReadingBack`, `TypeCorrect` | `from_bytes` takes over what `from_arcs` wrote, into the same array; types |
| `BuildersProofs!Signatures` | the signature of every issued object covers it and names the signer, unless a `finalize` failed or what is signed was added to between the one whose octets were signed and `assemble` |
| `BuildersProofs!Versions` | the version of every issued object is what its contents need |
| `BuildersProofs!KeyIdentifiers` | authority key identifiers are the issuers' subject key identifiers |
| `BuildersProofs!Naming` | CA and DevID profiles refuse just the names they must; a subscriber's subject keeps what may stay |
| `BuildersProofs!Envelopes` | an envelope has an info for every recipient that was added and for no others, in the order of their tags; recipients by key transport and by password find the content encryption key in theirs |

Assumptions, all on constants and each with its reason beside it:
`PositionAssumption` (`MaxLength` and `MaxDepth` are natural numbers),
`SliceReaderAssumption` and `PemReaderAssumption` (the input's length is a
`Length`, as `SliceReader::new` checks; buffers are not empty),
`ByteAssumption` (an octet has a number of values that is a multiple of four, as
its two upper bits are a tag), `OidAssumption` (the constants of const-oid are
positive; root arcs are arcs, fit one octet below `Base`, and the largest arc
takes exactly `ArcBytes` octets, as 39, 0x80, `u32::MAX` and 5 do; and an array
has fewer octets than an octet has values, since its length is kept `as u8`),
`TextAssumption` and `InputAssumption` (texts are sequences of characters,
octets and arcs handed in are octets and arcs), `InputsAssumption` (of vectors: inputs are octets, vectors
have elements of their kind; of Base64: texts are sequences of characters), `RequestsAssumption`, `OtherNewAssumption` and
`RecipientsAssumption` (requests, new builders and recipients are of the types
the source declares). The sets of inputs, keys, requests, extensions and
recipients are otherwise arbitrary, and infinite sets are among them.

*Readers.* `InsideEveryWindow` is not inductive: leaving a nested value
restores a saved window, and nothing in the property says that the cursor is
inside that one. `IInv` of the slice reader adds that saved windows contain the
ones opened later, pairwise (`FramesNest`), that the outermost is the input,
and that the slice is never ahead of the tracker (`SliceWithinTracker`), which
is what makes the tracker's own checks redundant after the slice's. Each action
has one lemma, `LeaveNested` the longest. For the PEM reader `IInv` adds that
sound text never breaks the decoder; that needs `InStep`, and `InStep` needs the
windows. What the tracker's operators return is stated once, at the end of `Position`.

The refinement maps the cursor to `position.position`, the windows to the saved
`input_len`s followed by the current one, and the results to three outcomes;
`Windows` changes by one element in every step of `read_nested`, and that is
what the lemmas before `Refinement` are about.

*Base64 decoder.* The theorems hold for every set of texts and widths and every
bound on requests. `IInv` says, until a call fails, that some place `p` of the
joined text describes the decoder: the line and what is left of the text are what
the reader has still to give from `p` on (`OnLine`), and what was delivered,
written by the current call and kept in the block buffer, one after the other, is
the data of the first `p` characters, which are in the alphabet (`Made`); `p` is a
multiple of four, or the end. The rest is about operators. The lines of a text are
a recursive function over which properties are proved by induction: a line only
adds to the joined text, and after the last one nothing changes (`LinesShape`,
`LinesGrow`, `AtALine`). A piece between two places has the octets of the data
between them (`PieceOfData`), is accepted only if its characters are
(`PieceAccepted`) and, if they are, always (`PieceIsAccepted`): its last block may
be the text's, whose unused bits were validated when the length was computed
(`EndIsValid`), or a whole one, which encodes back to itself (`RoundTrip`,
`WholeBlocksAreValid`). `TailFacts` and `WholeText` say that the length computed
from the last block is that of the data, and that the one-shot decode accepts
exactly the texts whose characters are in the alphabet, once that length could be
computed. Each action moves `p`: `FillBlock` from one line to the next (`Split`),
which is where widths of four and more are needed.

*TLS vectors.* The two deserialisers run one after the other, so that they
agree is not visible in any state between the end of the first loop and the end
of the second. `Inv` therefore says where the second one stands with respect to
the first: a state of the loop over a slice, `<<rest, read, result>>`, leads to
an answer if some set of such states contains it, is closed under the loop's
body, and ends in that answer (`LeadsTo`; a set, so that no induction over the
number of turns is needed). `BytesLeads` says that what the present state leads
to, the first state led to; `BytesAnswered` that the first answer is what the
first state leads to; `ReadFollows` that the state of the second loop leads, in
the first loop, to the answer the first has given. What remains is one lemma per
kind of element, that reading from a reader that was cut off gives what reading
from the whole input gives or, exactly if the element overshoots, an error
(`LimitedReads`), and that overshooting in the first loop leads to an error.
Both theorems need that lengths are natural numbers, which is an induction over
the octets (`BigEndianIsNatural`).

The other two are about what the numbers are, and rest on lemmas about octets in a base.
Octets in base `ByteBase` and `div` by its powers undo each other
(`BigEndianShifts` and the lemmas about `Weight`), the two tag bits of a
variable-length integer can be put in and taken out, so that each kind of
element is read back from what is written and an unread rest (`ElementBack`), has one
encoding (`ElementUnique`), and is refused only if it is longer than any length
(`ElementRefused`). The size of a vector is a fold over its elements, evaluated
with `Max` of the remaining indices, and its octets a concatenation of
concatenations; `LengthOfMore` and `JoinedOfMore` say what one more element adds
to each, and by induction they agree (`JoinedIsWritten`). With `WholeVector`,
the octets of any vector are a length that is read back and as many octets.
`AsWritten` is then an invariant of the loop: if the input was written, what was
read is some first elements, and the loop stands where the next one was written
(`NextElement`). `OneEncoding` is the converse: what was read so far is written
as the octets read so far. The second deserialiser needs no loop invariant of
its own, since `Inv` already says that it gives the answer of the first.

*OIDs.* None of the five properties is inductive: that iteration yields `meant`
says nothing of the unused end of the array, which equality looks at and the
next push writes into. `Means` is the strengthening: the length is inside the
array, the octets up to it read as `meant` (`Reading`, the definition without
the iterator, with no arc open), the last one closes an arc, and all behind it are
zero. `IInv` also says that an OID made of arcs *is* what `from_arcs` returns for
them, which turns equality of octets into equality of arcs (`SameOids`), and
what the parser carries: after `k` characters, the encoder is what the numbers of
the fields before the last dot encode to, and the arc in progress is the number
of the last field (`MidwayAt`); an answer is `Ok` exactly for an acceptable text.
The lemmas go up from numbers: an arc is the sum of what its octets spell
(`SpelledBack`), `base128_len` is its number of digits (`LengthOfArc`), writing
one appends one arc to the reading (`ArcEncodes`) and changes nothing before it,
so that longer lists have longer encodings (`EncodeGrows`). `ArcsOfIs` says of
arbitrary octets that the iterator stands, after `n` calls, behind the octet
that closes the `n`th arc (`AdvanceStands`), and fails exactly where the reading
is not an OID. A refusal before the end of the text needs that nothing which
follows could repair it (`FieldsGrow`: closed fields stay, the last only grows).
`SortsAsDer` compares two arrays at their first difference, which cannot be
behind both lengths. TLC checked `IInv` itself on the run's instance first.

*Builders.* `SignatureFits` is about issued objects, and the signature is made
two calls earlier. `SignatureInv` carries it there: what was signed covers the
builder as it is now, unless one of the calls that change what is signed came
since (`SignatureOfBuilder`). The others follow from `SoundInv`, which adds
to it what is true of the builder after the calls in `log` (`BuilderIsSound`:
for a certificate, what it was begun for, the version it would announce, and the
keys its extensions identify, before and after a first `finalize`) and of the
objects (`ProductsAreSound`). Each builder has a lemma per method, and the
actions of `Builders` a lemma per kind of step (a builder begins, becomes
another by a call, is turned into an object). For `NamesAreChecked` the builder
also carries whose subject it has and that the criticality of its extensions fits
it (`NamesSound`), and a small invariant of its own says that `new` answers as it
must (`AnswersFit`). What these rest on is about names of any length:
`CaNaming` says that the one pass of `check_names_encoding`, whose iterator a
missed search uses up, accepts just the names of single attributes that rise in
the order of the CA/Browser Forum (`OrderIsChecked`: after `k` RDNs the pass is
still in order exactly if those are, and stands at the last one), and
`DomainValidated` that to sift a name RDN by RDN, dropping those left empty, is
to sift its attributes (`Sifting`: a join is sifted part by part).

*Induction over data.* The library's induction theorems take the property as an
operator, which the provers here cannot instantiate. `SequenceLemmas!Induction`
states the principle with a set of numbers instead (proved from the
well-foundedness of `<`), so what a recursive *function* computes can be proved
about, as `TlsElement!BigEndian` and `Base64Encoding!Lines`. The folds of the
community modules are `CHOOSE`s of such functions: for `FoldLeft` and
`FlattenSeq`, which the vectors need, that these functions exist and take one
step more with one element more is proved too (`FoldsExist`, `FoldStep`,
`FlattenJoins`, `FlattenOfMore`). Selections and sorts are not unfolded.

*Only model-checked.* Of the builders, `NothingTwice`, which is about library selections and a
library sort, which the provers do not unfold. `DerTlv`, `Schemas` and `Codecs`: their values are trees, over which their
operators are declared `RECURSIVE`, which the prover does not support. Liveness
(`CallsReturn`) and `ENABLED` are out of its reach altogether.

## 6. Where code and documentation differ

With a run (each finds a counterexample):

- `PemReader_nested`: the PEM reader's `read_nested` accepts a nested value that
  was not read to its end; the slice reader does not (`der/src/reader/pem.rs:69`).
- `Builders_kari`: key agreement writes the derived key encryption key over the
  buffer of the wrapped key, and wraps under a key of zeros
  (`cms/src/builder/kari.rs:358`).
- `Schemas_order`: an absent optional part is less than an absent one
  (`der/src/asn1/optional.rs:36`), so an `AlgorithmIdentifier` without parameters,
  a certificate or a `SignerInfo` is less than itself. Two signer infos that agree
  up to such a part change places each time their set is decoded and encoded;
  what a sort of more than 20 elements does with such an order the standard
  library does not specify.

Found by properties that were then stated for what the code does:

- After `read_nested` was refused for its depth the slice stays cut, and a read
  of what `remaining_len` still covers is `Incomplete` (`der/src/reader/slice.rs:98`).
- A definite-length constructed segment of a BER octet string is accepted and its
  headers become data (`der/src/length/indefinite.rs:100`).
- `ObjectIdentifier::new` accepts OIDs of two arcs, where `const-oid/src/lib.rs:60`
  asks for at least three, and OIDs that fill the array, where line 63 asks for
  fewer than `MAX_SIZE` octets; `AcceptsDottedTexts` says that these are all it
  accepts beyond the documented criteria. `encoder.rs:89` and `lib.rs:249` keep a
  length `as u8`, which cuts it off for arrays of 256 octets or more
  (`ObjectIdentifier` has the array's size as a parameter that nothing bounds).
- `from_bytes` accepts arcs that begin with zero digits (`const-oid/src/arcs.rs:76`,
  `lib.rs:303`), which are not valid BER or DER.
- `Position::split_nested` counts the depth before the checks that may refuse
  (`der/src/reader/position.rs:76`); the PEM reader loses a level each time.
- `tls_codec/src/quic_vec.rs:73` does not apply the 30-bit limit of `mls` that
  line 41 states and the other deserialiser applies. `PathsAgree` is stated for
  lengths within the limit; `ReadsBackWhatWasWritten` counts vectors beyond it
  among those that do not fit. Line 6 says lengths must be minimal; without `mls`
  they need not be. Lines 370 and 469 assert, in debug builds, what never holds
  on the branch they are on.

`der`:

- `value_cmp` is not the order of encodings for UTCTime, flag sets, `UintRef`,
  native integers of different lengths, `SignerIdentifier` (compared as a
  `Vec<u8>`, that is as SEQUENCE OF INTEGER: `der/src/ord.rs:8`); it fails for u128
  from 2^127; `Tag::der_cmp` compares the number before the constructed bit.
  `ContextSpecific::value_cmp` calls itself for ever (`internal_macros.rs:280`).
- `Int::new` keeps leading zeros and an empty slice, `Uint::new` of one is empty;
  `BitString` accepts unused bits that are not zero, and its iterator's `len` is
  not what is left; `derive(BitString)` writes whole octets only.
- `real.rs`: short contents and long mantissas panic (line 241), mantissa 0
  underflows, a one-octet exponent is read unsigned, subnormals become zero,
  the value is not X.690's, further octets are ignored.
- `BmpString` refuses U+FFFF; `PrintableString` documents `\` and accepts `'`.
- `GeneralizedTimeNanos` reaches past `MAX_UNIX_DURATION`, whose comment says
  otherwise.
- `AnyRef::decode` keeps the end-of-contents octets of an indefinite value in its
  value where `Any` strips them; `tlv_bytes` adds the header to a length that
  already counts them. `SliceWriter::reserve` does not mark the writer as failed.
- `SetOfRef` checks its elements as headers only: iteration and re-encoding end
  silently at the first of another type, while `len` counts all.
- `DecodePem::from_pem` (also `from_pkcs8_pem`, `load_pem_chain`) ignores what follows
  the value and does not call `finish`; the readers through `Document` refuse it.
  `load_pem_chain` ignores one character after the last certificate.

Structures:

- Choices with EXPLICIT variants that lack `constructed` are written and never
  read back: `Evidence`, `ArchiveRemGenPrivKey`, `ThisMessage`, `DhMac`
  (`cms/src/timestamped_data.rs:71`, `crmf/src/controls.rs:136`, `pop.rs:157`).
  `ReadsBackWhatWasWritten` says that they, and no others, are refused.
- `IssuingDistributionPoint::OID` is that of subject information access
  (`x509-cert/src/ext/pkix/crl/dp.rs:64`); `UserNotice::notice_ref` is a
  GeneralizedTime (`certpolicy.rs:89`); `TbsCertList::version` is required.
- `PrivateKeyInfo` drops attributes and unknown fields; pkcs12's `SafeBag` wraps
  on writing what reading left wrapped.
- `SerialNumber::as_bytes` may begin with zero, its documentation says not.
- `sec1`'s `FromStr` accepts mixed case where its documentation refuses it.

Text:

- Names: the text loses the string type; an empty name or relative name is
  written as a text that is refused; a separator after three backslashes is
  misread (`name.rs:378`); a dangling backslash is dropped; an odd number of hex
  digits always fails, as the padding digit is the number 0 (`attr.rs`). Names in
  the OID database that two OIDs share (`id-mod`, `id-alg`, `hashAlgs`) are read
  back as one of them.
- `base64ct::Encoder` refuses a buffer of the exact size when the last block is
  wrapped (`encoder.rs:289`); PEM of an empty document, or with a label that
  begins with a space, is written and not read; `base32ct` and `decode_in_place`
  do not look at unused bits. `decode_vec` of `pem-rfc7468` accepts an empty line
  after a full last line, `decode` does not.
- `phc`: a refused `add_b64_bytes` leaves a separator or a name behind
  (`params.rs:59`) and the iterator panics later; duplicates are only refused by
  some ways to add; `v=` alone is read as the version; the derived equality of
  `string_buf.rs:9` looks at octets after the length. `mcf`: `push_base64` of
  nothing makes a hash that is refused.
- `tai64/src/lib.rs:62` and `UNIX_EPOCH` disagree about the offset (10 and 37).
- `serdect`'s arrays accept shorter strings and fill them with zeros
  (`array.rs:6`).
- `const-oid/src/lib.rs:204` borrows a type whose order and hash differ from the
  owned one's.

Builders and passwords:

- A `finalize` that fails leaves the builder changed: the algorithm of the
  signature, the key of a request, the extensions it appended
  (`x509-cert/src/builder.rs:374`, `request/builder.rs:113`). A program that drops
  the error and assembles with the signature of an earlier `finalize` gets an object
  that the signature does not cover.
- The recipients of an envelope do not keep the order in which they were added
  (`cms/src/builder.rs:1155`).
- A second `finalize` adds the profile's extensions again, or another message
  digest (also after one that failed); version 1 set by a `finalize` without
  extensions stays. `RequestBuilder` always inserts an extension request, empty
  if need be (`request.rs:107` says otherwise).
- `CrlBuilder` takes the issuer's own authority key identifier as the CRL's
  (`x509-cert/src/builder.rs:608`).
- cms: `get_hasher` looks for `id-sha-3-256`, the database says `id-sha3-256`; a
  SignerInfo with neither content nor digest signs no attributes; `SignedData`
  does not check that a SignerInfo's content is its own; the padding of a key for
  a password is no multiple of the block when the key exceeds two blocks, and
  keys of fewer than three octets panic.
- `check_names_encoding` refuses repeated attributes even where several are
  allowed; the names of `domain_validated` are not emitted.
- pkcs5: `aead_encrypt` panics when the buffer has more than 16 octets of room,
  `Salt::new` for salts of more than 32 octets, scrypt for a cost of 0; DES-CBC
  decrypts and does not encrypt.

TLS derive: no overflow check of sums in `TlsSerializeBytes` of enums; attributes on
the fields of variants are ignored; of two variants with one discriminant the
second is read as the first. `tls_codec/src/varint.rs:117` reads its first octet
with `read`, not `read_exact`.

## 7. Not modelled

`PROJECT.json` says for every part what is left out. In short:

- Cryptography: hashes, ciphers, signatures and key derivation functions of other
  crates are symbols or arithmetic; random numbers are parameters or fixed.
- Formatting, feature-gated conversions to other crates' types, accessors and
  queries, `peek` helpers of the readers (they work on a clone), `Read`
  implementations that are interrupted, zeroization, access to files.
- `der`: the character forms of REAL, strings that accept every octet, comparisons
  that fail inside a sort, SET OF by BER, the order of context-specific,
  application and private values, which no declaration of the crates compares.
- `tls_codec`: targets of fewer than 64 bits, the serde adapters, conditional
  deserialisation, negative representations.
- `cms`: `encrypt_data`; sets of SignedData are kept as lists in the order they
  are written.
- The parsing of attributes by the derive macros and their errors; tests,
  benchmarks, fuzzing and generated tables except the database's fragment.

## 8. Plan

1. `Builders`: `NothingTwice`, once the selections and the sorts of the builders
   are folds or recursive functions, which the provers can reason about.
2. `DerHeader` without RECURSIVE operators, then the minimality of lengths for
   every length and not only those of the run.
