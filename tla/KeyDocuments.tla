------------------------------- MODULE KeyDocuments ------------------------------
(***************************************************************************)
(* Keys and certificates as documents (der/src/document.rs), in DER and    *)
(* PEM: the traits of spki, pkcs1, pkcs8 and sec1 that read and write them,*)
(* encrypted private keys, and chains of certificates                      *)
(* (x509-cert/src/certificate.rs).                                         *)
(*                                                                         *)
(* A type is [label, first]: what a key is beyond one SEQUENCE is the      *)
(* subject of X509Schema, and here only the tag of its first component.     *)
(* Octets have their real widths, labels are spelled in the characters of  *)
(* PemText, and every line break is LF.  A file is its contents.           *)
(***************************************************************************)
LOCAL INSTANCE Integers
LOCAL INSTANCE Sequences
LOCAL INSTANCE SequencesExt
LOCAL PT == INSTANCE PemText
LOCAL INSTANCE PasswordEncryption
LOCAL INSTANCE DerValues
LOCAL H == INSTANCE DerHeader WITH
  HalfBase <- 128, ClassUnit <- 64, CONSTRUCTED_FLAG <- 32, MASK <- 31, LengthOctets <- 3,
  NumberMax <- 2^21 - 1, MAX_SIZE <- 4,
  Primitive <- {1, 2, 3, 4, 5, 6, 9, 10, 12, 19, 20, 22, 23, 24, 30}, OctetString <- 4, Sequence <- 16

SEQUENCE == 48
INTEGER == 2
OCTET_STRING == 4

(* Labels: A is 0.                                                         *)
PUBLIC_KEY == <<15, 20, 1, 11, 8, 2, PT!SP, 10, 4, 24>>
PRIVATE_KEY == <<15, 17, 8, 21, 0, 19, 4, PT!SP, 10, 4, 24>>
Types == [
  SubjectPublicKeyInfo |-> [label |-> PUBLIC_KEY, first |-> SEQUENCE],
  PrivateKeyInfo |-> [label |-> PRIVATE_KEY, first |-> INTEGER],
  EncryptedPrivateKeyInfo |->
    [label |-> <<4, 13, 2, 17, 24, 15, 19, 4, 3, PT!SP>> \o PRIVATE_KEY, first |-> SEQUENCE],
  RsaPrivateKey |-> [label |-> <<17, 18, 0, PT!SP>> \o PRIVATE_KEY, first |-> INTEGER],
  RsaPublicKey |-> [label |-> <<17, 18, 0, PT!SP>> \o PUBLIC_KEY, first |-> INTEGER],
  EcPrivateKey |-> [label |-> <<4, 2, PT!SP>> \o PRIVATE_KEY, first |-> INTEGER],
  Certificate |-> [label |-> <<2, 4, 17, 19, 8, 5, 8, 2, 0, 19, 4>>, first |-> SEQUENCE]]
validate_pem_label(type, label) == label = type.label

(* The length of the SEQUENCE that octets begin with, if it is there; 0 if *)
(* not.                                                                    *)
EncodedLength(h, octets) ==
  IF h = <<>> \/ h[1].next + h[1].length > Len(octets) THEN 0 ELSE h[1].next + h[1].length
LengthRead(octets) == H!DecodeDefinite(octets, 1, Len(octets))
PeekedLength(octets) == EncodedLength(LengthRead(octets), octets)

(* Document::try_from a vector, with decode_sequence and finish.           *)
IsSequence(octets) == octets # <<>> /\ octets[1] = SEQUENCE
FromVec(octets) ==
  IF IsSequence(octets) /\ PeekedLength(octets) = Len(octets) THEN <<octets>> ELSE <<>>
(* The value of a type that octets begin with, and T::from_der.            *)
DecodeLeading(type, octets, h) ==
  IF EncodedLength(h, octets) = 0 \/ h[1].length = 0 THEN <<>>
  ELSE IF octets[h[1].next + 1] = type.first THEN <<SubSeq(octets, 1, EncodedLength(h, octets))>>
  ELSE <<>>
Leading(type, octets) ==
  IF IsSequence(octets) THEN DecodeLeading(type, octets, LengthRead(octets))
  ELSE <<>>
FromDer(type, octets) == IF Leading(type, octets) = <<octets>> THEN <<octets>> ELSE <<>>

--------------------------------------------------------------------------------
(* PEM, of lines of 64 characters.                                         *)
PEM == [width |-> 64, ending |-> "LF"]
ToPem(type, octets) == PT!PemEncode(PEM, <<type.label, octets>>)

(* Document::from_pem: <<label, octets>>.                                  *)
AsDocument(pem) ==
  IF pem = <<>> \/ FromVec(pem[1][2]) = <<>> THEN <<>> ELSE pem
FromPem(text) == AsDocument(PT!PemDecode(PEM, text))

(* from_pkcs8_pem and its like, over a document: all octets are the value. *)
Validated(type, doc) ==
  IF doc = <<>> \/ ~validate_pem_label(type, doc[1][1]) THEN <<>> ELSE FromDer(type, doc[1][2])
from_key_pem(type, text) == Validated(type, FromPem(text))

(* DecodePem::from_pem, which reads from the text itself and does not call *)
(* finish.  Octets after the value are not looked at, and not even decoded;*)
(* here they are decoded, and their text is sound in every input.          *)
FirstValue(type, pem) ==
  IF pem = <<>> \/ ~validate_pem_label(type, pem[1][1]) THEN <<>> ELSE Leading(type, pem[1][2])
from_pem(type, text) == FirstValue(type, PT!PemDecode(PEM, text))

(* A key by the path that reads it; to_*_der and to_*_pem are the same for *)
(* all, and encode_msg makes sure of a SEQUENCE.                           *)
KeyWritten(type, way, octets) ==
  IF FromVec(octets) = <<>> THEN <<>> ELSE IF way = "der" THEN <<octets>> ELSE ToPem(type, octets)
KeyRead(type, way, t) ==
  CASE way = "der" -> FromDer(type, t)
    [] way = "document" -> from_key_pem(type, t)
    [] way = "pem" -> from_pem(type, t)

--------------------------------------------------------------------------------
(* EncryptedPrivateKeyInfo: parameters, of a scheme that both sides have,  *)
(* and the octets of the key encrypted under them; `o` is [scheme,         *)
(* password, parameters].                                                  *)
ShortTlv(tag, octets) == <<tag, Len(octets)>> \o octets
EncryptedInfo(o, encrypted_data) ==
  IF encrypted_data \in {<<>>, Panic} THEN encrypted_data
  ELSE <<ShortTlv(SEQUENCE, o.parameters \o ShortTlv(OCTET_STRING, encrypted_data[1]))>>
encrypt_with_params(o, octets) == EncryptedInfo(o, Encrypted(o.scheme, o.password, octets))
EncryptedData(o, info) == SubSeq(info, Len(o.parameters) + 5, Len(info))

(* decrypt makes a document of the octets, which is then a PrivateKeyInfo. *)
FromPkcs8(octets) ==
  IF octets \in {<<>>, Panic} THEN octets
  ELSE IF FromVec(octets[1]) = <<>> THEN <<>> ELSE FromDer(Types.PrivateKeyInfo, octets[1])
IsEncryptedInfo(o, info) ==
  /\ FromDer(Types.EncryptedPrivateKeyInfo, info) # <<>>
  /\ EncryptedInfo(o, <<EncryptedData(o, info)>>) = <<info>>
from_encrypted_der(o, info) ==
  IF IsEncryptedInfo(o, info) THEN FromPkcs8(Decrypted(o.scheme, o.password, EncryptedData(o, info)))
  ELSE <<>>
FromEncryptedDocument(o, doc) ==
  IF doc = <<>> \/ ~validate_pem_label(Types.EncryptedPrivateKeyInfo, doc[1][1]) THEN <<>>
  ELSE from_encrypted_der(o, doc[1][2])
from_encrypted_pem(o, text) == FromEncryptedDocument(o, FromPem(text))
EncryptedToPem(info) ==
  IF info \in {<<>>, Panic} THEN info ELSE ToPem(Types.EncryptedPrivateKeyInfo, info[1])
to_encrypted_pem(o, octets) == EncryptedToPem(encrypt_with_params(o, octets))

--------------------------------------------------------------------------------
(* CertificateInner::load_pem_chain.                                       *)
END_BOUNDARY == PT!POST_ENCAPSULATION_BOUNDARY \o Types.Certificate.label \o PT!Delimiter

FirstEnd(ends) == IF ends = {} THEN <<>> ELSE <<PT!FirstOf(ends)>>
find_boundary(text, from) ==
  FirstEnd({k \in from + Len(END_BOUNDARY) .. Len(text) :
              SubSeq(text, k - Len(END_BOUNDARY) + 1, k) = END_BOUNDARY})

LineEnds == {PT!Endings.LF[1], PT!Endings.CR[1]}

(* What is left at the end, if only one character, is let go.              *)
Both(cert, certs) == IF cert = <<>> \/ certs = <<>> THEN <<>> ELSE << cert \o certs[1] >>
Places == [input : Seq(Int), position : Nat, end : Seq(Nat)]
LoadFrom[at \in Places] ==
  IF at.position + 1 >= Len(at.input) THEN << <<>> >>
  ELSE IF at.end = <<>> THEN <<>>
  ELSE Both(from_pem(Types.Certificate, SubSeq(at.input, at.position + 1, at.end[1])),
            LoadFrom[[at EXCEPT !.position = at.end[1], !.end = find_boundary(at.input, at.end[1])]])
UpTo(text, kept) == IF kept = {} THEN <<>> ELSE SubSeq(text, 1, Max(kept))
WithoutLineEnds(text) == UpTo(text, {k \in DOMAIN text : text[k] \notin LineEnds})
Load(input) == LoadFrom[[input |-> input, position |-> 0, end |-> find_boundary(input, 0)]]
load_pem_chain(text) == Load(WithoutLineEnds(text))

(* A chain as it is written to a file, one certificate after the other.    *)
ChainText(certs) ==
  <<FlattenSeq([i \in DOMAIN certs |-> ToPem(Types.Certificate, certs[i])[1]])>>

================================================================================
