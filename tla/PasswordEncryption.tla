--------------------------- MODULE PasswordEncryption ----------------------------
(***************************************************************************)
(* Encryption under a password: PBES2 with its key derivation functions    *)
(* and ciphers (pkcs5/src/pbes2), and the key derivation of PKCS#12        *)
(* (pkcs12/src/kdf.rs).                                                    *)
(*                                                                         *)
(* The cryptography itself belongs to other crates.  Here a cipher adds    *)
(* the key to the octets, a tag and a hash are sums of the octets with     *)
(* weights, and a derived key is a number made of everything it is derived *)
(* from: what is modelled is the padding, the buffers, the sizes and the   *)
(* refusals around them.  The build has the features 3des and des-insecure *)
(* and not sha1-insecure.  Results are <<x>>, <<>> for an error and Panic. *)
(***************************************************************************)
LOCAL INSTANCE Integers
LOCAL INSTANCE Sequences
LOCAL INSTANCE SequencesExt
LOCAL INSTANCE DerValues

Weighted(octets) ==
  FoldLeft(LAMBDA sum, i : (sum + (2 * i + 1) * octets[i]) % 65521, Len(octets), [i \in DOMAIN octets |-> i])
Shifted(key, octets, by) == [i \in DOMAIN octets |-> (octets[i] + by * (key + 7 * i)) % 256]

--------------------------------------------------------------------------------
(* Parameters: [kdf, scheme].                                              *)
MAX_LEN == 32                         \* of a salt
MAX_ITERATION_COUNT == 100000000
MAX_KEY_LEN == 32
AES_BLOCK_SIZE == 16
DES_BLOCK_SIZE == 8
TagSize == 16

(* Salt::new copies every octet into an array of MAX_LEN.                  *)
SaltFrom(octets) == IF Len(octets) > MAX_LEN THEN Panic ELSE <<octets>>

Pbkdf2Params(salt, count, key_length, prf) ==
  [name |-> "Pbkdf2", salt |-> salt, count |-> count, key_length |-> key_length, prf |-> prf]
ScryptParams(salt, cost, r, p, key_length) ==
  [name |-> "Scrypt", salt |-> salt, cost |-> cost, r |-> r, p |-> p, key_length |-> key_length]

WithSalt(salt, params) == IF SaltFrom(salt) = Panic THEN Panic ELSE <<params>>
hmac_sha256(count, salt) ==
  IF count > MAX_ITERATION_COUNT THEN <<>>
  ELSE WithSalt(salt, Pbkdf2Params(salt, count, <<>>, "HmacWithSha256"))

(* `params` is scrypt::Params; a block size or parallelization of more than*)
(* 16 bits is an error.                                                    *)
from_params_and_salt(params, salt) ==
  IF (params.r > 65535 \/ params.p > 65535) /\ SaltFrom(salt) # Panic THEN <<>>
  ELSE WithSalt(salt, ScryptParams(salt, 2^params.log_n, params.r, params.p, <<>>))

(* Parameters::generate_pbkdf2_sha256_aes128cbc and the others, named for  *)
(* the cipher: `with` is [kdf, scheme, salt] and count or params.          *)
WithScheme(kdf, scheme) ==
  IF kdf = <<>> \/ kdf = Panic THEN kdf ELSE <<[kdf |-> kdf[1], scheme |-> scheme]>>
Generated(with) ==
  WithScheme(IF with.kdf = "Pbkdf2" THEN hmac_sha256(with.count, with.salt)
             ELSE from_params_and_salt(with.params, with.salt),
             with.scheme)

(* pbes2::EncryptionScheme::key_size.                                      *)
KeySizes == [Aes128Cbc |-> 16, Aes192Cbc |-> 24, Aes256Cbc |-> 32, Aes128Gcm |-> 16,
             Aes256Gcm |-> 32, DesCbc |-> 8, DesEde3Cbc |-> 24]
IsAead(scheme) == scheme \in {"Aes128Gcm", "Aes256Gcm"}
BlockSize(scheme) == IF scheme \in {"DesCbc", "DesEde3Cbc"} THEN DES_BLOCK_SIZE ELSE AES_BLOCK_SIZE

(* scrypt::Params::try_from(&ScryptParams): the logarithm of 0 is computed *)
(* by a subtraction that underflows.  The rest is checked by the crate     *)
(* scrypt.                                                                 *)
IsPowerOfTwo(n) == \E k \in 0 .. 30 : n = 2^k
ScryptAccepts(p) == p.r > 0 /\ p.p > 0
scrypt_params(kdf) ==
  IF kdf.cost = 0 THEN Panic
  ELSE IF IsPowerOfTwo(kdf.cost) /\ ScryptAccepts(kdf) THEN <<kdf>>
  ELSE <<>>

(* EncryptionKey::derive_from_password.                                    *)
Stretched(password, kdf, size) ==
  (Weighted(password \o <<0>> \o kdf.salt) + size
     + (IF kdf.name = "Pbkdf2" THEN kdf.count + 1 ELSE 5 * kdf.cost + 3 * kdf.r + kdf.p)) % 65521
StretchedBy(params, password, size) ==
  IF params \in {<<>>, Panic} THEN params ELSE <<Stretched(password, params[1], size)>>
derive_from_password(password, kdf, size) ==
  CASE kdf.key_length # <<>> /\ kdf.key_length # <<size>> -> <<>>
    [] kdf.key_length \in {<<>>, <<size>>} /\ kdf.name = "Pbkdf2" ->
         IF kdf.prf = "HmacWithSha1" THEN <<>> ELSE <<Stretched(password, kdf, size)>>
    [] OTHER -> StretchedBy(scrypt_params(kdf), password, size)

--------------------------------------------------------------------------------
(* PKCS#7 padding, of at least one octet; the whole is overwritten in a    *)
(* buffer of `room` octets.                                                *)
PadLength(n, block) == block - (n % block)
Padded(plain, pad) == plain \o [i \in 1 .. pad |-> pad]
cbc_encrypt(key, block, plain, room) ==
  IF Len(plain) + PadLength(Len(plain), block) > room THEN <<>>
  ELSE <<Shifted(key, Padded(plain, PadLength(Len(plain), block)), 1)>>
WithoutPad(octets, n, pad, block) ==
  IF /\ pad \in 1 .. block
     /\ \A i \in n - pad + 1 .. n : octets[i] = pad
  THEN <<SubSeq(octets, 1, n - pad)>> ELSE <<>>
Unpadded(octets, block) == WithoutPad(octets, Len(octets), octets[Len(octets)], block)
cbc_decrypt(key, block, octets) ==
  IF octets = <<>> \/ Len(octets) % block # 0 THEN <<>>
  ELSE Unpadded(Shifted(key, octets, -1), block)

(* The tag is copied to all that follows the message in the buffer, which  *)
(* has to have the tag's size exactly.                                     *)
TagOf(key, octets) == [i \in 1 .. TagSize |-> ((Weighted(octets) + key) \div i) % 256]
Tagged(key, cipher) == cipher \o TagOf(key, cipher)
aead_encrypt(key, plain, room) ==
  IF room < TagSize + Len(plain) THEN <<>>
  ELSE IF room > TagSize + Len(plain) THEN Panic
  ELSE <<Tagged(key, Shifted(key, plain, 1))>>
aead_decrypt(key, octets) ==
  LET cipher == SubSeq(octets, 1, Len(octets) - TagSize)
  IN  IF Len(octets) >= TagSize /\ Tagged(key, cipher) = octets THEN <<Shifted(key, cipher, -1)>> ELSE <<>>

EncryptWith(key, scheme, plain, room) ==
  IF key \in {<<>>, Panic} THEN key
  ELSE IF IsAead(scheme) THEN aead_encrypt(key[1], plain, room)
  ELSE IF scheme = "DesCbc" THEN <<>>
  ELSE cbc_encrypt(key[1], BlockSize(scheme), plain, room)
encrypt_in_place(p, password, plain, room) ==
  IF KeySizes[p.scheme] > MAX_KEY_LEN THEN <<>>
  ELSE EncryptWith(derive_from_password(password, p.kdf, KeySizes[p.scheme]), p.scheme, plain, room)

DecryptWith(key, scheme, octets) ==
  IF key \in {<<>>, Panic} THEN key
  ELSE IF IsAead(scheme) THEN aead_decrypt(key[1], octets)
  ELSE cbc_decrypt(key[1], BlockSize(scheme), octets)
decrypt_in_place(p, password, octets) ==
  DecryptWith(derive_from_password(password, p.kdf, KeySizes[p.scheme]), p.scheme, octets)

(* encrypt and decrypt of EncryptionScheme, in vectors or in place: with   *)
(* <<>> for PBES1, else <<parameters>>; encrypt allocates one AES block    *)
(* more than the message.                                                  *)
Encrypted(scheme, password, plain) ==
  IF scheme = <<>> THEN <<>>
  ELSE encrypt_in_place(scheme[1], password, plain, Len(plain) + AES_BLOCK_SIZE)
EncryptedInPlace(scheme, password, plain, room) ==
  IF scheme = <<>> THEN <<>> ELSE encrypt_in_place(scheme[1], password, plain, room)
Decrypted(scheme, password, octets) ==
  IF scheme = <<>> THEN <<>> ELSE decrypt_in_place(scheme[1], password, octets)

--------------------------------------------------------------------------------
(* The key derivation of PKCS#12, with a hash of `size` octets over blocks *)
(* of HASH_BLOCK octets; `of` is [password, salt, id, rounds, len], where  *)
(* the password is characters.                                             *)
HASH_BLOCK == 2
HashOf(octets, size) == [i \in 1 .. size |-> (Weighted(octets) \div i + 255 * (i - 1)) % 256]
Iterated(octets, size, rounds) ==
  FoldLeft(LAMBDA result, i : HashOf(result, size), HashOf(octets, size), [i \in 1 .. rounds - 1 |-> i])

(* As many copies as fill whole blocks, the last one cut short.            *)
Copies(octets) ==
  [i \in 1 .. HASH_BLOCK * ((Len(octets) + HASH_BLOCK - 1) \div HASH_BLOCK) |->
     octets[((i - 1) % Len(octets)) + 1]]

(* I_j + B + 1 modulo the block, octet by octet from the right.            *)
PlusOctet(at, sum) == [carry |-> sum \div 256, octets |-> <<sum % 256>> \o at.octets]
PlusResult(block, result) ==
  FoldLeft(LAMBDA at, k :
             PlusOctet(at, at.carry + block[HASH_BLOCK - k] + result[((HASH_BLOCK - k - 1) % Len(result)) + 1]),
           [carry |-> 1, octets |-> <<>>], [k \in 1 .. HASH_BLOCK |-> k - 1]).octets
NextInit(init, result) ==
  FlattenSeq([j \in 1 .. Len(init) \div HASH_BLOCK |->
                PlusResult(SubSeq(init, HASH_BLOCK * (j - 1) + 1, HASH_BLOCK * j), result)])

AddResult(at, result) == [init |-> NextInit(at.init, result), out |-> at.out \o result]
derive_key(pass, of, size) ==
  LET id_block == [i \in 1 .. HASH_BLOCK |-> of.id]
  IN  IF of.rounds < 1 THEN <<>>
      ELSE <<SubSeq(FoldLeft(LAMBDA at, i : AddResult(at, Iterated(id_block \o at.init, size, of.rounds)),
                             [init |-> Copies(of.salt) \o Copies(pass), out |-> <<>>],
                             [i \in 1 .. (of.len + size - 1) \div size |-> i]).out,
                    1, of.len)>>
(* The password with two zero octets behind it.                            *)
derive_key_bmp(password, of, size) == derive_key(password \o <<0, 0>>, of, size)
DeriveFrom(password, of, size) ==
  IF password = <<>> THEN <<>> ELSE derive_key_bmp(password[1], of, size)
derive_key_utf8(of, size) == DeriveFrom(from_utf8(of.password), of, size)

================================================================================
