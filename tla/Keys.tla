--------------------------------- MODULE Keys ---------------------------------
(***************************************************************************)
(* keypair.rs and the groups in key_exchange/group: how a key pair is made, *)
(* written, read back, handed to a peer and used.  The group is a small     *)
(* one: its elements are the multiples of a base point, numbered modulo a   *)
(* prime Order, and there are Bytes byte strings, more than Order, so that  *)
(* not every string is a canonical scalar.  The number of a string is its   *)
(* value in little endian.                                                  *)
(*                                                                          *)
(* Two owners make or load a key pair, save it in one of the two forms the  *)
(* library has (its own and serde's), come back with what they saved, read  *)
(* each other's public key, and sign.                                       *)
(***************************************************************************)
EXTENDS Integers, Sequences, FiniteSets, SequencesExt

CONSTANTS
  None,
  Order,          \* the order of the base point
  Bytes,          \* how many byte strings there are
  Groups,
  Stores,         \* the pairs of a group and a form that key pairs are saved in
  Owners,
  Seeds,          \* the byte strings that are drawn or loaded as private keys
  Texts,          \* what is signed
  MaxSignatures,  \* bound on the signatures made
  Digest(_)       \* the hash, of a sequence of numbers

PrimeOrder == {"Ristretto255", "EllipticCurve"}
Kinds == PrimeOrder \cup {"Curve25519", "Ed25519"}

(* Bytes \div 4 is the bit that clamping sets.  As for Curve25519, the order *)
(* is odd, and twice the order is no smaller than any clamped string.        *)
ASSUME KeysAssumption ==
  /\ Order \in Nat /\ Order > 2 /\ Order % 2 = 1
  /\ Bytes \in Nat /\ Bytes % 8 = 0 /\ Bytes > Order /\ 4 * Order >= Bytes
  /\ Groups \subseteq Kinds
  /\ Stores \subseteq Kinds \X {"native", "serde"}
  /\ Seeds \subseteq 0 .. Bytes - 1
  /\ Texts \subseteq Seq(Nat)
  /\ MaxSignatures \in Nat

VARIABLES
  group,       \* the group in use
  given,       \* what an owner loaded its private key from, or None
  made,        \* history: the key pair an owner began with, or None
  held,        \* the key pair in memory, the error of reading it, or None
  disk,        \* what was saved, or None
  peer,        \* peer[d][e]: the public key of e as d read it
  signatures

vars == <<group, given, made, held, disk, peer, signatures>>

Ok(val) == [ok |-> TRUE, val |-> val]
SerializationError == [ok |-> FALSE, err |-> "SerializationError"]

-------------------------------------------------------------------------------
(* Hashes and scalars.                                                       *)

ScalarFromHash(data) == Digest(data) % Order

(* clamp_integer: the lowest bits are cleared, the highest is cleared and    *)
(* the one below it set.                                                     *)
clamp_integer(bytes) == (Bytes \div 4) + 2 * ((bytes % (Bytes \div 4)) \div 2)

(* The first counter whose hash is not zero.                                 *)
derive_key(seed) ==
  LET nonzero == {c \in 0 .. Bytes : ScalarFromHash(<<seed, c>>) # 0}
  IN  ScalarFromHash(<<seed, CHOOSE c \in nonzero : \A other \in nonzero : c <= other>>)

ExpandedSecretKey(sk) ==
  [ scalar      |-> clamp_integer(Digest(<<sk>>) % Bytes) % Order,
    hash_prefix |-> Digest(<<sk>>) \div Bytes ]

-------------------------------------------------------------------------------
(* Private keys.  That of Ed25519 carries everything signing needs.          *)

SigningKey(bytes) ==
  LET expanded == ExpandedSecretKey(bytes)
  IN  [ sk |-> bytes, scalar |-> expanded.scalar, hash_prefix |-> expanded.hash_prefix,
        verifying_key |-> expanded.scalar ]

(* Faulty variant: what was drawn is taken as it is.                         *)
random_sk_unclamped(g, bytes) ==
  CASE g = "Curve25519" -> bytes
    [] g = "Ed25519"    -> SigningKey(bytes)
    [] g \in PrimeOrder -> bytes % Order

random_sk(g, bytes) ==
  CASE g = "Curve25519" -> clamp_integer(bytes)
    [] g = "Ed25519"    -> SigningKey(bytes)
    [] g \in PrimeOrder -> bytes % Order

(* A draw of zero is thrown away.                                            *)
Drawn(g, bytes) == g \in PrimeOrder => bytes % Order # 0

derive_scalar(g, seed) ==
  CASE g = "Curve25519" -> clamp_integer(seed)
    [] g = "Ed25519"    -> SigningKey(seed)
    [] g \in PrimeOrder -> derive_key(seed)

serialize_sk(g, sk) == IF g = "Ed25519" THEN sk.sk ELSE sk

Canonical(bytes) == bytes \in 1 .. Order - 1

(* Faulty variant: the bytes are clamped instead of being compared.          *)
deserialize_sk_clamping(g, bytes) ==
  CASE g = "Curve25519" -> Ok(clamp_integer(bytes))
    [] g = "Ed25519"    -> Ok(SigningKey(bytes))
    [] g \in PrimeOrder -> IF Canonical(bytes) THEN Ok(bytes) ELSE SerializationError

deserialize_sk(g, bytes) ==
  CASE g = "Curve25519" ->
         IF clamp_integer(bytes) = bytes THEN Ok(bytes) ELSE SerializationError
    [] g = "Ed25519"    -> Ok(SigningKey(bytes))
    [] g \in PrimeOrder -> IF Canonical(bytes) THEN Ok(bytes) ELSE SerializationError

(* What serde reads.  The signing key's bytes are read as a scalar first.    *)
serde_deserialize_sk(g, bytes) ==
  IF g = "Ed25519" /\ bytes >= Order THEN SerializationError ELSE deserialize_sk(g, bytes)

-------------------------------------------------------------------------------
(* Public keys.  Curve25519 keeps the u-coordinate, which a point shares     *)
(* with its negative.                                                        *)

Encoded(g, point) ==
  IF g = "Curve25519" /\ 2 * point > Order THEN Order - point ELSE point

public_key(g, sk) ==
  IF g = "Ed25519" THEN sk.verifying_key ELSE Encoded(g, sk % Order)

(* The identity and what is no point are refused.                            *)
deserialize_pk(g, bytes) == IF Canonical(bytes) THEN Ok(bytes) ELSE SerializationError

(* Faulty variant: the sign of the point the ladder ended with is kept.      *)
diffie_hellman_signed(g, sk, pk) == (sk * pk) % Order

diffie_hellman(g, sk, pk) == Encoded(g, (sk * pk) % Order)

-------------------------------------------------------------------------------
(* Key pairs.                                                                *)

KeyPair(sk, pk) == [pk |-> pk, sk |-> sk]

FromPrivate(g, sk) == KeyPair(sk, public_key(g, sk))

(* The library's own form is the private key alone, serde's holds both.      *)
SaveKeyPair(g, form, pair) ==
  IF form = "native" THEN [form |-> form, sk |-> serialize_sk(g, pair.sk)]
                     ELSE [form |-> form, sk |-> serialize_sk(g, pair.sk), pk |-> pair.pk]

LoadKeyPair(g, saved) ==
  LET native == deserialize_sk(g, saved.sk)
      sk == serde_deserialize_sk(g, saved.sk)
      pk == deserialize_pk(g, saved.pk)
  IN  IF saved.form = "native"
      THEN IF native.ok THEN Ok(FromPrivate(g, native.val)) ELSE native
      ELSE IF pk.ok /\ sk.ok THEN Ok(KeyPair(sk.val, pk.val)) ELSE SerializationError

-------------------------------------------------------------------------------
(* EdDSA over a message that comes in parts.                                 *)

(* "SigEd25519 no Ed25519 collisions", 1, 0.                                 *)
Domain(pre_hash) == IF pre_hash THEN <<25, 1, 0>> ELSE <<>>

(* With pre_hash what is signed is the hash of the message, one part.        *)
Parts(pre_hash, message) ==
  IF pre_hash THEN << <<Digest(FlattenSeq(message))>> >> ELSE message

(* Faulty variant: the parts are used up by the first of the two hashes.     *)
sign_once(sk, pre_hash, message) ==
  LET r == ScalarFromHash(Domain(pre_hash) \o <<sk.hash_prefix>> \o FlattenSeq(message))
      k == ScalarFromHash(Domain(pre_hash) \o <<r, sk.verifying_key>>)
  IN  [R |-> r, s |-> (k * sk.scalar + r) % Order]

sign(sk, pre_hash, message) ==
  LET r == ScalarFromHash(Domain(pre_hash) \o <<sk.hash_prefix>> \o FlattenSeq(message))
      k == ScalarFromHash(Domain(pre_hash) \o <<r, sk.verifying_key>> \o FlattenSeq(message))
  IN  [R |-> r, s |-> (k * sk.scalar + r) % Order]

verify(pk, pre_hash, message, signature) ==
  LET k == ScalarFromHash(Domain(pre_hash) \o <<signature.R, pk>> \o FlattenSeq(message))
  IN  (signature.s + (k * (Order - pk))) % Order = signature.R

serialize_signature(signature) == <<signature.R, signature.s>>

deserialize_signature(bytes) ==
  IF bytes[2] < Order THEN Ok([R |-> bytes[1], s |-> bytes[2]]) ELSE SerializationError

-------------------------------------------------------------------------------
(* What the theorems of KeysProofs assume of the hash and of None.           *)

Strings == 0 .. Bytes - 1

(* All that is ever hashed with a digest that is used as a number.           *)
Hashed ==
  LET signed == Texts \cup {<<Digest(text)>> : text \in Texts}
      prefixes == {<<n>> : n \in Strings} \cup
                  {<<r, pk>> : r \in 0 .. Order - 1, pk \in 0 .. Order - 1}
  IN  {<<sk>> : sk \in Strings}
        \cup {<<seed, c>> : seed \in Strings, c \in 0 .. Bytes}
        \cup {Domain(pre_hash) \o prefix \o text :
                pre_hash \in BOOLEAN, prefix \in prefixes, text \in signed}

(* A digest is as long as two strings.  Some counter gives every seed a      *)
(* scalar: where none does, derive_key fails.                                *)
ASSUME DigestAssumption ==
  /\ \A data \in Hashed : Digest(data) \in 0 .. Bytes * Bytes - 1
  /\ \A seed \in Strings : \E c \in 0 .. Bytes : ScalarFromHash(<<seed, c>>) # 0

(* The private keys of a group.                                              *)
PrivateKeys(g) ==
  CASE g = "Curve25519" -> {clamp_integer(bytes) : bytes \in Strings}
    [] g = "Ed25519"    -> {SigningKey(bytes) : bytes \in Strings}
    [] g \in PrimeOrder -> 1 .. Order - 1

KeyPairs(g) == {FromPrivate(g, sk) : sk \in PrivateKeys(g)}

ASSUME NoneAssumption ==
  /\ None # SerializationError
  /\ \A g \in Groups : \A pair \in KeyPairs(g) : None # pair /\ None # Ok(pair)

-------------------------------------------------------------------------------
Init ==
  /\ group \in Groups
  /\ given = [d \in Owners |-> None]
  /\ made = [d \in Owners |-> None]
  /\ held = [d \in Owners |-> None]
  /\ disk = [d \in Owners |-> None]
  /\ peer = [d \in Owners |-> [e \in Owners |-> None]]
  /\ signatures = {}

Begin(d, pair) ==
  /\ held[d] = None
  /\ made' = [made EXCEPT ![d] = pair]
  /\ held' = [held EXCEPT ![d] = Ok(pair)]

Random(d, bytes) ==
  /\ Drawn(group, bytes)
  /\ Begin(d, FromPrivate(group, random_sk(group, bytes)))
  /\ UNCHANGED <<group, given, disk, peer, signatures>>

DeriveRandom(d, seed) ==
  /\ Begin(d, FromPrivate(group, derive_scalar(group, seed)))
  /\ UNCHANGED <<group, given, disk, peer, signatures>>

(* A private key that was made elsewhere.                                    *)
Deserialize(d, bytes) ==
  LET sk == deserialize_sk(group, bytes)
  IN  /\ held[d] = None
      /\ given' = [given EXCEPT ![d] = bytes]
      /\ IF sk.ok
         THEN Begin(d, FromPrivate(group, sk.val))
         ELSE held' = [held EXCEPT ![d] = sk] /\ UNCHANGED made
      /\ UNCHANGED <<group, disk, peer, signatures>>

HasKeys(d) == held[d] # None /\ held[d].ok

Save(d, form) ==
  /\ HasKeys(d)
  /\ <<group, form>> \in Stores
  /\ disk' = [disk EXCEPT ![d] = SaveKeyPair(group, form, held[d].val)]
  /\ UNCHANGED <<group, given, made, held, peer, signatures>>

(* A restart: what was in memory is gone.                                    *)
Load(d) ==
  /\ disk[d] # None
  /\ held' = [held EXCEPT ![d] = LoadKeyPair(group, disk[d])]
  /\ UNCHANGED <<group, given, made, disk, peer, signatures>>

Receive(d, e) ==
  /\ group # "Ed25519"
  /\ HasKeys(e)
  /\ peer' = [peer EXCEPT ![d][e] = deserialize_pk(group, held[e].val.pk)]
  /\ UNCHANGED <<group, given, made, held, disk, signatures>>

Sign(d, pre_hash, message) ==
  /\ group = "Ed25519"
  /\ HasKeys(d)
  /\ Cardinality(signatures) < MaxSignatures
  /\ signatures' = signatures \cup
       {[ signer |-> d, pre_hash |-> pre_hash, text |-> FlattenSeq(message),
          bytes |-> serialize_signature(sign(held[d].val.sk, pre_hash,
                                             Parts(pre_hash, message))) ]}
  /\ UNCHANGED <<group, given, made, held, disk, peer>>

(* A text in one part, and in two, the first of which may be empty.          *)
Cuts(text) ==
  {<<text>>} \cup
  {<<SubSeq(text, 1, n), SubSeq(text, n + 1, Len(text))>> : n \in 0 .. Len(text)}

Next ==
  \/ \E d \in Owners, bytes \in Seeds :
       \/ Random(d, bytes)
       \/ DeriveRandom(d, bytes)
       \/ Deserialize(d, bytes)
  \/ \E d \in Owners, form \in {"native", "serde"} : Save(d, form)
  \/ \E d \in Owners : Load(d)
  \/ \E d, e \in Owners : d # e /\ Receive(d, e)
  \/ \E d \in Owners, pre_hash \in BOOLEAN, text \in Texts :
       \E message \in Cuts(text) : Sign(d, pre_hash, message)

Spec == Init /\ [][Next]_vars

-------------------------------------------------------------------------------
(* A key pair that was saved is read back as it was, whichever form it was  *)
(* saved in (PrivateKeySerialization, and lib.rs on the serde feature).      *)
KeysSurvive == \A d \in Owners : made[d] # None => held[d] = Ok(made[d])

(* PrivateKey::deserialize takes bytes for the key they are the serialized  *)
(* form of, never for another one, and refuses no bytes that the group's     *)
(* own keys are written as.                                                  *)
Written(g) ==
  {serialize_sk(g, random_sk(g, bytes)) : bytes \in {b \in 0 .. Bytes - 1 : Drawn(g, b)}}
    \cup {serialize_sk(g, derive_scalar(g, seed)) : seed \in 0 .. Bytes - 1}

LoadedAsGiven ==
  \A d \in Owners : given[d] # None =>
    IF made[d] # None THEN serialize_sk(group, made[d].sk) = given[d]
                      ELSE given[d] \notin Written(group)

(* Two owners that read each other's public key reach the same secret,      *)
(* however each came by its key pair and whatever restarts lie between       *)
(* (ke_diffie_hellman); no honest public key is refused.                     *)
SecretsAgree ==
  \A d, e \in Owners :
    peer[d][e] # None =>
      /\ peer[d][e].ok
      /\ peer[e][d] # None /\ peer[e][d].ok /\ HasKeys(d) /\ HasKeys(e)
         => diffie_hellman(group, held[d].val.sk, peer[d][e].val)
              = diffie_hellman(group, held[e].val.sk, peer[e][d].val)

(* A signature is accepted by whoever reads the signer's public key,        *)
(* however the message is cut into parts on either side, and the same text   *)
(* gets the same signature before and after a restart (ed25519.rs sign,      *)
(* verify).                                                                  *)
SignaturesVerify ==
  \A sig \in signatures :
    LET pk == deserialize_pk(group, made[sig.signer].pk)
        signature == deserialize_signature(sig.bytes)
    IN  /\ pk.ok /\ signature.ok
        /\ \A message \in Cuts(sig.text) :
             verify(pk.val, sig.pre_hash, Parts(sig.pre_hash, message), signature.val)
        /\ \A other \in signatures :
             /\ other.signer = sig.signer
             /\ other.pre_hash = sig.pre_hash
             /\ other.text = sig.text
             => other = sig
===============================================================================
