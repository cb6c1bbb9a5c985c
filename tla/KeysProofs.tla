------------------------------- MODULE KeysProofs -------------------------------
(***************************************************************************)
(* That key pairs survive being written and read, that bytes are taken for *)
(* the key they are the form of, that both ends of a Diffie-Hellman        *)
(* exchange reach the same secret, and that signatures verify: in every    *)
(* kind of group, for every order, every hash and any number of owners.    *)
(***************************************************************************)
EXTENDS Keys, SequenceTheorems, WellFoundedInduction, TLAPS

-------------------------------------------------------------------------------
(* Remainders.                                                               *)

(* The quotient and the remainder of the reductions in the groups.           *)
LEMMA Division ==
  ASSUME NEW a \in Int, NEW n \in Nat \ {0}
  PROVE  /\ a \div n \in Int
         /\ a % n \in 0 .. n - 1
         /\ a = n * (a \div n) + (a % n)
  OBVIOUS

(* A remainder is known by its range and by a multiple of the modulus.       *)
LEMMA RemainderUnique ==
  ASSUME NEW a \in Int, NEW n \in Nat \ {0}, NEW q \in Int, NEW r \in 0 .. n - 1,
         a = n * q + r
  PROVE  a % n = r
  OBVIOUS

(* A factor may be reduced first: a secret times the number of a public key. *)
LEMMA ReducedFactor ==
  ASSUME NEW a \in Nat, NEW b \in Nat, NEW n \in Nat \ {0}
  PROVE  (a * (b % n)) % n = (a * b) % n
<1> DEFINE q == b \div n
           c == a * (b % n)
<1>1. q \in Int /\ b % n \in 0 .. n - 1 /\ b = n * q + (b % n)
  BY Division
<1>2. c \in Int
  BY <1>1
<1>3. c \div n \in Int /\ c % n \in 0 .. n - 1 /\ c = n * (c \div n) + (c % n)
  BY <1>2, Division
<1>4. a * b = n * (a * q + c \div n) + (c % n)
  <2>1. a * b = a * (n * q) + c
    BY <1>1
  <2>2. a * (n * q) = n * (a * q)
    BY <1>1
  <2>3. n * (a * q + c \div n) = n * (a * q) + n * (c \div n)
    BY <1>1, <1>3
  <2>4. QED
    BY <1>1, <1>2, <1>3, <2>1, <2>2, <2>3
<1>5. a * q + c \div n \in Int /\ a * b \in Int
  BY <1>1, <1>3
<1>6. (a * b) % n = c % n
  BY <1>3, <1>4, <1>5, RemainderUnique
<1>7. QED
  BY <1>6

(* A multiple of the order, taken apart.                                     *)
LEMMA Distribute ==
  ASSUME NEW n \in Int, NEW a \in Int, NEW b \in Int
  PROVE  n * (a - b) = n * a - n * b /\ n * (a + b) = n * a + n * b
  OBVIOUS

(* The negative of a point stays the negative when multiplied.               *)
LEMMA NegatedFactor ==
  ASSUME NEW a \in Nat, NEW n \in Nat \ {0}, NEW b \in 0 .. n - 1
  PROVE  (a * (n - b)) % n = IF (a * b) % n = 0 THEN 0 ELSE n - ((a * b) % n)
<1>1. a * b \in Int
  OBVIOUS
<1>2. PICK q \in Int, r \in 0 .. n - 1 : r = (a * b) % n /\ a * b = n * q + r
  BY <1>1, Division
<1>3. a * (n - b) = n * a - (n * q + r)
  BY <1>2, Distribute
<1>4. CASE r = 0
  <2>1. a * (n - b) = n * (a - q) + 0
    BY <1>3, <1>4, Distribute
  <2>2. a - q \in Int /\ a * (n - b) \in Int
    OBVIOUS
  <2>3. (a * (n - b)) % n = 0
    BY <2>1, <2>2, RemainderUnique
  <2>4. QED
    BY <1>2, <1>4, <2>3
<1>5. CASE r # 0
  <2>1. n * (a - (q + 1)) = n * a - (n * q + n)
    BY Distribute
  <2>2. a * (n - b) = n * (a - (q + 1)) + (n - r)
    BY <1>3, <2>1
  <2>3. n - r \in 0 .. n - 1 /\ a - (q + 1) \in Int /\ a * (n - b) \in Int
    BY <1>5
  <2>4. (a * (n - b)) % n = n - r
    BY <2>2, <2>3, RemainderUnique
  <2>5. QED
    BY <1>2, <1>5, <2>4
<1>6. QED
  BY <1>4, <1>5

-------------------------------------------------------------------------------
(* Keys.                                                                     *)

(* The sizes, and the parity of the order.                                  *)
LEMMA Sizes ==
  /\ Order \in Nat \ {0} /\ Order > 2
  /\ Bytes \in Nat \ {0} /\ Bytes = 8 * (Bytes \div 8)
  /\ Bytes \div 8 \in Nat \ {0} /\ Bytes \div 4 = 2 * (Bytes \div 8)
  /\ Bytes > Order /\ 2 * Order >= 4 * (Bytes \div 8)
  /\ \A m \in Int : Order # 2 * m
<1>1. Order \in Nat /\ Order > 2 /\ Order % 2 = 1
  BY KeysAssumption
<1>2. Bytes \in Nat /\ Bytes % 8 = 0 /\ Bytes > Order /\ 4 * Order >= Bytes
  BY KeysAssumption
<1>3. Bytes = 8 * (Bytes \div 8) /\ Bytes \div 8 \in Nat
  BY <1>2
<1>4. Bytes \div 8 # 0
  BY <1>1, <1>2, <1>3
<1>5. Bytes \div 4 = 2 * (Bytes \div 8)
  <2>1. \A u \in Nat : (8 * u) \div 4 = 2 * u
    OBVIOUS
  <2>2. QED
    BY <1>3, <2>1
<1>6. \A m \in Int : Order # 2 * m
  BY <1>1
<1>7. QED
  BY <1>1, <1>2, <1>3, <1>4, <1>5, <1>6

(* clamp_integer: the bit that is set, and even numbers below it.            *)
LEMMA Clamped ==
  ASSUME NEW bytes \in Nat
  PROVE  \E k \in Nat : /\ clamp_integer(bytes) = 2 * (Bytes \div 8) + 2 * k
                        /\ k < Bytes \div 8
<1> DEFINE u == Bytes \div 8
           rest == bytes % (2 * u)
<1>1. u \in Nat \ {0} /\ Bytes \div 4 = 2 * u
  BY Sizes
<1>2. rest \in 0 .. 2 * u - 1
  <2>1. bytes \in Int /\ 2 * u \in Nat \ {0}
    BY <1>1
  <2>2. QED
    BY <2>1, Division
<1>3. rest \div 2 \in Nat /\ rest \div 2 < u
  BY <1>1, <1>2
<1>4. clamp_integer(bytes) = 2 * u + 2 * (rest \div 2)
  BY <1>1 DEF clamp_integer
<1>5. QED
  BY <1>3, <1>4

(* A string that was clamped is a string, and clamping leaves it alone.      *)
LEMMA ClampIdempotent ==
  ASSUME NEW bytes \in Nat
  PROVE  /\ clamp_integer(bytes) \in Strings
         /\ clamp_integer(clamp_integer(bytes)) = clamp_integer(bytes)
<1> DEFINE u == Bytes \div 8
           c == clamp_integer(bytes)
<1>1. PICK k \in Nat : c = 2 * u + 2 * k /\ k < u
  BY Clamped
<1>2. u \in Nat \ {0} /\ Bytes \div 4 = 2 * u /\ Bytes = 8 * u
  BY Sizes
<1>3. c \in Strings
  BY <1>1, <1>2 DEF Strings
<1>4. c % (2 * u) = 2 * k
  <2>1. c = (2 * u) * 1 + 2 * k /\ 2 * k \in 0 .. 2 * u - 1 /\ c \in Int /\ 2 * u \in Nat \ {0}
    BY <1>1, <1>2
  <2>2. QED
    BY <2>1, RemainderUnique
<1>5. (2 * k) \div 2 = k
  OBVIOUS
<1>6. clamp_integer(c) = 2 * u + 2 * k
  BY <1>2, <1>4, <1>5 DEF clamp_integer
<1>7. QED
  BY <1>1, <1>3, <1>6

(* A clamped string is even and below twice the order, which is odd: it is   *)
(* no multiple of the order.                                                 *)
LEMMA ClampedNotZero ==
  ASSUME NEW bytes \in Nat
  PROVE  clamp_integer(bytes) % Order \in 1 .. Order - 1
<1> DEFINE u == Bytes \div 8
           c == clamp_integer(bytes)
<1>1. PICK k \in Nat : c = 2 * u + 2 * k /\ k < u
  BY Clamped
<1>2. u \in Nat \ {0} /\ Order \in Nat \ {0} /\ 2 * Order >= 4 * u
  BY Sizes
<1>3. c \in Int /\ 0 < c /\ c < 2 * Order
  BY <1>1, <1>2
<1>4. PICK q \in Int, r \in 0 .. Order - 1 : r = c % Order /\ c = Order * q + r
  BY <1>2, <1>3, Division
<1>5. r # 0
  <2>1. SUFFICES ASSUME r = 0 PROVE FALSE
    OBVIOUS
  <2>2. q = 1
    <3>1. Order * q > 0 /\ Order * q < 2 * Order
      BY <1>2, <1>3, <1>4, <2>1
    <3>2. CASE q <= 0
      <4>1. Order * q <= 0
        BY <1>2, <3>2
      <4>2. QED
        BY <1>2, <3>1, <4>1
    <3>3. CASE q >= 2
      <4>1. Order * q >= 2 * Order
        BY <1>2, <3>3
      <4>2. QED
        BY <1>2, <3>1, <4>1
    <3>4. QED
      BY <3>2, <3>3
  <2>3. Order = 2 * (u + k)
    BY <1>1, <1>2, <1>4, <2>1, <2>2
  <2>4. QED
    BY <1>2, <2>3, Sizes
<1>6. QED
  BY <1>2, <1>4, <1>5

(* A hash that is reduced is a scalar.                                       *)
LEMMA HashedScalar ==
  ASSUME NEW data \in Hashed
  PROVE  Digest(data) \in 0 .. Bytes * Bytes - 1 /\ ScalarFromHash(data) \in 0 .. Order - 1
<1>1. Bytes \in Nat /\ Order \in Nat \ {0}
  BY Sizes
<1>2. Digest(data) \in 0 .. Bytes * Bytes - 1
  BY DigestAssumption
<1>3. Digest(data) \in Int
  BY <1>1, <1>2
<1>4. Digest(data) % Order \in 0 .. Order - 1
  BY <1>1, <1>3, Division
<1>5. QED
  BY <1>2, <1>4 DEF ScalarFromHash

(* Sets of numbers have a least element.                                     *)
LEMMA LeastNumber ==
  ASSUME NEW T, T \subseteq Nat, T # {}
  PROVE  \E least \in T : \A other \in T : least <= other
<1> DEFINE less == {ss \in Nat \X Nat : ss[1] < ss[2]}
<1>1. IsWellFoundedOn(less, Nat)
  BY NatLessThanWellFounded DEF OpToRel
<1>2. \A a, b \in Nat : a < b => <<a, b>> \in less
  OBVIOUS
<1>3. \E least \in T : \A other \in T : ~ (<<other, least>> \in less)
  <2> HIDE DEF less
  <2> QED
    BY <1>1, WFMin
<1>4. PICK least \in T : \A other \in T : ~ (<<other, least>> \in less)
  BY <1>3
<1>5. \A other \in T : ~ (other < least)
  BY <1>2, <1>4
<1>6. QED
  BY <1>5

(* derive_key ends with a scalar that is not zero.                           *)
LEMMA DerivedKey ==
  ASSUME NEW seed \in Strings
  PROVE  derive_key(seed) \in 1 .. Order - 1
<1> DEFINE nonzero == {c \in 0 .. Bytes : ScalarFromHash(<<seed, c>>) # 0}
           first == CHOOSE c \in nonzero : \A other \in nonzero : c <= other
<1>1. Bytes \in Nat /\ Order \in Nat \ {0}
  BY Sizes
<1>2. nonzero # {} /\ nonzero \subseteq Nat
  <2>1. \E c \in 0 .. Bytes : ScalarFromHash(<<seed, c>>) # 0
    BY DigestAssumption
  <2>2. QED
    BY <1>1, <2>1
<1>3. \E c \in nonzero : \A other \in nonzero : c <= other
  <2> HIDE DEF nonzero
  <2> QED
    BY <1>2, LeastNumber
<1>4. first \in nonzero
  BY <1>3
<1>5. first \in 0 .. Bytes /\ ScalarFromHash(<<seed, first>>) # 0
  BY <1>4
<1>6. <<seed, first>> \in Hashed
  BY <1>5 DEF Hashed
<1>7. ScalarFromHash(<<seed, first>>) \in 0 .. Order - 1
  BY <1>6, HashedScalar
<1>8. derive_key(seed) = ScalarFromHash(<<seed, first>>)
  BY DEF derive_key
<1>9. QED
  BY <1>1, <1>5, <1>7, <1>8

(* What Ed25519 expands a seed to: a scalar that is not zero.                *)
LEMMA Expanded ==
  ASSUME NEW bytes \in Strings
  PROVE  /\ ExpandedSecretKey(bytes).scalar \in 1 .. Order - 1
         /\ ExpandedSecretKey(bytes).hash_prefix \in Strings
<1> DEFINE h == Digest(<<bytes>>)
<1>1. Bytes \in Nat \ {0}
  BY Sizes
<1>2. <<bytes>> \in Hashed
  BY DEF Hashed
<1>3. h \in 0 .. Bytes * Bytes - 1
  BY <1>2, HashedScalar
<1>4. h \in Int /\ 0 <= h /\ h < Bytes * Bytes
  BY <1>1, <1>3
<1>5. h \div Bytes \in Int /\ h % Bytes \in 0 .. Bytes - 1 /\ h = Bytes * (h \div Bytes) + (h % Bytes)
  BY <1>1, <1>4, Division
<1>6. h \div Bytes \in Strings
  <2> HIDE DEF h
  <2>1. PICK q \in Int, r \in 0 .. Bytes - 1 : q = h \div Bytes /\ h = Bytes * q + r
    BY <1>5
  <2>2. q >= 0
    <3>1. CASE q <= -1
      <4>1. Bytes * q <= -Bytes
        BY <1>1, <3>1
      <4>2. QED
        BY <1>1, <1>4, <2>1, <4>1
    <3>2. QED
      BY <3>1
  <2>3. q < Bytes
    <3>1. CASE q >= Bytes
      <4>1. Bytes * q >= Bytes * Bytes
        BY <1>1, <3>1
      <4>2. QED
        BY <1>1, <1>4, <2>1, <4>1
    <3>2. QED
      BY <1>1, <3>1
  <2>4. QED
    BY <1>1, <2>1, <2>2, <2>3 DEF Strings
<1>7. clamp_integer(h % Bytes) % Order \in 1 .. Order - 1
  <2>1. h % Bytes \in Nat
    BY <1>1, <1>5
  <2>2. QED
    BY <2>1, ClampedNotZero
<1>8. QED
  BY <1>6, <1>7 DEF ExpandedSecretKey

(* The groups are of three kinds.                                            *)
LEMMA GroupKinds ==
  ASSUME NEW g \in Groups
  PROVE  \/ g \in PrimeOrder /\ g # "Curve25519" /\ g # "Ed25519"
         \/ g = "Curve25519" /\ g # "Ed25519" /\ g \notin PrimeOrder
         \/ g = "Ed25519" /\ g # "Curve25519" /\ g \notin PrimeOrder
<1>1. g \in Kinds
  BY KeysAssumption
<1>2. QED
  BY <1>1 DEF Kinds, PrimeOrder

(* A NIST curve or Ristretto: a secret key is a scalar other than zero.      *)
LEMMA KeysOfPrimeOrder ==
  ASSUME NEW g \in PrimeOrder
  PROVE  /\ PrivateKeys(g) = 1 .. Order - 1
         /\ \A b : random_sk(g, b) = b % Order /\ derive_scalar(g, b) = derive_key(b)
         /\ \A b : deserialize_sk(g, b) = IF Canonical(b) THEN Ok(b) ELSE SerializationError
         /\ \A b : serde_deserialize_sk(g, b) = deserialize_sk(g, b)
         /\ \A sk : serialize_sk(g, sk) = sk /\ public_key(g, sk) = sk % Order
         /\ \A p : Encoded(g, p) = p
  BY DEF PrimeOrder, PrivateKeys, random_sk, derive_scalar, deserialize_sk,
         serde_deserialize_sk, serialize_sk, public_key, Encoded

(* Curve25519: a secret key is a clamped integer, a public key a coordinate. *)
LEMMA KeysOfCurve25519 ==
  /\ PrivateKeys("Curve25519") = {clamp_integer(b) : b \in Strings}
  /\ \A b : /\ random_sk("Curve25519", b) = clamp_integer(b)
            /\ derive_scalar("Curve25519", b) = clamp_integer(b)
            /\ deserialize_sk("Curve25519", b) =
                 IF clamp_integer(b) = b THEN Ok(b) ELSE SerializationError
            /\ serde_deserialize_sk("Curve25519", b) = deserialize_sk("Curve25519", b)
  /\ \A sk : /\ serialize_sk("Curve25519", sk) = sk
             /\ public_key("Curve25519", sk) = Encoded("Curve25519", sk % Order)
  /\ \A p : Encoded("Curve25519", p) = IF 2 * p > Order THEN Order - p ELSE p
  BY DEF PrimeOrder, PrivateKeys, random_sk, derive_scalar, deserialize_sk,
         serde_deserialize_sk, serialize_sk, public_key, Encoded

(* Ed25519: any bytes make a signing key.                                    *)
LEMMA KeysOfEd25519 ==
  /\ PrivateKeys("Ed25519") = {SigningKey(b) : b \in Strings}
  /\ \A b : /\ random_sk("Ed25519", b) = SigningKey(b)
            /\ derive_scalar("Ed25519", b) = SigningKey(b)
            /\ deserialize_sk("Ed25519", b) = Ok(SigningKey(b))
            /\ serialize_sk("Ed25519", SigningKey(b)) = b
            /\ public_key("Ed25519", SigningKey(b)) = ExpandedSecretKey(b).scalar
  BY DEF PrimeOrder, PrivateKeys, random_sk, derive_scalar, deserialize_sk,
         serialize_sk, public_key, SigningKey

(* Whichever way a private key is made, it is one of the group.              *)
LEMMA PrivateKeyMade ==
  ASSUME NEW g \in Groups, NEW bytes \in Strings
  PROVE  /\ Drawn(g, bytes) => random_sk(g, bytes) \in PrivateKeys(g)
         /\ derive_scalar(g, bytes) \in PrivateKeys(g)
         /\ deserialize_sk(g, bytes).ok =>
              /\ deserialize_sk(g, bytes).val \in PrivateKeys(g)
              /\ serialize_sk(g, deserialize_sk(g, bytes).val) = bytes
         /\ ~deserialize_sk(g, bytes).ok => deserialize_sk(g, bytes) = SerializationError
<1>1. CASE g \in PrimeOrder /\ g # "Curve25519" /\ g # "Ed25519"
  <2>1. bytes \in Int /\ Order \in Nat \ {0}
    BY Sizes DEF Strings
  <2>2. bytes % Order \in 0 .. Order - 1
    BY <2>1, Division
  <2>3. Drawn(g, bytes) => bytes % Order \in 1 .. Order - 1
    BY <1>1, <2>1, <2>2 DEF Drawn
  <2>4. derive_key(bytes) \in 1 .. Order - 1
    BY DerivedKey
  <2>5. PrivateKeys(g) = 1 .. Order - 1 /\ serialize_sk(g, bytes) = bytes
    BY <1>1, KeysOfPrimeOrder
  <2>6. random_sk(g, bytes) = bytes % Order /\ derive_scalar(g, bytes) = derive_key(bytes)
    BY <1>1, KeysOfPrimeOrder
  <2>7. deserialize_sk(g, bytes) =
          IF bytes \in 1 .. Order - 1 THEN [ok |-> TRUE, val |-> bytes] ELSE SerializationError
    BY <1>1, KeysOfPrimeOrder DEF Canonical, Ok
  <2>8. SerializationError.ok = FALSE
    BY DEF SerializationError
  <2>9. QED
    BY <2>3, <2>4, <2>5, <2>6, <2>7, <2>8
<1>2. CASE g = "Curve25519"
  BY <1>2, KeysOfCurve25519 DEF Ok, SerializationError
<1>3. CASE g = "Ed25519"
  BY <1>3, KeysOfEd25519 DEF Ok, SerializationError
<1>4. QED
  BY <1>1, <1>2, <1>3, GroupKinds

(* A private key is read back from the bytes it is written as, by serde too  *)
(* but for Ed25519.                                                          *)
LEMMA PrivateKeyReadBack ==
  ASSUME NEW g \in Groups, NEW sk \in PrivateKeys(g)
  PROVE  /\ deserialize_sk(g, serialize_sk(g, sk)) = Ok(sk)
         /\ \/ serde_deserialize_sk(g, serialize_sk(g, sk)) = Ok(sk)
            \/ /\ g = "Ed25519"
               /\ serde_deserialize_sk(g, serialize_sk(g, sk)) = SerializationError
<1>1. CASE g \in PrimeOrder /\ g # "Curve25519" /\ g # "Ed25519"
  BY <1>1, KeysOfPrimeOrder DEF Canonical
<1>2. CASE g = "Curve25519"
  <2>1. PICK b \in Strings : sk = clamp_integer(b)
    BY <1>2, KeysOfCurve25519
  <2>2. b \in Nat
    BY <2>1, Sizes DEF Strings
  <2>3. clamp_integer(sk) = sk
    BY <2>1, <2>2, ClampIdempotent
  <2>4. QED
    BY <1>2, <2>3, KeysOfCurve25519
<1>3. CASE g = "Ed25519"
  <2>1. PICK b \in Strings : sk = SigningKey(b)
    BY <1>3, KeysOfEd25519
  <2>2. serde_deserialize_sk("Ed25519", b) \in {deserialize_sk("Ed25519", b), SerializationError}
    BY DEF serde_deserialize_sk
  <2>3. QED
    BY <1>3, <2>1, <2>2, KeysOfEd25519
<1>4. QED
  BY <1>1, <1>2, <1>3, GroupKinds

(* Everything that a group's own keys are written as is read.                *)
LEMMA WrittenIsRead ==
  ASSUME NEW g \in Groups, NEW bytes \in Written(g)
  PROVE  deserialize_sk(g, bytes).ok
<1>1. \E sk \in PrivateKeys(g) : bytes = serialize_sk(g, sk)
  BY PrivateKeyMade DEF Written, Strings
<1>2. QED
  BY <1>1, PrivateKeyReadBack DEF Ok

(* No public key is the identity, and so none is refused.                    *)
LEMMA PublicKeyCanonical ==
  ASSUME NEW g \in Groups, NEW sk \in PrivateKeys(g)
  PROVE  /\ public_key(g, sk) \in 1 .. Order - 1
         /\ deserialize_pk(g, public_key(g, sk)) = Ok(public_key(g, sk))
<1>1. Order \in Nat \ {0}
  BY Sizes
<1>2. public_key(g, sk) \in 1 .. Order - 1
  <2>1. CASE g \in PrimeOrder /\ g # "Curve25519" /\ g # "Ed25519"
    <3>1. sk \in 1 .. Order - 1 /\ public_key(g, sk) = sk % Order
      BY <2>1, KeysOfPrimeOrder
    <3>2. sk \in Nat /\ sk < Order
      BY <1>1, <3>1
    <3>3. sk % Order = sk
      BY <1>1, <3>2
    <3>4. QED
      BY <3>1, <3>3
  <2>2. CASE g = "Curve25519"
    <3>1. PICK b \in Strings : sk = clamp_integer(b)
      BY <2>2, KeysOfCurve25519
    <3>2. b \in Nat
      BY <3>1, Sizes DEF Strings
    <3>3. sk % Order \in 1 .. Order - 1
      BY <3>1, <3>2, ClampedNotZero
    <3>4. QED
      BY <1>1, <2>2, <3>3, KeysOfCurve25519
  <2>3. CASE g = "Ed25519"
    BY <2>3, Expanded, KeysOfEd25519
  <2>4. QED
    BY <2>1, <2>2, <2>3, GroupKinds
<1>3. QED
  BY <1>2 DEF deserialize_pk, Canonical

(* Private keys are numbers, but for the expanded ones of Ed25519.           *)
LEMMA PrivateKeyNumber ==
  ASSUME NEW g \in Groups, g # "Ed25519", NEW sk \in PrivateKeys(g)
  PROVE  sk \in Nat
<1>1. CASE g \in PrimeOrder
  <2>1. PrivateKeys(g) = 1 .. Order - 1
    BY <1>1, KeysOfPrimeOrder
  <2>2. QED
    BY <2>1, Sizes
<1>2. CASE g = "Curve25519"
  <2>1. PICK b \in Strings : sk = clamp_integer(b)
    BY <1>2, KeysOfCurve25519
  <2>2. b \in Nat
    BY <2>1, Sizes DEF Strings
  <2>3. sk \in Strings
    BY <2>1, <2>2, ClampIdempotent
  <2>4. QED
    BY <2>3, Sizes DEF Strings
<1>3. QED
  BY <1>1, <1>2, GroupKinds

(* Both ends multiply the same two private keys, however the points are      *)
(* reduced on the way and whichever of a point and its negative was sent.    *)
LEMMA SharedSecret ==
  ASSUME NEW g \in Groups, g # "Ed25519", NEW a \in PrivateKeys(g), NEW b \in PrivateKeys(g)
  PROVE  diffie_hellman(g, a, public_key(g, b)) = Encoded(g, (a * b) % Order)
<1>1. Order \in Nat \ {0}
  BY Sizes
<1>2. CASE g \in PrimeOrder
  <2>1. a \in Nat /\ b \in Nat
    BY PrivateKeyNumber
  <2>2. (a * (b % Order)) % Order = (a * b) % Order
    BY <1>1, <2>1, ReducedFactor
  <2>3. QED
    BY <1>2, <2>2, KeysOfPrimeOrder DEF diffie_hellman
<1>3. CASE g = "Curve25519"
  <2> DEFINE p == b % Order
             c == (a * p) % Order
  <2>1. a \in Nat /\ b \in Nat
    BY PrivateKeyNumber
  <2>2. p \in 0 .. Order - 1
    BY <1>1, <2>1, Division
  <2>3. c = (a * b) % Order
    BY <1>1, <2>1, ReducedFactor
  <2>4. c \in 0 .. Order - 1
    <3>1. a * p \in Int
      BY <1>1, <2>1, <2>2
    <3>2. QED
      BY <1>1, <3>1, Division
  <2>5. public_key(g, b) = IF 2 * p > Order THEN Order - p ELSE p
    BY <1>3, KeysOfCurve25519
  <2>6. diffie_hellman(g, a, p) = Encoded(g, c)
    BY DEF diffie_hellman
  <2>7. diffie_hellman(g, a, Order - p) = Encoded(g, c)
    <3>1. (a * (Order - p)) % Order = IF c = 0 THEN 0 ELSE Order - c
      <4> HIDE DEF p
      <4> QED
        BY <1>1, <2>1, <2>2, NegatedFactor
    <3>2. diffie_hellman(g, a, Order - p) = Encoded(g, IF c = 0 THEN 0 ELSE Order - c)
      BY <3>1 DEF diffie_hellman
    <3> HIDE DEF c
    <3>3. Encoded("Curve25519", IF c = 0 THEN 0 ELSE Order - c) = Encoded("Curve25519", c)
      BY <1>1, <2>4, KeysOfCurve25519
    <3>4. QED
      BY <1>3, <3>2, <3>3
  <2>8. QED
    BY <2>3, <2>5, <2>6, <2>7
<1>4. QED
  BY <1>2, <1>3, GroupKinds

-------------------------------------------------------------------------------
(* Key pairs.                                                                *)

(* A pair is read back as it was saved; only what serde wrote of Ed25519 may *)
(* be refused.                                                               *)
LEMMA PairReadBack ==
  ASSUME NEW g \in Groups, NEW pair \in KeyPairs(g), NEW form \in {"native", "serde"}
  PROVE  \/ LoadKeyPair(g, SaveKeyPair(g, form, pair)) = Ok(pair)
         \/ /\ g = "Ed25519" /\ form = "serde"
            /\ LoadKeyPair(g, SaveKeyPair(g, form, pair)) = SerializationError
<1>1. PICK sk \in PrivateKeys(g) : pair = FromPrivate(g, sk)
  BY DEF KeyPairs
<1> DEFINE bytes == serialize_sk(g, sk)
           pk == public_key(g, sk)
           saved == SaveKeyPair(g, form, pair)
<1>2. pair.sk = sk /\ pair.pk = pk /\ pair = KeyPair(sk, pk)
  BY <1>1 DEF FromPrivate, KeyPair
<1>3. saved.form = form /\ saved.sk = bytes
  BY <1>2 DEF SaveKeyPair
<1>4. deserialize_sk(g, bytes) = Ok(sk)
  BY PrivateKeyReadBack
<1>5. deserialize_pk(g, pk) = Ok(pk)
  BY PublicKeyCanonical
<1>6. \/ serde_deserialize_sk(g, bytes) = Ok(sk)
      \/ g = "Ed25519" /\ serde_deserialize_sk(g, bytes) = SerializationError
  BY PrivateKeyReadBack
<1>7. CASE form = "native"
  <2>1. LoadKeyPair(g, saved) = Ok(FromPrivate(g, sk))
    BY <1>3, <1>4, <1>7 DEF LoadKeyPair, Ok
  <2>2. QED
    BY <1>1, <2>1
<1>8. CASE form = "serde"
  <2>1. saved.pk = pk
    BY <1>2, <1>8 DEF SaveKeyPair
  <2> DEFINE read == serde_deserialize_sk(g, bytes)
             read_pk == deserialize_pk(g, pk)
  <2>2. LoadKeyPair(g, saved) =
          IF read_pk.ok /\ read.ok THEN Ok(KeyPair(read.val, read_pk.val)) ELSE SerializationError
    BY <1>3, <1>8, <2>1 DEF LoadKeyPair
  <2>3. read_pk.ok = TRUE /\ read_pk.val = pk
    BY <1>5 DEF Ok
  <2>4. CASE read = Ok(sk)
    <3>1. read.ok = TRUE /\ read.val = sk
      BY <2>4 DEF Ok
    <3>2. LoadKeyPair(g, saved) = Ok(KeyPair(sk, pk))
      BY <2>2, <2>3, <3>1
    <3>3. QED
      BY <1>2, <3>2
  <2>5. CASE g = "Ed25519" /\ read = SerializationError
    <3>1. read.ok = FALSE
      BY <2>5 DEF SerializationError
    <3>2. LoadKeyPair(g, saved) = SerializationError
      BY <2>2, <3>1
    <3>3. QED
      BY <1>8, <2>5, <3>2
  <2>6. QED
    BY <1>6, <2>4, <2>5
<1>9. QED
  BY <1>7, <1>8

-------------------------------------------------------------------------------
(* The invariant.                                                            *)

Pairs == KeyPairs(group)

(* The form in which a pair can be refused.                                  *)
Refusable == group = "Ed25519" /\ <<"Ed25519", "serde">> \in Stores

Results(g) == {Ok(pair) : pair \in KeyPairs(g)} \cup {SerializationError}

Forms(g) == {SaveKeyPair(g, form, pair) : form \in {"native", "serde"}, pair \in KeyPairs(g)}

Received(g) == {deserialize_pk(g, pair.pk) : pair \in KeyPairs(g)}

TypesOK ==
  /\ group \in Groups
  /\ given \in [Owners -> Strings \cup {None}]
  /\ made \in [Owners -> KeyPairs(group) \cup {None}]
  /\ held \in [Owners -> Results(group) \cup {None}]
  /\ disk \in [Owners -> Forms(group) \cup {None}]
  /\ peer \in [Owners -> [Owners -> Received(group) \cup {None}]]

(* An owner without keys has nothing saved; who has keys has those it began  *)
(* with, or was refused them.                                                *)
HeldMade ==
  \A d \in Owners :
    /\ held[d] = None => made[d] = None /\ given[d] = None
    /\ made[d] = None => disk[d] = None /\ (held[d] = None \/ held[d] = SerializationError)
    /\ made[d] # None => held[d] = Ok(made[d]) \/ (Refusable /\ held[d] = SerializationError)

DiskMade ==
  \A d \in Owners : disk[d] # None =>
    \E form \in {"native", "serde"} :
      <<group, form>> \in Stores /\ disk[d] = SaveKeyPair(group, form, made[d])

GivenMade ==
  \A d \in Owners : given[d] # None =>
    IF made[d] # None THEN serialize_sk(group, made[d].sk) = given[d]
                      ELSE ~deserialize_sk(group, given[d]).ok

PeerMade ==
  \A d, e \in Owners : peer[d][e] # None =>
    group # "Ed25519" /\ made[e] # None /\ peer[d][e] = deserialize_pk(group, made[e].pk)

(* A signature is the one that its signer makes of the text in one part.     *)
SignaturesMade ==
  \A sig \in signatures :
    /\ group = "Ed25519" /\ sig.signer \in Owners /\ made[sig.signer] # None
    /\ sig.pre_hash \in BOOLEAN /\ sig.text \in Texts
    /\ sig = [ signer |-> sig.signer, pre_hash |-> sig.pre_hash, text |-> sig.text,
               bytes |-> serialize_signature(sign(made[sig.signer].sk, sig.pre_hash,
                                                  Parts(sig.pre_hash, <<sig.text>>))) ]

KInv == TypesOK /\ HeldMade /\ DiskMade /\ GivenMade /\ PeerMade /\ SignaturesMade

(* None is neither a key pair nor the result of reading one.                 *)
LEMMA NoneIsApart ==
  ASSUME group \in Groups
  PROVE  /\ None # SerializationError
         /\ \A pair \in Pairs : None # pair /\ None # Ok(pair)
  BY NoneAssumption DEF Pairs

(* The invariant holds when no owner has keys.                               *)
LEMMA KInitial == Init => KInv
<1>1. SUFFICES ASSUME Init PROVE KInv
  OBVIOUS
<1>2. TypesOK
  BY <1>1 DEF Init, TypesOK
<1>3. HeldMade /\ DiskMade /\ GivenMade /\ PeerMade /\ SignaturesMade
  BY <1>1 DEF Init, HeldMade, DiskMade, GivenMade, PeerMade, SignaturesMade
<1>4. QED
  BY <1>2, <1>3 DEF KInv

(* An owner begins with a pair: drawn, derived or loaded.                    *)
LEMMA BeginKeeps ==
  ASSUME KInv, NEW d \in Owners, NEW pair \in Pairs, Begin(d, pair),
         UNCHANGED <<group, disk, peer, signatures>>,
         \/ given' = given
         \/ given' = [given EXCEPT ![d] = serialize_sk(group, pair.sk)]
              /\ serialize_sk(group, pair.sk) \in Strings
  PROVE  KInv'
<1>1. /\ held[d] = None
      /\ made' = [made EXCEPT ![d] = pair]
      /\ held' = [held EXCEPT ![d] = Ok(pair)]
      /\ group' = group /\ disk' = disk /\ peer' = peer /\ signatures' = signatures
  BY DEF Begin
<1>2. TypesOK /\ HeldMade /\ DiskMade /\ GivenMade /\ PeerMade /\ SignaturesMade
  BY DEF KInv
<1>3. made[d] = None /\ given[d] = None /\ disk[d] = None
  BY <1>1, <1>2 DEF HeldMade
<1>4. None # pair /\ None # Ok(pair)
  BY <1>2, NoneIsApart DEF TypesOK
<1>6. TypesOK'
  <2>1. Ok(pair) \in Results(group) /\ pair \in KeyPairs(group)
    BY DEF Results, Pairs
  <2>2. QED
    BY <1>1, <1>2, <2>1 DEF TypesOK
<1>7. /\ made'[d] = pair /\ held'[d] = Ok(pair)
      /\ \A e \in Owners : e # d => made'[e] = made[e] /\ held'[e] = held[e] /\ given'[e] = given[e]
  BY <1>1, <1>2 DEF TypesOK
<1>8. HeldMade'
  BY <1>1, <1>2, <1>3, <1>4, <1>7 DEF HeldMade, Refusable
<1>9. DiskMade'
  BY <1>1, <1>2, <1>3, <1>7 DEF DiskMade
<1>10. GivenMade'
  <2>1. given'[d] = None \/ given'[d] = serialize_sk(group, pair.sk)
    BY <1>2, <1>3 DEF TypesOK
  <2>2. QED
    BY <1>1, <1>2, <1>4, <1>7, <2>1 DEF GivenMade
<1>11. PeerMade'
  BY <1>1, <1>2, <1>3, <1>4, <1>7 DEF PeerMade
<1>12. SignaturesMade'
  <2> SUFFICES ASSUME NEW sig \in signatures
               PROVE  sig.signer \in Owners /\ made[sig.signer] # None => sig.signer # d
    BY <1>1, <1>2, <1>7 DEF SignaturesMade
  <2>1. QED
    BY <1>3
<1>13. QED
  BY <1>6, <1>8, <1>9, <1>10, <1>11, <1>12 DEF KInv

(* A key pair from random bytes, directly or through a seed.                 *)
LEMMA RandomKeeps ==
  ASSUME KInv, NEW d \in Owners, NEW bytes \in Seeds,
         Random(d, bytes) \/ DeriveRandom(d, bytes)
  PROVE  KInv'
<1>1. group \in Groups /\ bytes \in Strings
  BY KeysAssumption DEF KInv, TypesOK, Strings
<1>2. UNCHANGED <<group, disk, peer, signatures>> /\ given' = given
  BY DEF Random, DeriveRandom
<1>3. CASE Random(d, bytes)
  <2>1. FromPrivate(group, random_sk(group, bytes)) \in Pairs
    BY <1>1, <1>3, PrivateKeyMade DEF Random, Pairs, KeyPairs
  <2>2. Begin(d, FromPrivate(group, random_sk(group, bytes)))
    BY <1>3 DEF Random
  <2>3. QED
    BY <1>2, <2>1, <2>2, BeginKeeps
<1>4. CASE DeriveRandom(d, bytes)
  <2>1. FromPrivate(group, derive_scalar(group, bytes)) \in Pairs
    BY <1>1, PrivateKeyMade DEF Pairs, KeyPairs
  <2>2. Begin(d, FromPrivate(group, derive_scalar(group, bytes)))
    BY <1>4 DEF DeriveRandom
  <2>3. QED
    BY <1>2, <2>1, <2>2, BeginKeeps
<1>5. QED
  BY <1>3, <1>4

(* A secret key that is read from bytes, or refused.                         *)
LEMMA DeserializeKeeps ==
  ASSUME KInv, NEW d \in Owners, NEW bytes \in Seeds, Deserialize(d, bytes)
  PROVE  KInv'
<1> DEFINE sk == deserialize_sk(group, bytes)
<1>1. /\ held[d] = None /\ given' = [given EXCEPT ![d] = bytes]
      /\ group' = group /\ disk' = disk /\ peer' = peer /\ signatures' = signatures
  BY DEF Deserialize
<1>2. group \in Groups /\ bytes \in Strings
  BY KeysAssumption DEF KInv, TypesOK, Strings
<1>3. CASE sk.ok
  <2>1. Begin(d, FromPrivate(group, sk.val))
    BY <1>3 DEF Deserialize
  <2>2. sk.val \in PrivateKeys(group) /\ serialize_sk(group, sk.val) = bytes
    BY <1>2, <1>3, PrivateKeyMade
  <2>3. FromPrivate(group, sk.val) \in Pairs
    BY <2>2 DEF Pairs, KeyPairs
  <2>4. FromPrivate(group, sk.val).sk = sk.val
    BY DEF FromPrivate, KeyPair
  <2> HIDE DEF sk
  <2>5. QED
    BY <1>1, <1>2, <2>1, <2>2, <2>3, <2>4, BeginKeeps
<1>4. CASE ~sk.ok
  <2>1. held' = [held EXCEPT ![d] = sk] /\ made' = made
    BY <1>4 DEF Deserialize
  <2>2. sk = SerializationError
    BY <1>2, <1>4, PrivateKeyMade
  <2>3. TypesOK /\ HeldMade /\ DiskMade /\ GivenMade /\ PeerMade /\ SignaturesMade
    BY DEF KInv
  <2>5. held'[d] = SerializationError /\ given'[d] = bytes
          /\ \A e \in Owners : e # d => held'[e] = held[e] /\ given'[e] = given[e]
    BY <1>1, <2>1, <2>2, <2>3 DEF TypesOK
  <2>6. made[d] = None /\ None # SerializationError
    BY <1>1, <1>2, <2>3, NoneIsApart DEF HeldMade
  <2>7. TypesOK'
    BY <1>1, <1>2, <2>1, <2>2, <2>3 DEF TypesOK, Results
  <2>8. HeldMade'
    BY <1>1, <2>1, <2>3, <2>5, <2>6 DEF HeldMade, Refusable
  <2>9. GivenMade'
    BY <1>1, <1>4, <2>1, <2>3, <2>5, <2>6 DEF GivenMade
  <2>10. DiskMade' /\ PeerMade' /\ SignaturesMade'
    BY <1>1, <2>1, <2>3 DEF DiskMade, PeerMade, SignaturesMade
  <2>11. QED
    BY <2>7, <2>8, <2>9, <2>10 DEF KInv
<1>5. QED
  BY <1>3, <1>4

(* An owner that has keys has those it began with.                           *)
LEMMA KeysInMemory ==
  ASSUME KInv, NEW d \in Owners, HasKeys(d)
  PROVE  made[d] # None /\ made[d] \in Pairs /\ held[d].val = made[d]
<1>1. held[d] # None /\ held[d].ok
  BY DEF HasKeys
<1>2. held[d] # SerializationError
  BY <1>1 DEF SerializationError
<1>3. made[d] # None /\ held[d] = Ok(made[d])
  BY <1>1, <1>2 DEF KInv, HeldMade
<1>4. made[d] \in Pairs
  BY <1>3 DEF KInv, TypesOK, Pairs
<1>5. QED
  BY <1>3, <1>4 DEF Ok

(* A key pair is written to disk.                                            *)
LEMMA SaveKeeps ==
  ASSUME KInv, NEW d \in Owners, NEW form \in {"native", "serde"}, Save(d, form)
  PROVE  KInv'
<1>1. /\ HasKeys(d) /\ <<group, form>> \in Stores
      /\ disk' = [disk EXCEPT ![d] = SaveKeyPair(group, form, held[d].val)]
      /\ group' = group /\ given' = given /\ made' = made /\ held' = held
      /\ peer' = peer /\ signatures' = signatures
  BY DEF Save
<1>2. TypesOK /\ HeldMade /\ DiskMade /\ GivenMade /\ PeerMade /\ SignaturesMade
  BY DEF KInv
<1>3. made[d] # None /\ made[d] \in Pairs /\ held[d].val = made[d]
  BY <1>1, KeysInMemory
<1>5. disk' = [disk EXCEPT ![d] = SaveKeyPair(group, form, made[d])]
  BY <1>1, <1>3
<1>6. TypesOK'
  <2>1. SaveKeyPair(group, form, made[d]) \in Forms(group)
    BY <1>3 DEF Forms, Pairs
  <2>2. QED
    BY <1>1, <1>2, <1>5, <2>1 DEF TypesOK
<1>7. disk'[d] = SaveKeyPair(group, form, made[d])
        /\ \A e \in Owners : e # d => disk'[e] = disk[e]
  BY <1>2, <1>5 DEF TypesOK
<1>8. HeldMade'
  BY <1>1, <1>2, <1>3, <1>7 DEF HeldMade, Refusable
<1>9. DiskMade'
  BY <1>1, <1>2, <1>7 DEF DiskMade
<1>10. GivenMade' /\ PeerMade' /\ SignaturesMade'
  BY <1>1, <1>2 DEF GivenMade, PeerMade, SignaturesMade
<1>11. QED
  BY <1>6, <1>8, <1>9, <1>10 DEF KInv

(* What is loaded is what the owner began with, or is refused by serde.      *)
LEMMA Loaded ==
  ASSUME KInv, NEW d \in Owners, Load(d)
  PROVE  /\ made[d] # None /\ made[d] \in Pairs
         /\ \/ held' = [held EXCEPT ![d] = Ok(made[d])]
            \/ Refusable /\ held' = [held EXCEPT ![d] = SerializationError]
<1>1. disk[d] # None /\ held' = [held EXCEPT ![d] = LoadKeyPair(group, disk[d])]
  BY DEF Load
<1>2. made[d] # None
  BY <1>1 DEF KInv, HeldMade
<1>3. made[d] \in Pairs /\ group \in Groups
  BY <1>2 DEF KInv, TypesOK, Pairs
<1>4. PICK form \in {"native", "serde"} :
        <<group, form>> \in Stores /\ disk[d] = SaveKeyPair(group, form, made[d])
  BY <1>1 DEF KInv, DiskMade
<1>5. \/ LoadKeyPair(group, disk[d]) = Ok(made[d])
      \/ /\ group = "Ed25519" /\ form = "serde"
         /\ LoadKeyPair(group, disk[d]) = SerializationError
  BY <1>3, <1>4, PairReadBack DEF Pairs
<1>6. QED
  BY <1>1, <1>2, <1>3, <1>4, <1>5 DEF Refusable

(* A key pair is read from disk; the serde form of Ed25519 may refuse.       *)
LEMMA LoadKeeps ==
  ASSUME KInv, NEW d \in Owners, Load(d)
  PROVE  KInv'
<1>1. /\ group' = group /\ given' = given /\ made' = made /\ disk' = disk
      /\ peer' = peer /\ signatures' = signatures
  BY DEF Load
<1>2. TypesOK /\ HeldMade /\ DiskMade /\ GivenMade /\ PeerMade /\ SignaturesMade
  BY DEF KInv
<1>3. PICK result : /\ held' = [held EXCEPT ![d] = result]
                    /\ result = Ok(made[d]) \/ (Refusable /\ result = SerializationError)
                    /\ made[d] # None /\ made[d] \in Pairs
  BY Loaded
<1>5. TypesOK'
  <2>1. result \in Results(group)
    BY <1>3 DEF Results, Pairs
  <2>2. QED
    BY <1>1, <1>2, <1>3, <2>1 DEF TypesOK
<1>6. held'[d] = result /\ \A e \in Owners : e # d => held'[e] = held[e]
  BY <1>2, <1>3 DEF TypesOK
<1>7. HeldMade'
  <2>1. None # SerializationError /\ None # Ok(made[d])
    BY <1>2, <1>3, NoneIsApart DEF TypesOK
  <2>2. result # None
    BY <1>3, <2>1
  <2>3. Refusable' <=> Refusable
    BY <1>1 DEF Refusable
  <2>4. QED
    BY <1>1, <1>2, <1>3, <1>6, <2>2, <2>3 DEF HeldMade
<1>8. DiskMade' /\ GivenMade' /\ PeerMade' /\ SignaturesMade'
  BY <1>1, <1>2 DEF DiskMade, GivenMade, PeerMade, SignaturesMade
<1>9. QED
  BY <1>5, <1>7, <1>8 DEF KInv

(* A public key travels to another owner.                                    *)
LEMMA ReceiveKeeps ==
  ASSUME KInv, NEW d \in Owners, NEW e \in Owners, Receive(d, e)
  PROVE  KInv'
<1>1. /\ group # "Ed25519" /\ HasKeys(e)
      /\ peer' = [peer EXCEPT ![d][e] = deserialize_pk(group, held[e].val.pk)]
      /\ group' = group /\ given' = given /\ made' = made /\ held' = held
      /\ disk' = disk /\ signatures' = signatures
  BY DEF Receive
<1>2. TypesOK /\ HeldMade /\ DiskMade /\ GivenMade /\ PeerMade /\ SignaturesMade
  BY DEF KInv
<1>3. made[e] # None /\ made[e] \in Pairs /\ held[e].val = made[e]
  BY <1>1, KeysInMemory
<1> DEFINE pk == deserialize_pk(group, made[e].pk)
<1>4. peer' = [peer EXCEPT ![d][e] = pk]
  BY <1>1, <1>3
<1>5. pk \in Received(group)
  BY <1>3 DEF Received, Pairs
<1> HIDE DEF pk
<1>6. peer \in [Owners -> [Owners -> Received(group) \cup {None}]]
  BY <1>2 DEF TypesOK
<1>7. peer' \in [Owners -> [Owners -> Received(group) \cup {None}]]
  BY <1>4, <1>5, <1>6
<1>8. \A x, y \in Owners : peer'[x][y] = IF x = d /\ y = e THEN pk ELSE peer[x][y]
  BY <1>4, <1>6
<1>9. TypesOK'
  BY <1>1, <1>2, <1>7 DEF TypesOK
<1>10. PeerMade'
  BY <1>1, <1>2, <1>3, <1>8 DEF PeerMade, pk
<1>11. HeldMade' /\ DiskMade' /\ GivenMade' /\ SignaturesMade'
  BY <1>1, <1>2 DEF HeldMade, Refusable, DiskMade, GivenMade, SignaturesMade
<1>12. QED
  BY <1>9, <1>10, <1>11 DEF KInv

-------------------------------------------------------------------------------
(* Signatures.                                                               *)

(* A message in one part, and in two.                                        *)
LEMMA FlattenOne ==
  ASSUME NEW a
  PROVE  FlattenSeq(<<a>>) = a
<1> DEFINE flat(g) == [i \in 1 .. Len(<<a>>) |-> IF i = 1 THEN <<a>>[i] ELSE g[i - 1] \o <<a>>[i]]
           f == CHOOSE g : g = flat(g)
<1>1. Len(<<a>>) = 1
  OBVIOUS
<1>2. [i \in 1 .. 1 |-> a] = flat([i \in 1 .. 1 |-> a])
  BY <1>1
<1>3. f = flat(f)
  BY <1>2
<1>4. f[1] = a
  BY <1>1, <1>3
<1>5. FlattenSeq(<<a>>) = f[Len(<<a>>)]
  BY <1>1 DEF FlattenSeq
<1>6. QED
  BY <1>1, <1>4, <1>5

(* Two parts.                                                                *)
LEMMA FlattenTwo ==
  ASSUME NEW a, NEW b
  PROVE  FlattenSeq(<<a, b>>) = a \o b
<1> DEFINE s == <<a, b>>
           flat(g) == [i \in 1 .. Len(s) |-> IF i = 1 THEN s[i] ELSE g[i - 1] \o s[i]]
           f == CHOOSE g : g = flat(g)
           w == [i \in 1 .. 2 |-> IF i = 1 THEN a ELSE a \o b]
<1>1. Len(s) = 2 /\ s[1] = a /\ s[2] = b
  OBVIOUS
<1>2. \E g : g = flat(g)
  <2>1. w[1] = a /\ w[2] = a \o b
    OBVIOUS
  <2>2. flat(w) = [i \in 1 .. 2 |-> IF i = 1 THEN a ELSE w[i - 1] \o s[i]]
    BY <1>1
  <2>3. \A i \in 1 .. 2 : i # 1 => w[i - 1] \o s[i] = a \o b
    <3>1. w[2 - 1] = a
      BY <2>1
    <3>2. \A i \in 1 .. 2 : i # 1 => i = 2
      OBVIOUS
    <3> HIDE DEF w, s
    <3>3. QED
      BY <1>1, <3>1, <3>2
  <2>4. flat(w) = w
    <3> HIDE DEF flat, s
    <3>1. \A i \in 1 .. 2 :
            (IF i = 1 THEN a ELSE w[i - 1] \o s[i]) = (IF i = 1 THEN a ELSE a \o b)
      BY <2>3
    <3>2. [i \in 1 .. 2 |-> IF i = 1 THEN a ELSE w[i - 1] \o s[i]]
            = [i \in 1 .. 2 |-> IF i = 1 THEN a ELSE a \o b]
      BY <3>1, Zenon
    <3>3. QED
      BY <2>2, <3>2 DEF w
  <2> HIDE DEF flat, w
  <2>5. QED
    BY <2>4
<1>3. f = flat(f)
  <2> HIDE DEF flat
  <2> QED
    BY <1>2
<1>4. f[1] = a
  <2> HIDE DEF f
  <2> QED
    BY <1>1, <1>3
<1>5. f[2] = a \o b
  <2> HIDE DEF f
  <2>1. f[2] = f[2 - 1] \o s[2]
    <3>1. \A i \in 1 .. 2 : f[i] = IF i = 1 THEN s[i] ELSE f[i - 1] \o s[i]
      <4> HIDE DEF s
      <4> QED
        BY <1>1, <1>3
    <3>2. 2 \in 1 .. 2 /\ 2 # 1
      OBVIOUS
    <3> HIDE DEF s
    <3>3. QED
      BY <3>1, <3>2
  <2>2. f[2 - 1] = a
    BY <1>4
  <2>3. QED
    BY <1>1, <2>1, <2>2
<1>6. FlattenSeq(s) = f[Len(s)]
  BY <1>1 DEF FlattenSeq
<1>7. QED
  BY <1>1, <1>5, <1>6

(* However a text is cut, its parts make it up again.                        *)
LEMMA CutsMakeText ==
  ASSUME NEW text \in Texts, NEW message \in Cuts(text)
  PROVE  FlattenSeq(message) = text
<1>1. text \in Seq(Nat)
  BY KeysAssumption
<1>2. CASE message = <<text>>
  BY <1>2, FlattenOne
<1>3. CASE message # <<text>>
  <2>1. PICK n \in 0 .. Len(text) : message = <<SubSeq(text, 1, n), SubSeq(text, n + 1, Len(text))>>
    BY <1>3 DEF Cuts
  <2>2. FlattenSeq(message) = SubSeq(text, 1, n) \o SubSeq(text, n + 1, Len(text))
    BY <2>1, FlattenTwo
  <2>3. SubSeq(text, 1, n) \o SubSeq(text, n + 1, Len(text)) = SubSeq(text, 1, Len(text))
    <3>1. 1 \in 1 .. Len(text) + 1 /\ n \in 1 - 1 .. Len(text) /\ Len(text) \in n .. Len(text)
      BY <1>1
    <3>2. QED
      BY <1>1, <3>1, ConcatAdjacentSubSeq
  <2>4. SubSeq(text, 1, Len(text)) = text
    BY <1>1, SubSeqFull
  <2>5. QED
    BY <2>2, <2>3, <2>4
<1>4. QED
  BY <1>2, <1>3

(* What is signed of a text: itself, or its hash.                            *)
Signed(pre_hash, text) == IF pre_hash THEN <<Digest(text)>> ELSE text

(* However a text is cut, the same string is signed.                         *)
LEMMA PartsMakeSigned ==
  ASSUME NEW pre_hash \in BOOLEAN, NEW text \in Texts, NEW message \in Cuts(text)
  PROVE  FlattenSeq(Parts(pre_hash, message)) = Signed(pre_hash, text)
<1>1. FlattenSeq(message) = text
  BY CutsMakeText
<1>2. FlattenSeq(<< <<Digest(text)>> >>) = <<Digest(text)>>
  BY FlattenOne
<1>3. QED
  BY <1>1, <1>2 DEF Parts, Signed

(* The hashes of a signature are over what is signed.                        *)
LEMMA SignedIsHashed ==
  ASSUME NEW pre_hash \in BOOLEAN, NEW text \in Texts
  PROVE  /\ \A n \in Strings : Domain(pre_hash) \o <<n>> \o Signed(pre_hash, text) \in Hashed
         /\ \A r \in 0 .. Order - 1, pk \in 0 .. Order - 1 :
              Domain(pre_hash) \o <<r, pk>> \o Signed(pre_hash, text) \in Hashed
<1> DEFINE signed == Texts \cup {<<Digest(t)>> : t \in Texts}
           prefixes == {<<n>> : n \in Strings} \cup
                       {<<r, pk>> : r \in 0 .. Order - 1, pk \in 0 .. Order - 1}
           all == {Domain(ph) \o prefix \o t : ph \in BOOLEAN, prefix \in prefixes, t \in signed}
<1>1. all \subseteq Hashed
  <2>1. Hashed = {<<sk>> : sk \in Strings}
                   \cup {<<seed, c>> : seed \in Strings, c \in 0 .. Bytes} \cup all
    BY DEF Hashed
  <2> HIDE DEF all
  <2>2. QED
    BY <2>1
<1>2. Signed(pre_hash, text) \in signed
  BY DEF Signed
<1>3. /\ \A n \in Strings : <<n>> \in prefixes
      /\ \A r \in 0 .. Order - 1, pk \in 0 .. Order - 1 : <<r, pk>> \in prefixes
  OBVIOUS
<1> HIDE DEF signed, prefixes
<1>4. \A prefix \in prefixes : Domain(pre_hash) \o prefix \o Signed(pre_hash, text) \in all
  BY <1>2
<1> HIDE DEF all
<1>5. \A prefix \in prefixes : Domain(pre_hash) \o prefix \o Signed(pre_hash, text) \in Hashed
  BY <1>1, <1>4
<1>6. QED
  BY <1>3, <1>5

(* The equation of EdDSA: what the signature adds, the check takes away.     *)
LEMMA SignatureEquation ==
  ASSUME NEW k \in 0 .. Order - 1, NEW a \in 0 .. Order - 1, NEW r \in 0 .. Order - 1
  PROVE  (((k * a + r) % Order) + (k * (Order - a))) % Order = r
<1>1. Order \in Nat \ {0}
  BY Sizes
<1>2. k * a + r \in Int
  BY <1>1
<1>3. PICK m \in Int, s \in 0 .. Order - 1 : s = (k * a + r) % Order /\ k * a + r = Order * m + s
  BY <1>1, <1>2, Division
<1>4. k * (Order - a) = Order * k - k * a
  <2>1. k * (Order - a) = k * Order - k * a
    BY <1>1, Distribute
  <2>2. QED
    BY <1>1, <2>1
<1>5. s + k * (Order - a) = Order * (k - m) + r
  <2>1. Order * (k - m) = Order * k - Order * m
    BY <1>1, <1>3, Distribute
  <2>2. k * a \in Int /\ Order * k \in Int /\ Order * m \in Int
    BY <1>1, <1>3
  <2>3. QED
    BY <1>1, <1>3, <1>4, <2>1, <2>2
<1>6. k - m \in Int /\ s + k * (Order - a) \in Int
  BY <1>1, <1>3
<1>7. (s + k * (Order - a)) % Order = r
  BY <1>1, <1>5, <1>6, RemainderUnique
<1>8. QED
  BY <1>3, <1>7

(* sign does not look at how the message is cut.                             *)
LEMMA SignedAlike ==
  ASSUME NEW sk, NEW pre_hash, NEW one, NEW other, FlattenSeq(one) = FlattenSeq(other)
  PROVE  sign(sk, pre_hash, one) = sign(sk, pre_hash, other)
  BY DEF sign

(* A signature passes its check, however the message is cut there, and is    *)
(* read back as it was written.                                              *)
LEMMA SignatureVerifies ==
  ASSUME NEW sk \in PrivateKeys("Ed25519"), NEW pre_hash \in BOOLEAN, NEW text \in Texts,
         NEW message \in Cuts(text), NEW other \in Cuts(text)
  PROVE  LET signature == sign(sk, pre_hash, Parts(pre_hash, message))
         IN  /\ verify(public_key("Ed25519", sk), pre_hash, Parts(pre_hash, other), signature)
             /\ deserialize_signature(serialize_signature(signature)) = Ok(signature)
<1> DEFINE signed == Signed(pre_hash, text)
           r == ScalarFromHash(Domain(pre_hash) \o <<sk.hash_prefix>> \o signed)
           k == ScalarFromHash(Domain(pre_hash) \o <<r, sk.verifying_key>> \o signed)
           signature == sign(sk, pre_hash, Parts(pre_hash, message))
<1>1. Order \in Nat \ {0}
  BY Sizes
<1>2. PICK b \in Strings : sk = SigningKey(b)
  BY KeysOfEd25519
<1>3. /\ sk.scalar \in 1 .. Order - 1 /\ sk.verifying_key = sk.scalar
      /\ sk.hash_prefix \in Strings /\ public_key("Ed25519", sk) = sk.scalar
  BY <1>2, Expanded, KeysOfEd25519 DEF SigningKey
<1>4. /\ FlattenSeq(Parts(pre_hash, message)) = signed
      /\ FlattenSeq(Parts(pre_hash, other)) = signed
  BY PartsMakeSigned
<1> HIDE DEF signed
<1>5. r \in 0 .. Order - 1
  BY <1>3, SignedIsHashed, HashedScalar DEF signed
<1>6. signature = [R |-> r, s |-> (k * sk.scalar + r) % Order]
  BY <1>4 DEF sign
<1> HIDE DEF r
<1>7. k \in 0 .. Order - 1
  <2>1. sk.verifying_key \in 0 .. Order - 1
    BY <1>1, <1>3
  <2>2. QED
    BY <1>5, <2>1, SignedIsHashed, HashedScalar DEF signed
<1>8. ScalarFromHash(Domain(pre_hash) \o <<r, sk.scalar>> \o signed) = k
  BY <1>3
<1> HIDE DEF k, signature
<1>9. signature.R = r /\ signature.s = (k * sk.scalar + r) % Order
  BY <1>6
<1>10. sk.scalar \in 0 .. Order - 1
  BY <1>1, <1>3
<1>11. (signature.s + (k * (Order - sk.scalar))) % Order = signature.R
  BY <1>5, <1>7, <1>9, <1>10, SignatureEquation
<1>12. verify(sk.scalar, pre_hash, Parts(pre_hash, other), signature)
  BY <1>4, <1>8, <1>9, <1>11 DEF verify
<1>13. signature.s < Order
  <2>1. k * sk.scalar + r \in Int
    BY <1>1, <1>5, <1>7, <1>10
  <2>2. (k * sk.scalar + r) % Order \in 0 .. Order - 1
    BY <1>1, <2>1, Division
  <2>3. QED
    BY <1>1, <1>9, <2>2
<1>14. deserialize_signature(serialize_signature(signature)) = Ok(signature)
  BY <1>6, <1>9, <1>13 DEF deserialize_signature, serialize_signature
<1>15. QED
  BY <1>3, <1>12, <1>14 DEF signature

(* A signature is made.                                                      *)
LEMMA SignKeeps ==
  ASSUME KInv, NEW d \in Owners, NEW pre_hash \in BOOLEAN, NEW text \in Texts,
         NEW message \in Cuts(text), Sign(d, pre_hash, message)
  PROVE  KInv'
<1> DEFINE made_of(m) == serialize_signature(sign(made[d].sk, pre_hash, Parts(pre_hash, m)))
           new == [ signer |-> d, pre_hash |-> pre_hash, text |-> text,
                    bytes |-> made_of(<<text>>) ]
<1>1. /\ group = "Ed25519" /\ HasKeys(d)
      /\ group' = group /\ given' = given /\ made' = made /\ held' = held
      /\ disk' = disk /\ peer' = peer
  BY DEF Sign
<1>2. TypesOK /\ HeldMade /\ DiskMade /\ GivenMade /\ PeerMade /\ SignaturesMade
  BY DEF KInv
<1>3. made[d] # None /\ held[d].val = made[d]
  BY <1>1, KeysInMemory
<1>4. FlattenSeq(message) = text
  BY CutsMakeText
<1>5. made_of(message) = made_of(<<text>>)
  <2>1. <<text>> \in Cuts(text)
    BY DEF Cuts
  <2>2. FlattenSeq(Parts(pre_hash, message)) = FlattenSeq(Parts(pre_hash, <<text>>))
    BY <2>1, PartsMakeSigned
  <2>3. sign(made[d].sk, pre_hash, Parts(pre_hash, message))
          = sign(made[d].sk, pre_hash, Parts(pre_hash, <<text>>))
    BY <2>2, SignedAlike
  <2>4. QED
    BY <2>3
<1>6. signatures' = signatures \cup {new}
  <2>1. signatures' = signatures \cup
          {[ signer |-> d, pre_hash |-> pre_hash, text |-> FlattenSeq(message),
             bytes |-> serialize_signature(sign(held[d].val.sk, pre_hash,
                                                Parts(pre_hash, message))) ]}
    BY DEF Sign
  <2>2. signatures' = signatures \cup
          {[ signer |-> d, pre_hash |-> pre_hash, text |-> text, bytes |-> made_of(message) ]}
    BY <1>3, <1>4, <2>1
  <2> HIDE DEF made_of
  <2>3. QED
    BY <1>5, <2>2
<1>7. SignaturesMade'
  <2>1. /\ new.signer = d /\ new.pre_hash = pre_hash /\ new.text = text
        /\ new = [ signer |-> new.signer, pre_hash |-> new.pre_hash, text |-> new.text,
                   bytes |-> serialize_signature(sign(made[new.signer].sk, new.pre_hash,
                                                      Parts(new.pre_hash, <<new.text>>))) ]
    OBVIOUS
  <2> HIDE DEF new
  <2>2. QED
    BY <1>1, <1>2, <1>3, <1>6, <2>1 DEF SignaturesMade
<1>8. TypesOK' /\ HeldMade' /\ DiskMade' /\ GivenMade' /\ PeerMade'
  BY <1>1, <1>2 DEF TypesOK, HeldMade, Refusable, DiskMade, GivenMade, PeerMade
<1>9. QED
  BY <1>7, <1>8 DEF KInv

(* The invariant holds of every behaviour of Keys.                           *)
THEOREM KInvariant == Spec => []KInv
<1>1. ASSUME KInv, [Next]_vars PROVE KInv'
  <2>1. CASE UNCHANGED vars
    BY <1>1, <2>1 DEF vars, KInv, TypesOK, HeldMade, Refusable, DiskMade, GivenMade, PeerMade,
                      SignaturesMade
  <2>2. CASE \E d \in Owners, bytes \in Seeds :
               Random(d, bytes) \/ DeriveRandom(d, bytes) \/ Deserialize(d, bytes)
    BY <1>1, <2>2, RandomKeeps, DeserializeKeeps
  <2>3. CASE \E d \in Owners, form \in {"native", "serde"} : Save(d, form)
    BY <1>1, <2>3, SaveKeeps
  <2>4. CASE \E d \in Owners : Load(d)
    BY <1>1, <2>4, LoadKeeps
  <2>5. CASE \E d, e \in Owners : d # e /\ Receive(d, e)
    BY <1>1, <2>5, ReceiveKeeps
  <2>6. CASE \E d \in Owners, pre_hash \in BOOLEAN, text \in Texts :
               \E message \in Cuts(text) : Sign(d, pre_hash, message)
    BY <1>1, <2>6, SignKeeps
  <2>7. QED
    BY <1>1, <2>1, <2>2, <2>3, <2>4, <2>5, <2>6 DEF Next
<1>2. QED
  BY <1>1, KInitial, PTL DEF Spec

-------------------------------------------------------------------------------
(* The properties.                                                           *)

(* A key pair that was saved is read back as it was, in either form, unless  *)
(* serde is used for Ed25519 (the run keys_serde): KeyPair's serialize and   *)
(* deserialize, and the serde code of keypair.rs.                            *)
THEOREM KeyPairsSurvive ==
  ASSUME <<"Ed25519", "serde">> \notin Stores
  PROVE  Spec => []KeysSurvive
<1>1. KInv => KeysSurvive
  BY DEF KInv, HeldMade, Refusable, KeysSurvive
<1>2. QED
  BY <1>1, KInvariant, PTL

(* Bytes are taken for the private key that they are the form of, or         *)
(* refused, and nothing that a group's own keys are written as is refused    *)
(* (PrivateKey::deserialize and deserialize_sk of the groups).               *)
THEOREM KeysLoadedAsGiven == Spec => []LoadedAsGiven
<1>1. ASSUME KInv PROVE LoadedAsGiven
  <2>1. group \in Groups
    BY <1>1 DEF KInv, TypesOK
  <2>2. \A bytes \in Written(group) : deserialize_sk(group, bytes).ok
    BY <2>1, WrittenIsRead
  <2>3. QED
    BY <1>1, <2>2 DEF KInv, GivenMade, LoadedAsGiven
<1>2. QED
  BY <1>1, KInvariant, PTL

(* Two owners that read each other's public key reach the same secret, and   *)
(* neither public key is refused (ke_diffie_hellman in the four groups).     *)
THEOREM SecretsAreShared == Spec => []SecretsAgree
<1>1. ASSUME KInv, NEW d \in Owners, NEW e \in Owners, peer[d][e] # None
      PROVE  /\ group # "Ed25519" /\ made[e] \in Pairs
             /\ peer[d][e] = Ok(made[e].pk) /\ peer[d][e].ok /\ peer[d][e].val = made[e].pk
  <2>1. /\ group # "Ed25519" /\ made[e] # None
        /\ peer[d][e] = deserialize_pk(group, made[e].pk)
    BY <1>1 DEF KInv, PeerMade
  <2>2. made[e] \in Pairs /\ group \in Groups
    BY <1>1, <2>1 DEF KInv, TypesOK, Pairs
  <2>3. PICK sk \in PrivateKeys(group) : made[e].pk = public_key(group, sk)
    BY <2>2 DEF Pairs, KeyPairs, FromPrivate, KeyPair
  <2>4. deserialize_pk(group, made[e].pk) = Ok(made[e].pk)
    BY <2>2, <2>3, PublicKeyCanonical
  <2>5. QED
    BY <2>1, <2>2, <2>4 DEF Ok
<1>2. ASSUME KInv, NEW d \in Owners, NEW e \in Owners,
             peer[d][e] # None, peer[e][d] # None, HasKeys(d), HasKeys(e)
      PROVE  diffie_hellman(group, held[d].val.sk, peer[d][e].val)
               = diffie_hellman(group, held[e].val.sk, peer[e][d].val)
  <2>1. group \in Groups
    BY <1>2 DEF KInv, TypesOK
  <2>2. /\ group # "Ed25519" /\ made[d] \in Pairs /\ made[e] \in Pairs
        /\ peer[d][e].val = made[e].pk /\ peer[e][d].val = made[d].pk
    BY <1>1, <1>2
  <2>3. held[d].val = made[d] /\ held[e].val = made[e]
    BY <1>2, KeysInMemory
  <2>4. PICK a \in PrivateKeys(group) : made[d].sk = a /\ made[d].pk = public_key(group, a)
    BY <2>2 DEF Pairs, KeyPairs, FromPrivate, KeyPair
  <2>5. PICK b \in PrivateKeys(group) : made[e].sk = b /\ made[e].pk = public_key(group, b)
    BY <2>2 DEF Pairs, KeyPairs, FromPrivate, KeyPair
  <2>6. /\ diffie_hellman(group, a, public_key(group, b)) = Encoded(group, (a * b) % Order)
        /\ diffie_hellman(group, b, public_key(group, a)) = Encoded(group, (b * a) % Order)
    BY <2>1, <2>2, SharedSecret
  <2>7. a * b = b * a
    <3>1. a \in Nat /\ b \in Nat
      BY <2>1, <2>2, PrivateKeyNumber
    <3>2. QED
      BY <3>1
  <2>8. QED
    BY <2>2, <2>3, <2>4, <2>5, <2>6, <2>7
<1>3. KInv => SecretsAgree
  BY <1>1, <1>2 DEF SecretsAgree
<1>4. QED
  BY <1>3, KInvariant, PTL

(* A signature is accepted under the signer's public key however the message *)
(* is cut, and the same text has one signature, before and after a restart   *)
(* (sign and verify of ed25519.rs).                                          *)
THEOREM SignaturesAreAccepted == Spec => []SignaturesVerify
<1>1. ASSUME KInv, NEW sig \in signatures
      PROVE  LET pk == deserialize_pk(group, made[sig.signer].pk)
                 signature == deserialize_signature(sig.bytes)
             IN  /\ pk.ok /\ signature.ok
                 /\ \A message \in Cuts(sig.text) :
                      verify(pk.val, sig.pre_hash, Parts(sig.pre_hash, message), signature.val)
  <2> DEFINE d == sig.signer
             signature == sign(made[d].sk, sig.pre_hash, Parts(sig.pre_hash, <<sig.text>>))
             pk == public_key("Ed25519", made[d].sk)
  <2>1. /\ group = "Ed25519" /\ d \in Owners /\ made[d] # None
        /\ sig.pre_hash \in BOOLEAN /\ sig.text \in Texts
        /\ sig = [ signer |-> d, pre_hash |-> sig.pre_hash, text |-> sig.text,
                   bytes |-> serialize_signature(signature) ]
    BY <1>1 DEF KInv, SignaturesMade
  <2>2. made[d] \in Pairs /\ group \in Groups
    BY <1>1, <2>1 DEF KInv, TypesOK, Pairs
  <2>3. made[d].sk \in PrivateKeys("Ed25519") /\ made[d].pk = pk
    BY <2>1, <2>2 DEF Pairs, KeyPairs, FromPrivate, KeyPair
  <2>4. deserialize_pk(group, made[d].pk) = Ok(pk)
    BY <2>1, <2>2, <2>3, PublicKeyCanonical
  <2>5. <<sig.text>> \in Cuts(sig.text) /\ sig.bytes = serialize_signature(signature)
    <3>1. sig.bytes = serialize_signature(signature)
      <4> HIDE DEF signature, d
      <4> QED
        BY <2>1
    <3>2. QED
      BY <3>1 DEF Cuts
  <2>6. /\ deserialize_signature(sig.bytes) = Ok(signature)
        /\ \A message \in Cuts(sig.text) :
             verify(pk, sig.pre_hash, Parts(sig.pre_hash, message), signature)
    BY <2>1, <2>3, <2>5, SignatureVerifies
  <2> HIDE DEF signature, pk
  <2>7. QED
    BY <2>4, <2>6 DEF Ok
<1>2. ASSUME KInv, NEW sig \in signatures, NEW other \in signatures,
             other.signer = sig.signer, other.pre_hash = sig.pre_hash, other.text = sig.text
      PROVE  other = sig
  BY <1>2 DEF KInv, SignaturesMade
<1>3. KInv => SignaturesVerify
  BY <1>1, <1>2 DEF SignaturesVerify
<1>4. QED
  BY <1>3, KInvariant, PTL
===============================================================================
