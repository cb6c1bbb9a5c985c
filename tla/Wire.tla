--------------------------------- MODULE Wire ---------------------------------
(***************************************************************************)
(* The byte formats: every message and every stored state is the           *)
(* concatenation of its fields, and is read by taking the fields off the   *)
(* front of the input one after another (serialization/mod.rs and the      *)
(* Serialize / Deserialize implementations).  One run of this module reads *)
(* one input, which may have been cut, extended or overwritten; when it is *)
(* a CredentialResponse the client goes on to unmask it and to write down  *)
(* the bytes that are hashed.  Opaque takes all of this as given: there a  *)
(* message is a record and a transcript a tuple.                           *)
(* Digests, MACs and curves are left out: a field is a string of bytes.    *)
(***************************************************************************)
EXTENDS Integers, SequencesExt

CONSTANTS
  None,         \* the Option of a parameter that is not given
  Base,         \* a byte is 0 .. Base - 1
  Width,        \* the length of each kind of field, in bytes
  Suites,       \* which of the key exchanges are read
  Salts,        \* the logins that are looked at, one for each
  Extras,       \* what may stand behind the last field
  Ids, Contexts, \* the parameters an application gives to finish
  Content(_, _, _), \* the bytes of a field, in a suite and a login
  Pad(_, _),    \* what the response is masked with, expanded from the
                \* evaluation element and the masking nonce
  XorByte(_, _) \* exclusive or

Kinds == { "nonce", "oprf_hash", "ke_hash", "element", "scalar", "static_pk",
           "ephemeral_pk", "static_sk", "ephemeral_sk", "signature", "kem" }

Byte == 0 .. Base - 1

ASSUME WireAssumption ==
  /\ Base \in Nat \ {0, 1}
  /\ Width \in [Kinds -> 1 .. Base * Base - 1]
  /\ Suites \subseteq {"TripleDh", "TripleDhKem", "PureEddsa", "PreHash"}
  /\ Extras \subseteq Seq(Byte)
  /\ (Ids \cup Contexts) \ {None} \subseteq Seq(Byte)

ASSUME XorAssumption ==
  \A a, b \in Byte : XorByte(a, b) \in Byte /\ XorByte(a, XorByte(a, b)) = b

-------------------------------------------------------------------------------
(* Numbers and slices of bytes.                                              *)

Ok(val) == [ok |-> TRUE, val |-> val]
SerializationError == [ok |-> FALSE]

(* i2osp::<U2>.                                                              *)
I2osp2(n) ==
  IF n >= Base * Base THEN SerializationError ELSE Ok(<<n \div Base, n % Base>>)

TakeArray(input, len) == [front |-> SubSeq(input, 1, len),
                          back  |-> SubSeq(input, len + 1, Len(input))]

(* What has no partner in other stays as it is.                              *)
Xor(pad, other) ==
  [i \in DOMAIN pad |-> IF i \in DOMAIN other THEN XorByte(pad[i], other[i]) ELSE pad[i]]

-------------------------------------------------------------------------------
(* The fields.                                                               *)

Sigma(suite) == suite \in {"PureEddsa", "PreHash"}
Kem(suite)   == suite = "TripleDhKem"

FieldsOf == [
  nonce        |-> {"client_nonce", "server_nonce", "masking_nonce", "envelope_nonce",
                    "masked_nonce"},
  oprf_hash    |-> {"masking_key", "envelope_hmac", "masked_hash", "oprf_seed"},
  ke_hash      |-> {"session_key", "expected_mac", "mac", "pre_hash"},
  element      |-> {"blinded_element", "evaluation_element"},
  scalar       |-> {"oprf_client"},
  static_pk    |-> {"client_s_pk", "server_s_pk", "dummy_pk", "masked_pk"},
  ephemeral_pk |-> {"client_e_pk", "server_e_pk"},
  static_sk    |-> {"server_s_sk"},
  ephemeral_sk |-> {"client_e_sk"},
  signature    |-> {"signature", "client_signature"},
  kem          |-> {"kem_dk", "kem_ek", "kem_ct"} ]

Fields == UNION {FieldsOf[k] : k \in Kinds}

Kind(f) == CHOOSE k \in Kinds : f \in FieldsOf[k]

(* In 3DH the ephemeral keys live in the group of the static keys.           *)
FieldWidth(suite, f) ==
  CASE Kind(f) = "ephemeral_pk" /\ ~Sigma(suite) -> Width["static_pk"]
    [] Kind(f) = "ephemeral_sk" /\ ~Sigma(suite) -> Width["static_sk"]
    [] OTHER -> Width[Kind(f)]

-------------------------------------------------------------------------------
(* serialize(): the order in which the fields are written.                   *)

EnvelopeWritten       == <<"envelope_nonce", "envelope_hmac">>
MaskedResponseWritten == <<"masked_nonce", "masked_hash", "masked_pk">>

Ke1StateWritten(suite) ==
  <<"client_e_sk", "client_nonce">> \o IF Kem(suite) THEN <<"kem_dk">> ELSE <<>>

Ke1MessageWritten(suite) ==
  <<"client_nonce", "client_e_pk">> \o IF Kem(suite) THEN <<"kem_ek">> ELSE <<>>

Ke2MessageWritten(suite) ==
  <<"server_nonce", "server_e_pk">>
    \o (IF Sigma(suite) THEN <<"signature">> ELSE <<>>)
    \o <<"mac">>
    \o IF Kem(suite) THEN <<"kem_ct">> ELSE <<>>

Ke3MessageWritten(suite) ==
  IF Sigma(suite) THEN <<"client_signature", "expected_mac">> ELSE <<"expected_mac">>

CachedMessageWritten ==
  <<"blinded_element", "client_nonce", "client_e_pk", "evaluation_element", "masking_nonce">>
    \o MaskedResponseWritten \o <<"server_nonce", "server_e_pk", "mac">>

Ke2StateWritten(suite) ==
  CASE suite = "TripleDh"    -> <<"session_key", "expected_mac">>
    [] suite = "TripleDhKem" -> <<"session_key", "expected_mac", "kem_ek", "kem_ct">>
    [] suite = "PureEddsa"   ->
         <<"client_s_pk", "session_key">> \o CachedMessageWritten \o <<"expected_mac">>
    [] suite = "PreHash"     -> <<"client_s_pk", "session_key", "pre_hash", "expected_mac">>

CredentialRequestWritten(suite) == <<"blinded_element">> \o Ke1MessageWritten(suite)

Written(suite) == [
  RegistrationRequest    |-> <<"blinded_element">>,
  RegistrationResponse   |-> <<"evaluation_element", "server_s_pk">>,
  RegistrationUpload     |-> <<"client_s_pk", "masking_key">> \o EnvelopeWritten,
  CredentialRequest      |-> CredentialRequestWritten(suite),
  CredentialResponse     |-> <<"evaluation_element", "masking_nonce">>
                               \o MaskedResponseWritten \o Ke2MessageWritten(suite),
  CredentialFinalization |-> Ke3MessageWritten(suite),
  ClientRegistration     |-> <<"oprf_client", "blinded_element">>,
  ClientLogin            |-> <<"oprf_client">> \o CredentialRequestWritten(suite)
                               \o Ke1StateWritten(suite),
  ServerLogin            |-> Ke2StateWritten(suite),
  ServerSetup            |-> <<"oprf_seed", "server_s_sk", "dummy_pk">> ]

Types == DOMAIN Written("TripleDh")

-------------------------------------------------------------------------------
(* deserialize(): what is taken off the input, in order, and how.            *)
(*   "array"    take_array: any bytes will do                                *)
(*   "key"      take_array, then the curve may refuse the bytes              *)
(*   "element"  a slice whose length is checked first, given to voprf        *)
(*   "tail"     the same, but voprf is given all that is left                *)
(*   "rest"     all that is left is given to voprf without a check           *)

Take(how, fields) == [i \in DOMAIN fields |-> [field |-> fields[i], how |-> how]]

EnvelopeRead       == Take("array", <<"envelope_nonce", "envelope_hmac">>)
MaskedResponseRead == Take("array", <<"masked_nonce", "masked_hash", "masked_pk">>)

(* Faulty variant: the nonce is read before the secret key.                  *)
Ke1StateReadNonceFirst(suite) ==
  Take("array", <<"client_nonce">>) \o Take("key", <<"client_e_sk">>)
    \o IF Kem(suite) THEN Take("array", <<"kem_dk">>) ELSE <<>>

Ke1StateRead(suite) ==
  Take("key", <<"client_e_sk">>)
    \o Take("array", <<"client_nonce">> \o IF Kem(suite) THEN <<"kem_dk">> ELSE <<>>)

Ke1MessageRead(suite) ==
  Take("array", <<"client_nonce">>) \o Take("key", <<"client_e_pk">>)
    \o IF Kem(suite) THEN Take("array", <<"kem_ek">>) ELSE <<>>

Ke2MessageRead(suite) ==
  Take("array", <<"server_nonce">>) \o Take("key", <<"server_e_pk">>)
    \o (IF Sigma(suite) THEN Take("key", <<"signature">>) ELSE <<>>)
    \o Take("array", <<"mac">> \o IF Kem(suite) THEN <<"kem_ct">> ELSE <<>>)

Ke3MessageRead(suite) ==
  (IF Sigma(suite) THEN Take("key", <<"client_signature">>) ELSE <<>>)
    \o Take("array", <<"expected_mac">>)

CachedMessageRead ==
  Take("array", <<"blinded_element", "client_nonce", "client_e_pk", "evaluation_element",
                  "masking_nonce">>)
    \o MaskedResponseRead \o Take("array", <<"server_nonce", "server_e_pk", "mac">>)

Ke2StateRead(suite) ==
  CASE suite = "TripleDh"    -> Take("array", <<"session_key", "expected_mac">>)
    [] suite = "TripleDhKem" ->
         Take("array", <<"session_key", "expected_mac", "kem_ek", "kem_ct">>)
    [] suite = "PureEddsa"   ->
         Take("key", <<"client_s_pk">>) \o Take("array", <<"session_key">>)
           \o CachedMessageRead \o Take("array", <<"expected_mac">>)
    [] suite = "PreHash"     ->
         Take("key", <<"client_s_pk">>)
           \o Take("array", <<"session_key", "pre_hash", "expected_mac">>)

CredentialRequestRead(suite) ==
  Take("element", <<"blinded_element">>) \o Ke1MessageRead(suite)

Read(suite) == [
  RegistrationRequest    |-> Take("tail", <<"blinded_element">>),
  RegistrationResponse   |-> Take("element", <<"evaluation_element">>)
                               \o Take("key", <<"server_s_pk">>),
  RegistrationUpload     |-> Take("key", <<"client_s_pk">>)
                               \o Take("array", <<"masking_key">>) \o EnvelopeRead,
  CredentialRequest      |-> CredentialRequestRead(suite),
  CredentialResponse     |-> Take("element", <<"evaluation_element">>)
                               \o Take("array", <<"masking_nonce">>)
                               \o MaskedResponseRead \o Ke2MessageRead(suite),
  CredentialFinalization |-> Ke3MessageRead(suite),
  ClientRegistration     |-> Take("element", <<"oprf_client">>)
                               \o Take("rest", <<"blinded_element">>),
  ClientLogin            |-> Take("element", <<"oprf_client">>)
                               \o CredentialRequestRead(suite) \o Ke1StateRead(suite),
  ServerLogin            |-> Ke2StateRead(suite),
  ServerSetup            |-> Take("array", <<"oprf_seed">>) \o Take("key", <<"server_s_sk">>)
                               \o Take("key", <<"dummy_pk">>) ]

-------------------------------------------------------------------------------
(* Reading: each field is taken off the rest of the input, and the first     *)
(* error is the result.  Which bytes a curve refuses (no point, no scalar in *)
(* range, no canonical number in a signature) is left to the curve; zeros    *)
(* stand for them.  Only an Ed25519 secret key may be any bytes.             *)

Refused(suite, entry, bytes) ==
  /\ entry.how # "array"
  /\ ~(entry.field = "server_s_sk" /\ suite = "PureEddsa")
  /\ ToSet(bytes) = {0}

ShortError(how) ==
  CASE how \in {"array", "key"}    -> "SizeError"
    [] how \in {"element", "tail"} -> "SerializationError"
    [] how = "rest"                -> "LibraryError"

RefusalError(how) == IF how = "key" THEN "SerializationError" ELSE "LibraryError"

(* Faulty variant: the length is not compared with what is left, and what is *)
(* missing is taken for zeros.                                               *)
TakeFieldUnchecked(suite, reader, entry) ==
  LET len  == FieldWidth(suite, entry.field)
      took == TakeArray(reader.rest \o [i \in 1 .. len - Len(reader.rest) |-> 0], len)
  IN  IF reader.outcome # "read" THEN reader
      ELSE IF Refused(suite, entry, took.front)
      THEN [reader EXCEPT !.outcome = RefusalError(entry.how)]
      ELSE [reader EXCEPT !.rest  = took.back,
                          !.taken = Append(@, [field |-> entry.field, bytes |-> took.front])]

TakeField(suite, reader, entry) ==
  LET len  == FieldWidth(suite, entry.field)
      took == TakeArray(reader.rest, len)
  IN  IF reader.outcome # "read" THEN reader
      ELSE IF len > Len(reader.rest)
      THEN [reader EXCEPT !.outcome = ShortError(entry.how)]
      ELSE IF Refused(suite, entry, took.front)
      THEN [reader EXCEPT !.outcome = RefusalError(entry.how)]
      ELSE [reader EXCEPT !.rest  = took.back,
                          !.taken = Append(@, [field |-> entry.field, bytes |-> took.front])]

Deserialize(suite, type, input) ==
  LET entries == Read(suite)[type]
      after[n \in 0 .. Len(entries)] ==
        IF n = 0 THEN [rest |-> input, taken |-> <<>>, outcome |-> "read"]
                 ELSE TakeField(suite, after[n - 1], entries[n])
  IN  after[Len(entries)]

(* Of two fields with the same name the later one.                           *)
Bytes(taken, f) ==
  taken[CHOOSE i \in DOMAIN taken :
          taken[i].field = f /\ \A j \in DOMAIN taken : taken[j].field = f => j <= i].bytes

Serialize(sent, fields) == FlattenSeq([i \in DOMAIN fields |-> sent[fields[i]]])

-------------------------------------------------------------------------------
(* The masked response: the pad covers the server's public key and the       *)
(* envelope, and the result is cut up again at other places.                 *)

(* Faulty variant: the envelope is masked before the public key.             *)
MaskResponseEnvelopeFirst(pad, server_s_pk, envelope) ==
  LET x == Xor(pad, envelope \o server_s_pk)
      n == Width["nonce"]
      h == Width["oprf_hash"]
  IN  [ masked_nonce |-> SubSeq(x, 1, n), masked_hash |-> SubSeq(x, n + 1, n + h),
        masked_pk |-> SubSeq(x, n + h + 1, Len(x)) ]

MaskResponse(pad, server_s_pk, envelope) ==
  LET x == Xor(pad, server_s_pk \o envelope)
      n == Width["nonce"]
      h == Width["oprf_hash"]
  IN  [ masked_nonce |-> SubSeq(x, 1, n), masked_hash |-> SubSeq(x, n + 1, n + h),
        masked_pk |-> SubSeq(x, n + h + 1, Len(x)) ]

UnmaskResponse(suite, pad, masked_response) ==
  LET x  == Xor(pad, masked_response)
      pk == TakeArray(x, FieldWidth(suite, "server_s_pk"))
      nonce == TakeArray(pk.back, Width["nonce"])
  IN  [server_s_pk |-> pk.front, envelope_nonce |-> nonce.front, envelope_hmac |-> nonce.back]

-------------------------------------------------------------------------------
(* What is hashed: fields of a fixed length, and parameters behind a prefix  *)
(* that holds their length.                                                  *)

StrContext == [i \in 1 .. 3 |-> 1]

Prefixed(bytes) ==
  LET length == I2osp2(Len(bytes))
  IN  IF length.ok THEN Ok(length.val \o bytes) ELSE length

SerializedContext(context) == Prefixed(IF context = None THEN <<>> ELSE context)

(* Faulty variant: the default identifier, a key of a known length, bare.    *)
SerializedIdentifierBareKey(id, s_pk) == IF id = None THEN Ok(s_pk) ELSE Prefixed(id)

SerializedIdentifier(id, s_pk) == Prefixed(IF id = None THEN s_pk ELSE id)

AadBytes(server_s_pk, client, server) == server_s_pk \o server \o client

CredentialResponseBytes(f) ==
  f["evaluation_element"] \o f["masking_nonce"]
    \o f["masked_nonce"] \o f["masked_hash"] \o f["masked_pk"]

Ke1Bytes(f) == f["client_nonce"] \o f["client_e_pk"]

TranscriptBytes(suite, f, context, client, server) ==
  StrContext \o context \o client \o f["blinded_element"] \o Ke1Bytes(f)
    \o server \o CredentialResponseBytes(f) \o f["server_nonce"] \o f["server_e_pk"]
    \o IF Kem(suite) THEN f["kem_ek"] \o f["kem_ct"] ELSE <<>>

(* SIGMA-I: post_message for either role, behind the context.                *)
SignedBytes(signer, f, context, id) ==
  StrContext \o context
    \o (IF signer = "Client" THEN id ELSE <<>>)
    \o f["blinded_element"] \o Ke1Bytes(f)
    \o (IF signer = "Server" THEN id ELSE <<>>)
    \o CredentialResponseBytes(f) \o f["server_nonce"] \o f["server_e_pk"]
    \o IF signer = "Client" THEN f["mac"] ELSE <<>>

-------------------------------------------------------------------------------
(* One input is read.                                                        *)

VARIABLES
  suite, type,  \* what is read
  sent,         \* the contents of all fields of this login, at the writer
  input,        \* the bytes that arrived
  reader,       \* the rest of the input, the fields taken, the outcome
  finish        \* what the client makes of a CredentialResponse

vars == <<suite, type, sent, input, reader, finish>>

(* No curve refuses the contents, and the server does not echo.              *)
ASSUME ContentAssumption ==
  \A s \in Suites, salt \in Salts :
    /\ \A f \in Fields : /\ Content(s, salt, f) \in [1 .. FieldWidth(s, f) -> Byte]
                         /\ ToSet(Content(s, salt, f)) # {0}
    /\ Content(s, salt, "evaluation_element") # Content(s, salt, "blinded_element")
    /\ Pad(Content(s, salt, "evaluation_element"), Content(s, salt, "masking_nonce"))
         \in [1 .. Width["nonce"] + Width["oprf_hash"] + Width["static_pk"] -> Byte]

Contents(s, salt) ==
  LET plain  == [f \in Fields |-> Content(s, salt, f)]
      masked == MaskResponse(Pad(plain["evaluation_element"], plain["masking_nonce"]),
                             plain["server_s_pk"],
                             plain["envelope_nonce"] \o plain["envelope_hmac"])
  IN  [f \in Fields |-> IF f \in DOMAIN masked THEN masked[f] ELSE plain[f]]

(* What may arrive: the bytes cut short, with more behind them, or with a    *)
(* part at either end overwritten by zeros.                                  *)
Arrivals(bytes) ==
  Prefixes(bytes)
    \cup {bytes \o extra : extra \in Extras}
    \cup UNION { { [i \in DOMAIN bytes |-> IF i < n THEN 0 ELSE bytes[i]],
                   [i \in DOMAIN bytes |-> IF i > n THEN 0 ELSE bytes[i]] } : n \in DOMAIN bytes }

NotRead     == [rest |-> <<>>, taken |-> <<>>, outcome |-> "received"]
NotFinished == [outcome |-> "none"]

Init ==
  /\ suite \in Suites
  /\ type \in Types
  /\ sent \in {Contents(suite, salt) : salt \in Salts}
  /\ input \in Arrivals(Serialize(sent, Written(suite)[type]))
  /\ reader = NotRead
  /\ finish = NotFinished

deserialize ==
  /\ reader.outcome = "received"
  /\ reader' = Deserialize(suite, type, input)
  /\ UNCHANGED <<suite, type, sent, input, finish>>

(* Where voprf is given all that is left it may object to bytes behind the   *)
(* element; src/ does not say.                                               *)
deserialize_refuses_rest ==
  /\ reader.outcome = "received"
  /\ Last(Read(suite)[type]).how \in {"tail", "rest"}
  /\ LET r == Deserialize(suite, type, input)
     IN  /\ r.outcome = "read" /\ r.rest # <<>>
         /\ reader' = [r EXCEPT !.outcome = "LibraryError"]
  /\ UNCHANGED <<suite, type, sent, input, finish>>

(* The fields as the client sees them: its own, and those of the response.   *)
ClientView ==
  LET taken == {reader.taken[i].field : i \in DOMAIN reader.taken}
  IN  [f \in Fields |-> IF f \in taken THEN Bytes(reader.taken, f) ELSE sent[f]]

Hashed(f, server_s_pk, context, client, server) ==
  [ aad           |-> AadBytes(server_s_pk, client, server),
    transcript    |-> TranscriptBytes(suite, f, context, client, server),
    server_signed |-> SignedBytes("Server", f, context, server),
    client_signed |-> SignedBytes("Client", f, context, client) ]

(* ClientLogin::finish, up to the bytes it hashes.  The envelope opens only  *)
(* if the password key, the server's key and the envelope are those of the   *)
(* registration.                                                             *)
FinishWith(context, ids) ==
  LET f       == ClientView
      opened  == UnmaskResponse(suite, Pad(f["evaluation_element"], f["masking_nonce"]),
                                f["masked_nonce"] \o f["masked_hash"] \o f["masked_pk"])
      client  == SerializedIdentifier(ids.client, sent["client_s_pk"])
      server  == SerializedIdentifier(ids.server, opened.server_s_pk)
      message == SerializedContext(context)
      opens   == /\ f["evaluation_element"] = sent["evaluation_element"]
                 /\ \A g \in DOMAIN opened : opened[g] = sent[g]
      Ends(outcome, hashed) ==
        [outcome |-> outcome, context |-> context, ids |-> ids, hashed |-> hashed]
  IN  IF f["evaluation_element"] = sent["blinded_element"] THEN Ends("ReflectedValueError", None)
      ELSE IF ToSet(opened.server_s_pk) = {0}     THEN Ends("InvalidLoginError", None)
      ELSE IF ~client.ok \/ ~server.ok            THEN Ends("SerializationError", None)
      ELSE IF ~opens                              THEN Ends("InvalidLoginError", None)
      ELSE IF ~message.ok                         THEN Ends("SerializationError", None)
      ELSE Ends("hashed", Hashed(f, opened.server_s_pk, message.val, client.val, server.val))

client_login_finish ==
  /\ type = "CredentialResponse" /\ reader.outcome = "read" /\ finish = NotFinished
  /\ \E context \in Contexts, client, server \in Ids :
       finish' = FinishWith(context, [client |-> client, server |-> server])
  /\ UNCHANGED <<suite, type, sent, input, reader>>

Next == deserialize \/ deserialize_refuses_rest \/ client_login_finish

Spec == Init /\ [][Next]_vars

-------------------------------------------------------------------------------
(* Properties.                                                               *)

Whole    == Serialize(sent, Written(suite)[type])
Complete == IsPrefix(Whole, input)

(* serialize and deserialize agree for every type and suite: when all the    *)
(* bytes arrived, the fields that are read are the fields that were written, *)
(* whatever follows them; only voprf may object to what follows.             *)
ReadBack ==
  Complete /\ reader # NotRead =>
    \/ /\ reader.outcome = "read"
       /\ [i \in DOMAIN reader.taken |-> reader.taken[i].field] = Written(suite)[type]
       /\ \A i \in DOMAIN reader.taken : reader.taken[i].bytes = sent[reader.taken[i].field]
       /\ Whole \o reader.rest = input
    \/ /\ reader.outcome = "LibraryError" /\ input # Whole
       /\ Last(Read(suite)[type]).how \in {"tail", "rest"}

(* An input that is too short by any number of bytes is refused by           *)
(* deserialize, for every type: no field is made up from what is missing.    *)
ShortInputRefused == Len(input) < Len(Whole) => reader.outcome # "read"

(* From a response that arrived whole the client recovers the server's key   *)
(* and the envelope, and hashes the very bytes the server hashed if it was   *)
(* given the same parameters; it refuses only parameters that are too long   *)
(* for the prefix, and says so.                                              *)
ResponseUnderstood ==
  Complete /\ finish # NotFinished =>
    LET given    == {finish.context, finish.ids.client, finish.ids.server} \ {None}
        too_long == {p \in given : Len(p) >= Base * Base}
    IN  IF too_long # {} THEN finish.outcome = "SerializationError"
        ELSE /\ finish.outcome = "hashed"
             /\ finish.hashed =
                  Hashed(sent, sent["server_s_pk"], SerializedContext(finish.context).val,
                         SerializedIdentifier(finish.ids.client, sent["client_s_pk"]).val,
                         SerializedIdentifier(finish.ids.server, sent["server_s_pk"]).val)

(* Reference reader: takes apart a string made of parts of a known length    *)
(* and of parts behind a length prefix (written 0 here).                     *)
UnpackPart(acc, n) ==
  LET len  == IF n = 0 THEN acc.rest[1] * Base + acc.rest[2] ELSE n
      from == IF n = 0 THEN SubSeq(acc.rest, 3, Len(acc.rest)) ELSE acc.rest
  IN  IF (n = 0 /\ Len(acc.rest) < 2) \/ len > Len(from) THEN acc
      ELSE [ parts |-> Append(acc.parts, TakeArray(from, len).front),
             rest  |-> TakeArray(from, len).back ]

Unpack(shape, bytes) ==
  LET after[i \in 0 .. Len(shape)] ==
        IF i = 0 THEN [parts |-> <<>>, rest |-> bytes] ELSE UnpackPart(after[i - 1], shape[i])
  IN  after[Len(shape)]

(* What is hashed can be read in one way only, so two parties that hash the  *)
(* same bytes were given the same context, identifiers and messages: the     *)
(* prefixes stand in front of every part whose length is not fixed.          *)
HashedUnambiguous ==
  finish.outcome = "hashed" =>
    LET f       == ClientView
        context == IF finish.context = None THEN <<>> ELSE finish.context
        client  == IF finish.ids.client = None THEN sent["client_s_pk"] ELSE finish.ids.client
        server  == IF finish.ids.server = None THEN sent["server_s_pk"] ELSE finish.ids.server
        request == <<f["blinded_element"], f["client_nonce"], f["client_e_pk"]>>
        answer  == << f["evaluation_element"], f["masking_nonce"], f["masked_nonce"],
                      f["masked_hash"], f["masked_pk"], f["server_nonce"], f["server_e_pk"] >>
        kem     == IF Kem(suite) THEN <<f["kem_ek"], f["kem_ct"]>> ELSE <<>>
        Fixed(parts)  == [i \in DOMAIN parts |-> Len(parts[i])]
        Is(shape, bytes, parts) == Unpack(shape, bytes) = [parts |-> parts, rest |-> <<>>]
    IN  /\ Is(<<Len(sent["server_s_pk"]), 0, 0>>, finish.hashed.aad,
              <<sent["server_s_pk"], server, client>>)
        /\ Is(<<Len(StrContext), 0, 0>> \o Fixed(request) \o <<0>> \o Fixed(answer \o kem),
              finish.hashed.transcript,
              <<StrContext, context, client>> \o request \o <<server>> \o answer \o kem)
        /\ Is(<<Len(StrContext), 0>> \o Fixed(request) \o <<0>> \o Fixed(answer),
              finish.hashed.server_signed,
              <<StrContext, context>> \o request \o <<server>> \o answer)
        /\ Is(<<Len(StrContext), 0, 0>> \o Fixed(request) \o Fixed(answer) \o <<Len(f["mac"])>>,
              finish.hashed.client_signed,
              <<StrContext, context, client>> \o request \o answer \o <<f["mac"]>>)
===============================================================================
