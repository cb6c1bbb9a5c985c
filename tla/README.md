# A verification of opaque-vx

opaque-vx is a Rust library for OPAQUE (RFC 9807), a password-authenticated key
exchange in which the server never sees the password. The library is sequential
and keeps no state of its own: every call takes values and messages and returns
new ones. Everything that makes it hard is in how applications put the calls
together: many registrations and logins at once, messages lost, delayed, received
twice or by the wrong session, states saved and loaded again after an error, a
server that restarts, private keys kept in another machine, optional parameters
given differently in different places. That is what these modules model, and what
the theorems are about. Paths below are relative to the repository.

## 1. The system

| component | source | state | operations |
|---|---|---|---|
| Registration, client | `src/opaque.rs` `ClientRegistration` | OPRF blinding, blinded element | `start`, `finish`, (de)serialize |
| Registration, server | `ServerRegistration` | none between the steps; the upload becomes the password file | `start`, `start_with_key_material`, `finish` |
| Login, client | `ClientLogin` | OPRF blinding, key-exchange state, the request | `start`, `finish`, (de)serialize |
| Login, server | `ServerLogin` | session key, MAC expected, signature state | `start`, `builder`, `build`, `finish`, (de)serialize |
| Remote keys | `src/messages.rs` `ServerLoginBuilder`; `ServerSetup::key_material_info` | everything but what needs the private key; nothing for the seed | `data`, `build`, serde form; key material of an identifier |
| Server setup | `ServerSetup` | OPRF seed, key pair, dummy key | `new`, `new_with_key_pair`, `new_with_key_pair_and_seed`, (de)serialize |
| Envelope | `src/envelope.rs` | nonce, MAC (mode not written) | `seal`, `open`, `dummy` |
| Key exchange | `src/key_exchange/` | ephemeral keys, nonces, transcript | `generate_ke1`, `ke2_builder`, `generate_ke2_input`, `build_ke2`, `generate_ke3`, `finish_ke`; four suites |
| Parameters | `src/key_exchange/mod.rs`, `src/serialization` | none | defaults and length prefixes of identifiers and context |
| Errors | `src/errors.rs` | none | which error a caller sees |
| Wire formats | `serialize` and `deserialize` of every message and state; `src/serialization` | none | field order, lengths, short and left-over bytes |
| Groups and key pairs | `src/keypair.rs`, `src/key_exchange/group` | the key pair, as its owner keeps it | draw, derive, (de)serialize in two forms, Diffie-Hellman, EdDSA over a streamed message |
| Hashes, KSF | `hash.rs`, `ksf.rs` | none | digests, stretching |

How they interact: a client's `start` yields a request message and a state; the
server's `start` answers it from the setup and (login) a password file; `finish`
consumes the client's state and yields a message for the server; the server's
`finish` consumes the server's. Between the calls only serialized values exist.
`ServerLogin::start` is `builder`, `generate_ke2_input` with the local private
key, and `build`; with a remote key the application makes the three calls, and the
middle one is made elsewhere. With a remote OPRF seed the key material of a
credential identifier is fetched beforehand and given to `start_with_key_material`
or `builder_with_key_material`, which cannot tell what it was derived from.

What is hard: two logins of one user with crossed messages; a retry from a saved
state; a record that is replaced, or a setup that is made anew, while a login is
in flight; answers of a remote key that reach another builder, or come after a
restart; key material of another identifier or of an earlier setup; key pairs that
are written in one form and read in another; parameters given again in `finish`; an unregistered user answered from a dummy record; every
failure reported as the one `InvalidLoginError`. `PROJECT.json` lists them under
`hazards`, each at its line.

What makes each part correct:
- *login*: a session key is returned only if a peer holds the same key for the
  same request, response, context and identifiers; a login that should work does;
- *registration*: a login that works has a registration behind it, with the same
  password, stretching, identifiers, seed and credential identifier;
- *setup*: it survives a restart, as does what can be kept of a begun login;
  *remote keys*: a mixed-up answer is noticed;
- *keys*: a key pair is read back as it was written, bytes are taken for the key
  they are the form of or refused, two owners reach the same secret, and a signature
  does not depend on how the message was cut;
- *errors*: a failure tells only what it must; *progress*: a retry gets through;
- *wire formats*: what is read is what was written, a piece that is missing is
  noticed, and what is hashed can be read in one way only.

## 2. The modules

```
Primitives <- Parameters <- Envelope    <-+
                         <- KeyExchange <-+- Protocol <- Opaque <- OpaqueProperties <- MCOpaque
                                                                        |      |
                                              AuthenticatedLogin  <-----+      |
                                                   (INSTANCE)                  |
proofs:  OpaqueCompletion -> OpaqueLogins -> OpaqueResults                     |
            -> OpaqueHistory -> OpaqueRefinement -> OpaqueProofs --------------+

Wire <- MCWire        Keys <- MCKeys
proofs:  Wire <- WireProofs        Keys <- KeysProofs
```

- `Primitives`: the operations of other crates, as a free algebra. Two terms are
  equal exactly when built alike. Products of a Diffie-Hellman exchange are the
  set of both private keys, so both ends reach the same one; an OPRF element is
  the password, the blinding and the set of keys it has been through. A random
  value carries the session that drew it. Three operations may refuse what the
  application gives them: voprf's `blind` and `finalize` a password
  (`BlindRefuses`, `FinalizeRefuses`), and the stretching function, which may be the
  application's own, whatever it is asked for (`KsfRefuses`). Which input is refused
  is a constant, so a stretching that fails once and works the next time is a retry
  with another member of `Ksfs`. `OprfOutput` and `Hardened` are the results if not.
- `Parameters`: `SerializedContext`, `SerializedIdentifiers`, `i2osp` at width
  two. An absent context is the empty one; an absent identifier is the public key;
  a value of 2^16 bytes and more (a member of `TooLong`) is refused.
- `Envelope`: seal, open, the dummy, and the loss of the mode when written.
- `KeyExchange`: the four suites, selected by `Suite`: `TripleDh`, `TripleDhKem`
  (with ML-KEM), `PureEddsa` (SIGMA-I, the message kept until `finish`) and
  `PreHash` (SIGMA-I with ECDSA or HashEdDSA, a hash of it kept). `FinishKe` of the
  3DH suites ignores identifiers and context, as the code does.
- `Protocol`: what every public operation of `opaque.rs` computes, as operators
  that return `Ok` or `Err`, in the order in which the code makes its checks.
  `PasswordDerivedKey` fails if either of its two steps does, and both `finish`
  operations of the client pass its error on.
  Unmasking with a wrong key gives noise, which may or may not parse as a key, so
  `FinishClientLogin` returns a set of results.
- `Opaque`: the state machine. `registration`, `client` and `server` map sessions
  to what the application holds; `files` are the password files; `setup` is the
  server's setup and `used` the generations made so far; `net` is every message
  ever sent. An action is one call of the library, with any message of its type
  from `net` and any parameters:

A `start` that voprf refuses to blind for changes nothing and is no step.

| action | code |
|---|---|
| `ClientRegistrationStart`, `ClientRegistrationFinish` | `ClientRegistration::start`, `finish` |
| `ServerRegistrationStart`, `ServerRegistrationFinish` | `ServerRegistration::start`, `finish` and storing the file |
| `AskKeyMaterial` | `ServerSetup::key_material_info` and the HKDF call that the holder of a remote seed makes with it |
| `ServerRegistrationStartWithKeyMaterial`, `ServerLoginBuilderWithKeyMaterial` | `start_with_key_material`, `builder_with_key_material`, with any answer of the seed's holder |
| `ClientLoginStart`, `ClientLoginFinish` | `ClientLogin::start`, `finish` |
| `ServerLoginStart` | `ServerLogin::start` |
| `ServerLoginBuilder`, `ServerLoginBuild` | `ServerLogin::builder` with `data()` sent to the key's holder; `build` with any answer |
| `ServerLoginFinish` | `ServerLogin::finish` |
| `...Restore` | `deserialize` of the saved copy of a state that a failed `finish` consumed |
| `ServerRestart` | `ServerSetup::serialize`, `deserialize`; builders leave the memory |
| `ServerLoginBuilderRestore` | the serde form of a SIGMA-I `ServerLoginBuilder` |
| `ServerSetupNew`, `ServerSetupNewWithKeyPair`, `ServerSetupNewWithKeyPairAndSeed` | `ServerSetup::new`, `new_with_key_pair`, `new_with_key_pair_and_seed` |
| `ReflectRegistration`, `ReflectLogin` | the echoing server of `src/tests/full_test.rs` (only with `Reflecting`) |

  The password file is looked up under one name and the credential identifier is
  given beside it, so they may differ; `lib.rs` makes that the application's
  responsibility. With `RemoteSeed` the seed is not at the server: the calls that
  need it are disabled, and registration and login take any `KeyMaterial` answer.
  Fields that are history, and that no operation reads: `given`,
  `builder`, `input` of an answered server login, `origin` of a registration
  response or of key material, `password`, `final`, `params`, `response` of a client session.
- `AuthenticatedLogin`: the abstract specification. A server login offers a new
  key for one request; a client accepts an offer for its own request; a server
  login confirms only after its offer was accepted.
- `OpaqueProperties`: invariants, refinement mapping, fairness, progress.
- `MCOpaque`: the symmetry sets.
- `OpaqueProofs`: type correctness and agreement. `OpaqueRefinement`: that `Opaque`
  implements `AuthenticatedLogin`. `OpaqueHistory`: where every message and every
  result comes from. `OpaqueResults`: why calls fail. `OpaqueLogins`: what stands
  behind a login that succeeded. `OpaqueCompletion`: that a login which should
  succeed does. `KeysProofs`, `WireProofs`: the properties of `Keys` and of `Wire`.
  Section 4 goes through them.
- `Wire`: the byte formats, for which `Opaque` has records and tuples. `Written`
  and `Read` give the fields of every type in the order of `serialize` and of
  `deserialize`; `TakeField` is `take_array` with the checks around it, and
  `Deserialize` stops at the first error. A behaviour reads one input
  (`deserialize`); if it is a `CredentialResponse`, `client_login_finish` unmasks
  it and writes down what is hashed: the associated data of the envelope, the
  transcript, and in SIGMA-I the two signed messages. Digests, MACs and curves are
  left out; zeros stand for the bytes a curve refuses. What voprf does with bytes
  behind an element, where it is given all that is left, is in none of this code:
  both outcomes are allowed (`deserialize_refuses_rest`). `HashedUnambiguous`
  is what justifies the tuples of `Opaque`: equal bytes have equal parts.
  What the fields hold, what the response is masked with and exclusive or are constant
  operators (`Content`, `Pad`, `XorByte`), of which `WireAssumption`, `XorAssumption`
  and `ContentAssumption` say what is used of them: widths, that no curve refuses what
  an honest party writes, that masking twice is the identity.
  `MCWire`: these operators, widths, parameters and what follows the last field.

- `Keys`: `keypair.rs` and the groups. `Opaque` takes keys for terms; here they are
  numbers, in a group of prime order `Order` whose elements are the multiples of a
  base point, with `Bytes` byte strings, more than there are scalars. So the rules of
  the groups differ as they do in the code: scalars drawn modulo the order and
  written canonically (ristretto255, the NIST curves), clamped strings
  (Curve25519), seeds that are expanded by a hash (Ed25519). An owner makes a pair
  (`Random`, `DeriveRandom`) or loads one (`Deserialize`), saves it in the library's
  form or in serde's, and comes back with what it saved (`Save`, `Load`); owners
  read each other's public keys (`Receive`) or sign (`Sign`). The model of
  Curve25519 identifies a point with its negative, as the u-coordinate does.
  The hash is a constant operator, `Digest`. The assumptions say of it and of the
  order what is true of the real ones (section 4), and TLC evaluates them.
  `MCKeys`: the seeds, the texts, the forms and a hash.

Definitions that begin with *Faulty variant* change the definition below them as a
plausible bug would; nothing uses them, and each property named in `PROJECT.json`
under `mutants` fails when its variant is put in place.

## 3. The runs

All passing runs explore their whole state space. Deadlock is not checked: the
sessions of an instance are finite and end.

| run | instance | what it shows | states |
|---|---|---|---|
| `agreement_kem` | 3DH and ML-KEM, 2 clients, 2 server logins | `ClientAgreement`, `ServerAgreement`; with `ImplementsLogin` every step is a step of the abstract login; `MatchingLoginNotRefused`: both ends reach the same four secrets | 3617 |
| `agreement_prehash` | SIGMA-I with a hash, 2 and 2, fairness | `ServerAgreement`, `RemoteKeyBound`: a client does not accept a login built with the answer to another builder, nor after a builder was restored; `MatchingFinalizationNotRefused`: a server login that failed did not fail on the finalization of its own client; `ServerConfirms`: it ends with the session key once it is given that one again; `SessionKeysPair`: a session key has one holder on either side, and these agree | 5908 |
| `parameters_3dh` | absent and too long client identifiers, absent and empty server identifiers, absent, empty, given and too long contexts, 2 passwords, one of which voprf refuses, 2 stretchings, one of which fails, echoes | `ClientAgreement`: the key binds the parameters; `FailuresExplained` | 196003 |
| `parameters_pure` | PureEdDSA, absent, empty and too long client identifiers, absent and given server identifiers, the same contexts, no echoes, fairness | `FinishChecksClient`, `LoginNeedsRegistration`; `ServerConfirms`: a server login ends after finishing with wrong parameters | 14294 |
| `passwords` | 3DH, 2 registrations, 2 passwords, 2 server logins | `TypeOK` through failures and restores; `FailuresExplained` for wrong passwords; `ServerAgreement` and `LoginNeedsRegistration` when the file is replaced and passwords differ between start and finish | 17379 |
| `setups` | remote seed, 2 credential identifiers, 2 generations of the setup, restarts | `MatchingLoginNotRefused`, `LoginNeedsRegistration` across a change of seed, key or both, with key material of any identifier and generation | 39036 |
| `progress` | PureEdDSA, 2 server logins, 2 passwords, fairness | `ClientCompletes`; `BuilderAnswers` across restarts | 4653 |
| `wire` | 10 types, 4 suites, 3 contents; every cut, 2 extensions, every front or end zeroed | `ReadBack`, `ShortInputRefused`; for a response `ResponseUnderstood`, `HashedUnambiguous` with 7 identifiers for either side and 5 contexts | 19945 |
| `keys` | 4 groups of order 13, 32 byte strings, 2 owners, 7 seeds, 2 texts | `KeysSurvive`, `LoadedAsGiven`, `SecretsAgree`, `SignaturesVerify` | 36285 |
| `finish_identifiers` | 3DH, 2 client identifiers | violated: see the findings | |
| `keys_serde` | Ed25519 in serde's form | `KeysSurvive` violated: see the findings | |
| `finish_errors` | 3DH, a stretching that fails | `FinishFailsAsInvalidLogin` violated: see the findings | |

*Bounds.* The only unbounded growth is in sessions, so the sets of sessions bound
everything: a registration, client login or server login is started once, and
`Setups` bounds the setups made. Two logins on each side are enough for every
crossing of messages (a third would be interchangeable with one of them, and the
theorems cover any number); two passwords, identifiers, seeds and credential
identifiers are enough for right and wrong, as only equality tells them apart. One
value stands for each class the code distinguishes: absent, empty, given, too
long; a password or stretching that is refused, and one that is not. That an empty
identifier is none that is absent is exercised for the server's in `parameters_3dh`
and for the client's in `parameters_pure`, and byte by byte in `wire`. `ServerRegistrationStart` is not bounded; its messages are finite in number.

In `wire` a byte is one of four values, so a two-byte prefix reaches to 15 and a
parameter of 16 bytes is one too long. The kinds of field have lengths from one to
three, different where a mistaken order would otherwise go unseen, and contents
that tell every field of one login from the others it may be confused with.
Parameters include those whose bytes look like a prefix. Nothing in the code
depends on the real lengths (they are type parameters), nor on a byte's value
except for the refusals.

In `keys` the order is 13 and there are 32 byte strings, so that zero, small
scalars, clamped and unclamped strings, the order itself and strings above it are
all among the seeds; a power of two divided by the order leaves a remainder, as it
does for the real groups. `MCDigest` is a function that keeps different inputs
apart well enough to tell the faulty variants; a real one would be too long for
TLC. Two signatures are enough to compare one made before and one after a restart.

*Symmetry* is used in `passwords` and `setups`, safety runs, only, and never
together with `ImplementsLogin` or fairness. The sets permuted are ones that the
model compares for equality only.

`ClientCompletes` runs with PureEdDSA, which derives its keys from one secret, so it
says nothing of the order in which the secrets of 3DH are taken; `agreement_kem` does.
The plain 3DH suite, with one secret fewer, is that of `parameters_3dh`, `passwords` and
`setups`.

*Fairness* (`FairSpec`, `ConfirmingSpec`). The library does not schedule anything; fairness is what
an application can promise: it loads the saved copy after a failure (weak
fairness of the restores), and a user who keeps typing his password and a network
that keeps delivering the right response eventually meet in one call (strong
fairness of `Delivered` and `Confirmed`, strong because a failure with another
response takes the session away from `started` in between). For `BuilderAnswers`
the answer of the private key's holder meets its builder (strong fairness of
`KeyAnswered`, strong because a restart takes the builder away, and
`ServerLoginBuilderRestore`, weakly fair, brings it back). `FairSpec` assumes
what clients and the key's holder do, `ConfirmingSpec` what servers do with
finalizations; nothing is assumed of other calls or of other messages.

*First finding.* `lib.rs` says that failing to supply the same identifiers in any of
the three steps, `ServerLogin::finish` included, results in an error. `finish_ke`
of `tripledh.rs` and `tripledh_kem.rs` ignores them, so with 3DH no error results
(`FinishChecksIdentifiers` is violated). What is agreed upon is not affected: the
identifiers of `start` are in the transcript. PureEdDSA compares the context and
the client identifier (`FinishChecksClient` holds); the server identifier, and for
ECDSA and HashEdDSA the other two as well, are not looked at there either.

*Second finding.* The `Serialize` of Ed25519's `SigningKey` writes the seed bytes, its
`Deserialize` reads them as a `Scalar` of curve25519-dalek, which must be below the
group order (`ed25519.rs`, lines 357, 365 and 382). A seed is any 32 bytes, so most
key pairs that serde wrote it refuses to read (`keys_serde`); the
library's own form is not affected (`keys`). `lib.rs` offers serde as the
alternative to that form.

*Third finding.* `lib.rs` says of `ClientLogin::finish` and of
`ServerLogin::finish` that on failure they output an `InvalidLoginError`. The
client's also returns the errors of `get_password_derived_key`, so that of a
custom stretching function, as `lib.rs` itself shows one (`finish_errors`),
besides `ReflectedValueError` and `SerializationError`; the server's returns
`SerializationError` for a context, and in PureEdDSA for an identifier, that is
too long. The trace of the run is the first of these. `FailuresExplained` says
what is true instead: none of these depends on the peer's secrets. A reflected
element the client can see, and everything else but `InvalidLoginError` comes from
its caller's own input.

## 4. The proofs

The proofs about `Opaque` hold for every number of sessions, passwords, parameters
and setups, for every suite, with or without echoes and a remote seed; those about
`Keys` for every number of owners, every odd order and every hash; those about
`Wire` for every base and width, every content and mask, and every input.

| theorem | module | states |
|---|---|---|
| `TypeCorrect` | `OpaqueProofs` | `TypeOK`: a session's state is still the one its `start` computed, files are uploads as sent, the server's public key is the one of its private key |
| `ClientsAgree`, `ServersAgree` | `OpaqueProofs` | `ClientAgreement`, `ServerAgreement` |
| `OpaqueImplementsLogin` | `OpaqueRefinement` | `ImplementsLogin`, the refinement |
| `SessionKeysArePaired` | `OpaqueRefinement` | `SessionKeysPair` |
| `FailuresAreExplained` | `OpaqueResults` | `FailuresExplained` |
| `FinishChecksTheClient` | `OpaqueLogins` | `FinishChecksClient`, for `Suite = "PureEddsa"` (the other suites do not check, see the first finding) |
| `RemoteKeysBound` | `OpaqueLogins` | `RemoteKeyBound` |
| `LoginsNeedRegistrations` | `OpaqueLogins` | `LoginNeedsRegistration` |
| `MatchingLoginsSucceed` | `OpaqueCompletion` | `MatchingLoginNotRefused`, if `NoneIsNoRecord` |
| `MatchingFinalizationsSucceed` | `OpaqueCompletion` | `MatchingFinalizationNotRefused` |
| `KeyPairsSurvive` | `KeysProofs` | `KeysSurvive`, if Ed25519 pairs are not stored with serde (the second finding) |
| `KeysLoadedAsGiven` | `KeysProofs` | `LoadedAsGiven` |
| `SecretsAreShared` | `KeysProofs` | `SecretsAgree` |
| `SignaturesAreAccepted` | `KeysProofs` | `SignaturesVerify` |
| `ShortInputsRefused` | `WireProofs` | `ShortInputRefused` |
| `WrittenIsReadBack` | `WireProofs` | `ReadBack` |
| `ResponsesUnderstood` | `WireProofs` | `ResponseUnderstood` |
| `HashedOneWay` | `WireProofs` | `HashedUnambiguous` |

*Assumptions*: the named `ASSUME`s of `Parameters`, `KeyExchange`, `Opaque`, `Keys`
and `Wire`, and the algebra of `Primitives`: MACs, signatures, products and derived keys
are injective, as terms are. `NoneIsNoRecord` says that `None` is no password file;
Rust's `Option` gives it, and in TLA+ nothing else tells `None` from a record.

*Agreement* (`IInv`) is not inductive: nothing in it says where an accepted MAC
can come from. `IInv` adds that
1. requests consist of their two parts (`RequestsFormed`), and a server login works
   with the request it was given (`ViewOK`) and sends and keeps what its builder
   and its input make, whichever input it was handed (`ServerBuilt`);
2. every response carries the KE2 message of an answered login, echoes included,
   as these replace the evaluation element only (`ResponsesAnswered`);
3. the key and the MAC of a finished client come from one list of secrets and from
   its transcript (`ClientDerived`), and finalizations come from finished clients
   (`FinalizationsDone`).

Then the MAC a client accepts is the MAC of some answered login; equal MACs have
equal MAC keys, which were expanded from equal secrets and transcripts
(`ServerMacBinds`), so the session keys are equal, and a transcript can be taken
apart into request, response, context and identifiers (`SameTranscript`). The same
from the MAC a server expects to the client that sent it (`ClientKeyBinds`). That
the client hashed the identifiers it says it did needs that an opened envelope was
not noise (`NoiseDoesNotOpen`). An agreement stays: finished clients do not change,
and answered logins keep what they answered (`DoneStays`, `AnsweredStays`). The
proof never asks whether the secrets are right, so it covers answers of the key
holder that reach the wrong builder.

*The refinement* (`RInv`) maps a login to what it hashed and to its key (`RequestOf`, `OfferOf`,
`AcceptedBy`). What has not happened yet is `NotYet`, the empty sequence, which no
record equals as it has another domain. Agreement is what an abstract `Accept` and
`Confirm` ask for. `Begin` and `Offer` ask for more, so `RInv` adds to `IInv` that
every request on the wire is the one of a login that was begun (`RequestsMade`: a
new request differs from all others by the nonce its session drew) and that a server
login hashes the nonce it drew itself (`NoncesOwn`: keys of two server logins come
from transcripts with different nonces, so a new offer has a new key, whatever
requests and answers the two were given). Each call of the library is then one
abstract step (`StartBegins`, `AnswerOffers`, `FinishAccepts`, `FinishConfirms`) or
is not seen (`Unseen`): failures, restores, restarts, new setups, registrations. A
second `finish` of a client is ruled out by the state it consumes.

*Session keys* (`SessionKeysPair`) are paired by the same facts: two server logins with
one key would have hashed one nonce (`ServerKeysDiffer`), so the server login that
agrees with a client is the only one with its key (`SameKeyAgrees`); two clients with
that key made one request and are one (`ClientRequestsDiffer`). It says more than the
refinement in one respect: equal keys alone, whoever holds them, mean agreement.

*History* (`HInv`). Neither invariant says which calls a session has made, so
`HInv` adds to `RInv` that
1. every message is the work of a session that still holds what it was made from:
   requests of a begun registration, responses the evaluation of (or the echo of) an
   element that was blinded, uploads of a finished registration, key material and
   answers of the key holders derived from what they were asked
   (`RegistrationRequestsMade` to `RemoteAnswersMade`);
2. builders are what the operations compute from what the login was given, under
   some setup (`BuildersMade`), and in SIGMA-I, where builders are not lost, the input
   a login was completed with is the answer to some login's builder (`InputsMade`);
3. a session that ended, well or not, is at a result of its `finish` on a response
   that was sent and on the parameters it keeps (`RegistrationsEnded`, `ClientsEnded`,
   `ServersEnded`), and one that was refused at `start` had a reason (`Refusals`).

The rest follows from `HInv` alone, without another induction:

- *Failures.* The result of a failed session is taken apart along the checks of
  `finish`, one lemma for each operation of `Protocol`; `PasswordKeyOutcome` says when
  the password-derived key is not there. An element that has been
  through the server's key never equals a blinded one, so `ReflectedValueError`
  means an echo.
- *What a login goes back to.* A client that succeeded has compared the server's MAC
  and signature. By agreement it has a server login with the same transcript and the
  same secrets. In 3DH the product of the server's private key with the client's
  ephemeral key is among these (`ProductBound`), in SIGMA-I it is the signature
  (`SignatureBound`): either names the key that the answer was made with, hence
  `RemoteKeysBound`. The envelope opened, and its MAC key is derived from the
  stretched OPRF output: so password, OPRF key and stretching are those of whoever
  sealed it (`PasswordKeyBinds`, `OprfKeyBinds`), and the sealed record is the upload
  of a finished registration or a dummy (`UploadHeld`, `AcceptedRecord`); a dummy does
  not open. That gives `LoginsNeedRegistrations` and the export key.
- *PureEdDSA's finish* compares the client's signature with one over the context and
  the identifier it is given; a client that signed has these in its transcript.
- *Completion.* For a login that `Matching` describes, every check of `finish` is gone
  through in its order: the element is not an echo, the password and the stretching
  were not refused at the registration (`MatchingPasswordUsable`), the password key unmasks, the
  envelope opens, each of the four secrets is the server's (`MatchingSecrets`), the
  MAC and the signature are as expected. `LoginsNeedRegistrations` is the converse:
  together they say which logins succeed. On the server's side the record must name
  the key with which the client signed: the envelope that opened was sealed with that
  record (`AcceptedClientKey`). The MACs then agree as the secrets and transcripts do
  (`ExpectedMac`), and what the holder of the private key left to verify is what the
  client signed (`ExpectedSignature`), as the input is the answer to the login's own
  data (`RemoteKeysBound`).

*Keys* (`KInv`) says that what an owner holds is what it began with or, only for an
Ed25519 pair in serde's form, was refused; that what is saved is a form of it; that
peers hold its public key; and that a signature is the one made of its text in one
part. Under that lie lemmas about the groups: clamping is idempotent
(`ClampIdempotent`); a clamped string is even and below twice the order, which is
odd, and therefore no multiple of it (`ClampedNotZero`, the reason why no honest
Curve25519 key is refused); `derive_key` finds a scalar (`DerivedKey`, by the least
element of a set of counters); a point and its negative give the same u-coordinate
after multiplication (`NegatedFactor`, `SharedSecret`); the equation of EdDSA
(`SignatureEquation`); the parts of a message make up the text (`CutsMakeText`).
`KeysAssumption` asks that the order is odd and that twice the order is not below
any clamped string, with one cleared bit in place of the three of Curve25519 and
their cofactor; `DigestAssumption` that a digest is as long as two strings, and that
some counter gives each seed a scalar that is not zero (`derive_key` fails
otherwise). That the order is prime is not needed.

*Wire* (`WInv`) says that the reader is at the result of `Deserialize`, or at voprf's
objection to it, and the client at a result of `FinishWith`. It is inductive as it
stands; the work is in what these operators compute. They are recursive functions
over fields and bytes, so each is first shown to satisfy its equation
(`FlatParts`, `AfterFields`, `UnpackingParts`, by the least number at which it would
not, `LeastNumber` and `NumbersUpTo`). Then:

- *Formats.* `Reads` relates what `deserialize` takes off to what `serialize` writes,
  field by field. It holds for single fields and is preserved when formats are put
  behind each other, which gives all ten types in all four suites (`ReadsAll`).
- *Reading.* After `n` fields the reader holds the slices of the input between the
  ends of the first `n` fields as written, and the rest (`Sliced`, `ReadInSlices`).
  A reader that is not stopped has therefore compared the length of the whole message
  with the input: `ShortInputsRefused`. If the input begins with what was written, its
  slices are the contents (`SlicesHoldContents`), which no curve refuses
  (`CompleteIsRead`): `WrittenIsReadBack`.
- *The response.* What is masked, cut at other places, joined and masked again is what
  it was (`MaskedParts`, `XorBytes`), and is cut apart at the widths of the key and the
  nonce (`ClientUnmasks`). With the fields read back the client computes what the server
  does: `ResponsesUnderstood`.
- *What is hashed.* `Packed` says that a string consists of pieces of a shape: bare, or
  behind their length. It is preserved by concatenation (`PackedConcat`), it holds
  for a prefixed parameter and for fields (`PackedPrefix`, `AllFixed`), hence for the
  four strings (`HashedPacked`), and a string that is packed is taken apart by
  `Unpack`, which does not know the parts (`UnpackPacked`): a prefix is read as the
  number that was written (`LengthDigits`). This asks nothing of the message but
  that each field the client sees has bytes (`ViewFilled`), so it covers damaged
  messages as well.

`IInv`, `HInv`, `KInv` and `WInv` were checked by TLC on the instances of the runs,
`IInv` and `HInv` on echoing ones as well, before they were proved.

*Only model-checked*: the progress properties `ClientCompletes`, `ServerConfirms` and
`BuilderAnswers`, as liveness under fairness is outside what the proof system can do. What is proved
of the first two is that the calls their fairness counts on do not fail
(`MatchingLoginsSucceed`, `MatchingFinalizationsSucceed`), so that progress rests on
the calls being made.
Every safety property that a passing run checks has a theorem.

## 5. What is not modelled, and what is abstracted

- There is no adversary: messages are whole and unchanged, except for echoes and
  for parameters and answers that the application mixes up. Nothing here is a
  statement about secrecy.
- In `Opaque` a message travels as a record, and whole; `Wire` reads bytes, one
  input at a time. The two are connected by what `Wire` shows (a whole input is read
  back, hashed parts can be told apart), not by a refinement. Derived serde forms, the
  texts and numbers in a `SizeError` and the builder's `data` are left out.
- Curve arithmetic, cofactors and encodings of points, hashes, ML-KEM and signature
  internals other than EdDSA's; which points do not decode. `Keys` has one small
  cyclic group in their place.
- Of the `LibraryError`s those of `blind`, `finalize` and the stretching function are
  modelled, and `SealOpenHmacError`. The others are left out: the HKDF and HMAC
  errors, as lengths are fixed by types; an OPRF key whose derivation finds no scalar
  in 256 attempts; an encapsulation key that does not decode, which no honest client
  sends.
- `finish` consumes its value, so a finished session is not loaded again; only
  failed ones are. Of the builders only SIGMA-I's come back after a restart: 3DH's
  serde form needs one of the running hash, which the hash functions used do not
  have, and the hybrid's builder derives none.
- The serde forms of other types are those that serde derives, and of the curves
  of other crates those crates' own.
- Cipher-suite traits, derived serde code, examples and benchmarks. The examples
  make one registration or login at a time, all steps in order, which is among the
  behaviours of `Opaque`; the locker's AEAD cipher is another crate's.

## 6. Plan

1. *Done*: the core, its runs, type correctness and agreement proved.
2. *Model*: done are the byte formats (`Wire`), the remote OPRF seed, all the
   constructors of the setup and builders across restarts (`Opaque`), and keys
   (`Keys`). Left: an encapsulation key that `ke2_builder` of the KEM suite cannot
   decode; the labels of `hkdf_expand_label`.
3. *Prove*: done are all safety properties of `Opaque`, `Keys` and `Wire`, and the
   refinement. Left: nothing that a run checks, except for progress.
