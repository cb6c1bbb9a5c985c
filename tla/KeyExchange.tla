----------------------------- MODULE KeyExchange ------------------------------
(***************************************************************************)
(* key_exchange: the three-message authenticated key exchange, in its four *)
(* implementations.  Suite selects one:                                    *)
(*   "TripleDh"     tripledh.rs                                            *)
(*   "TripleDhKem"  tripledh_kem.rs (3DH and a key-encapsulation secret)   *)
(*   "PureEddsa"    sigma_i with pure_eddsa.rs (keeps the message)         *)
(*   "PreHash"      sigma_i with ecdsa.rs or hash_eddsa.rs (keeps a hash)  *)
(* A field that a suite does not have is None, so that all four have the   *)
(* same record shapes.                                                     *)
(***************************************************************************)
EXTENDS Parameters

CONSTANT Suite

Suites == {"TripleDh", "TripleDhKem", "PureEddsa", "PreHash"}

ASSUME SuiteAssumption == Suite \in Suites

Sigma == Suite \in {"PureEddsa", "PreHash"}
Kem   == Suite = "TripleDhKem"

-------------------------------------------------------------------------------
(* KE1: the client's nonce and ephemeral key, drawn by session s.            *)

Ke1State(s) ==
  [ client_e_sk  |-> <<"client_e", s>>,
    client_nonce |-> <<"client_nonce", s>>,
    kem_dk       |-> IF Kem THEN <<"kem_dk", s>> ELSE None ]

Ke1Message(state) ==
  [ client_e_pk  |-> Pk(state.client_e_sk),
    client_nonce |-> state.client_nonce,
    kem_ek       |-> IF Kem THEN Pk(state.kem_dk) ELSE None ]

-------------------------------------------------------------------------------
(* What both sides hash.  A cache is everything that went over the wire up   *)
(* to and including the server's nonce and ephemeral key.                    *)

Cache(request, ke1, response, server_nonce, server_e_pk, kem_ct) ==
  [ request |-> request, ke1 |-> ke1, response |-> response,
    server_nonce |-> server_nonce, server_e_pk |-> server_e_pk, kem_ct |-> kem_ct ]

(* Faulty variant: the context is left out of the transcript.                *)
TranscriptWithoutContext(context, identifiers, cache) ==
  <<identifiers.client, identifiers.server, cache>>

Transcript(context, identifiers, cache) ==
  <<context, identifiers.client, identifiers.server, cache>>

(* The secrets that enter the key derivation, in order.                      *)
Ikms(ss1, ss2, ss3, kem) ==
  IF Sigma THEN <<ss1>>
  ELSE IF Kem THEN <<ss1, ss2, ss3, kem>> ELSE <<ss1, ss2, ss3>>

DeriveKeys(ikms, transcript) ==
  LET handshake_secret == Expand(ikms, "HandshakeSecret", transcript)
  IN  [ session_key |-> Expand(ikms, "SessionKey", transcript),
        km2 |-> Expand(handshake_secret, "ServerMAC", "empty"),
        km3 |-> Expand(handshake_secret, "ClientMAC", "empty") ]

(* The MACs of the two sides: over the transcripts in 3DH, over the          *)
(* identifiers in SIGMA-I.                                                   *)
ServerMac(keys, identifiers, transcript) ==
  Hmac(keys.km2, IF Sigma THEN identifiers.server ELSE transcript)

ClientMac(keys, identifiers, transcript, server_mac) ==
  Hmac(keys.km3, IF Sigma THEN identifiers.client ELSE <<transcript, server_mac>>)

-------------------------------------------------------------------------------
(* SIGMA-I: what each role signs.  The roles' messages differ in where the   *)
(* identifier stands and in the server's MAC, which only the client signs.   *)

SignedMessage(signer, context, id, cache, server_mac) ==
  IF signer = "Client" THEN <<context, id, cache, server_mac>>
                       ELSE <<context, cache, id>>

(* Message::sign_message, and the other side's message to verify.            *)
OtherRole(role) == IF role = "Server" THEN "Client" ELSE "Server"

PostMessage(m, stage) ==
  LET signer == IF stage = "Sign" THEN m.role ELSE OtherRole(m.role)
  IN  SignedMessage(signer, m.context,
        IF signer = "Server" THEN m.identifiers.server ELSE m.identifiers.client,
        m.cache, m.server_mac)

(* Faulty variant: the server's MAC is left out of what is verified.         *)
VerifyStateWithoutMac(m) ==
  IF Suite = "PureEddsa" THEN [cache |-> m.cache, server_mac |-> None]
                         ELSE PostMessage([m EXCEPT !.server_mac = None], "Verify")

(* What SignatureProtocol::sign leaves for verify.                           *)
VerifyState(m) ==
  IF Suite = "PureEddsa" THEN [cache |-> m.cache, server_mac |-> m.server_mac]
                         ELSE PostMessage(m, "Verify")

(* verify(): only PureEdDSA looks at the context and identifier given now.   *)
MessageToVerify(role, context, id, state) ==
  IF Suite = "PureEddsa"
  THEN SignedMessage(OtherRole(role), context, id, state.cache, state.server_mac)
  ELSE state

-------------------------------------------------------------------------------
(* KE2, in the three steps a remote private key needs: a builder, the input  *)
(* computed with the private key from the builder's data, and the message.   *)

Ke2Builder(h, request, ke1, response, client_s_pk, identifiers, context) ==
  LET server_e_sk == <<"server_e", h>>
      cache == Cache(request, ke1, response, <<"server_nonce", h>>, Pk(server_e_sk),
                     IF Kem THEN Encapsulate(ke1.kem_ek, h) ELSE None)
  IN  [ context |-> context, identifiers |-> identifiers, cache |-> cache,
        client_s_pk |-> client_s_pk,
        shared_secret_1 |-> DH(server_e_sk, ke1.client_e_pk),
        shared_secret_3 |-> IF Sigma THEN None ELSE DH(server_e_sk, client_s_pk),
        kem_shared_secret |-> IF Kem THEN EncapsulatedSecret(ke1.kem_ek, h) ELSE None ]

(* In SIGMA-I the keys do not depend on the private key.                     *)
BuilderKeys(b, shared_secret_2) ==
  DeriveKeys(Ikms(b.shared_secret_1, shared_secret_2, b.shared_secret_3, b.kem_shared_secret),
             Transcript(b.context, b.identifiers, b.cache))

BuilderServerMac(b, shared_secret_2) ==
  ServerMac(BuilderKeys(b, shared_secret_2), b.identifiers,
            Transcript(b.context, b.identifiers, b.cache))

Ke2BuilderData(b) ==
  IF Sigma
  THEN [ role |-> "Server", context |-> b.context, identifiers |-> b.identifiers,
         cache |-> b.cache, server_mac |-> BuilderServerMac(b, None) ]
  ELSE b.cache.ke1.client_e_pk

GenerateKe2Input(data, server_s_sk) ==
  IF Sigma
  THEN [ signature    |-> Sign(server_s_sk, PostMessage(data, "Sign")),
         verify_state |-> VerifyState(data) ]
  ELSE DH(server_s_sk, data)

BuildKe2(b, input) ==
  LET keys == BuilderKeys(b, input)
      mac  == BuilderServerMac(b, input)
  IN  [ state   |-> [ session_key  |-> keys.session_key,
                      expected_mac |-> ClientMac(keys, b.identifiers,
                        Transcript(b.context, b.identifiers, b.cache), mac),
                      client_s_pk  |-> IF Sigma THEN b.client_s_pk ELSE None,
                      verify_state |-> IF Sigma THEN input.verify_state ELSE None ],
        message |-> [ server_nonce |-> b.cache.server_nonce,
                      server_e_pk  |-> b.cache.server_e_pk,
                      kem_ct       |-> b.cache.kem_ct,
                      mac          |-> mac,
                      signature    |-> IF Sigma THEN input.signature ELSE None ] ]

-------------------------------------------------------------------------------
(* KE3 and the client's session key.                                         *)

(* Faulty variant: the two static products in the server's order of roles.   *)
ClientKeysSwapped(request, ke1, response, ke1_state, ke2, server_s_pk, client_s_sk, ids, context) ==
  DeriveKeys(
    Ikms(DH(ke1_state.client_e_sk, ke2.server_e_pk),
         DH(client_s_sk, ke2.server_e_pk),
         DH(ke1_state.client_e_sk, server_s_pk),
         IF Kem THEN Decapsulate(ke1_state.kem_dk, ke2.kem_ct) ELSE None),
    Transcript(context, ids,
      Cache(request, ke1, response, ke2.server_nonce, ke2.server_e_pk, ke2.kem_ct)))

ClientKeys(request, ke1, response, ke1_state, ke2, server_s_pk, client_s_sk, ids, context) ==
  DeriveKeys(
    Ikms(DH(ke1_state.client_e_sk, ke2.server_e_pk),
         DH(ke1_state.client_e_sk, server_s_pk),
         DH(client_s_sk, ke2.server_e_pk),
         IF Kem THEN Decapsulate(ke1_state.kem_dk, ke2.kem_ct) ELSE None),
    Transcript(context, ids,
      Cache(request, ke1, response, ke2.server_nonce, ke2.server_e_pk, ke2.kem_ct)))

(* The server is who the envelope says: its MAC shows the keys, and in       *)
(* SIGMA-I its signature the static key.                                     *)
(* Faulty variants: a check is forgotten.                                    *)
ServerMacIgnored(ke2, keys, identifiers, transcript) == TRUE
ServerSignatureIgnored(ke2, server_s_pk, message) == TRUE

ServerMacMatches(ke2, keys, identifiers, transcript) ==
  ke2.mac = ServerMac(keys, identifiers, transcript)

ServerSignatureValid(ke2, server_s_pk, message) ==
  Sigma => Verify(server_s_pk,
                  MessageToVerify("Client", message.context, message.identifiers.server,
                                  VerifyState(message)),
                  ke2.signature)

GenerateKe3(request, ke1, response, ke1_state, ke2, server_s_pk, client_s_sk, ids, context) ==
  LET cache == Cache(request, ke1, response, ke2.server_nonce, ke2.server_e_pk, ke2.kem_ct)
      transcript == Transcript(context, ids, cache)
      keys == ClientKeys(request, ke1, response, ke1_state, ke2,
                         server_s_pk, client_s_sk, ids, context)
      message == [ role |-> "Client", context |-> context, identifiers |-> ids,
                   cache |-> cache, server_mac |-> ke2.mac ]
  IN  IF ~ServerMacMatches(ke2, keys, ids, transcript) THEN Err("InvalidLoginError")
      ELSE IF ~ServerSignatureValid(ke2, server_s_pk, message) THEN Err("InvalidLoginError")
      ELSE Ok([ session_key |-> keys.session_key,
                message |-> [ mac |-> ClientMac(keys, ids, transcript, ke2.mac),
                              signature |-> IF Sigma
                                            THEN Sign(client_s_sk, PostMessage(message, "Sign"))
                                            ELSE None ] ])

(* Faulty variants: a check is forgotten; the finalization is not looked at. *)
ClientMacIgnored(state, ke3) == TRUE
ClientSignatureIgnored(state, ke3, context, id) == TRUE
FinishKeUnchecked(state, ke3, identifiers, context) == Ok(state.session_key)

ClientMacMatches(state, ke3) == ke3.mac = state.expected_mac

ClientSignatureValid(state, ke3, context, id) ==
  Sigma => Verify(state.client_s_pk, MessageToVerify("Server", context, id, state.verify_state),
                  ke3.signature)

(* The server's last step.  3DH looks at neither the identifiers nor the     *)
(* context it is given; SIGMA-I hands the context and the client identifier  *)
(* to the signature protocol.                                                *)
FinishKe(state, ke3, identifiers, context) ==
  LET id == SerializedIdentifier(identifiers.client, state.client_s_pk)
  IN  IF Sigma /\ ~id.ok THEN id
      ELSE IF ~ClientSignatureValid(state, ke3, context, id.val) THEN Err("InvalidLoginError")
      ELSE IF ~ClientMacMatches(state, ke3) THEN Err("InvalidLoginError")
      ELSE Ok(state.session_key)
===============================================================================
