------------------------------ MODULE OpaqueLogins ------------------------------
(***************************************************************************)
(* What stands behind a login that succeeded: which checks it passed, what *)
(* the server login it agrees with was built with, and the registration it *)
(* goes back to; for every number of sessions and every suite.             *)
(***************************************************************************)
EXTENDS OpaqueResults

-------------------------------------------------------------------------------
(* What ClientLogin::finish has checked when it succeeds.                    *)

(* The secrets of the client's side of the key exchange.                     *)
ClientIkms(ke1_state, ke2, server_s_pk, client_s_sk) ==
  Ikms(DH(ke1_state.client_e_sk, ke2.server_e_pk),
       DH(ke1_state.client_e_sk, server_s_pk),
       DH(client_s_sk, ke2.server_e_pk),
       IF Kem THEN Decapsulate(ke1_state.kem_dk, ke2.kem_ct) ELSE None)

(* The key exchange: server's MAC and signature, own MAC, signature and key. *)
ExchangeAccepted(cache, ikms, ke2, server_s_pk, client_s_sk, ids, context, val) ==
  LET t == Transcript(context, ids, cache)
      keys == DeriveKeys(ikms, t)
  IN  /\ ke2.mac = ServerMac(keys, ids, t)
      /\ Sigma => ke2.signature =
           Sign(server_s_pk[2], SignedMessage("Server", context, ids.server, cache, ke2.mac))
      /\ val.session_key = keys.session_key
      /\ val.message.mac = ClientMac(keys, ids, t, ke2.mac)
      /\ Sigma => val.message.signature =
           Sign(client_s_sk, SignedMessage("Client", context, ids.client, cache, ke2.mac))

(* The whole operation: the response was masked under the client's own key,  *)
(* the envelope authenticates what it is read with, and the key exchange.    *)
LoginAccepted(state, password, response, params, val) ==
  LET rwd == RandomizedPwd(password, state.oprf_client, response.evaluation_element,
                           params.ksf)
      masked == response.masked_response
      ke2 == response.ke2_message
      nonce == masked.envelope.nonce
      client_s_sk == ClientStaticKey(rwd, nonce)
      ids == SerializedIdentifiers(params.identifiers, Pk(client_s_sk), val.server_s_pk)
      context == SerializedContext(params.context)
      cache == Cache(state.credential_request.blinded_element,
                     state.credential_request.ke1_message, ResponseParts(response),
                     ke2.server_nonce, ke2.server_e_pk, ke2.kem_ct)
  IN  /\ masked.pad = <<MaskingKey(rwd), response.masking_nonce>>
      /\ val.server_s_pk = masked.server_s_pk
      /\ ids.ok /\ context.ok
      /\ masked.envelope.hmac =
           EnvelopeMac(rwd, nonce, ConstructAad(ids.val.client, ids.val.server, val.server_s_pk))
      /\ val.export_key = ExportKey(rwd, nonce)
      /\ ExchangeAccepted(cache, ClientIkms(state.ke1_state, ke2, val.server_s_pk, client_s_sk),
                          ke2, val.server_s_pk, client_s_sk, ids.val, context.val,
                          [session_key |-> val.session_key, message |-> val.message.ke3_message])

(* The client's half of the key exchange.                                    *)
LEMMA GenerateKe3Parts ==
  ASSUME NEW request, NEW ke1, NEW response, NEW ke1_state, NEW ke2, NEW server_s_pk,
         NEW client_s_sk, NEW ids, NEW context,
         GenerateKe3(request, ke1, response, ke1_state, ke2, server_s_pk, client_s_sk, ids,
                     context).ok
  PROVE  ExchangeAccepted(
           Cache(request, ke1, response, ke2.server_nonce, ke2.server_e_pk, ke2.kem_ct),
           ClientIkms(ke1_state, ke2, server_s_pk, client_s_sk), ke2, server_s_pk, client_s_sk,
           ids, context,
           GenerateKe3(request, ke1, response, ke1_state, ke2, server_s_pk, client_s_sk, ids,
                       context).val)
<1> DEFINE cache == Cache(request, ke1, response, ke2.server_nonce, ke2.server_e_pk, ke2.kem_ct)
           t == Transcript(context, ids, cache)
           keys == ClientKeys(request, ke1, response, ke1_state, ke2, server_s_pk, client_s_sk,
                              ids, context)
           message == [ role |-> "Client", context |-> context, identifiers |-> ids,
                        cache |-> cache, server_mac |-> ke2.mac ]
           ke3 == GenerateKe3(request, ke1, response, ke1_state, ke2, server_s_pk, client_s_sk,
                              ids, context)
<1>1. keys = DeriveKeys(ClientIkms(ke1_state, ke2, server_s_pk, client_s_sk), t)
  BY DEF ClientKeys, ClientIkms
<1>2. ke2.mac = ServerMac(keys, ids, t)
  BY DEF GenerateKe3, ServerMacMatches, Err
<1>3. ServerSignatureValid(ke2, server_s_pk, message)
  BY DEF GenerateKe3, Err
<1>4. /\ ke3.val.session_key = keys.session_key
      /\ ke3.val.message.mac = ClientMac(keys, ids, t, ke2.mac)
      /\ Sigma => ke3.val.message.signature = Sign(client_s_sk, PostMessage(message, "Sign"))
  BY DEF GenerateKe3, Ok, Err
<1>5. PostMessage(message, "Sign") = SignedMessage("Client", context, ids.client, cache, ke2.mac)
  BY DEF PostMessage
<1>6. PostMessage(message, "Verify")
        = SignedMessage("Server", context, ids.server, cache, ke2.mac)
  BY DEF PostMessage, OtherRole
<1>7. MessageToVerify("Client", message.context, message.identifiers.server,
                      VerifyState(message))
        = SignedMessage("Server", context, ids.server, cache, ke2.mac)
  BY <1>6 DEF MessageToVerify, VerifyState, OtherRole
<1>8. Sigma => ke2.signature =
        Sign(server_s_pk[2], SignedMessage("Server", context, ids.server, cache, ke2.mac))
  BY <1>3, <1>7 DEF ServerSignatureValid, Verify, Sign
<1> HIDE DEF cache, t, keys, message, ke3
<1>9. QED
  BY <1>1, <1>2, <1>4, <1>5, <1>8 DEF ExchangeAccepted, cache, t, ke3

(* The envelope, read from its bytes.                                        *)
LEMMA OpenParts ==
  ASSUME NEW bytes, NEW rwd, NEW s_pk, NEW ids, Open(DeserializeEnvelope(bytes), rwd, s_pk, ids).ok
  PROVE  LET client_s_sk == ClientStaticKey(rwd, bytes.nonce)
             identifiers == SerializedIdentifiers(ids, Pk(client_s_sk), s_pk)
             opened == Open(DeserializeEnvelope(bytes), rwd, s_pk, ids).val
         IN  /\ identifiers.ok
             /\ opened.client_s_sk = client_s_sk
             /\ opened.identifiers = identifiers.val
             /\ opened.export_key = ExportKey(rwd, bytes.nonce)
             /\ bytes.hmac = EnvelopeMac(rwd, bytes.nonce,
                  ConstructAad(identifiers.val.client, identifiers.val.server, s_pk))
<1> DEFINE envelope == DeserializeEnvelope(bytes)
           client_s_sk == ClientStaticKey(rwd, bytes.nonce)
           identifiers == SerializedIdentifiers(ids, Pk(client_s_sk), s_pk)
           aad == ConstructAad(identifiers.val.client, identifiers.val.server, s_pk)
           raw == OpenRaw(envelope, rwd, aad)
           opened == Open(envelope, rwd, s_pk, ids)
<1>1. envelope.nonce = bytes.nonce /\ envelope.hmac = bytes.hmac /\ envelope.mode # "Zero"
  BY DEF DeserializeEnvelope
<1>2. identifiers.ok /\ raw.ok
  <2>1. opened.ok
    OBVIOUS
  <2> HIDE DEF envelope
  <2>2. QED
    BY <1>1, <2>1 DEF Open, Err
<1> HIDE DEF envelope
<1>3. bytes.hmac = EnvelopeMac(rwd, bytes.nonce, aad) /\ raw.val = ExportKey(rwd, bytes.nonce)
  BY <1>1, <1>2 DEF OpenRaw, Ok, Err
<1>4. opened = Ok([ client_s_sk |-> client_s_sk, export_key |-> raw.val,
                    identifiers |-> identifiers.val ])
  BY <1>1, <1>2 DEF Open
<1>5. /\ opened.val.client_s_sk = client_s_sk
      /\ opened.val.export_key = raw.val
      /\ opened.val.identifiers = identifiers.val
  <2> HIDE DEF identifiers, raw, client_s_sk, opened
  <2>1. QED
    BY <1>4 DEF Ok
<1>6. identifiers.ok
  BY <1>2
<1> HIDE DEF raw
<1>7. QED
  BY <1>3, <1>5, <1>6 DEF envelope

(* ClientLogin::finish, when it succeeds.                                    *)
LEMMA FinishClientLoginParts ==
  ASSUME NEW state, NEW password, NEW response, NEW params,
         NEW result \in FinishClientLogin(state, password, response, params), result.ok
  PROVE  LoginAccepted(state, password, response, params, result.val)
<1> DEFINE rwd == RandomizedPwd(password, state.oprf_client,
                                response.evaluation_element, params.ksf)
           masked == response.masked_response
           nonce == masked.envelope.nonce
           ke2 == response.ke2_message
<1>0. LET key == PasswordDerivedKey(password, state.oprf_client,
                                    response.evaluation_element, params.ksf)
      IN  key.ok /\ key.val = rwd
  BY PasswordKeyOutcome DEF FinishClientLogin, Err
<1>1. PICK u \in UnmaskResponse(MaskingKey(rwd), response.masking_nonce, masked) :
        result = OpenAndFinish(state, rwd, response, params,
                   MapErr(u, "SerializationError", "InvalidLoginError"))
  BY <1>0 DEF FinishClientLogin, Err
<1> DEFINE unmasked == MapErr(u, "SerializationError", "InvalidLoginError")
           open == Open(unmasked.val.envelope, rwd, unmasked.val.server_s_pk, params.identifiers)
           opened == MapErr(open, "SealOpenHmacError", "InvalidLoginError")
           context == SerializedContext(params.context)
           ke3 == GenerateKe3(state.credential_request.blinded_element,
                    state.credential_request.ke1_message, ResponseParts(response),
                    state.ke1_state, ke2, unmasked.val.server_s_pk,
                    opened.val.client_s_sk, opened.val.identifiers, context.val)
<1>2. unmasked.ok /\ opened.ok /\ context.ok /\ ke3.ok
  BY <1>1 DEF OpenAndFinish
<1>3. /\ result.val.message.ke3_message = ke3.val.message
      /\ result.val.session_key = ke3.val.session_key
      /\ result.val.export_key = opened.val.export_key
      /\ result.val.server_s_pk = unmasked.val.server_s_pk
  <2>1. result = Ok([ message     |-> [ke3_message |-> ke3.val.message],
                      session_key |-> ke3.val.session_key,
                      export_key  |-> opened.val.export_key,
                      server_s_pk |-> unmasked.val.server_s_pk ])
    BY <1>1, <1>2 DEF OpenAndFinish
  <2> HIDE DEF ke3, opened, unmasked
  <2>2. QED
    BY <2>1 DEF Ok
<1>4. unmasked = u /\ opened = open
  BY <1>2 DEF MapErr, Err
<1>5. /\ masked.pad = <<MaskingKey(rwd), response.masking_nonce>>
      /\ u = Ok([ server_s_pk |-> masked.server_s_pk,
                  envelope    |-> DeserializeEnvelope(masked.envelope) ])
  <2>1. ~(u = Ok(Noise(MaskingKey(rwd), masked)))
    BY <1>2, <1>4, NoiseDoesNotOpen DEF Ok
  <2>2. u # Err("SerializationError")
    BY <1>2, <1>4 DEF Err
  <2>3. QED
    BY <2>1, <2>2 DEF UnmaskResponse
<1>6. /\ unmasked.val.server_s_pk = masked.server_s_pk
      /\ unmasked.val.envelope = DeserializeEnvelope(masked.envelope)
  BY <1>4, <1>5 DEF Ok
<1> DEFINE s_pk == masked.server_s_pk
           client_s_sk == ClientStaticKey(rwd, nonce)
           ids == SerializedIdentifiers(params.identifiers, Pk(client_s_sk), s_pk)
           fresh == Open(DeserializeEnvelope(masked.envelope), rwd, s_pk, params.identifiers)
<1>7. opened = fresh /\ fresh.ok
  BY <1>2, <1>4, <1>6
<1>8. /\ ids.ok
      /\ fresh.val.client_s_sk = client_s_sk
      /\ fresh.val.identifiers = ids.val
      /\ fresh.val.export_key = ExportKey(rwd, nonce)
      /\ masked.envelope.hmac
           = EnvelopeMac(rwd, nonce, ConstructAad(ids.val.client, ids.val.server, s_pk))
  <2> HIDE DEF rwd, masked
  <2>1. QED
    BY <1>7, OpenParts
<1>9. result.val.server_s_pk = s_pk /\ result.val.export_key = ExportKey(rwd, nonce)
  BY <1>3, <1>6, <1>7, <1>8
<1> DEFINE exchange == GenerateKe3(state.credential_request.blinded_element,
                         state.credential_request.ke1_message, ResponseParts(response),
                         state.ke1_state, ke2, s_pk, client_s_sk, ids.val, context.val)
           cache == Cache(state.credential_request.blinded_element,
                          state.credential_request.ke1_message, ResponseParts(response),
                          ke2.server_nonce, ke2.server_e_pk, ke2.kem_ct)
           ikms == ClientIkms(state.ke1_state, ke2, s_pk, client_s_sk)
<1>10. ke3 = exchange /\ exchange.ok
  BY <1>2, <1>6, <1>7, <1>8
<1>11. ExchangeAccepted(cache, ikms, ke2, s_pk, client_s_sk, ids.val, context.val, exchange.val)
  <2> HIDE DEF s_pk, client_s_sk, ids, context, ke2
  <2>1. QED
    BY <1>10, GenerateKe3Parts
<1> DEFINE val == [ session_key |-> result.val.session_key,
                    message |-> result.val.message.ke3_message ]
<1>12. val.session_key = exchange.val.session_key /\ val.message = exchange.val.message
  BY <1>3, <1>10
<1>13. ExchangeAccepted(cache, ikms, ke2, s_pk, client_s_sk, ids.val, context.val, val)
  <2> HIDE DEF cache, ikms, ke2, s_pk, client_s_sk, ids, context, val, exchange
  <2>1. QED
    BY <1>11, <1>12 DEF ExchangeAccepted
<1> HIDE DEF unmasked, opened, open, fresh, ke3, exchange
<1>14. QED
  BY <1>2, <1>5, <1>8, <1>9, <1>13 DEF LoginAccepted

(* The secrets of a client login that ended, and of a server login that      *)
(* answered.                                                                 *)
ClientSecrets(s) ==
  ClientIkms(Ke1State(s), client[s].response.ke2_message, client[s].server_s_pk,
             ClientStaticKey(ClientPwd(s), client[s].response.masked_response.envelope.nonce))

ServerSecrets(h) ==
  Ikms(ServerView(h).shared_secret_1, server[h].input, ServerView(h).shared_secret_3,
       ServerView(h).kem_shared_secret)

(* The same, of a client login that ended with a key.                        *)
LoginHolds(s) ==
  LET now == client[s]
      rwd == ClientPwd(s)
      masked == now.response.masked_response
      nonce == masked.envelope.nonce
      ids == ClientIdentifiersOf(s)
      context == SerializedContext(now.params.context)
  IN  /\ masked.pad = <<MaskingKey(rwd), now.response.masking_nonce>>
      /\ now.server_s_pk = masked.server_s_pk
      /\ context.ok
      /\ masked.envelope.hmac =
           EnvelopeMac(rwd, nonce, ConstructAad(ids.client, ids.server, now.server_s_pk))
      /\ now.export_key = ExportKey(rwd, nonce)
      /\ ExchangeAccepted(ClientCache(s), ClientSecrets(s), now.response.ke2_message,
                          now.server_s_pk, ClientStaticKey(rwd, nonce), ids, context.val,
                          [ session_key |-> now.session_key,
                            message |-> now.message.ke3_message ])

(* A client that is done holds what its finish computed.                     *)
LEMMA LoginHeld ==
  ASSUME HInv, NEW s \in Clients, client[s].pc = "done"
  PROVE  LoginHolds(s)
<1> DEFINE now == client[s]
<1>1. PICK result \in FinishClientLogin(now.state, now.final, now.response, now.params) :
        /\ result.ok
        /\ now.session_key = result.val.session_key
        /\ now.export_key = result.val.export_key
        /\ now.server_s_pk = result.val.server_s_pk
        /\ now.message = result.val.message
  BY DEF HInv, ClientsEnded, ClientEnded
<1>2. LoginAccepted(now.state, now.final, now.response, now.params, result.val)
  BY <1>1, FinishClientLoginParts
<1>3. LoginAccepted(now.state, now.final, now.response, now.params, now)
  <2> HIDE DEF now
  <2>1. QED
    BY <1>1, <1>2 DEF LoginAccepted
<1>4. now.state.ke1_state = Ke1State(s)
  BY ClientHeld
<1>5. QED
  BY <1>3, <1>4
  DEF LoginAccepted, LoginHolds, ClientPwd, ClientIdentifiersOf, ClientCache, ClientSecrets

-------------------------------------------------------------------------------
(* What a server login checks when it ends, and whose private key it was     *)
(* built with.                                                               *)

(* ServerLogin::finish, when it succeeds with PureEdDSA: the MAC is the      *)
(* expected one and the signature covers the context and the client          *)
(* identifier given now.                                                     *)
LEMMA FinishServerLoginParts ==
  ASSUME NEW state, NEW ke3, NEW params, Suite = "PureEddsa",
         FinishServerLogin(state, ke3, params).ok
  PROVE  LET id == SerializedIdentifier(params.identifiers.client, state.client_s_pk).val
             context == SerializedContext(params.context).val
         IN  /\ ke3.mac = state.expected_mac
             /\ \E x, y : ke3.signature =
                  Sign(state.client_s_pk[2], SignedMessage("Client", context, id, x, y))
<1> DEFINE id == SerializedIdentifier(params.identifiers.client, state.client_s_pk)
           context == SerializedContext(params.context)
<1>1. Sigma
  BY DEF Sigma
<1>2. context.ok /\ FinishKe(state, ke3, params.identifiers, context.val).ok
  BY DEF FinishServerLogin
<1>3. /\ ClientMacMatches(state, ke3)
      /\ ClientSignatureValid(state, ke3, context.val, id.val)
  BY <1>1, <1>2 DEF FinishKe, Err
<1>4. ke3.signature =
        Sign(state.client_s_pk[2],
             MessageToVerify("Server", context.val, id.val, state.verify_state))
  BY <1>1, <1>3 DEF ClientSignatureValid, Verify, Sign
<1>5. MessageToVerify("Server", context.val, id.val, state.verify_state)
        = SignedMessage("Client", context.val, id.val, state.verify_state.cache,
                        state.verify_state.server_mac)
  BY DEF MessageToVerify, OtherRole
<1>6. QED
  BY <1>3, <1>4, <1>5 DEF ClientMacMatches

(* The client's signature covers what the client hashed, and this is what    *)
(* the server login that it agrees with hashed.                              *)
LEMMA FinishChecksClientNow ==
  ASSUME Suite = "PureEddsa", HInv PROVE FinishChecksClient
<1> SUFFICES ASSUME NEW h \in Servers, server[h].pc = "done"
             PROVE  /\ SerializedContext(server[h].final.context).val = ServerView(h).context
                    /\ SerializedIdentifier(server[h].final.identifiers.client,
                                            server[h].state.client_s_pk).val
                         = ServerView(h).identifiers.client
  BY DEF FinishChecksClient
<1> DEFINE id == SerializedIdentifier(server[h].final.identifiers.client,
                                      server[h].state.client_s_pk).val
           context == SerializedContext(server[h].final.context).val
<1>1. PICK m \in Sent("CredentialFinalization") :
        FinishServerLogin(server[h].state, m.ke3_message, server[h].final).ok
  BY DEF HInv, ServersEnded, ServerEnded
<1>2. PICK s \in Clients :
        client[s].pc = "done" /\ m.ke3_message = client[s].message.ke3_message
  BY DEF HInv, RInv, IInv, FinalizationsDone
<1>3. /\ m.ke3_message.mac = server[h].state.expected_mac
      /\ \E x, y : m.ke3_message.signature =
           Sign(server[h].state.client_s_pk[2], SignedMessage("Client", context, id, x, y))
  BY <1>1, FinishServerLoginParts
<1>4. AgreesWith(s, h)
  BY <1>2, <1>3, MacAgrees DEF HInv, RInv, IInv, Answered
<1>5. \E sk, x, y : client[s].message.ke3_message.signature =
        Sign(sk, SignedMessage("Client", SerializedContext(client[s].params.context).val,
                               ClientIdentifiersOf(s).client, x, y))
  BY <1>2, LoginHeld DEF LoginHolds, ExchangeAccepted, Sigma
<1>6. \A c1, i1, x1, y1, c2, i2, x2, y2, sk1, sk2 :
        Sign(sk1, SignedMessage("Client", c1, i1, x1, y1))
          = Sign(sk2, SignedMessage("Client", c2, i2, x2, y2)) => c1 = c2 /\ i1 = i2
  BY DEF Sign, SignedMessage
<1>7. /\ context = SerializedContext(client[s].params.context).val
      /\ id = ClientIdentifiersOf(s).client
  <2> HIDE DEF context, id
  <2>1. QED
    BY <1>2, <1>3, <1>5, <1>6
<1>8. QED
  BY <1>4, <1>7 DEF AgreesWith

(* In PureEdDSA a server login ends only under the context and the client    *)
(* identifier it began with: what is given to ServerLogin::finish is         *)
(* compared, through the client's signature, with what both sides hashed     *)
(* (the other suites look at neither, see finish_identifiers).               *)
THEOREM FinishChecksTheClient ==
  ASSUME Suite = "PureEddsa" PROVE Spec => []FinishChecksClient
<1>1. HInv => FinishChecksClient
  BY FinishChecksClientNow
<1>2. QED
  BY <1>1, HInvariance, PTL

(* The ends that agree derived their key from the same secrets and have seen *)
(* the same messages.                                                        *)
LEMMA AgreedKeys ==
  ASSUME HInv, NEW s \in Clients, client[s].pc = "done", NEW h \in Servers, Answered(h),
         AgreesWith(s, h)
  PROVE  /\ ServerSecrets(h) = ClientSecrets(s)
         /\ ServerView(h).cache = ClientCache(s)
<1> DEFINE view == ServerView(h)
           th == Transcript(view.context, view.identifiers, view.cache)
           t == ClientTranscript(s)
<1>1. client[s].session_key = DeriveKeys(ClientSecrets(s), t).session_key
  BY LoginHeld DEF LoginHolds, ExchangeAccepted, ClientTranscript
<1>2. server[h].state.session_key = DeriveKeys(ServerSecrets(h), th).session_key
  <2>1. server[h].state = BuildKe2(view, server[h].input).state
    BY AnswerHeld DEF ServerView
  <2>2. QED
    BY <2>1 DEF BuildKe2, BuilderKeys, ServerSecrets
<1>3. Expand(ClientSecrets(s), "SessionKey", t) = Expand(ServerSecrets(h), "SessionKey", th)
  <2>1. \A ikms, x : DeriveKeys(ikms, x).session_key = Expand(ikms, "SessionKey", x)
    BY DEF DeriveKeys
  <2> HIDE DEF t, th
  <2>2. QED
    BY <1>1, <1>2, <2>1 DEF AgreesWith
<1>4. ClientSecrets(s) = ServerSecrets(h) /\ t = th
  <2> HIDE DEF t, th
  <2>1. QED
    BY <1>3 DEF Expand
<1>5. QED
  BY <1>4, TranscriptInjective DEF ClientTranscript

(* The response of an accepted login names the key of the builder.           *)
LEMMA AcceptedServerKey ==
  ASSUME HInv, NEW s \in Clients, client[s].pc = "done", NEW h \in Servers, Answered(h),
         AgreesWith(s, h)
  PROVE  /\ ResponseParts(client[s].response) = server[h].builder.parts
         /\ client[s].server_s_pk = Pk(server[h].builder.server_s_sk)
<1>1. PICK g \in Setups : BuiltFrom(h, g)
  BY BuiltFromGiven
<1>2. ServerView(h).cache.response = server[h].builder.parts
  BY <1>1 DEF BuiltFrom, ServerView, Ke2Builder, Cache
<1>3. ResponseParts(client[s].response) = server[h].builder.parts
  BY <1>2 DEF AgreesWith
<1>4. client[s].response.masked_response = server[h].builder.parts.masked_response
  BY <1>3 DEF ResponseParts
<1>5. server[h].builder.parts.masked_response.server_s_pk = Pk(server[h].builder.server_s_sk)
  BY <1>1 DEF BuiltFrom, MaskResponse
<1>6. client[s].server_s_pk = client[s].response.masked_response.server_s_pk
  BY LoginHeld DEF LoginHolds
<1>7. QED
  BY <1>3, <1>4, <1>5, <1>6

(* The KE2 message that a client accepted is the one of the server login     *)
(* that it agrees with: it carries that login's nonce.                       *)
LEMMA AcceptedKe2 ==
  ASSUME HInv, NEW s \in Clients, client[s].pc = "done", NEW h \in Servers, Answered(h),
         AgreesWith(s, h)
  PROVE  client[s].response.ke2_message = server[h].message.ke2_message
<1>1. PICK m \in Sent("CredentialResponse") : client[s].response = m.response
  BY DEF HInv, ClientsEnded, ClientEnded
<1>2. PICK g \in Servers :
        Answered(g) /\ m.response.ke2_message = server[g].message.ke2_message
  BY DEF HInv, RInv, IInv, ResponsesAnswered
<1>3. server[g].message.ke2_message.server_nonce = ServerView(g).cache.server_nonce
  <2>1. server[g].message.ke2_message = BuildKe2(ServerView(g), server[g].input).message
    BY <1>2, AnswerHeld DEF ServerView
  <2>2. QED
    BY <2>1 DEF BuildKe2
<1>4. ServerView(h).cache.server_nonce = client[s].response.ke2_message.server_nonce
  <2>1. ServerView(h).cache = ClientCache(s)
    BY AgreedKeys
  <2>2. ClientCache(s).server_nonce = client[s].response.ke2_message.server_nonce
    BY DEF ClientCache, Cache
  <2>3. QED
    BY <2>1, <2>2
<1>5. ServerView(g).cache.server_nonce = ServerView(h).cache.server_nonce
  BY <1>1, <1>2, <1>3, <1>4
<1>6. g = h
  BY <1>2, <1>5 DEF HInv, RInv, NoncesOwn
<1>7. QED
  BY <1>1, <1>2, <1>6

(* In 3DH the second secret of both ends is the product of the client's      *)
(* ephemeral key and the static key named in the response.                   *)
LEMMA ProductBound ==
  ASSUME HInv, ~Sigma, NEW s \in Clients, client[s].pc = "done", NEW h \in Servers, Answered(h),
         AgreesWith(s, h)
  PROVE  server[h].input = RemoteKeyAnswer(server[h].builder)
<1>1. ServerSecrets(h) = ClientSecrets(s)
  BY AgreedKeys
<1>2. \A a1, a2, a3, a4, b1, b2, b3, b4 : Ikms(a1, a2, a3, a4) = Ikms(b1, b2, b3, b4) => a2 = b2
  BY DEF Ikms
<1>3. server[h].input = DH(Ke1State(s).client_e_sk, client[s].server_s_pk)
  BY <1>1, <1>2 DEF ServerSecrets, ClientSecrets, ClientIkms
<1>4. ServerView(h).cache.ke1.client_e_pk = Pk(Ke1State(s).client_e_sk)
  <2>1. ServerView(h).cache.ke1 = client[s].state.credential_request.ke1_message
    BY DEF HInv, RInv, IInv, ServerBuilt, ViewOK, AgreesWith
  <2>2. client[s].state.credential_request.ke1_message = Ke1Message(Ke1State(s))
    BY ClientHeld
  <2>3. QED
    BY <2>1, <2>2 DEF Ke1Message
<1>5. client[s].server_s_pk = Pk(server[h].builder.server_s_sk)
  BY AcceptedServerKey
<1>6. RemoteKeyAnswer(server[h].builder)
        = DH(server[h].builder.server_s_sk, ServerView(h).cache.ke1.client_e_pk)
  BY DEF RemoteKeyAnswer, GenerateKe2Input, Ke2BuilderData, ServerView
<1>7. \A x, y : DH(x, Pk(y)) = DH(y, Pk(x))
  BY DEF DH, Pk
<1>8. QED
  BY <1>3, <1>4, <1>5, <1>6, <1>7

(* What the holder of a private key signs in SIGMA-I for a builder.          *)
LEMMA SignedAnswer ==
  ASSUME Sigma, NEW builder
  PROVE  \E context, id, mac :
           RemoteKeyAnswer(builder).signature =
             Sign(builder.server_s_sk,
                  SignedMessage("Server", context, id, builder.ke2_builder.cache, mac))
<1> DEFINE b == builder.ke2_builder
           data == [ role |-> "Server", context |-> b.context, identifiers |-> b.identifiers,
                     cache |-> b.cache, server_mac |-> BuilderServerMac(b, None) ]
<1>1. Ke2BuilderData(b) = data
  BY DEF Ke2BuilderData
<1>2. RemoteKeyAnswer(builder).signature = Sign(builder.server_s_sk, PostMessage(data, "Sign"))
  BY <1>1 DEF RemoteKeyAnswer, GenerateKe2Input
<1>3. PostMessage(data, "Sign") =
        SignedMessage("Server", b.context, b.identifiers.server, b.cache, data.server_mac)
  BY DEF PostMessage
<1>4. QED
  BY <1>2, <1>3

(* In SIGMA-I the signature covers the nonce of the login it was made for.   *)
LEMMA SignatureBound ==
  ASSUME HInv, Sigma, NEW s \in Clients, client[s].pc = "done", NEW h \in Servers, Answered(h),
         AgreesWith(s, h)
  PROVE  server[h].input = RemoteKeyAnswer(server[h].builder)
<1>1. PICK g \in Servers :
        /\ HoldsBuilder(g) \/ Answered(g)
        /\ server[h].input = RemoteKeyAnswer(server[g].builder)
  BY DEF HInv, InputsMade, AnswersOf
<1>2. server[h].message.ke2_message.signature = server[h].input.signature
  <2>1. server[h].message.ke2_message = BuildKe2(ServerView(h), server[h].input).message
    BY AnswerHeld DEF ServerView
  <2>2. QED
    BY <2>1 DEF BuildKe2
<1>3. \E sk, context, id, mac : client[s].response.ke2_message.signature =
        Sign(sk, SignedMessage("Server", context, id, ClientCache(s), mac))
  BY LoginHeld DEF LoginHolds, ExchangeAccepted
<1>4. \E sk, context, id, mac : server[h].input.signature =
        Sign(sk, SignedMessage("Server", context, id, ServerView(g).cache, mac))
  BY <1>1, SignedAnswer DEF ServerView
<1>5. \A sk1, c1, i1, k1, m1, sk2, c2, i2, k2, m2 :
        Sign(sk1, SignedMessage("Server", c1, i1, k1, m1))
          = Sign(sk2, SignedMessage("Server", c2, i2, k2, m2)) => k1 = k2
  BY DEF Sign, SignedMessage
<1>6. client[s].response.ke2_message.signature = server[h].input.signature
  BY <1>2, AcceptedKe2
<1>7. ServerView(g).cache = ServerView(h).cache
  BY <1>3, <1>4, <1>5, <1>6, AgreedKeys
<1>8. g = h
  BY <1>1, <1>7 DEF HInv, RInv, NoncesOwn
<1>9. QED
  BY <1>1, <1>8

(* A login is accepted only if it was built with the answer to its own data: *)
(* an answer to another builder, or from another private key, is caught by   *)
(* the client, by the MAC in 3DH and by the signature in SIGMA-I             *)
(* (ServerLoginBuilder::build takes any input).                              *)
THEOREM RemoteKeysBound == Spec => []RemoteKeyBound
<1>1. HInv => RemoteKeyBound
  BY ProductBound, SignatureBound DEF RemoteKeyBound
<1>2. QED
  BY <1>1, HInvariance, PTL

-------------------------------------------------------------------------------
(* The registration behind a login.                                          *)

(* What unblinding leaves: nothing, or two blinds that differ.               *)
BlindLeft(blind, el) == IF el.blind = blind THEN <<>> ELSE <<blind, el.blind>>

(* Equal password-derived keys were derived from one password with one       *)
(* stretching, from elements that went through the same OPRF keys, and with  *)
(* blinds that were removed alike.                                           *)
LEMMA PasswordKeyBinds ==
  ASSUME NEW p1, NEW b1, NEW e1, NEW k1, NEW p2, NEW b2, NEW e2, NEW k2,
         RandomizedPwd(p1, b1, e1, k1) = RandomizedPwd(p2, b2, e2, k2)
  PROVE  /\ p1 = p2 /\ k1 = k2
         /\ e1.pw = e2.pw /\ e1.key = e2.key
         /\ BlindLeft(b1, e1) = BlindLeft(b2, e2)
<1>1. OprfOutput(p1, b1, e1) = OprfOutput(p2, b2, e2) /\ k1 = k2
  BY DEF RandomizedPwd, Extract, Hardened
<1>2. \A p, b, e : OprfOutput(p, b, e) = <<"oprf", p, e.pw, BlindLeft(b, e), e.key>>
  BY DEF OprfOutput, BlindLeft
<1>3. <<"oprf", p1, e1.pw, BlindLeft(b1, e1), e1.key>>
        = <<"oprf", p2, e2.pw, BlindLeft(b2, e2), e2.key>>
  BY <1>1, <1>2
<1>4. QED
  BY <1>1, <1>3

(* Equal OPRF keys belong to one seed and one credential identifier.         *)
LEMMA OprfKeyBinds ==
  ASSUME NEW i1, NEW i2, IsKeyInfo(i1), IsKeyInfo(i2),
         OprfKey(OprfKeyMaterial(i1)) = OprfKey(OprfKeyMaterial(i2))
  PROVE  i1 = i2
<1>1. OprfKeyMaterial(i1) = OprfKeyMaterial(i2)
  BY DEF OprfKey
<1>2. i1.ikm = i2.ikm /\ i1.info = i2.info
  BY <1>1 DEF OprfKeyMaterial, Expand
<1>3. QED
  BY <1>2 DEF IsKeyInfo

(* What an evaluated element says.                                           *)
LEMMA EvaluatedParts ==
  ASSUME NEW key, NEW password, NEW blind
  PROVE  LET el == BlindEvaluate(key, Blind(password, blind))
         IN  el.pw = password /\ el.blind = blind /\ el.key = {key}
  BY DEF BlindEvaluate, Blind

(* Sealing an envelope.                                                      *)
LEMMA SealParts ==
  ASSUME NEW nonce, NEW rwd, NEW s_pk, NEW identifiers, Seal(nonce, rwd, s_pk, identifiers).ok
  PROVE  LET sealed == Seal(nonce, rwd, s_pk, identifiers).val
             c_pk == Pk(ClientStaticKey(rwd, nonce))
             ids == SerializedIdentifiers(identifiers, c_pk, s_pk)
         IN  /\ ids.ok
             /\ sealed.client_s_pk = c_pk
             /\ sealed.export_key = ExportKey(rwd, nonce)
             /\ sealed.envelope.nonce = nonce
             /\ sealed.envelope.hmac =
                  EnvelopeMac(rwd, nonce, ConstructAad(ids.val.client, ids.val.server, s_pk))
<1> DEFINE sealed == Seal(nonce, rwd, s_pk, identifiers)
           c_pk == Pk(ClientStaticKey(rwd, nonce))
           ids == SerializedIdentifiers(identifiers, c_pk, s_pk)
           aad == ConstructAad(ids.val.client, ids.val.server, s_pk)
           raw == SealRaw(rwd, nonce, aad, "Internal")
<1>1. ids.ok
  BY DEF Seal
<1>2. sealed = Ok([ envelope |-> raw.envelope, client_s_pk |-> c_pk,
                    export_key |-> raw.export_key ])
  BY <1>1 DEF Seal
<1>3. /\ raw.envelope.nonce = nonce
      /\ raw.envelope.hmac = EnvelopeMac(rwd, nonce, aad)
      /\ raw.export_key = ExportKey(rwd, nonce)
  BY DEF SealRaw
<1>4. /\ sealed.val.envelope = raw.envelope
      /\ sealed.val.client_s_pk = c_pk
      /\ sealed.val.export_key = raw.export_key
  <2> HIDE DEF sealed, c_pk, raw
  <2>1. QED
    BY <1>2 DEF Ok
<1> HIDE DEF raw, sealed
<1>5. QED
  BY <1>1, <1>3, <1>4 DEF sealed

(* The password-derived key of a registration, and the identifiers it sealed *)
(* its envelope for.                                                         *)
RegistrationPwd(r) ==
  RandomizedPwd(registration[r].final, <<"blind", r>>,
                registration[r].response.evaluation_element, registration[r].params.ksf)

RegistrationIds(r) ==
  SerializedIdentifiers(registration[r].params.identifiers, registration[r].upload.client_s_pk,
                        registration[r].server_s_pk)

(* What a registration that ended uploaded and returned.                     *)
UploadHolds(r) ==
  LET now == registration[r]
      nonce == <<"envelope_nonce", r>>
      ids == RegistrationIds(r)
  IN  /\ ids.ok
      /\ now.server_s_pk = now.response.server_s_pk
      /\ now.upload.masking_key = MaskingKey(RegistrationPwd(r))
      /\ now.upload.client_s_pk = Pk(ClientStaticKey(RegistrationPwd(r), nonce))
      /\ now.upload.envelope.nonce = nonce
      /\ now.upload.envelope.hmac =
           EnvelopeMac(RegistrationPwd(r), nonce,
                       ConstructAad(ids.val.client, ids.val.server, now.server_s_pk))
      /\ now.export_key = ExportKey(RegistrationPwd(r), nonce)

(* A registration that is done holds what its finish computed.               *)
LEMMA UploadHeld ==
  ASSUME HInv, NEW r \in Registrations, registration[r].pc = "done"
  PROVE  UploadHolds(r)
<1> DEFINE now == registration[r]
           rwd == RandomizedPwd(now.final, now.state.oprf_client,
                                now.response.evaluation_element, now.params.ksf)
           nonce == <<"envelope_nonce", r>>
           sealed == Seal(nonce, rwd, now.response.server_s_pk, now.params.identifiers)
           result == FinishClientRegistration(r, now.state, now.final, now.response, now.params)
<1>1. /\ result.ok
      /\ now.upload = result.val.message
      /\ now.export_key = result.val.export_key
      /\ now.server_s_pk = result.val.server_s_pk
  BY DEF HInv, RegistrationsEnded, RegistrationEnded, RegistrationResult
<1>2. rwd = RegistrationPwd(r)
  BY RegistrationHeld DEF RegistrationPwd
<1>3. /\ sealed.ok
      /\ result = Ok([ message |-> [ envelope    |-> sealed.val.envelope,
                                     masking_key |-> MaskingKey(rwd),
                                     client_s_pk |-> sealed.val.client_s_pk ],
                       export_key  |-> sealed.val.export_key,
                       server_s_pk |-> now.response.server_s_pk ])
  <2>1. LET key == PasswordDerivedKey(now.final, now.state.oprf_client,
                                      now.response.evaluation_element, now.params.ksf)
        IN  key.ok /\ key.val = rwd
    BY <1>1, PasswordKeyOutcome DEF FinishClientRegistration, Err
  <2>2. QED
    BY <1>1, <2>1 DEF FinishClientRegistration, Err
<1> DEFINE c_pk == Pk(ClientStaticKey(rwd, nonce))
           ids == SerializedIdentifiers(now.params.identifiers, c_pk, now.response.server_s_pk)
<1>4. /\ ids.ok
      /\ sealed.val.client_s_pk = c_pk
      /\ sealed.val.export_key = ExportKey(rwd, nonce)
      /\ sealed.val.envelope.nonce = nonce
      /\ sealed.val.envelope.hmac =
           EnvelopeMac(rwd, nonce,
             ConstructAad(ids.val.client, ids.val.server, now.response.server_s_pk))
  <2> HIDE DEF rwd, nonce, now
  <2>1. QED
    BY <1>3, SealParts
<1>5. /\ now.upload.envelope = sealed.val.envelope
      /\ now.upload.masking_key = MaskingKey(rwd)
      /\ now.upload.client_s_pk = sealed.val.client_s_pk
      /\ now.export_key = sealed.val.export_key
      /\ now.server_s_pk = now.response.server_s_pk
  <2> HIDE DEF sealed, rwd, now, result
  <2>1. QED
    BY <1>1, <1>3 DEF Ok
<1>6. RegistrationIds(r) = ids
  BY <1>4, <1>5 DEF RegistrationIds
<1> HIDE DEF sealed, ids, rwd
<1>7. QED
  BY <1>2, <1>4, <1>5, <1>6 DEF UploadHolds

(* The record behind an accepted login is the upload of a registration, with *)
(* the client's own password-derived key: a dummy's masking key is derived   *)
(* from no password.                                                         *)
LEMMA AcceptedRecord ==
  ASSUME HInv, NEW s \in Clients, client[s].pc = "done", NEW h \in Servers, Answered(h),
         AgreesWith(s, h)
  PROVE  \E r \in Registrations :
           /\ registration[r].pc = "done"
           /\ server[h].given.password_file # None
           /\ server[h].given.password_file = registration[r].upload
           /\ RegistrationPwd(r) = ClientPwd(s)
           /\ client[s].response.masked_response.envelope
                = SerializeEnvelope(registration[r].upload.envelope)
<1> DEFINE masked == client[s].response.masked_response
<1>1. PICK g \in Setups : BuiltFrom(h, g)
  BY BuiltFromGiven
<1> DEFINE record == RecordOf(h, g)
<1>2. /\ masked.pad = <<record.masking_key, <<"masking_nonce", h>>>>
      /\ masked.envelope = SerializeEnvelope(record.envelope)
  <2>1. server[h].builder.parts = ResponseParts(client[s].response)
    BY AcceptedServerKey
  <2>2. server[h].builder.parts.masked_response = masked
    BY <2>1 DEF ResponseParts
  <2>3. masked = MaskResponse(record.masking_key, <<"masking_nonce", h>>,
                              Pk(server[h].builder.server_s_sk), record.envelope)
    BY <1>1, <2>2 DEF BuiltFrom
  <2> HIDE DEF masked, record
  <2>4. QED
    BY <2>3 DEF MaskResponse
<1>3. record.masking_key = MaskingKey(ClientPwd(s))
  <2>1. masked.pad = <<MaskingKey(ClientPwd(s)), client[s].response.masking_nonce>>
    BY LoginHeld DEF LoginHolds
  <2> HIDE DEF masked, record
  <2>2. QED
    BY <1>2, <2>1
<1>4. server[h].given.password_file # None
  <2>1. DummyFor(h, g).masking_key # MaskingKey(ClientPwd(s))
    BY DEF DummyFor, MaskingKey, Expand
  <2>2. QED
    BY <1>3, <2>1 DEF RecordOf
<1>5. PICK m \in Sent("RegistrationUpload") : server[h].given.password_file = m.upload
  BY <1>4 DEF HInv, BuildersMade, BuilderMade
<1>6. PICK r \in Registrations :
        registration[r].pc = "done" /\ m.upload = registration[r].upload
  BY DEF HInv, UploadsMade
<1>7. record = registration[r].upload
  BY <1>4, <1>5, <1>6 DEF RecordOf
<1>8. MaskingKey(RegistrationPwd(r)) = MaskingKey(ClientPwd(s))
  BY <1>3, <1>6, <1>7, UploadHeld DEF UploadHolds
<1>9. RegistrationPwd(r) = ClientPwd(s)
  BY <1>8 DEF MaskingKey, Expand
<1>10. QED
  BY <1>2, <1>4, <1>5, <1>6, <1>7, <1>9

(* The response that a registration finished on was the evaluation of its    *)
(* own element, as the one that a login finished on was of the login's.      *)
LEMMA SameOprf ==
  ASSUME HInv, NEW s \in Clients, client[s].pc = "done", NEW h \in Servers, Answered(h),
         AgreesWith(s, h), NEW r \in Registrations, registration[r].pc = "done",
         RegistrationPwd(r) = ClientPwd(s)
  PROVE  /\ registration[r].password = client[s].password
         /\ registration[r].final = client[s].final
         /\ registration[r].params.ksf = client[s].params.ksf
         /\ server[h].given.key_info = registration[r].response.origin.key_info
<1> DEFINE now == registration[r]
           el == client[s].response.evaluation_element
           key_info == server[h].given.key_info
           origin == now.response.origin
           reg == now.response.evaluation_element
<1>1. el.pw = client[s].password /\ el.blind = <<"blind", s>>
      /\ el.key = {OprfKey(OprfKeyMaterial(key_info))}
  <2>1. PICK g \in Setups : BuiltFrom(h, g)
    BY BuiltFromGiven
  <2>2. server[h].builder.parts = ResponseParts(client[s].response)
    BY AcceptedServerKey
  <2>3. el = BlindEvaluate(OprfKey(OprfKeyMaterial(key_info)),
                           server[h].given.request.blinded_element)
    BY <2>1, <2>2 DEF BuiltFrom, ResponseParts
  <2>4. server[h].given.request.blinded_element = Blind(client[s].password, <<"blind", s>>)
    BY ClientHeld DEF AgreesWith
  <2> HIDE DEF el, key_info
  <2>5. QED
    BY <2>3, <2>4, EvaluatedParts
<1>2. /\ now.final = client[s].final
      /\ now.params.ksf = client[s].params.ksf
      /\ reg.pw = el.pw /\ reg.key = el.key
      /\ BlindLeft(<<"blind", r>>, reg) = BlindLeft(<<"blind", s>>, el)
  <2>1. RandomizedPwd(now.final, <<"blind", r>>, reg, now.params.ksf)
          = RandomizedPwd(client[s].final, <<"blind", s>>, el, client[s].params.ksf)
    BY ClientHeld DEF RegistrationPwd, ClientPwd
  <2> HIDE DEF now, reg, el
  <2>2. QED
    BY <2>1, PasswordKeyBinds
<1>3. /\ now.response \in Sent("RegistrationResponse")
      /\ IsKeyInfo(origin.key_info)
      /\ Evaluated(now.response) \/ Echoed(now.response)
  BY DEF HInv, RegistrationsEnded, RegistrationEnded, RegistrationResponsesMade
<1>4. PICK q \in Registrations : BlindedBy(q, origin.blinded_element)
  BY <1>3 DEF HInv, RegistrationResponsesMade
<1>5. ~Echoed(now.response)
  <2>1. Blind(registration[q].password, <<"blind", q>>).key = {}
    BY DEF Blind
  <2>2. reg.key # {}
    BY <1>1, <1>2
  <2>3. QED
    BY <1>4, <2>1, <2>2 DEF Echoed, BlindedBy
<1>6. /\ reg.pw = registration[q].password /\ reg.blind = <<"blind", q>>
      /\ reg.key = {OprfKey(OprfKeyMaterial(origin.key_info))}
  <2>1. reg = BlindEvaluate(OprfKey(OprfKeyMaterial(origin.key_info)),
                            Blind(registration[q].password, <<"blind", q>>))
    BY <1>3, <1>4, <1>5 DEF Evaluated, BlindedBy
  <2> HIDE DEF reg, origin
  <2>2. QED
    BY <2>1, EvaluatedParts
<1>7. q = r
  <2>1. BlindLeft(<<"blind", s>>, el) = <<>>
    BY <1>1 DEF BlindLeft
  <2>2. \A x, y : <<x, y>> # <<>>
    OBVIOUS
  <2>3. reg.blind = <<"blind", r>>
    BY <1>2, <2>1, <2>2 DEF BlindLeft
  <2>4. QED
    BY <1>6, <2>3
<1>8. key_info = origin.key_info
  <2>1. IsKeyInfo(key_info)
    BY DEF HInv, BuildersMade, BuilderMade
  <2>2. OprfKey(OprfKeyMaterial(key_info)) = OprfKey(OprfKeyMaterial(origin.key_info))
    BY <1>1, <1>2, <1>6
  <2> HIDE DEF key_info, origin
  <2>3. QED
    BY <1>3, <2>1, <2>2, OprfKeyBinds
<1>9. QED
  BY <1>1, <1>2, <1>6, <1>7, <1>8

(* The envelope that opened was sealed for the same identifiers, server key  *)
(* and export key.                                                           *)
LEMMA SameEnvelope ==
  ASSUME HInv, NEW s \in Clients, client[s].pc = "done",
         NEW r \in Registrations, registration[r].pc = "done",
         RegistrationPwd(r) = ClientPwd(s),
         client[s].response.masked_response.envelope
           = SerializeEnvelope(registration[r].upload.envelope)
  PROVE  /\ RegistrationIds(r).val = ClientIdentifiersOf(s)
         /\ registration[r].server_s_pk = client[s].server_s_pk
         /\ registration[r].export_key = client[s].export_key
<1> DEFINE now == registration[r]
           nonce == <<"envelope_nonce", r>>
           rwd == ClientPwd(s)
           ids_r == RegistrationIds(r).val
           ids == ClientIdentifiersOf(s)
           envelope == client[s].response.masked_response.envelope
<1>1. /\ envelope.nonce = nonce
      /\ envelope.hmac =
           EnvelopeMac(rwd, nonce, ConstructAad(ids_r.client, ids_r.server, now.server_s_pk))
      /\ now.export_key = ExportKey(rwd, nonce)
      /\ RegistrationIds(r).ok
  BY UploadHeld DEF UploadHolds, SerializeEnvelope
<1>2. /\ envelope.hmac = EnvelopeMac(rwd, envelope.nonce,
                           ConstructAad(ids.client, ids.server, client[s].server_s_pk))
      /\ client[s].export_key = ExportKey(rwd, envelope.nonce)
  BY LoginHeld DEF LoginHolds
<1>3. EnvelopeMac(rwd, nonce, ConstructAad(ids_r.client, ids_r.server, now.server_s_pk))
        = EnvelopeMac(rwd, nonce, ConstructAad(ids.client, ids.server, client[s].server_s_pk))
  <2> HIDE DEF rwd, nonce, ids, ids_r, envelope, now
  <2>1. QED
    BY <1>1, <1>2
<1>4. /\ ids_r.client = ids.client /\ ids_r.server = ids.server
      /\ now.server_s_pk = client[s].server_s_pk
  <2> HIDE DEF rwd, nonce, ids, ids_r, now
  <2>1. QED
    BY <1>3 DEF EnvelopeMac, Hmac, ConstructAad
<1>5. IsIdentifiers(ids_r)
  BY <1>1, SerializedIdentifiersForm DEF RegistrationIds
<1>6. IsIdentifiers(ids)
  BY DEF HInv, RInv, IInv, ClientDerived, Derived
<1>7. ids_r = ids
  BY <1>4, <1>5, <1>6 DEF IsIdentifiers
<1>8. QED
  BY <1>1, <1>2, <1>4, <1>7

(* Behind every accepted login stands a finished registration with the same  *)
(* passwords, stretching, identifiers as hashed and server key, answered     *)
(* under the same OPRF seed and credential identifier, and its upload is the *)
(* password file that the server login was given; ClientLogin::finish        *)
(* recovers the export key of that registration.                             *)
THEOREM LoginsNeedRegistrations == Spec => []LoginNeedsRegistration
<1>1. ASSUME HInv, NEW s \in Clients, client[s].pc = "done"
      PROVE  \E r \in Registrations, h \in Servers :
               /\ RegisteredAs(s, r)
               /\ AgreesWith(s, h)
               /\ server[h].given.password_file = registration[r].upload
               /\ server[h].given.key_info = registration[r].response.origin.key_info
  <2>1. PICK h \in Servers : AgreesWith(s, h)
    BY <1>1 DEF HInv, RInv, IInv, ClientAgreement
  <2>2. Answered(h)
    BY <2>1 DEF AgreesWith
  <2>3. PICK r \in Registrations :
          /\ registration[r].pc = "done"
          /\ server[h].given.password_file = registration[r].upload
          /\ RegistrationPwd(r) = ClientPwd(s)
          /\ client[s].response.masked_response.envelope
               = SerializeEnvelope(registration[r].upload.envelope)
    BY <1>1, <2>1, <2>2, AcceptedRecord
  <2>4. /\ registration[r].password = client[s].password
        /\ registration[r].final = client[s].final
        /\ registration[r].params.ksf = client[s].params.ksf
        /\ server[h].given.key_info = registration[r].response.origin.key_info
    BY <1>1, <2>1, <2>2, <2>3, SameOprf
  <2>5. /\ RegistrationIds(r).val = ClientIdentifiersOf(s)
        /\ registration[r].server_s_pk = client[s].server_s_pk
        /\ registration[r].export_key = client[s].export_key
    BY <1>1, <2>3, SameEnvelope
  <2>6. RegisteredAs(s, r)
    BY <2>3, <2>4, <2>5 DEF RegisteredAs, RegistrationIds
  <2>7. QED
    BY <2>1, <2>3, <2>4, <2>6
<1>2. HInv => LoginNeedsRegistration
  BY <1>1 DEF LoginNeedsRegistration
<1>3. QED
  BY <1>2, HInvariance, PTL
===============================================================================
