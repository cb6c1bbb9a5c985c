---------------------------- MODULE OpaqueCompletion ----------------------------
(***************************************************************************)
(* That nothing is refused which should work: ClientLogin::finish succeeds *)
(* on the consistent answer to its own request, and ServerLogin::finish on *)
(* the finalization of the client that accepted its response; for every    *)
(* number of sessions and every suite, and whatever happened in between.   *)
(***************************************************************************)
EXTENDS OpaqueLogins

-------------------------------------------------------------------------------
(* The two ends' views of one answer.                                        *)

(* The KE2 message and the view behind it, of a login built from what it was *)
(* given.                                                                    *)
AnswerMade(h, g) ==
  LET given == server[h].given
      parts == server[h].builder.parts
      view == ServerView(h)
      ke1 == given.request.ke1_message
      ke2 == server[h].message.ke2_message
      t == Transcript(view.context, view.identifiers, view.cache)
      server_e_sk == <<"server_e", h>>
  IN  /\ ResponseParts(server[h].message) = parts
      /\ view.context = SerializedContext(given.params.context).val
      /\ view.identifiers =
           SerializedIdentifiers(given.params.identifiers, RecordOf(h, g).client_s_pk,
                                 Pk(server[h].builder.server_s_sk)).val
      /\ view.cache = Cache(given.request.blinded_element, ke1, parts,
                            ke2.server_nonce, ke2.server_e_pk, ke2.kem_ct)
      /\ ke2.server_e_pk = Pk(server_e_sk)
      /\ Kem => ke2.kem_ct = Encapsulate(ke1.kem_ek, h)
      /\ ke2.mac = ServerMac(DeriveKeys(ServerSecrets(h), t), view.identifiers, t)
      /\ Sigma => ke2.signature = server[h].input.signature
      /\ view.shared_secret_1 = DH(server_e_sk, ke1.client_e_pk)
      /\ ~Sigma => view.shared_secret_3 = DH(server_e_sk, RecordOf(h, g).client_s_pk)
      /\ Kem => view.kem_shared_secret = EncapsulatedSecret(ke1.kem_ek, h)

(* A response that was sent is made in this way.                             *)
LEMMA AnswerMakes ==
  ASSUME HInv, NEW h \in Servers, Answered(h), NEW g \in Setups, BuiltFrom(h, g)
  PROVE  AnswerMade(h, g)
<1> DEFINE given == server[h].given
           parts == server[h].builder.parts
           view == ServerView(h)
           ke1 == given.request.ke1_message
           ke2 == server[h].message.ke2_message
           t == Transcript(view.context, view.identifiers, view.cache)
           server_e_sk == <<"server_e", h>>
           ids == SerializedIdentifiers(given.params.identifiers, RecordOf(h, g).client_s_pk,
                                        Pk(server[h].builder.server_s_sk)).val
           context == SerializedContext(given.params.context).val
           c_pk == RecordOf(h, g).client_s_pk
<1>1. view = Ke2Builder(h, given.request.blinded_element, ke1, parts, c_pk, ids, context)
  BY DEF BuiltFrom, ServerView
<1>2. /\ view.context = context
      /\ view.identifiers = ids
      /\ view.cache = Cache(given.request.blinded_element, ke1, parts, <<"server_nonce", h>>,
                            Pk(server_e_sk), IF Kem THEN Encapsulate(ke1.kem_ek, h) ELSE None)
      /\ view.shared_secret_1 = DH(server_e_sk, ke1.client_e_pk)
      /\ ~Sigma => view.shared_secret_3 = DH(server_e_sk, c_pk)
      /\ Kem => view.kem_shared_secret = EncapsulatedSecret(ke1.kem_ek, h)
  <2> HIDE DEF view, ids, context, c_pk, parts, given
  <2>1. QED
    BY <1>1 DEF Ke2Builder
<1>3. ke2 = BuildKe2(view, server[h].input).message
  BY AnswerHeld DEF ServerView
<1>4. /\ ke2.server_nonce = view.cache.server_nonce
      /\ ke2.server_e_pk = view.cache.server_e_pk
      /\ ke2.kem_ct = view.cache.kem_ct
      /\ ke2.mac = BuilderServerMac(view, server[h].input)
      /\ Sigma => ke2.signature = server[h].input.signature
  <2> HIDE DEF view, ke2
  <2>1. QED
    BY <1>3 DEF BuildKe2
<1>5. /\ view.cache.server_nonce = <<"server_nonce", h>>
      /\ view.cache.server_e_pk = Pk(server_e_sk)
      /\ Kem => view.cache.kem_ct = Encapsulate(ke1.kem_ek, h)
      /\ view.cache.kem_ct = IF Kem THEN Encapsulate(ke1.kem_ek, h) ELSE None
  <2> HIDE DEF view, server_e_sk, parts, given
  <2>1. QED
    BY <1>2 DEF Cache
<1>6. ke2.mac = ServerMac(DeriveKeys(ServerSecrets(h), t), view.identifiers, t)
  BY <1>4 DEF BuilderServerMac, BuilderKeys, ServerSecrets
<1>7. ResponseParts(server[h].message) = parts
  <2>1. /\ server[h].message.evaluation_element = parts.evaluation_element
        /\ server[h].message.masking_nonce = parts.masking_nonce
        /\ server[h].message.masked_response = parts.masked_response
    BY AnswerHeld
  <2>2. ResponseParts(server[h].message) = ResponseParts(parts)
    BY <2>1 DEF ResponseParts
  <2>3. QED
    BY <2>2 DEF BuiltFrom
<1> HIDE DEF view, ke2, t, ids, context, c_pk, parts, server_e_sk, ke1, given
<1>8. view.cache = Cache(given.request.blinded_element, ke1, parts, ke2.server_nonce,
                         ke2.server_e_pk, ke2.kem_ct)
  BY <1>2, <1>4, <1>5
<1>9. QED
  BY <1>2, <1>4, <1>5, <1>6, <1>7, <1>8
  DEF AnswerMade, view, ke2, t, ids, context, c_pk, parts, server_e_sk, ke1, given

-------------------------------------------------------------------------------
(* A registration, a login and an answer that fit together.                  *)

(* The Option of a password file that is not given is none that is given.    *)
NoneIsNoRecord ==
  \A e, k, p : None # [envelope |-> e, masking_key |-> k, client_s_pk |-> p]

Matching(s, r, h) ==
  /\ client[s].pc = "failed"
  /\ Answers(h, s, r)
  /\ Repeated(s, r, h, client[s].final, client[s].params)
  /\ client[s].response = server[h].message

(* What a registration uploads is a record.                                  *)
LEMMA UploadIsRecord ==
  ASSUME HInv, NoneIsNoRecord, NEW r \in Registrations, registration[r].pc = "done"
  PROVE  registration[r].upload # None
<1> DEFINE result == RegistrationResult(registration[r], r)
<1>1. result.ok /\ registration[r].upload = result.val.message
  BY DEF HInv, RegistrationsEnded, RegistrationEnded
<1>2. PICK e, k, p, x, y :
        result = Ok([ message |-> [envelope |-> e, masking_key |-> k, client_s_pk |-> p],
                      export_key |-> x, server_s_pk |-> y ])
  BY <1>1 DEF RegistrationResult, FinishClientRegistration, Err
<1> HIDE DEF result
<1>3. result.val.message = [envelope |-> e, masking_key |-> k, client_s_pk |-> p]
  BY <1>2 DEF Ok
<1>4. QED
  BY <1>1, <1>3 DEF NoneIsNoRecord

(* The login derives the registration's password-derived key again: both     *)
(* blinds are gone, and both elements went through the same OPRF key.        *)
LEMMA MatchingPassword ==
  ASSUME HInv, NEW s \in Clients, NEW r \in Registrations, NEW h \in Servers, Matching(s, r, h)
  PROVE  RegistrationPwd(r) = ClientPwd(s)
<1> DEFINE now == registration[r]
           el == client[s].response.evaluation_element
           reg == now.response.evaluation_element
           pw == client[s].password
           key == OprfKey(OprfKeyMaterial(server[h].given.key_info))
<1>0. /\ now.pc = "done" /\ client[s].pc # "idle" /\ Answered(h)
      /\ now.password = pw /\ now.final = pw /\ client[s].final = pw
      /\ client[s].params.ksf = now.params.ksf
  BY DEF Matching, Answers, ConsistentRegistration, Repeated
<1>1. el = BlindEvaluate(key, Blind(pw, <<"blind", s>>))
  <2>1. PICK g \in Setups : BuiltFrom(h, g)
    BY <1>0, BuiltFromGiven
  <2>2. el = server[h].builder.parts.evaluation_element
    BY <1>0, AnswerHeld DEF Matching
  <2>3. server[h].given.request.blinded_element = Blind(pw, <<"blind", s>>)
    BY <1>0, ClientHeld DEF Matching, Answers, ConsistentAnswer
  <2>4. QED
    BY <2>1, <2>2, <2>3 DEF BuiltFrom
<1>2. reg = BlindEvaluate(key, Blind(pw, <<"blind", r>>))
  <2>1. /\ now.state.blinded_element = Blind(pw, <<"blind", r>>)
    BY <1>0, RegistrationHeld
  <2>2. /\ now.response.origin.blinded_element = now.state.blinded_element
        /\ now.response.origin.key_info = server[h].given.key_info
    BY DEF Matching, Answers, ConsistentRegistration
  <2>3. /\ now.response \in Sent("RegistrationResponse")
        /\ RegistrationResult(now, r).ok
    BY <1>0 DEF HInv, RegistrationsEnded, RegistrationEnded
  <2>4. ~Reflected(reg, now.state.blinded_element)
    BY <2>3 DEF RegistrationResult, FinishClientRegistration, Err
  <2>5. ~Echoed(now.response)
    BY <2>2, <2>4 DEF Echoed, Reflected
  <2>6. Evaluated(now.response)
    BY <2>3, <2>5 DEF HInv, RegistrationResponsesMade
  <2>7. QED
    BY <2>1, <2>2, <2>6 DEF Evaluated
<1>3. OprfOutput(pw, <<"blind", r>>, reg) = OprfOutput(pw, <<"blind", s>>, el)
  <2>1. /\ reg.pw = pw /\ reg.blind = <<"blind", r>> /\ reg.key = {key}
        /\ el.pw = pw /\ el.blind = <<"blind", s>> /\ el.key = {key}
    <3> HIDE DEF key, pw, reg, el
    <3>1. QED
      BY <1>1, <1>2, EvaluatedParts
  <2> HIDE DEF key, pw, reg, el
  <2>2. QED
    BY <2>1 DEF OprfOutput
<1>4. client[s].state.oprf_client = <<"blind", s>>
  BY <1>0, ClientHeld
<1> HIDE DEF reg, el, pw
<1>5. RandomizedPwd(pw, <<"blind", r>>, reg, now.params.ksf)
        = RandomizedPwd(pw, <<"blind", s>>, el, now.params.ksf)
  BY <1>3 DEF RandomizedPwd
<1>6. QED
  BY <1>0, <1>4, <1>5 DEF RegistrationPwd, ClientPwd, reg, el

(* The response unmasks to the registration's envelope and server key, and   *)
(* the identifiers and the context that the two ends hash are the same.      *)
Unmasks(s, r, h) ==
  LET rwd == ClientPwd(s)
      response == client[s].response
      masked == response.masked_response
      s_pk == Pk(server[h].builder.server_s_sk)
      nonce == <<"envelope_nonce", r>>
      ids == SerializedIdentifiers(client[s].params.identifiers,
               Pk(ClientStaticKey(rwd, nonce)), s_pk)
  IN  /\ masked.pad = <<MaskingKey(rwd), response.masking_nonce>>
      /\ masked.server_s_pk = s_pk
      /\ masked.envelope.nonce = nonce
      /\ ids.ok
      /\ masked.envelope.hmac =
           EnvelopeMac(rwd, nonce, ConstructAad(ids.val.client, ids.val.server, s_pk))
      /\ SerializedContext(client[s].params.context).ok
      /\ ServerView(h).identifiers = ids.val
      /\ ServerView(h).context = SerializedContext(client[s].params.context).val

(* It does for the consistent answer, made from the registration's record.   *)
LEMMA MatchingResponse ==
  ASSUME HInv, NoneIsNoRecord, NEW s \in Clients, NEW r \in Registrations, NEW h \in Servers,
         Matching(s, r, h), NEW g \in Setups, BuiltFrom(h, g)
  PROVE  /\ Unmasks(s, r, h)
         /\ RecordOf(h, g).client_s_pk
              = Pk(ClientStaticKey(ClientPwd(s), <<"envelope_nonce", r>>))
<1> DEFINE rwd == ClientPwd(s)
           response == client[s].response
           masked == response.masked_response
           s_pk == Pk(server[h].builder.server_s_sk)
           nonce == <<"envelope_nonce", r>>
           c_pk == Pk(ClientStaticKey(rwd, nonce))
           ids == SerializedIdentifiers(client[s].params.identifiers, c_pk, s_pk)
           upload == registration[r].upload
<1>0. /\ registration[r].pc = "done" /\ Answered(h)
      /\ server[h].given.password_file = upload
      /\ registration[r].server_s_pk = s_pk
      /\ registration[r].params.identifiers = server[h].given.params.identifiers
      /\ client[s].params.identifiers = registration[r].params.identifiers
      /\ SerializedContext(client[s].params.context)
           = SerializedContext(server[h].given.params.context)
  BY DEF Matching, Answers, ConsistentRegistration, ConsistentAnswer, Repeated
<1>1. RecordOf(h, g) = upload
  BY <1>0, UploadIsRecord DEF RecordOf
<1>2. /\ RegistrationIds(r).ok
      /\ upload.masking_key = MaskingKey(rwd)
      /\ upload.client_s_pk = c_pk
      /\ upload.envelope.nonce = nonce
      /\ upload.envelope.hmac =
           EnvelopeMac(rwd, nonce,
             ConstructAad(RegistrationIds(r).val.client, RegistrationIds(r).val.server, s_pk))
  BY <1>0, UploadHeld, MatchingPassword DEF UploadHolds
<1>3. RegistrationIds(r) = ids
  BY <1>0, <1>2 DEF RegistrationIds
<1>4. /\ masked = MaskResponse(upload.masking_key, <<"masking_nonce", h>>, s_pk, upload.envelope)
      /\ response.masking_nonce = <<"masking_nonce", h>>
  <2>1. /\ response.masking_nonce = server[h].builder.parts.masking_nonce
        /\ masked = server[h].builder.parts.masked_response
    BY <1>0, AnswerHeld DEF Matching
  <2>2. QED
    BY <1>1, <2>1 DEF BuiltFrom
<1>5. /\ masked.pad = <<MaskingKey(rwd), response.masking_nonce>>
      /\ masked.server_s_pk = s_pk
      /\ masked.envelope.nonce = nonce
      /\ masked.envelope.hmac = upload.envelope.hmac
  <2> HIDE DEF masked, upload, rwd, nonce, s_pk, response
  <2>1. QED
    BY <1>2, <1>4 DEF MaskResponse, SerializeEnvelope
<1>6. /\ ServerView(h).identifiers = ids.val
      /\ ServerView(h).context = SerializedContext(client[s].params.context).val
      /\ SerializedContext(client[s].params.context).ok
  <2>1. AnswerMade(h, g)
    BY <1>0, AnswerMakes
  <2>2. QED
    BY <1>0, <1>1, <1>2, <2>1 DEF AnswerMade, BuiltFrom
<1>7. RecordOf(h, g).client_s_pk = c_pk
  BY <1>1, <1>2
<1>8. masked.envelope.hmac =
        EnvelopeMac(rwd, nonce, ConstructAad(ids.val.client, ids.val.server, s_pk))
  BY <1>2, <1>3, <1>5
<1>9. ids.ok
  BY <1>2, <1>3
<1>10. QED
  BY <1>5, <1>6, <1>7, <1>8, <1>9 DEF Unmasks

(* Both ends compute the same secrets, each from its own keys, and have seen *)
(* the same messages.                                                        *)
LEMMA MatchingSecrets ==
  ASSUME HInv, NoneIsNoRecord, NEW s \in Clients, NEW r \in Registrations, NEW h \in Servers,
         Matching(s, r, h), NEW g \in Setups, BuiltFrom(h, g)
  PROVE  /\ ServerSecrets(h) =
              ClientIkms(Ke1State(s), server[h].message.ke2_message,
                         Pk(server[h].builder.server_s_sk),
                         ClientStaticKey(ClientPwd(s), <<"envelope_nonce", r>>))
         /\ ServerView(h).cache = ClientCache(s)
<1> DEFINE view == ServerView(h)
           ke1 == server[h].given.request.ke1_message
           ke2 == server[h].message.ke2_message
           server_s_sk == server[h].builder.server_s_sk
           client_s_sk == ClientStaticKey(ClientPwd(s), <<"envelope_nonce", r>>)
           client_e_sk == <<"client_e", s>>
           server_e_sk == <<"server_e", h>>
           kem_dk == <<"kem_dk", s>>
<1>0. /\ Answered(h) /\ client[s].pc # "idle"
      /\ server[h].given.request = client[s].state.credential_request
      /\ server[h].input = RemoteKeyAnswer(server[h].builder)
      /\ client[s].response = server[h].message
  BY DEF Matching, Answers, ConsistentAnswer
<1>1. AnswerMade(h, g)
  BY <1>0, AnswerMakes
<1>2. /\ ke1 = Ke1Message(Ke1State(s))
      /\ ke1.client_e_pk = Pk(client_e_sk)
      /\ Kem => ke1.kem_ek = Pk(kem_dk)
  <2>1. ke1 = Ke1Message(Ke1State(s))
    BY <1>0, ClientHeld
  <2>2. QED
    BY <2>1 DEF Ke1Message, Ke1State
<1>3. Ke1State(s).client_e_sk = client_e_sk /\ (Kem => Ke1State(s).kem_dk = kem_dk)
  BY DEF Ke1State
<1>4. \A x, y : DH(x, Pk(y)) = DH(y, Pk(x))
  BY DEF DH, Pk
<1>5. view.shared_secret_1 = DH(client_e_sk, ke2.server_e_pk)
  BY <1>1, <1>2, <1>4 DEF AnswerMade
<1>6. ~Sigma => server[h].input = DH(client_e_sk, Pk(server_s_sk))
  <2>1. view.cache.ke1 = ke1
    BY <1>0 DEF HInv, RInv, IInv, ServerBuilt, ViewOK
  <2>2. ~Sigma => RemoteKeyAnswer(server[h].builder) = DH(server_s_sk, view.cache.ke1.client_e_pk)
    BY DEF RemoteKeyAnswer, GenerateKe2Input, Ke2BuilderData, ServerView
  <2>3. QED
    BY <1>0, <1>2, <1>4, <2>1, <2>2
<1>7. ~Sigma => view.shared_secret_3 = DH(client_s_sk, ke2.server_e_pk)
  <2>1. RecordOf(h, g).client_s_pk = Pk(client_s_sk)
    BY MatchingResponse
  <2>2. QED
    BY <1>1, <1>4, <2>1 DEF AnswerMade
<1>8. Kem => view.kem_shared_secret = Decapsulate(kem_dk, ke2.kem_ct)
  <2>1. \A dk, x : Decapsulate(dk, Encapsulate(Pk(dk), x)) = EncapsulatedSecret(Pk(dk), x)
    BY DEF Decapsulate, Encapsulate
  <2>2. Kem => /\ ke2.kem_ct = Encapsulate(Pk(kem_dk), h)
               /\ view.kem_shared_secret = EncapsulatedSecret(Pk(kem_dk), h)
    BY <1>1, <1>2 DEF AnswerMade
  <2>3. QED
    BY <2>1, <2>2
<1>9. ServerSecrets(h) = ClientIkms(Ke1State(s), ke2, Pk(server_s_sk), client_s_sk)
  <2> HIDE DEF view, ke2, client_s_sk, server_s_sk, client_e_sk, kem_dk
  <2>1. ClientIkms(Ke1State(s), ke2, Pk(server_s_sk), client_s_sk)
          = Ikms(DH(client_e_sk, ke2.server_e_pk), DH(client_e_sk, Pk(server_s_sk)),
                 DH(client_s_sk, ke2.server_e_pk),
                 IF Kem THEN Decapsulate(kem_dk, ke2.kem_ct) ELSE None)
    BY <1>3 DEF ClientIkms
  <2>2. QED
    BY <1>5, <1>6, <1>7, <1>8, <2>1 DEF ServerSecrets, Ikms, view
<1>10. view.cache = ClientCache(s)
  <2>1. ResponseParts(client[s].response) = server[h].builder.parts
    BY <1>0, <1>1 DEF AnswerMade
  <2>2. QED
    BY <1>0, <1>1, <2>1 DEF AnswerMade, ClientCache
<1>11. QED
  BY <1>9, <1>10

(* The answer of the holder of the private key is the signature that the     *)
(* client expects.                                                           *)
LEMMA MatchingSignature ==
  ASSUME Sigma, NEW b, NEW server_s_sk, NEW mac
  PROVE  GenerateKe2Input(Ke2BuilderData(b), server_s_sk).signature =
           Sign(server_s_sk, SignedMessage("Server", b.context, b.identifiers.server, b.cache, mac))
<1> DEFINE data == [ role |-> "Server", context |-> b.context, identifiers |-> b.identifiers,
                     cache |-> b.cache, server_mac |-> BuilderServerMac(b, None) ]
<1>1. Ke2BuilderData(b) = data
  BY DEF Ke2BuilderData
<1>2. PostMessage(data, "Sign")
        = SignedMessage("Server", b.context, b.identifiers.server, b.cache, mac)
  BY DEF PostMessage, SignedMessage
<1>3. GenerateKe2Input(data, server_s_sk).signature
        = Sign(server_s_sk, PostMessage(data, "Sign"))
  BY DEF GenerateKe2Input
<1>4. QED
  BY <1>1, <1>2, <1>3

-------------------------------------------------------------------------------
(* When the operations of the client succeed.                                *)

(* The envelope opens with the key and for the values it was sealed with.    *)
LEMMA OpenSucceeds ==
  ASSUME NEW bytes, NEW rwd, NEW s_pk, NEW identifiers, NEW ids,
         ids = SerializedIdentifiers(identifiers, Pk(ClientStaticKey(rwd, bytes.nonce)), s_pk),
         ids.ok,
         bytes.hmac =
           EnvelopeMac(rwd, bytes.nonce, ConstructAad(ids.val.client, ids.val.server, s_pk))
  PROVE  Open(DeserializeEnvelope(bytes), rwd, s_pk, identifiers).ok
<1> DEFINE envelope == DeserializeEnvelope(bytes)
<1>1. envelope.nonce = bytes.nonce /\ envelope.hmac = bytes.hmac /\ envelope.mode # "Zero"
  BY DEF DeserializeEnvelope
<1> HIDE DEF envelope
<1>2. OpenRaw(envelope, rwd, ConstructAad(ids.val.client, ids.val.server, s_pk)).ok
  BY <1>1 DEF OpenRaw, Ok
<1>3. Open(envelope, rwd, s_pk, identifiers).ok
  BY <1>1, <1>2 DEF Open, Ok
<1>4. QED
  BY <1>3 DEF envelope

(* The key exchange ends with the right MAC and, in SIGMA-I, signature.      *)
LEMMA GenerateKe3Succeeds ==
  ASSUME NEW request, NEW ke1, NEW response, NEW ke1_state, NEW ke2, NEW server_s_pk,
         NEW client_s_sk, NEW ids, NEW context, NEW cache, NEW t,
         cache = Cache(request, ke1, response, ke2.server_nonce, ke2.server_e_pk, ke2.kem_ct),
         t = Transcript(context, ids, cache),
         ke2.mac = ServerMac(DeriveKeys(ClientIkms(ke1_state, ke2, server_s_pk, client_s_sk), t),
                             ids, t),
         Sigma => ke2.signature =
           Sign(server_s_pk[2], SignedMessage("Server", context, ids.server, cache, ke2.mac))
  PROVE  GenerateKe3(request, ke1, response, ke1_state, ke2, server_s_pk, client_s_sk, ids,
                     context).ok
<1> DEFINE keys == ClientKeys(request, ke1, response, ke1_state, ke2, server_s_pk, client_s_sk,
                              ids, context)
           message == [ role |-> "Client", context |-> context, identifiers |-> ids,
                        cache |-> cache, server_mac |-> ke2.mac ]
<1>1. keys = DeriveKeys(ClientIkms(ke1_state, ke2, server_s_pk, client_s_sk), t)
  BY DEF ClientKeys, ClientIkms
<1>2. ServerMacMatches(ke2, keys, ids, t)
  BY <1>1 DEF ServerMacMatches
<1>3. PostMessage(message, "Verify")
        = SignedMessage("Server", context, ids.server, cache, ke2.mac)
  BY DEF PostMessage, OtherRole
<1>4. MessageToVerify("Client", message.context, message.identifiers.server,
                      VerifyState(message))
        = SignedMessage("Server", context, ids.server, cache, ke2.mac)
  BY <1>3 DEF MessageToVerify, VerifyState, OtherRole
<1>5. ServerSignatureValid(ke2, server_s_pk, message)
  <2> HIDE DEF message
  <2>1. QED
    BY <1>4 DEF ServerSignatureValid, Verify, Sign
<1>6. QED
  BY <1>2, <1>5 DEF GenerateKe3, Ok

(* A response that the client can unmask, with an envelope for what it reads *)
(* and a KE2 message made with the client's own secrets.                     *)
Acceptable(state, password, response, params) ==
  LET rwd == RandomizedPwd(password, state.oprf_client, response.evaluation_element,
                           params.ksf)
      masked == response.masked_response
      ke2 == response.ke2_message
      s_pk == masked.server_s_pk
      client_s_sk == ClientStaticKey(rwd, masked.envelope.nonce)
      ids == SerializedIdentifiers(params.identifiers, Pk(client_s_sk), s_pk)
      context == SerializedContext(params.context)
      cache == Cache(state.credential_request.blinded_element,
                     state.credential_request.ke1_message, ResponseParts(response),
                     ke2.server_nonce, ke2.server_e_pk, ke2.kem_ct)
      t == Transcript(context.val, ids.val, cache)
  IN  /\ password \notin FinalizeRefuses /\ params.ksf \notin KsfRefuses
      /\ ~Reflected(response.evaluation_element, state.credential_request.blinded_element)
      /\ masked.pad = <<MaskingKey(rwd), response.masking_nonce>>
      /\ ids.ok /\ context.ok
      /\ masked.envelope.hmac = EnvelopeMac(rwd, masked.envelope.nonce,
           ConstructAad(ids.val.client, ids.val.server, s_pk))
      /\ ke2.mac = ServerMac(
           DeriveKeys(ClientIkms(state.ke1_state, ke2, s_pk, client_s_sk), t), ids.val, t)
      /\ Sigma => ke2.signature =
           Sign(s_pk[2], SignedMessage("Server", context.val, ids.val.server, cache, ke2.mac))

(* ClientLogin::finish, from the response it is given: unmasked with the     *)
(* right key there is only one outcome, and nothing in it fails.             *)
LEMMA FinishClientLoginSucceeds ==
  ASSUME NEW state, NEW password, NEW response, NEW params,
         Acceptable(state, password, response, params),
         NEW result \in FinishClientLogin(state, password, response, params)
  PROVE  result.ok
<1> DEFINE rwd == RandomizedPwd(password, state.oprf_client, response.evaluation_element,
                                params.ksf)
           masked == response.masked_response
           ke2 == response.ke2_message
           s_pk == masked.server_s_pk
           client_s_sk == ClientStaticKey(rwd, masked.envelope.nonce)
           ids == SerializedIdentifiers(params.identifiers, Pk(client_s_sk), s_pk)
           context == SerializedContext(params.context)
           cache == Cache(state.credential_request.blinded_element,
                          state.credential_request.ke1_message, ResponseParts(response),
                          ke2.server_nonce, ke2.server_e_pk, ke2.kem_ct)
           t == Transcript(context.val, ids.val, cache)
<1>0. /\ password \notin FinalizeRefuses /\ params.ksf \notin KsfRefuses
      /\ ~Reflected(response.evaluation_element, state.credential_request.blinded_element)
      /\ masked.pad = <<MaskingKey(rwd), response.masking_nonce>>
      /\ ids.ok /\ context.ok
      /\ masked.envelope.hmac = EnvelopeMac(rwd, masked.envelope.nonce,
           ConstructAad(ids.val.client, ids.val.server, s_pk))
      /\ ke2.mac = ServerMac(
           DeriveKeys(ClientIkms(state.ke1_state, ke2, s_pk, client_s_sk), t), ids.val, t)
      /\ Sigma => ke2.signature =
           Sign(s_pk[2], SignedMessage("Server", context.val, ids.val.server, cache, ke2.mac))
  BY DEF Acceptable
<1>1. PICK u \in UnmaskResponse(MaskingKey(rwd), response.masking_nonce, masked) :
        result = OpenAndFinish(state, rwd, response, params,
                   MapErr(u, "SerializationError", "InvalidLoginError"))
  <2>1. LET key == PasswordDerivedKey(password, state.oprf_client,
                                      response.evaluation_element, params.ksf)
        IN  key.ok /\ key.val = rwd
    BY <1>0, PasswordKeyOutcome DEF PasswordUnusable
  <2>2. QED
    BY <1>0, <2>1 DEF FinishClientLogin
<1>2. u = Ok([server_s_pk |-> s_pk, envelope |-> DeserializeEnvelope(masked.envelope)])
  BY <1>0 DEF UnmaskResponse
<1> DEFINE unmasked == MapErr(u, "SerializationError", "InvalidLoginError")
           open == Open(unmasked.val.envelope, rwd, unmasked.val.server_s_pk, params.identifiers)
           opened == MapErr(open, "SealOpenHmacError", "InvalidLoginError")
           ke3 == GenerateKe3(state.credential_request.blinded_element,
                    state.credential_request.ke1_message, ResponseParts(response),
                    state.ke1_state, ke2, unmasked.val.server_s_pk,
                    opened.val.client_s_sk, opened.val.identifiers, context.val)
           fresh == Open(DeserializeEnvelope(masked.envelope), rwd, s_pk, params.identifiers)
<1>3. /\ unmasked.ok
      /\ unmasked.val.server_s_pk = s_pk
      /\ unmasked.val.envelope = DeserializeEnvelope(masked.envelope)
  BY <1>2 DEF MapErr, Ok
<1>4. fresh.ok
  <2> HIDE DEF rwd, masked, s_pk
  <2>1. QED
    BY <1>0, OpenSucceeds
<1>5. opened = fresh /\ opened.ok
  <2>1. open = fresh
    BY <1>3
  <2> HIDE DEF open, fresh
  <2>2. QED
    BY <1>4, <2>1 DEF MapErr
<1>6. opened.val.client_s_sk = client_s_sk /\ opened.val.identifiers = ids.val
  <2>1. fresh.val.client_s_sk = client_s_sk /\ fresh.val.identifiers = ids.val
    <3> HIDE DEF rwd, masked, s_pk
    <3>1. QED
      BY <1>4, OpenParts
  <2>2. QED
    BY <1>5, <2>1
<1>7. ke3.ok
  <2>1. GenerateKe3(state.credential_request.blinded_element,
                    state.credential_request.ke1_message, ResponseParts(response),
                    state.ke1_state, ke2, s_pk, client_s_sk, ids.val, context.val).ok
    <3> HIDE DEF ke2, s_pk, client_s_sk, ids, context
    <3>1. QED
      BY <1>0, GenerateKe3Succeeds
  <2>2. QED
    BY <1>3, <1>6, <2>1
<1>8. OpenAndFinish(state, rwd, response, params, unmasked).ok
  <2>1. ke3 = GenerateKe3(state.credential_request.blinded_element,
                state.credential_request.ke1_message, ResponseParts(response), state.ke1_state,
                response.ke2_message, unmasked.val.server_s_pk, opened.val.client_s_sk,
                opened.val.identifiers, SerializedContext(params.context).val)
    OBVIOUS
  <2>2. unmasked.ok /\ opened.ok /\ SerializedContext(params.context).ok
    BY <1>0, <1>3, <1>5
  <2> HIDE DEF unmasked
  <2>3. QED
    BY <1>7, <2>1, <2>2 DEF OpenAndFinish, Ok
<1>9. QED
  BY <1>1, <1>8

(* What could be hashed at the registration can be hashed at the login.      *)
LEMMA MatchingPasswordUsable ==
  ASSUME HInv, NEW s \in Clients, NEW r \in Registrations, NEW h \in Servers, Matching(s, r, h)
  PROVE  client[s].final \notin FinalizeRefuses /\ client[s].params.ksf \notin KsfRefuses
<1> DEFINE now == registration[r]
           key == PasswordDerivedKey(now.final, now.state.oprf_client,
                                     now.response.evaluation_element, now.params.ksf)
<1>1. /\ now.pc = "done"
      /\ client[s].final = now.final
      /\ client[s].params.ksf = now.params.ksf
  BY DEF Matching, Answers, ConsistentRegistration, Repeated
<1>2. RegistrationResult(now, r).ok
  BY <1>1 DEF HInv, RegistrationsEnded, RegistrationEnded
<1>3. key.ok
  BY <1>2 DEF RegistrationResult, FinishClientRegistration, Err
<1>4. now.final \notin FinalizeRefuses /\ now.params.ksf \notin KsfRefuses
  BY <1>3, PasswordKeyOutcome
<1>5. QED
  BY <1>1, <1>4

(* Every outcome of ClientLogin::finish on a matching answer is a success.   *)
LEMMA MatchingSucceeds ==
  ASSUME HInv, NoneIsNoRecord, NEW s \in Clients, NEW r \in Registrations, NEW h \in Servers,
         Matching(s, r, h),
         NEW result \in FinishClientLogin(client[s].state, client[s].final, client[s].response,
                                          client[s].params)
  PROVE  result.ok
<1> DEFINE now == client[s]
           state == now.state
           response == now.response
           rwd == ClientPwd(s)
           masked == response.masked_response
           ke2 == response.ke2_message
           s_pk == masked.server_s_pk
           client_s_sk == ClientStaticKey(rwd, masked.envelope.nonce)
           ids == SerializedIdentifiers(now.params.identifiers, Pk(client_s_sk), s_pk)
           context == SerializedContext(now.params.context)
           t == Transcript(context.val, ids.val, ClientCache(s))
<1>0. /\ Answered(h) /\ client[s].pc # "idle" /\ response = server[h].message
      /\ server[h].input = RemoteKeyAnswer(server[h].builder)
  BY DEF Matching, Answers, ConsistentAnswer
<1>1. PICK g \in Setups : BuiltFrom(h, g)
  BY <1>0, BuiltFromGiven
<1>2. /\ masked.pad = <<MaskingKey(rwd), response.masking_nonce>>
      /\ s_pk = Pk(server[h].builder.server_s_sk)
      /\ masked.envelope.nonce = <<"envelope_nonce", r>>
      /\ ids.ok /\ context.ok
      /\ masked.envelope.hmac = EnvelopeMac(rwd, masked.envelope.nonce,
           ConstructAad(ids.val.client, ids.val.server, s_pk))
      /\ ServerView(h).identifiers = ids.val
      /\ ServerView(h).context = context.val
  <2>1. Unmasks(s, r, h)
    BY <1>1, MatchingResponse
  <2>2. s_pk = Pk(server[h].builder.server_s_sk) /\ masked.envelope.nonce = <<"envelope_nonce", r>>
    BY <2>1 DEF Unmasks
  <2>3. QED
    BY <2>1, <2>2 DEF Unmasks
<1>3. /\ ServerSecrets(h) = ClientIkms(Ke1State(s), ke2, s_pk, client_s_sk)
      /\ ServerView(h).cache = ClientCache(s)
  BY <1>0, <1>1, <1>2, MatchingSecrets
<1>4. ~Reflected(response.evaluation_element, state.credential_request.blinded_element)
  BY <1>0, ClientHeld, AnswerNotBlinded DEF Reflected
<1>5. state.ke1_state = Ke1State(s)
  BY <1>0, ClientHeld
<1>6. AnswerMade(h, g)
  BY <1>0, <1>1, AnswerMakes
<1>7. ke2.mac =
        ServerMac(DeriveKeys(ClientIkms(state.ke1_state, ke2, s_pk, client_s_sk), t), ids.val, t)
  <2>1. ke2.mac = ServerMac(
          DeriveKeys(ServerSecrets(h), Transcript(ServerView(h).context,
                       ServerView(h).identifiers, ServerView(h).cache)),
          ServerView(h).identifiers,
          Transcript(ServerView(h).context, ServerView(h).identifiers, ServerView(h).cache))
    BY <1>0, <1>6 DEF AnswerMade
  <2> HIDE DEF ids, context, s_pk, client_s_sk, ke2
  <2>2. QED
    BY <1>2, <1>3, <1>5, <2>1
<1>8. Sigma => ke2.signature =
        Sign(s_pk[2], SignedMessage("Server", context.val, ids.val.server, ClientCache(s), ke2.mac))
  <2>1. Sigma => ke2.signature = server[h].input.signature
    BY <1>0, <1>6 DEF AnswerMade
  <2>2. Sigma => server[h].input.signature =
          Sign(server[h].builder.server_s_sk,
               SignedMessage("Server", ServerView(h).context, ServerView(h).identifiers.server,
                             ServerView(h).cache, ke2.mac))
    <3>1. RemoteKeyAnswer(server[h].builder)
            = GenerateKe2Input(Ke2BuilderData(ServerView(h)), server[h].builder.server_s_sk)
      BY DEF RemoteKeyAnswer, ServerView
    <3> HIDE DEF ke2
    <3>2. QED
      BY <1>0, <3>1, MatchingSignature
  <2>3. s_pk[2] = server[h].builder.server_s_sk
    BY <1>2 DEF Pk
  <2> HIDE DEF ids, context, s_pk, client_s_sk, ke2
  <2>4. QED
    BY <1>2, <1>3, <2>1, <2>2, <2>3
<1>9. now.final \notin FinalizeRefuses /\ now.params.ksf \notin KsfRefuses
  BY MatchingPasswordUsable
<1>10. Acceptable(state, now.final, response, now.params)
  BY <1>2, <1>4, <1>7, <1>8, <1>9 DEF Acceptable, ClientPwd, ClientCache
<1>11. QED
  BY <1>10, FinishClientLoginSucceeds

(* A user who repeats what he registered with, on the response that a server *)
(* login made for his request from his record and under the seed, the        *)
(* credential identifier and the key pair of his registration, is not        *)
(* refused: whatever the process did in between (restarts, a new setup,      *)
(* other registrations and logins), in every suite (ClientLogin::finish).    *)
(* The hypothesis is what Rust's Option gives: None is no password file.     *)
THEOREM MatchingLoginsSucceed ==
  ASSUME NoneIsNoRecord PROVE Spec => []MatchingLoginNotRefused
<1>1. ASSUME HInv, NEW s \in Clients, NEW r \in Registrations, NEW h \in Servers,
             Matching(s, r, h)
      PROVE  FALSE
  <2>1. PICK result \in FinishClientLogin(client[s].state, client[s].final, client[s].response,
                                          client[s].params) : ~result.ok
    BY <1>1 DEF HInv, ClientsEnded, ClientEnded, Matching
  <2>2. QED
    BY <1>1, <2>1, MatchingSucceeds
<1>2. HInv => MatchingLoginNotRefused
  BY <1>1 DEF MatchingLoginNotRefused, Matching
<1>3. QED
  BY <1>2, HInvariance, PTL

-------------------------------------------------------------------------------
(* The last message: what the client sent is what the server login expects.  *)

(* The private key that an accepted client recovered from its envelope.      *)
AcceptedKey(s) ==
  ClientStaticKey(ClientPwd(s), client[s].response.masked_response.envelope.nonce)

(* The record a server login worked with names the public key of the client  *)
(* that accepted it: the envelope that opened was sealed with that record.   *)
LEMMA AcceptedClientKey ==
  ASSUME HInv, NEW s \in Clients, client[s].pc = "done", NEW h \in Servers, Answered(h),
         AgreesWith(s, h), NEW g \in Setups
  PROVE  RecordOf(h, g).client_s_pk = Pk(AcceptedKey(s))
<1>1. PICK r \in Registrations :
        /\ registration[r].pc = "done"
        /\ server[h].given.password_file # None
        /\ server[h].given.password_file = registration[r].upload
        /\ RegistrationPwd(r) = ClientPwd(s)
        /\ client[s].response.masked_response.envelope
             = SerializeEnvelope(registration[r].upload.envelope)
  BY AcceptedRecord
<1>2. RecordOf(h, g) = registration[r].upload
  BY <1>1 DEF RecordOf
<1>3. /\ registration[r].upload.client_s_pk
           = Pk(ClientStaticKey(RegistrationPwd(r), <<"envelope_nonce", r>>))
      /\ registration[r].upload.envelope.nonce = <<"envelope_nonce", r>>
  BY <1>1, UploadHeld DEF UploadHolds
<1>4. client[s].response.masked_response.envelope.nonce = <<"envelope_nonce", r>>
  BY <1>1, <1>3 DEF SerializeEnvelope
<1>5. QED
  BY <1>1, <1>2, <1>3, <1>4 DEF AcceptedKey

(* The MAC of an accepted client is the one the server login expects, over   *)
(* the server's own MAC as both have seen it.                                *)
LEMMA ExpectedMac ==
  ASSUME HInv, NEW s \in Clients, client[s].pc = "done", NEW h \in Servers, Answered(h),
         AgreesWith(s, h)
  PROVE  /\ server[h].state.expected_mac = client[s].message.ke3_message.mac
         /\ client[s].response.ke2_message.mac
              = BuilderServerMac(ServerView(h), server[h].input)
<1> DEFINE view == ServerView(h)
           input == server[h].input
           ke2 == client[s].response.ke2_message
           t == Transcript(view.context, view.identifiers, view.cache)
           ids == ClientIdentifiersOf(s)
           context == SerializedContext(client[s].params.context).val
<1>1. server[h].state = BuildKe2(view, input).state /\ ke2 = BuildKe2(view, input).message
  BY AnswerHeld, AcceptedKe2 DEF ServerView
<1>2. ke2.mac = BuilderServerMac(view, input)
  <2> HIDE DEF view, ke2, input
  <2>1. QED
    BY <1>1 DEF BuildKe2
<1>3. server[h].state.expected_mac
        = ClientMac(DeriveKeys(ServerSecrets(h), t), view.identifiers, t, ke2.mac)
  <2>1. BuilderKeys(view, input) = DeriveKeys(ServerSecrets(h), t)
    BY DEF BuilderKeys, ServerSecrets
  <2>2. server[h].state.expected_mac
          = ClientMac(BuilderKeys(view, input), view.identifiers, t, BuilderServerMac(view, input))
    <3> HIDE DEF view, input
    <3>1. QED
      BY <1>1 DEF BuildKe2
  <2> HIDE DEF view, input, ke2, t
  <2>3. QED
    BY <1>2, <2>1, <2>2
<1>4. client[s].message.ke3_message.mac
        = ClientMac(DeriveKeys(ClientSecrets(s), Transcript(context, ids, ClientCache(s))), ids,
                    Transcript(context, ids, ClientCache(s)), ke2.mac)
  BY LoginHeld DEF LoginHolds, ExchangeAccepted
<1>5. /\ ServerSecrets(h) = ClientSecrets(s) /\ view.cache = ClientCache(s)
      /\ view.context = context /\ view.identifiers = ids
  BY AgreedKeys DEF AgreesWith
<1> HIDE DEF view, input, ke2, ids, context
<1>6. QED
  BY <1>2, <1>3, <1>4, <1>5 DEF view, input, ke2, ids, context

(* What the holder of the private key leaves to verify is what the client of *)
(* that login signs: in PureEdDSA put together when it is verified, in the   *)
(* other suites when the server signs.                                       *)
LEMMA ExpectedSignature ==
  ASSUME Sigma, NEW b, NEW server_s_sk, NEW input
  PROVE  MessageToVerify("Server", b.context, b.identifiers.client,
                         GenerateKe2Input(Ke2BuilderData(b), server_s_sk).verify_state)
           = SignedMessage("Client", b.context, b.identifiers.client, b.cache,
                           BuilderServerMac(b, input))
<1> DEFINE mac  == BuilderServerMac(b, input)
           data == [ role |-> "Server", context |-> b.context, identifiers |-> b.identifiers,
                     cache |-> b.cache, server_mac |-> mac ]
<1>1. BuilderServerMac(b, None) = mac
  BY DEF BuilderServerMac, BuilderKeys, Ikms
<1>2. Ke2BuilderData(b) = data
  BY <1>1 DEF Ke2BuilderData
<1>3. GenerateKe2Input(data, server_s_sk).verify_state = VerifyState(data)
  BY DEF GenerateKe2Input
<1> HIDE DEF mac
<1>4. PostMessage(data, "Verify")
        = SignedMessage("Client", b.context, b.identifiers.client, b.cache, mac)
  BY DEF PostMessage, OtherRole
<1>5. MessageToVerify("Server", b.context, b.identifiers.client, VerifyState(data))
        = SignedMessage("Client", b.context, b.identifiers.client, b.cache, mac)
  BY <1>4 DEF MessageToVerify, VerifyState, OtherRole
<1>6. QED
  BY <1>2, <1>3, <1>5 DEF mac

(* What ServerLogin::finish asks for: parameters that can be encoded, the    *)
(* expected MAC and, in SIGMA-I, a signature that verifies.                  *)
Expected(state, ke3, params) ==
  LET context == SerializedContext(params.context)
      id == SerializedIdentifier(params.identifiers.client, state.client_s_pk)
  IN  /\ context.ok
      /\ ke3.mac = state.expected_mac
      /\ Sigma => /\ id.ok
                  /\ Verify(state.client_s_pk,
                            MessageToVerify("Server", context.val, id.val, state.verify_state),
                            ke3.signature)

(* It asks for no more.                                                      *)
LEMMA FinishServerLoginSucceeds ==
  ASSUME NEW state, NEW ke3, NEW params, Expected(state, ke3, params)
  PROVE  FinishServerLogin(state, ke3, params).ok
<1> DEFINE context == SerializedContext(params.context)
           id == SerializedIdentifier(params.identifiers.client, state.client_s_pk)
<1>1. context.ok /\ (Sigma => id.ok)
  BY DEF Expected
<1>2. ClientSignatureValid(state, ke3, context.val, id.val)
  BY DEF ClientSignatureValid, Expected
<1>3. ClientMacMatches(state, ke3)
  BY DEF ClientMacMatches, Expected
<1>4. FinishKe(state, ke3, params.identifiers, context.val) = Ok(state.session_key)
  BY <1>1, <1>2, <1>3 DEF FinishKe
<1>5. QED
  BY <1>1, <1>4 DEF FinishServerLogin, Ok

(* A server login whose response a client accepted finishes on that client's *)
(* finalization, under the parameters it was started with.                   *)
LEMMA MatchingFinishSucceeds ==
  ASSUME HInv, NEW s \in Clients, client[s].pc = "done", NEW h \in Servers, Answered(h),
         AgreesWith(s, h)
  PROVE  FinishServerLogin(server[h].state, client[s].message.ke3_message,
                           server[h].given.params).ok
<1> DEFINE state == server[h].state
           ke3 == client[s].message.ke3_message
           params == server[h].given.params
           view == ServerView(h)
           input == server[h].input
           context == SerializedContext(params.context)
           id == SerializedIdentifier(params.identifiers.client, state.client_s_pk)
           ids == ClientIdentifiersOf(s)
<1>1. PICK g \in Setups : BuiltFrom(h, g)
  BY BuiltFromGiven
<1> DEFINE c_pk == RecordOf(h, g).client_s_pk
           both == SerializedIdentifiers(params.identifiers, c_pk,
                                         Pk(server[h].builder.server_s_sk))
<1>2. context.ok /\ both.ok
  BY <1>1 DEF BuiltFrom
<1>3. view.client_s_pk = c_pk /\ view.context = context.val /\ view.identifiers = both.val
  <2>1. view = Ke2Builder(h, server[h].given.request.blinded_element,
                          server[h].given.request.ke1_message, server[h].builder.parts,
                          c_pk, both.val, context.val)
    BY <1>1 DEF BuiltFrom, ServerView
  <2> HIDE DEF view, c_pk, both, context
  <2>2. QED
    BY <2>1 DEF Ke2Builder
<1>4. state.expected_mac = ke3.mac
  BY ExpectedMac
<1>5. ASSUME Sigma
      PROVE  id.ok /\ Verify(state.client_s_pk,
                             MessageToVerify("Server", context.val, id.val, state.verify_state),
                             ke3.signature)
  <2>1. state.client_s_pk = view.client_s_pk /\ state.verify_state = input.verify_state
    <3>1. state = BuildKe2(view, input).state
      BY AnswerHeld DEF ServerView
    <3> HIDE DEF state, view, input
    <3>2. QED
      BY <1>5, <3>1 DEF BuildKe2
  <2>2. id.ok /\ id.val = both.val.client
    <3>1. id = SerializedIdentifier(params.identifiers.client, c_pk)
      BY <1>3, <2>1
    <3> HIDE DEF id, c_pk
    <3>2. QED
      BY <1>2, <3>1 DEF SerializedIdentifiers, Ok, Err
  <2>3. input = GenerateKe2Input(Ke2BuilderData(view), server[h].builder.server_s_sk)
    BY <1>5, SignatureBound DEF RemoteKeyAnswer, ServerView
  <2>4. MessageToVerify("Server", view.context, view.identifiers.client, state.verify_state)
          = SignedMessage("Client", view.context, view.identifiers.client, view.cache,
                          BuilderServerMac(view, input))
    <3> HIDE DEF state, view, input
    <3>1. QED
      BY <1>5, <2>1, <2>3, ExpectedSignature
  <2>5. ke3.signature =
          Sign(AcceptedKey(s),
               SignedMessage("Client", SerializedContext(client[s].params.context).val,
                             ids.client, ClientCache(s), client[s].response.ke2_message.mac))
    BY <1>5, LoginHeld DEF LoginHolds, ExchangeAccepted, AcceptedKey
  <2>6. /\ view.context = SerializedContext(client[s].params.context).val
        /\ view.identifiers = ids
        /\ view.cache = ClientCache(s)
        /\ client[s].response.ke2_message.mac = BuilderServerMac(view, input)
    BY AgreedKeys, ExpectedMac DEF AgreesWith
  <2>7. state.client_s_pk[2] = AcceptedKey(s)
    <3>1. c_pk = Pk(AcceptedKey(s))
      BY AcceptedClientKey
    <3> HIDE DEF c_pk, state, view
    <3>2. QED
      BY <1>3, <2>1, <3>1 DEF Pk
  <2> HIDE DEF state, ke3, view, input, context, id, ids, both, c_pk
  <2>8. ke3.signature =
          Sign(state.client_s_pk[2],
               MessageToVerify("Server", context.val, id.val, state.verify_state))
    BY <1>3, <2>2, <2>4, <2>5, <2>6, <2>7
  <2>9. QED
    BY <2>2, <2>8 DEF Verify, Sign
<1>6. Expected(state, ke3, params)
  BY <1>2, <1>4, <1>5 DEF Expected
<1>7. QED
  BY <1>6, FinishServerLoginSucceeds

(* A server login that fails on the finalization of the client that accepted *)
(* its response was given other parameters than at its start: whatever was   *)
(* answered by the holder of the private key, restored or tried before, in   *)
(* every suite (ServerLogin::finish).                                        *)
THEOREM MatchingFinalizationsSucceed == Spec => []MatchingFinalizationNotRefused
<1>1. ASSUME HInv, NEW s \in Clients, NEW h \in Servers, client[s].pc = "done",
             server[h].pc = "failed", AgreesWith(s, h),
             server[h].final = server[h].given.params
      PROVE  server[h].ke3_message # client[s].message.ke3_message
  <2>1. ~FinishServerLogin(server[h].state, server[h].ke3_message, server[h].final).ok
    BY <1>1 DEF HInv, ServersEnded, ServerEnded
  <2>2. FinishServerLogin(server[h].state, client[s].message.ke3_message,
                          server[h].given.params).ok
    BY <1>1, MatchingFinishSucceeds DEF Answered
  <2>3. QED
    BY <1>1, <2>1, <2>2
<1>2. HInv => MatchingFinalizationNotRefused
  BY <1>1 DEF MatchingFinalizationNotRefused
<1>3. QED
  BY <1>2, HInvariance, PTL
===============================================================================
