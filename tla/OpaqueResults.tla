----------------------------- MODULE OpaqueResults -----------------------------
(***************************************************************************)
(* What follows from the history of Opaque for errors: every refusal of a  *)
(* finish operation is traced back to the check that made it; for every    *)
(* number of sessions and every suite.                                     *)
(***************************************************************************)
EXTENDS OpaqueHistory

-------------------------------------------------------------------------------
(* What the operations of opaque.rs refuse.                                  *)

(* An element that has been through the server's key is none that a client   *)
(* blinded.                                                                  *)
LEMMA EvaluatedNotBlinded ==
  ASSUME NEW key, NEW p1, NEW b1, NEW p2, NEW b2
  PROVE  BlindEvaluate(key, Blind(p1, b1)) # Blind(p2, b2)
<1>1. BlindEvaluate(key, Blind(p1, b1)).key = {key}
  BY DEF BlindEvaluate, Blind
<1>2. Blind(p2, b2).key = {}
  BY DEF Blind
<1>3. QED
  BY <1>1, <1>2

(* Identifiers are refused only for their length.                            *)
LEMMA IdentifiersRefusal ==
  ASSUME NEW ids, NEW c_pk, NEW s_pk, ~SerializedIdentifiers(ids, c_pk, s_pk).ok
  PROVE  /\ SerializedIdentifiers(ids, c_pk, s_pk).err = "SerializationError"
         /\ {ids.client, ids.server} \cap TooLong # {}
  BY DEF SerializedIdentifiers, SerializedIdentifier, I2osp2, Ok, Err

(* And so is a context.                                                      *)
LEMMA ContextRefusal ==
  ASSUME NEW context, ~SerializedContext(context).ok
  PROVE  /\ SerializedContext(context).err = "SerializationError"
         /\ context \in TooLong
  BY ParametersAssumption DEF SerializedContext, I2osp2, Ok, Err

(* ClientRegistration::finish refuses a reflected value, a password and a    *)
(* stretching that cannot be hashed, and identifiers that are too long.      *)
LEMMA RegistrationRefusal ==
  ASSUME NEW r, NEW state, NEW password, NEW response, NEW params,
         ~FinishClientRegistration(r, state, password, response, params).ok
  PROVE  LET err == FinishClientRegistration(r, state, password, response, params).err
         IN  \/ /\ err = "ReflectedValueError"
                /\ Reflected(response.evaluation_element, state.blinded_element)
             \/ err = "SerializationError" /\ ParametersTooLong(params.identifiers, None)
             \/ PasswordUnusable(err, password, params.ksf)
<1> DEFINE result == FinishClientRegistration(r, state, password, response, params)
           rwd == RandomizedPwd(password, state.oprf_client,
                                response.evaluation_element, params.ksf)
           key == PasswordDerivedKey(password, state.oprf_client,
                                     response.evaluation_element, params.ksf)
           sealed == Seal(<<"envelope_nonce", r>>, rwd, response.server_s_pk, params.identifiers)
           ids == SerializedIdentifiers(params.identifiers,
                    Pk(ClientStaticKey(rwd, <<"envelope_nonce", r>>)), response.server_s_pk)
<1>1. CASE Reflected(response.evaluation_element, state.blinded_element)
  BY <1>1 DEF FinishClientRegistration, Err
<1>2. CASE ~Reflected(response.evaluation_element, state.blinded_element) /\ ~key.ok
  <2>1. result = key
    BY <1>2 DEF FinishClientRegistration
  <2>2. QED
    BY <1>2, <2>1, PasswordKeyOutcome
<1>3. CASE ~Reflected(response.evaluation_element, state.blinded_element) /\ key.ok
  <2>0. key.val = rwd
    BY <1>3, PasswordKeyOutcome
  <2>1. ~sealed.ok /\ result = sealed
    BY <1>3, <2>0 DEF FinishClientRegistration, Ok
  <2>2. ~ids.ok /\ sealed = ids
    BY <2>1 DEF Seal, Ok
  <2> HIDE DEF ids
  <2>3. ids.err = "SerializationError" /\ ParametersTooLong(params.identifiers, None)
    BY <2>2, IdentifiersRefusal DEF ParametersTooLong, ids
  <2>4. QED
    BY <2>1, <2>2, <2>3
<1>4. QED
  BY <1>1, <1>2, <1>3

(* The envelope does not open with the wrong key or for the wrong            *)
(* identifiers; an encoding fails only for its length.                       *)
LEMMA OpenRefusal ==
  ASSUME NEW bytes, NEW rwd, NEW s_pk, NEW ids,
         ~Open(DeserializeEnvelope(bytes), rwd, s_pk, ids).ok
  PROVE  LET err == Open(DeserializeEnvelope(bytes), rwd, s_pk, ids).err
         IN  \/ err = "SealOpenHmacError"
             \/ err = "SerializationError" /\ {ids.client, ids.server} \cap TooLong # {}
<1> DEFINE envelope == DeserializeEnvelope(bytes)
           opened == Open(envelope, rwd, s_pk, ids)
           identifiers == SerializedIdentifiers(ids, Pk(ClientStaticKey(rwd, envelope.nonce)), s_pk)
           raw == OpenRaw(envelope, rwd,
                    ConstructAad(identifiers.val.client, identifiers.val.server, s_pk))
<1>1. envelope.mode # "Zero"
  BY DEF DeserializeEnvelope
<1>2. \/ ~identifiers.ok /\ opened = identifiers
      \/ ~raw.ok /\ opened = raw
  BY <1>1 DEF Open, Ok
<1>3. ~raw.ok => raw.err = "SealOpenHmacError"
  BY DEF OpenRaw, Ok, Err
<1> HIDE DEF identifiers, raw
<1>4. QED
  BY <1>2, <1>3, IdentifiersRefusal DEF identifiers

(* ClientLogin::finish tells a reflected value, a length and a password or a *)
(* stretching that cannot be hashed apart, and nothing else.                 *)
LEMMA ClientRefusal ==
  ASSUME NEW state, NEW password, NEW response, NEW params,
         NEW result \in FinishClientLogin(state, password, response, params), ~result.ok
  PROVE  \/ result.err = "InvalidLoginError"
         \/ result.err = "SerializationError" /\ TooLongGiven(params)
         \/ /\ result.err = "ReflectedValueError"
            /\ Reflected(response.evaluation_element, state.credential_request.blinded_element)
         \/ PasswordUnusable(result.err, password, params.ksf)
<1> DEFINE rwd == RandomizedPwd(password, state.oprf_client,
                                response.evaluation_element, params.ksf)
           key == PasswordDerivedKey(password, state.oprf_client,
                                     response.evaluation_element, params.ksf)
           masked == response.masked_response
<1>1. CASE Reflected(response.evaluation_element, state.credential_request.blinded_element)
  BY <1>1 DEF FinishClientLogin, Err
<1>2. CASE /\ ~Reflected(response.evaluation_element, state.credential_request.blinded_element)
           /\ ~key.ok
  <2>1. result = key
    BY <1>2 DEF FinishClientLogin
  <2>2. QED
    BY <1>2, <2>1, PasswordKeyOutcome
<1>3. CASE /\ ~Reflected(response.evaluation_element, state.credential_request.blinded_element)
           /\ key.ok
  <2>0. key.val = rwd
    BY <1>3, PasswordKeyOutcome
  <2>1. PICK u \in UnmaskResponse(MaskingKey(rwd), response.masking_nonce, masked) :
          result = OpenAndFinish(state, rwd, response, params,
                     MapErr(u, "SerializationError", "InvalidLoginError"))
    BY <1>3, <2>0 DEF FinishClientLogin
  <2> DEFINE unmasked == MapErr(u, "SerializationError", "InvalidLoginError")
             open == Open(unmasked.val.envelope, rwd, unmasked.val.server_s_pk, params.identifiers)
             opened == MapErr(open, "SealOpenHmacError", "InvalidLoginError")
             context == SerializedContext(params.context)
             ke3 == GenerateKe3(state.credential_request.blinded_element,
                      state.credential_request.ke1_message, ResponseParts(response),
                      state.ke1_state, response.ke2_message, unmasked.val.server_s_pk,
                      opened.val.client_s_sk, opened.val.identifiers, context.val)
  <2>2. \/ ~unmasked.ok /\ result = unmasked
        \/ unmasked.ok /\ ~opened.ok /\ result = opened
        \/ ~context.ok /\ result = context
        \/ ~ke3.ok /\ result = ke3
    BY <2>1 DEF OpenAndFinish, Ok
  <2>3. u = Err("SerializationError") \/ \E bytes, s_pk :
          u = Ok([server_s_pk |-> s_pk, envelope |-> DeserializeEnvelope(bytes)])
    BY DEF UnmaskResponse, Noise
  <2>4. ~unmasked.ok => unmasked.err = "InvalidLoginError"
    BY <2>3 DEF MapErr, Ok, Err
  <2>5. unmasked.ok => \E bytes : unmasked.val.envelope = DeserializeEnvelope(bytes)
    BY <2>3 DEF MapErr, Ok, Err
  <2>6. ~ke3.ok => ke3.err = "InvalidLoginError"
    BY DEF GenerateKe3, Ok, Err
  <2>7. ~context.ok => context.err = "SerializationError" /\ TooLongGiven(params)
    BY ContextRefusal DEF TooLongGiven, ParametersTooLong
  <2>8. unmasked.ok /\ ~opened.ok =>
          \/ opened.err = "InvalidLoginError"
          \/ opened.err = "SerializationError" /\ TooLongGiven(params)
    <3> SUFFICES ASSUME unmasked.ok, ~opened.ok
                 PROVE  \/ opened.err = "InvalidLoginError"
                        \/ opened.err = "SerializationError" /\ TooLongGiven(params)
      OBVIOUS
    <3> HIDE DEF unmasked
    <3>1. ~open.ok
      BY DEF MapErr, Err
    <3>2. \/ open.err = "SealOpenHmacError"
          \/ /\ open.err = "SerializationError"
             /\ {params.identifiers.client, params.identifiers.server} \cap TooLong # {}
      BY <2>5, <3>1, OpenRefusal
    <3> HIDE DEF open
    <3>3. QED
      BY <3>1, <3>2 DEF MapErr, Err, TooLongGiven, ParametersTooLong
  <2> HIDE DEF unmasked, opened, context, ke3
  <2>9. QED
    BY <2>2, <2>4, <2>6, <2>7, <2>8
<1>4. QED
  BY <1>1, <1>2, <1>3

(* ServerLogin::finish says nothing but that the login is invalid, or that a *)
(* parameter is too long.                                                    *)
LEMMA ServerRefusal ==
  ASSUME NEW state, NEW ke3, NEW params, ~FinishServerLogin(state, ke3, params).ok
  PROVE  LET err == FinishServerLogin(state, ke3, params).err
         IN  \/ err = "InvalidLoginError"
             \/ err = "SerializationError" /\ TooLongGiven(params)
<1> DEFINE result == FinishServerLogin(state, ke3, params)
           context == SerializedContext(params.context)
           id == SerializedIdentifier(params.identifiers.client, state.client_s_pk)
<1>1. \/ ~context.ok /\ result = context
      \/ ~id.ok /\ result = id
      \/ result.err = "InvalidLoginError"
  BY DEF FinishServerLogin, FinishKe, Ok, Err
<1>2. ~context.ok => context.err = "SerializationError" /\ TooLongGiven(params)
  BY ContextRefusal DEF TooLongGiven, ParametersTooLong
<1>3. ~id.ok => id.err = "SerializationError" /\ TooLongGiven(params)
  BY DEF SerializedIdentifier, I2osp2, Ok, Err, TooLongGiven, ParametersTooLong
<1> HIDE DEF context, id, result
<1>4. QED
  BY <1>1, <1>2, <1>3 DEF result

-------------------------------------------------------------------------------
(* What the sessions hold.                                                   *)

(* A registration, through failures and copies, holds what it began with.    *)
LEMMA RegistrationHeld ==
  ASSUME HInv, NEW r \in Registrations, registration[r].pc # "idle"
  PROVE  /\ registration[r].state.oprf_client = <<"blind", r>>
         /\ registration[r].state.blinded_element
              = Blind(registration[r].password, <<"blind", r>>)
<1>1. registration[r].state = ClientRegistrationState(r, registration[r].password)
  BY DEF HInv, RInv, IInv, TypeOK, RegistrationOK
<1>2. QED
  BY <1>1 DEF ClientRegistrationState

(* And so does a client login.                                               *)
LEMMA ClientHeld ==
  ASSUME HInv, NEW s \in Clients, client[s].pc # "idle"
  PROVE  /\ client[s].state.oprf_client = <<"blind", s>>
         /\ client[s].state.ke1_state = Ke1State(s)
         /\ client[s].state.credential_request.blinded_element
              = Blind(client[s].password, <<"blind", s>>)
         /\ client[s].state.credential_request.ke1_message = Ke1Message(Ke1State(s))
<1>1. client[s].state = ClientLoginState(s, client[s].password)
  BY DEF HInv, RInv, IInv, TypeOK, ClientOK
<1>2. QED
  BY <1>1 DEF ClientLoginState

(* A server login that answered sent and kept what its builder and its input *)
(* make.                                                                     *)
LEMMA AnswerHeld ==
  ASSUME HInv, NEW h \in Servers, Answered(h)
  PROVE  LET builder == server[h].builder
             ke2 == BuildKe2(builder.ke2_builder, server[h].input)
         IN  /\ server[h].message.evaluation_element = builder.parts.evaluation_element
             /\ server[h].message.masking_nonce = builder.parts.masking_nonce
             /\ server[h].message.masked_response = builder.parts.masked_response
             /\ server[h].message.ke2_message = ke2.message
             /\ server[h].state = ke2.state
<1>1. /\ server[h].message = BuildServerLogin(server[h].builder, server[h].input).message
      /\ server[h].state = BuildServerLogin(server[h].builder, server[h].input).state
  BY DEF HInv, RInv, IInv, ServerBuilt
<1>2. QED
  BY <1>1 DEF BuildServerLogin

-------------------------------------------------------------------------------
(* What a server login made of what it was given.                            *)

(* The record it worked with: the one it was given, or the dummy of a setup  *)
(* of generation g.                                                          *)
DummyFor(h, g) ==
  [ envelope |-> DummyEnvelope, masking_key |-> <<"dummy_masking_key", h>>,
    client_s_pk |-> Pk(<<"dummy_sk", g>>) ]

RecordOf(h, g) ==
  IF server[h].given.password_file = None THEN DummyFor(h, g) ELSE server[h].given.password_file

(* The parts of the response and the builder of the KE2 message.             *)
BuiltFrom(h, g) ==
  LET given   == server[h].given
      builder == server[h].builder
      record  == RecordOf(h, g)
      context == SerializedContext(given.params.context)
      ids     == SerializedIdentifiers(given.params.identifiers, record.client_s_pk,
                                       Pk(builder.server_s_sk))
  IN  /\ context.ok /\ ids.ok
      /\ builder.parts.evaluation_element =
           BlindEvaluate(OprfKey(OprfKeyMaterial(given.key_info)), given.request.blinded_element)
      /\ builder.parts.masking_nonce = <<"masking_nonce", h>>
      /\ builder.parts.masked_response =
           MaskResponse(record.masking_key, <<"masking_nonce", h>>, Pk(builder.server_s_sk),
                        record.envelope)
      /\ builder.parts = ResponseParts(builder.parts)
      /\ builder.ke2_builder =
           Ke2Builder(h, given.request.blinded_element, given.request.ke1_message, builder.parts,
                      record.client_s_pk, ids.val, context.val)

(* What a builder made of these arguments holds, field by field.             *)
BuilderOf(builder, h, keys, key_material, password_file, request, params) ==
  LET record  == IF password_file = None THEN DummyRegistration(h, keys) ELSE password_file
      context == SerializedContext(params.context)
      ids     == SerializedIdentifiers(params.identifiers, record.client_s_pk, keys.server_s_pk)
  IN  /\ context.ok /\ ids.ok
      /\ builder.server_s_sk = keys.server_s_sk
      /\ builder.parts.evaluation_element =
           BlindEvaluate(OprfKey(key_material), request.blinded_element)
      /\ builder.parts.masking_nonce = <<"masking_nonce", h>>
      /\ builder.parts.masked_response =
           MaskResponse(record.masking_key, <<"masking_nonce", h>>, keys.server_s_pk,
                        record.envelope)
      /\ builder.parts = ResponseParts(builder.parts)
      /\ builder.ke2_builder =
           Ke2Builder(h, request.blinded_element, request.ke1_message, builder.parts,
                      record.client_s_pk, ids.val, context.val)

(* ServerLogin::builder makes such a builder whenever it succeeds.           *)
LEMMA BuilderParts ==
  ASSUME NEW h, NEW keys, NEW key_material, NEW password_file, NEW request, NEW params,
         ServerLoginBuilderFor(h, keys, key_material, password_file, request, params).ok
  PROVE  BuilderOf(ServerLoginBuilderFor(h, keys, key_material, password_file, request,
                                         params).val,
                   h, keys, key_material, password_file, request, params)
<1> DEFINE record  == IF password_file = None THEN DummyRegistration(h, keys) ELSE password_file
           context == SerializedContext(params.context)
           ids     == SerializedIdentifiers(params.identifiers, record.client_s_pk,
                                            keys.server_s_pk)
           made == ServerLoginBuilderFor(h, keys, key_material, password_file, request, params)
           parts == [ evaluation_element |->
                        BlindEvaluate(OprfKey(key_material), request.blinded_element),
                      masking_nonce   |-> <<"masking_nonce", h>>,
                      masked_response |->
                        MaskResponse(record.masking_key, <<"masking_nonce", h>>,
                                     keys.server_s_pk, record.envelope) ]
<1>1. context.ok /\ ids.ok
  BY DEF ServerLoginBuilderFor, Err
<1>2. made = Ok([ server_s_sk |-> keys.server_s_sk, parts |-> parts,
                  ke2_builder |-> Ke2Builder(h, request.blinded_element, request.ke1_message,
                    parts, record.client_s_pk, ids.val, context.val) ])
  BY <1>1 DEF ServerLoginBuilderFor
<1> HIDE DEF parts, context, ids, made
<1>3. /\ made.val.server_s_sk = keys.server_s_sk
      /\ made.val.parts = parts
      /\ made.val.ke2_builder = Ke2Builder(h, request.blinded_element, request.ke1_message,
                                           parts, record.client_s_pk, ids.val, context.val)
  BY <1>2 DEF Ok
<1>4. /\ parts.evaluation_element = BlindEvaluate(OprfKey(key_material), request.blinded_element)
      /\ parts.masking_nonce = <<"masking_nonce", h>>
      /\ parts.masked_response =
           MaskResponse(record.masking_key, <<"masking_nonce", h>>, keys.server_s_pk,
                        record.envelope)
      /\ parts = ResponseParts(parts)
  BY DEF parts, ResponseParts
<1>5. made.val = ServerLoginBuilderFor(h, keys, key_material, password_file, request, params).val
  BY DEF made
<1>6. QED
  BY <1>1, <1>3, <1>4, <1>5 DEF BuilderOf, record, context, ids

(* Every server login that holds a builder built it so, and every one that   *)
(* answered sent and kept what the builder and its input make.               *)
LEMMA BuiltFromGiven ==
  ASSUME HInv, NEW h \in Servers, HoldsBuilder(h) \/ Answered(h)
  PROVE  \E g \in Setups : BuiltFrom(h, g)
<1>1. BuilderMade(h)
  BY DEF HInv, BuildersMade
<1>2. PICK g \in Setups :
        LET made == ServerLoginBuilderFor(h,
                      NewServerSetup(None, server[h].builder.server_s_sk, <<"dummy_sk", g>>),
                      OprfKeyMaterial(server[h].given.key_info), server[h].given.password_file,
                      server[h].given.request, server[h].given.params)
        IN  made.ok /\ server[h].builder = made.val
  BY <1>1 DEF BuilderMade
<1> DEFINE keys == NewServerSetup(None, server[h].builder.server_s_sk, <<"dummy_sk", g>>)
<1>3. keys.server_s_pk = Pk(server[h].builder.server_s_sk)
  BY DEF NewServerSetup
<1>4. DummyRegistration(h, keys) = DummyFor(h, g)
  BY DEF NewServerSetup, DummyRegistration, DummyFor
<1> DEFINE given == server[h].given
           made == ServerLoginBuilderFor(h, keys, OprfKeyMaterial(given.key_info),
                     given.password_file, given.request, given.params)
           record == IF given.password_file = None THEN DummyRegistration(h, keys)
                                                   ELSE given.password_file
<1>5. record = RecordOf(h, g)
  BY <1>4 DEF RecordOf
<1>6. made.ok /\ server[h].builder = made.val
  BY <1>2
<1>7. BuilderOf(made.val, h, keys, OprfKeyMaterial(given.key_info), given.password_file,
                given.request, given.params)
  BY <1>6, BuilderParts
<1>8. record = IF given.password_file = None THEN DummyRegistration(h, keys)
                                            ELSE given.password_file
  OBVIOUS
<1> HIDE DEF keys, made, record
<1>9. BuilderOf(server[h].builder, h, keys, OprfKeyMaterial(given.key_info),
                given.password_file, given.request, given.params)
  BY <1>6, <1>7
<1>10. BuiltFrom(h, g)
  BY <1>3, <1>5, <1>8, <1>9 DEF BuiltFrom, BuilderOf
<1>11. QED
  BY <1>10

(* A server login works on the request of some client login.                 *)
LEMMA RequestBlinded ==
  ASSUME HInv, NEW h \in Servers, HoldsBuilder(h) \/ Answered(h)
  PROVE  \E s \in Clients :
           /\ client[s].pc # "idle"
           /\ server[h].given.request = client[s].state.credential_request
           /\ server[h].given.request.blinded_element
                = Blind(client[s].password, <<"blind", s>>)
<1>1. PICK m \in Sent("CredentialRequest") : server[h].given.request = m.request
  BY DEF HInv, RInv, IInv, TypeOK, ServerOK
<1>2. PICK s \in Clients :
        client[s].pc # "idle" /\ m.request = client[s].state.credential_request
  BY DEF HInv, RInv, RequestsMade
<1>3. client[s].state.credential_request.blinded_element
        = Blind(client[s].password, <<"blind", s>>)
  BY <1>2, ClientHeld
<1>4. QED
  BY <1>1, <1>2, <1>3

-------------------------------------------------------------------------------
(* Why an operation fails.                                                   *)

(* No server login answers with an element that a client blinded.            *)
LEMMA AnswerNotBlinded ==
  ASSUME HInv, NEW h \in Servers, Answered(h), NEW password, NEW blind
  PROVE  server[h].message.evaluation_element # Blind(password, blind)
<1>1. PICK g \in Setups : BuiltFrom(h, g)
  BY BuiltFromGiven
<1>2. PICK s \in Clients : server[h].given.request.blinded_element
                             = Blind(client[s].password, <<"blind", s>>)
  BY RequestBlinded
<1>3. server[h].message.evaluation_element = server[h].builder.parts.evaluation_element
  BY AnswerHeld
<1>4. server[h].builder.parts.evaluation_element
        = BlindEvaluate(OprfKey(OprfKeyMaterial(server[h].given.key_info)),
                        server[h].given.request.blinded_element)
  BY <1>1 DEF BuiltFrom
<1>5. QED
  BY <1>2, <1>3, <1>4, EvaluatedNotBlinded

(* The three roles, one after the other.                                     *)
LEMMA FailuresExplainedNow == HInv => FailuresExplained
<1> SUFFICES ASSUME HInv PROVE FailuresExplained
  OBVIOUS
<1>1. ASSUME NEW r \in Registrations, registration[r].pc = "failed"
      PROVE  \/ /\ registration[r].error = "ReflectedValueError"
                /\ registration[r].response.origin.key_info.info = None
             \/ /\ registration[r].error = "SerializationError"
                /\ ParametersTooLong(registration[r].params.identifiers, None)
             \/ PasswordUnusable(registration[r].error, registration[r].final,
                                 registration[r].params.ksf)
  <2> DEFINE now == registration[r]
  <2>1. /\ now.response \in Sent("RegistrationResponse")
        /\ ~RegistrationResult(now, r).ok
        /\ now.error = RegistrationResult(now, r).err
    BY <1>1 DEF HInv, RegistrationsEnded, RegistrationEnded
  <2>2. \/ /\ now.error = "ReflectedValueError"
           /\ Reflected(now.response.evaluation_element, now.state.blinded_element)
        \/ now.error = "SerializationError" /\ ParametersTooLong(now.params.identifiers, None)
        \/ PasswordUnusable(now.error, now.final, now.params.ksf)
    BY <2>1, RegistrationRefusal DEF RegistrationResult
  <2>3. ASSUME Reflected(now.response.evaluation_element, now.state.blinded_element)
        PROVE  now.response.origin.key_info.info = None
    <3>1. now.state.blinded_element = Blind(now.password, <<"blind", r>>)
      BY <1>1, RegistrationHeld
    <3>2. PICK q \in Registrations : BlindedBy(q, now.response.origin.blinded_element)
      BY <2>1 DEF HInv, RegistrationResponsesMade
    <3>3. ~Evaluated(now.response)
      BY <2>3, <3>1, <3>2, EvaluatedNotBlinded DEF Evaluated, Reflected, BlindedBy
    <3>4. Echoed(now.response)
      BY <2>1, <3>3 DEF HInv, RegistrationResponsesMade
    <3>5. QED
      BY <3>4 DEF Echoed
  <2>4. QED
    BY <2>2, <2>3
<1>2. ASSUME NEW s \in Clients, client[s].pc = "failed"
      PROVE  \/ client[s].error = "InvalidLoginError"
             \/ /\ client[s].error = "SerializationError"
                /\ ParametersTooLong(client[s].params.identifiers, client[s].params.context)
             \/ /\ client[s].error = "ReflectedValueError"
                /\ \A h \in Servers : Answered(h) => server[h].message # client[s].response
             \/ PasswordUnusable(client[s].error, client[s].final, client[s].params.ksf)
  <2> DEFINE now == client[s]
  <2>1. PICK result \in FinishClientLogin(now.state, now.final, now.response, now.params) :
          ~result.ok /\ now.error = result.err
    BY <1>2 DEF HInv, ClientsEnded, ClientEnded
  <2>2. \/ now.error = "InvalidLoginError"
        \/ now.error = "SerializationError" /\ TooLongGiven(now.params)
        \/ /\ now.error = "ReflectedValueError"
           /\ Reflected(now.response.evaluation_element,
                        now.state.credential_request.blinded_element)
        \/ PasswordUnusable(now.error, now.final, now.params.ksf)
    BY <2>1, ClientRefusal
  <2>3. now.state.credential_request.blinded_element = Blind(now.password, <<"blind", s>>)
    BY <1>2, ClientHeld
  <2>4. QED
    BY <2>2, <2>3, AnswerNotBlinded DEF TooLongGiven, Reflected
<1>3. ASSUME NEW h \in Servers, server[h].pc = "refused"
      PROVE  /\ server[h].error = "SerializationError"
             /\ ParametersTooLong(server[h].given.params.identifiers,
                                  server[h].given.params.context)
  BY <1>3 DEF HInv, Refusals, TooLongGiven
<1>4. ASSUME NEW h \in Servers, server[h].pc = "failed"
      PROVE  \/ server[h].error = "InvalidLoginError"
             \/ /\ server[h].error = "SerializationError"
                /\ ParametersTooLong(server[h].final.identifiers, server[h].final.context)
  <2>1. LET result == FinishServerLogin(server[h].state, server[h].ke3_message, server[h].final)
        IN  ~result.ok /\ server[h].error = result.err
    BY <1>4 DEF HInv, ServersEnded, ServerEnded
  <2>2. QED
    BY <2>1, ServerRefusal DEF TooLongGiven
<1>5. QED
  BY <1>1, <1>2, <1>3, <1>4 DEF FailuresExplained

(* Every failure says what is wrong and nothing more: ReflectedValueError    *)
(* only if the server echoed the element, SerializationError only if a value *)
(* was given that is too long, an internal error only if the OPRF client or  *)
(* the stretching function refuses what the user himself gives, and          *)
(* InvalidLoginError for everything else (the finish operations of opaque.rs *)
(* and its get_password_derived_key).                                        *)
THEOREM FailuresAreExplained == Spec => []FailuresExplained
  BY FailuresExplainedNow, HInvariance, PTL
===============================================================================
