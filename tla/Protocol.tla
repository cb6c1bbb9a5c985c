------------------------------- MODULE Protocol -------------------------------
(***************************************************************************)
(* opaque.rs: what each public operation computes from its arguments, as   *)
(* operators that return Ok or Err.  Who calls them, and with which of the *)
(* messages in transit, is module Opaque.                                  *)
(***************************************************************************)
EXTENDS Envelope, KeyExchange

(* Faulty variant: the internal error reaches the caller.                    *)
MapErrNot(result, from, to) == result

MapErr(result, from, to) ==
  IF ~result.ok /\ result.err = from THEN Err(to) ELSE result

-------------------------------------------------------------------------------
(* ServerSetup.  Its serialized form leaves the public key out.              *)

NewServerSetup(oprf_seed, server_s_sk, dummy_sk) ==
  [ oprf_seed |-> oprf_seed, server_s_sk |-> server_s_sk,
    server_s_pk |-> Pk(server_s_sk), dummy_pk |-> Pk(dummy_sk) ]

SerializeServerSetup(setup) == <<setup.oprf_seed, setup.server_s_sk, setup.dummy_pk>>

(* Faulty variant: the last key read is taken for the server's public key.   *)
DeserializeServerSetupLastKey(bytes) ==
  [ oprf_seed |-> bytes[1], server_s_sk |-> bytes[2],
    server_s_pk |-> bytes[3], dummy_pk |-> bytes[3] ]

DeserializeServerSetup(bytes) ==
  [ oprf_seed |-> bytes[1], server_s_sk |-> bytes[2],
    server_s_pk |-> Pk(bytes[2]), dummy_pk |-> bytes[3] ]

(* What the OPRF key of a credential identifier is derived from: the seed, or *)
(* a handle to a seed that is kept in another machine, and the identifier.   *)
KeyMaterialInfo(setup, credential_identifier) ==
  [ikm |-> setup.oprf_seed, info |-> credential_identifier]

(* Faulty variant: one key for all clients.                                  *)
OprfKeyMaterialForAll(key_info) == Expand(key_info.ikm, "OprfKey", "")

OprfKeyMaterial(key_info) == Expand(key_info.ikm, "OprfKey", key_info.info)

OprfKey(key_material) == <<"OPAQUE-DeriveKeyPair", key_material>>

-------------------------------------------------------------------------------
(* Keys derived from the password.                                           *)

(* An answer that is the question has not been through the server's key.     *)
Reflected(evaluation_element, blinded_element) == evaluation_element = blinded_element

(* Faulty variant: the password given at the end is not hashed in.           *)
RandomizedPwdEarly(password, blind, evaluation_element, ksf) ==
  LET oprf_output == OprfOutput("", blind, evaluation_element)
  IN  Extract(oprf_output, Hardened(ksf, oprf_output))

RandomizedPwd(password, blind, evaluation_element, ksf) ==
  LET oprf_output == OprfOutput(password, blind, evaluation_element)
  IN  Extract(oprf_output, Hardened(ksf, oprf_output))

(* Either of its two steps may fail, with an internal error (a LibraryError) *)
(* that no caller maps to another.                                           *)
PasswordDerivedKey(password, blind, evaluation_element, ksf) ==
  LET oprf_output == Finalize(password, blind, evaluation_element)
      hardened == Stretch(ksf, oprf_output.val)
  IN  IF ~oprf_output.ok THEN oprf_output
      ELSE IF ~hardened.ok THEN hardened
      ELSE Ok(RandomizedPwd(password, blind, evaluation_element, ksf))

MaskingKey(rwd) == Expand(rwd, "MaskingKey", "none")

(* The pad is xored over the server's public key and the envelope.  Another  *)
(* key or nonce leaves noise, which may or may not parse as a public key.    *)
MaskResponse(masking_key, masking_nonce, server_s_pk, envelope) ==
  [ pad |-> <<masking_key, masking_nonce>>,
    server_s_pk |-> server_s_pk, envelope |-> SerializeEnvelope(envelope) ]

Noise(masking_key, masked) ==
  [ server_s_pk |-> Pk(<<"noise", masking_key, masked.pad>>),
    envelope    |-> DeserializeEnvelope([nonce |-> <<"noise">>, hmac |-> <<"noise">>]) ]

UnmaskResponse(masking_key, masking_nonce, masked) ==
  IF masked.pad = <<masking_key, masking_nonce>>
  THEN {Ok([ server_s_pk |-> masked.server_s_pk,
             envelope    |-> DeserializeEnvelope(masked.envelope) ])}
  ELSE {Err("SerializationError"), Ok(Noise(masking_key, masked))}

-------------------------------------------------------------------------------
(* Registration.                                                             *)

ClientRegistrationState(r, password) ==
  [oprf_client |-> <<"blind", r>>, blinded_element |-> Blind(password, <<"blind", r>>)]

ServerRegistrationResponse(setup, key_material, blinded_element) ==
  [ evaluation_element |-> BlindEvaluate(OprfKey(key_material), blinded_element),
    server_s_pk |-> setup.server_s_pk ]

FinishClientRegistration(r, state, password, response, params) ==
  LET rwd == PasswordDerivedKey(password, state.oprf_client,
                                response.evaluation_element, params.ksf)
      sealed == Seal(<<"envelope_nonce", r>>, rwd.val, response.server_s_pk, params.identifiers)
  IN  IF Reflected(response.evaluation_element, state.blinded_element)
      THEN Err("ReflectedValueError")
      ELSE IF ~rwd.ok THEN rwd
      ELSE IF ~sealed.ok THEN sealed
      ELSE Ok([ message |-> [ envelope    |-> sealed.val.envelope,
                              masking_key |-> MaskingKey(rwd.val),
                              client_s_pk |-> sealed.val.client_s_pk ],
                export_key  |-> sealed.val.export_key,
                server_s_pk |-> response.server_s_pk ])

(* The record that stands in for an unregistered client in login h.          *)
DummyRegistration(h, setup) ==
  [ envelope |-> DummyEnvelope, masking_key |-> <<"dummy_masking_key", h>>,
    client_s_pk |-> setup.dummy_pk ]

-------------------------------------------------------------------------------
(* Login, client side.                                                       *)

(* Faulty variant: every login draws the same numbers.                       *)
ClientLoginStateReseeded(s, password) ==
  [ oprf_client |-> <<"blind", "seed">>, ke1_state |-> Ke1State("seed"),
    credential_request |-> [ blinded_element |-> Blind(password, <<"blind", "seed">>),
                             ke1_message |-> Ke1Message(Ke1State("seed")) ] ]

ClientLoginState(s, password) ==
  [ oprf_client |-> <<"blind", s>>, ke1_state |-> Ke1State(s),
    credential_request |-> [ blinded_element |-> Blind(password, <<"blind", s>>),
                             ke1_message |-> Ke1Message(Ke1State(s)) ] ]

(* The parts of a response that the transcript covers.                       *)
ResponseParts(m) ==
  [ evaluation_element |-> m.evaluation_element, masking_nonce |-> m.masking_nonce,
    masked_response |-> m.masked_response ]

OpenAndFinish(state, rwd, response, params, unmasked) ==
  LET opened == MapErr(Open(unmasked.val.envelope, rwd, unmasked.val.server_s_pk,
                            params.identifiers),
                       "SealOpenHmacError", "InvalidLoginError")
      context == SerializedContext(params.context)
      ke3 == GenerateKe3(state.credential_request.blinded_element,
               state.credential_request.ke1_message, ResponseParts(response), state.ke1_state,
               response.ke2_message, unmasked.val.server_s_pk,
               opened.val.client_s_sk, opened.val.identifiers, context.val)
  IN  IF ~unmasked.ok THEN unmasked
      ELSE IF ~opened.ok THEN opened
      ELSE IF ~context.ok THEN context
      ELSE IF ~ke3.ok THEN ke3
      ELSE Ok([ message     |-> [ke3_message |-> ke3.val.message],
                session_key |-> ke3.val.session_key,
                export_key  |-> opened.val.export_key,
                server_s_pk |-> unmasked.val.server_s_pk ])

FinishClientLogin(state, password, response, params) ==
  LET rwd == PasswordDerivedKey(password, state.oprf_client,
                                response.evaluation_element, params.ksf)
  IN  IF Reflected(response.evaluation_element, state.credential_request.blinded_element)
      THEN {Err("ReflectedValueError")}
      ELSE IF ~rwd.ok THEN {rwd}
      ELSE { OpenAndFinish(state, rwd.val, response, params,
                           MapErr(u, "SerializationError", "InvalidLoginError")) :
             u \in UnmaskResponse(MaskingKey(rwd.val), response.masking_nonce,
                                  response.masked_response) }

-------------------------------------------------------------------------------
(* Login, server side.                                                       *)

ServerLoginBuilderFor(h, setup, key_material, password_file, request, params) ==
  LET record  == IF password_file = None THEN DummyRegistration(h, setup) ELSE password_file
      context == SerializedContext(params.context)
      masking_nonce == <<"masking_nonce", h>>
      identifiers == SerializedIdentifiers(params.identifiers, record.client_s_pk,
                                           setup.server_s_pk)
      parts == [ evaluation_element |-> BlindEvaluate(OprfKey(key_material), request.blinded_element),
                 masking_nonce   |-> masking_nonce,
                 masked_response |-> MaskResponse(record.masking_key, masking_nonce,
                                                  setup.server_s_pk, record.envelope) ]
  IN  IF ~context.ok THEN context
      ELSE IF ~identifiers.ok THEN identifiers
      ELSE Ok([ server_s_sk |-> setup.server_s_sk, parts |-> parts,
                ke2_builder |-> Ke2Builder(h, request.blinded_element, request.ke1_message,
                  parts, record.client_s_pk, identifiers.val, context.val) ])

(* What the holder of the private key answers to a builder's data().         *)
RemoteKeyAnswer(builder) ==
  GenerateKe2Input(Ke2BuilderData(builder.ke2_builder), builder.server_s_sk)

BuildServerLogin(builder, input) ==
  LET ke2 == BuildKe2(builder.ke2_builder, input)
  IN  [ message |-> [ evaluation_element |-> builder.parts.evaluation_element,
                      masking_nonce   |-> builder.parts.masking_nonce,
                      masked_response |-> builder.parts.masked_response,
                      ke2_message     |-> ke2.message ],
        state   |-> ke2.state ]

FinishServerLogin(state, ke3_message, params) ==
  LET context == SerializedContext(params.context)
  IN  IF ~context.ok THEN context
      ELSE FinishKe(state, ke3_message, params.identifiers, context.val)
===============================================================================
