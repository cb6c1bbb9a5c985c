----------------------------- MODULE OpaqueProofs -----------------------------
(***************************************************************************)
(* Proofs about Opaque for every number of sessions, passwords, parameters *)
(* and for every suite: the type invariant, and that the two ends of a     *)
(* login agree.                                                            *)
(***************************************************************************)
EXTENDS OpaqueProperties, TLAPS

-------------------------------------------------------------------------------
(* Messages are never taken back: net holds everything that was ever sent.   *)
LEMMA NetGrows == [Next]_vars => net \subseteq net'
<1> USE DEF Send
<1>1. ASSUME NEW r \in Registrations, NEW password \in Passwords,
             ClientRegistrationStart(r, password)
      PROVE  net \subseteq net'
  BY <1>1 DEF ClientRegistrationStart
<1>2. ASSUME NEW m, NEW key_material, NEW key_info, RegistrationAnswer(m, key_material, key_info)
      PROVE  net \subseteq net'
  BY <1>2 DEF RegistrationAnswer
<1>3. ASSUME NEW r \in Registrations, NEW m \in Sent("RegistrationResponse"),
             NEW password \in Passwords, NEW params \in RegistrationParams,
             ClientRegistrationFinish(r, m, password, params)
      PROVE  net \subseteq net'
  BY <1>3 DEF ClientRegistrationFinish
<1>4. ASSUME NEW s \in Clients, NEW password \in Passwords, ClientLoginStart(s, password)
      PROVE  net \subseteq net'
  BY <1>4 DEF ClientLoginStart
<1>5. ASSUME NEW h \in Servers, NEW m \in Sent("CredentialRequest"),
             NEW name \in CredentialIds, NEW c \in CredentialIds,
             NEW params \in ServerLoginParams,
             ServerLoginStart(h, m, name, c, params)
      PROVE  net \subseteq net'
  BY <1>5 DEF ServerLoginStart
<1>6. ASSUME NEW h \in Servers, NEW m \in Sent("RemoteKeyAnswer"), ServerLoginBuild(h, m)
      PROVE  net \subseteq net'
  BY <1>6 DEF ServerLoginBuild
<1>7. ASSUME NEW s \in Clients, NEW m \in Sent("CredentialResponse"),
             NEW password \in Passwords, NEW params \in ClientLoginParams,
             ClientLoginFinish(s, m, password, params)
      PROVE  net \subseteq net'
  BY <1>7 DEF ClientLoginFinish
<1>8. ASSUME NEW m \in Sent("RegistrationRequest"), ReflectRegistration(m)
      PROVE  net \subseteq net'
  BY <1>8 DEF ReflectRegistration
<1>9. ASSUME NEW m \in Sent("CredentialResponse"), NEW request \in Sent("CredentialRequest"),
             ReflectLogin(m, request)
      PROVE  net \subseteq net'
  BY <1>9 DEF ReflectLogin
<1>10. ASSUME NEW h, NEW m, NEW name, NEW key_material, NEW key_info, NEW params,
              BeginBuilding(h, m, name, key_material, key_info, params)
       PROVE  net \subseteq net'
  BY <1>10 DEF BeginBuilding
<1>11. ASSUME NEW c \in CredentialIds, AskKeyMaterial(c)
       PROVE  net \subseteq net'
  BY <1>11 DEF AskKeyMaterial
<1>12. CASE UNCHANGED net
  BY <1>12
<1>13. QED
  BY <1>1, <1>2, <1>3, <1>4, <1>5, <1>6, <1>7, <1>8, <1>9, <1>10, <1>11, <1>12
  DEF Next, vars, ServerRegistrationStart, ServerRegistrationStartWithKeyMaterial,
      ServerLoginBuilder, ServerLoginBuilderWithKeyMaterial, ServerRegistrationFinish,
      ServerLoginFinish, ClientRegistrationRestore, ClientLoginRestore, ServerLoginRestore,
      ServerLoginBuilderRestore, ServerRestart, ServerSetupNew, ServerSetupNewWithKeyPair,
      ServerSetupNewWithKeyPairAndSeed

(* The initial state has the types: nothing has happened and the setup is a  *)
(* fresh one.                                                                *)
LEMMA TypeInit == Init => TypeOK
  BY SessionsAssumption
  DEF Init, TypeOK, SetupOK, FilesOK, RegistrationOK, ClientOK, ServerOK, NetOK, FreshSetup,
      NewServerSetup, Idle, HoldsBuilder, Answered

(* Every step keeps the types: one step of the proof per action, under it    *)
(* the conjuncts of TypeOK that the action can disturb.                      *)
LEMMA TypeStep == TypeOK /\ [Next]_vars => TypeOK'
<1> SUFFICES ASSUME TypeOK, [Next]_vars PROVE TypeOK'
  OBVIOUS
<1> USE DEF TypeOK
<1>0. net \subseteq net'
  BY NetGrows
<1>1. ASSUME NEW r \in Registrations, NEW password \in Passwords,
             ClientRegistrationStart(r, password)
      PROVE  TypeOK'
  <2> USE <1>1 DEF ClientRegistrationStart
  <2>1. RegistrationOK'
    BY DEF RegistrationOK
  <2>2. NetOK'
    BY DEF NetOK, Send, registration_request
  <2>3. SetupOK' /\ FilesOK' /\ ClientOK' /\ ServerOK'
    BY <1>0 DEF SetupOK, FilesOK, ClientOK, ServerOK, Sent, HoldsBuilder, Answered
  <2>4. QED
    BY <2>1, <2>2, <2>3
<1>2. ASSUME NEW m, NEW key_material, NEW key_info, RegistrationAnswer(m, key_material, key_info)
      PROVE  TypeOK'
  <2> USE <1>2 DEF RegistrationAnswer
  <2>1. NetOK'
    BY DEF NetOK, Send, registration_response
  <2>2. SetupOK' /\ FilesOK' /\ RegistrationOK' /\ ClientOK' /\ ServerOK'
    BY <1>0 DEF SetupOK, FilesOK, RegistrationOK, ClientOK, ServerOK, Sent, HoldsBuilder,
                Answered
  <2>3. QED
    BY <2>1, <2>2
<1>3. ASSUME NEW r \in Registrations, NEW m \in Sent("RegistrationResponse"),
             NEW password \in Passwords, NEW params \in RegistrationParams,
             ClientRegistrationFinish(r, m, password, params)
      PROVE  TypeOK'
  <2> USE <1>3 DEF ClientRegistrationFinish
  <2>1. RegistrationOK'
    BY DEF RegistrationOK
  <2>2. NetOK'
    BY DEF NetOK, registration_upload
  <2>3. SetupOK' /\ FilesOK' /\ ClientOK' /\ ServerOK'
    BY <1>0 DEF SetupOK, FilesOK, ClientOK, ServerOK, Sent, HoldsBuilder, Answered
  <2>4. QED
    BY <2>1, <2>2, <2>3
<1>4. ASSUME NEW m \in Sent("RegistrationUpload"), NEW c \in CredentialIds,
             ServerRegistrationFinish(m, c)
      PROVE  TypeOK'
  <2> USE <1>4 DEF ServerRegistrationFinish
  <2>1. FilesOK'
    BY DEF FilesOK, Sent
  <2>2. SetupOK' /\ RegistrationOK' /\ ClientOK' /\ ServerOK' /\ NetOK'
    BY DEF SetupOK, RegistrationOK, ClientOK, ServerOK, NetOK, Sent, HoldsBuilder,
      Answered
  <2>3. QED
    BY <2>1, <2>2
<1>5. ASSUME NEW s \in Clients, NEW password \in Passwords, ClientLoginStart(s, password)
      PROVE  TypeOK'
  <2> USE <1>5 DEF ClientLoginStart
  <2>1. ClientOK'
    BY DEF ClientOK
  <2>2. NetOK'
    BY DEF NetOK, Send, credential_request
  <2>3. SetupOK' /\ FilesOK' /\ RegistrationOK' /\ ServerOK'
    BY <1>0 DEF SetupOK, FilesOK, RegistrationOK, ServerOK, Sent, HoldsBuilder, Answered
  <2>4. QED
    BY <2>1, <2>2, <2>3
<1>6. ASSUME NEW h \in Servers, NEW m \in Sent("CredentialRequest"),
             NEW name \in CredentialIds, NEW c \in CredentialIds,
             NEW params \in ServerLoginParams,
             ServerLoginStart(h, m, name, c, params)
      PROVE  TypeOK'
  <2> USE <1>6 DEF ServerLoginStart
  <2>1. ServerOK'
    BY <1>0 DEF ServerOK, Sent, Given, Responded, HoldsBuilder, Answered
  <2>2. NetOK'
    BY DEF NetOK, Send, credential_response
  <2>3. SetupOK' /\ FilesOK' /\ RegistrationOK' /\ ClientOK'
    BY <1>0 DEF SetupOK, FilesOK, RegistrationOK, ClientOK, Sent
  <2>4. QED
    BY <2>1, <2>2, <2>3
<1>7. ASSUME NEW h \in Servers, NEW m \in Sent("CredentialRequest"), NEW name,
             NEW key_material, NEW key_info, NEW params,
             BeginBuilding(h, m, name, key_material, key_info, params)
      PROVE  TypeOK'
  <2> USE <1>7 DEF BeginBuilding
  <2>1. ServerOK'
    BY <1>0 DEF ServerOK, Sent, Given, HoldsBuilder, Answered
  <2>2. NetOK'
    BY DEF NetOK, Send, remote_key_answer
  <2>3. SetupOK' /\ FilesOK' /\ RegistrationOK' /\ ClientOK'
    BY <1>0 DEF SetupOK, FilesOK, RegistrationOK, ClientOK, Sent
  <2>4. QED
    BY <2>1, <2>2, <2>3
<1>8. ASSUME NEW h \in Servers, NEW m \in Sent("RemoteKeyAnswer"), ServerLoginBuild(h, m)
      PROVE  TypeOK'
  <2> USE <1>8 DEF ServerLoginBuild
  <2>1. ServerOK'
    BY <1>0 DEF ServerOK, Sent, Responded, HoldsBuilder, Answered
  <2>2. NetOK'
    BY DEF NetOK, Send, credential_response
  <2>3. SetupOK' /\ FilesOK' /\ RegistrationOK' /\ ClientOK'
    BY <1>0 DEF SetupOK, FilesOK, RegistrationOK, ClientOK, Sent
  <2>4. QED
    BY <2>1, <2>2, <2>3
<1>9. ASSUME NEW s \in Clients, NEW m \in Sent("CredentialResponse"),
             NEW password \in Passwords, NEW params \in ClientLoginParams,
             ClientLoginFinish(s, m, password, params)
      PROVE  TypeOK'
  <2> USE <1>9 DEF ClientLoginFinish
  <2>1. ClientOK'
    BY DEF ClientOK
  <2>2. NetOK'
    BY DEF NetOK, credential_finalization
  <2>3. SetupOK' /\ FilesOK' /\ RegistrationOK' /\ ServerOK'
    BY <1>0 DEF SetupOK, FilesOK, RegistrationOK, ServerOK, Sent, HoldsBuilder, Answered
  <2>4. QED
    BY <2>1, <2>2, <2>3
<1>10. ASSUME NEW h \in Servers, NEW m \in Sent("CredentialFinalization"),
              NEW params \in ServerLoginParams, ServerLoginFinish(h, m, params)
       PROVE  TypeOK'
  BY <1>10
  DEF ServerLoginFinish, SetupOK, FilesOK, RegistrationOK, ClientOK, ServerOK, NetOK, Sent, HoldsBuilder,
      Answered
<1>11. ASSUME NEW r \in Registrations, ClientRegistrationRestore(r)
       PROVE  TypeOK'
  BY <1>11
  DEF ClientRegistrationRestore, SetupOK, FilesOK, RegistrationOK, ClientOK, ServerOK, NetOK, Sent, HoldsBuilder,
      Answered
<1>12. ASSUME NEW s \in Clients, ClientLoginRestore(s)
       PROVE  TypeOK'
  BY <1>12
  DEF ClientLoginRestore, SetupOK, FilesOK, RegistrationOK, ClientOK, ServerOK, NetOK, Sent, HoldsBuilder,
      Answered
<1>13. ASSUME NEW h \in Servers, ServerLoginRestore(h)
       PROVE  TypeOK'
  BY <1>13
  DEF ServerLoginRestore, SetupOK, FilesOK, RegistrationOK, ClientOK, ServerOK, NetOK, Sent, HoldsBuilder,
      Answered
<1>14. CASE ServerRestart
  <2> USE <1>14 DEF ServerRestart
  <2>1. SetupOK'
    BY DEF SetupOK, DeserializeServerSetup, SerializeServerSetup
  <2>2. ServerOK'
    BY DEF ServerOK, Sent, Interrupted, HoldsBuilder, Answered
  <2>3. FilesOK' /\ RegistrationOK' /\ ClientOK' /\ NetOK'
    BY DEF FilesOK, RegistrationOK, ClientOK, NetOK, Sent
  <2>4. QED
    BY <2>1, <2>2, <2>3
<1>15. ASSUME NEW g \in Setups, NEW server_s_sk,
              \/ ServerSetupNew(g)
              \/ ServerSetupNewWithKeyPair(g)
              \/ ServerSetupNewWithKeyPairAndSeed(g, server_s_sk)
       PROVE  TypeOK'
  <2> USE <1>15 DEF ServerSetupNew, ServerSetupNewWithKeyPair, ServerSetupNewWithKeyPairAndSeed
  <2>1. SetupOK'
    BY DEF SetupOK, FreshSetup, NewServerSetup
  <2>2. FilesOK' /\ RegistrationOK' /\ ClientOK' /\ ServerOK' /\ NetOK'
    BY DEF FilesOK, RegistrationOK, ClientOK, ServerOK, NetOK, Sent, HoldsBuilder,
      Answered
  <2>3. QED
    BY <2>1, <2>2
<1>16. ASSUME NEW m \in Sent("RegistrationRequest"), ReflectRegistration(m)
       PROVE  TypeOK'
  <2> USE <1>16 DEF ReflectRegistration
  <2>1. NetOK'
    BY DEF NetOK, Send, registration_response
  <2>2. SetupOK' /\ FilesOK' /\ RegistrationOK' /\ ClientOK' /\ ServerOK'
    BY <1>0 DEF SetupOK, FilesOK, RegistrationOK, ClientOK, ServerOK, Sent, HoldsBuilder,
                Answered
  <2>3. QED
    BY <2>1, <2>2
<1>17. ASSUME NEW m \in Sent("CredentialResponse"), NEW request \in Sent("CredentialRequest"),
              ReflectLogin(m, request)
       PROVE  TypeOK'
  <2> USE <1>17 DEF ReflectLogin
  <2>1. NetOK'
    BY DEF NetOK, Send, credential_response
  <2>2. SetupOK' /\ FilesOK' /\ RegistrationOK' /\ ClientOK' /\ ServerOK'
    BY <1>0 DEF SetupOK, FilesOK, RegistrationOK, ClientOK, ServerOK, Sent, HoldsBuilder,
                Answered
  <2>3. QED
    BY <2>1, <2>2
<1>18. CASE UNCHANGED vars
  BY <1>18 DEF vars, SetupOK, FilesOK, RegistrationOK, ClientOK, ServerOK, NetOK, Sent, HoldsBuilder,
      Answered
<1>19. ASSUME NEW c \in CredentialIds, AskKeyMaterial(c)
       PROVE  TypeOK'
  <2> USE <1>19 DEF AskKeyMaterial
  <2>1. NetOK'
    BY DEF NetOK, Send, key_material_answer
  <2>2. SetupOK' /\ FilesOK' /\ RegistrationOK' /\ ClientOK' /\ ServerOK'
    BY <1>0 DEF SetupOK, FilesOK, RegistrationOK, ClientOK, ServerOK, Sent, HoldsBuilder,
                Answered
  <2>3. QED
    BY <2>1, <2>2
<1>20. ASSUME NEW h \in Servers, ServerLoginBuilderRestore(h)
       PROVE  TypeOK'
  BY <1>20
  DEF ServerLoginBuilderRestore, SetupOK, FilesOK, RegistrationOK, ClientOK, ServerOK, NetOK, Sent,
      HoldsBuilder, Answered
<1>21. QED
  BY <1>1, <1>2, <1>3, <1>4, <1>5, <1>6, <1>7, <1>8, <1>9, <1>10, <1>11, <1>12, <1>13, <1>14,
     <1>15, <1>16, <1>17, <1>18, <1>19, <1>20
  DEF Next, ServerRegistrationStart, ServerRegistrationStartWithKeyMaterial, ServerLoginBuilder,
      ServerLoginBuilderWithKeyMaterial

(* Sessions, files and messages keep their types: a session holds the state  *)
(* its start computed through failures and restored copies, and a password   *)
(* file is an upload as the client made it.                                  *)
THEOREM TypeCorrect == Spec => []TypeOK
<1>1. Init => TypeOK
  BY TypeInit
<1>2. TypeOK /\ [Next]_vars => TypeOK'
  BY TypeStep
<1>3. QED
  BY <1>1, <1>2, PTL DEF Spec

-------------------------------------------------------------------------------
(* The inductive invariant behind the agreement of the two ends.             *)

(* What a finished client hashed.                                            *)
ClientCache(s) ==
  Cache(client[s].state.credential_request.blinded_element,
        client[s].state.credential_request.ke1_message,
        ResponseParts(client[s].response),
        client[s].response.ke2_message.server_nonce,
        client[s].response.ke2_message.server_e_pk,
        client[s].response.ke2_message.kem_ct)

ClientTranscript(s) ==
  Transcript(SerializedContext(client[s].params.context).val, ClientIdentifiersOf(s),
             ClientCache(s))

IsIdentifiers(ids) == ids = [client |-> ids.client, server |-> ids.server]

RequestsFormed ==
  \A m \in Sent("CredentialRequest") :
    m.request = [ blinded_element |-> m.request.blinded_element,
                  ke1_message     |-> m.request.ke1_message ]

(* A server login works with what it was given, and what it sent and kept is *)
(* what its builder and its input make.                                      *)
ViewOK(h) ==
  /\ ServerView(h).cache.request = server[h].given.request.blinded_element
  /\ ServerView(h).cache.ke1 = server[h].given.request.ke1_message
  /\ IsIdentifiers(ServerView(h).identifiers)

ServerBuilt ==
  \A h \in Servers :
    /\ HoldsBuilder(h) \/ Answered(h) => ViewOK(h)
    /\ Answered(h) =>
         /\ server[h].message = BuildServerLogin(server[h].builder, server[h].input).message
         /\ server[h].state = BuildServerLogin(server[h].builder, server[h].input).state

(* Every response carries the KE2 message of some answered login; an echo    *)
(* changes only the evaluation element.                                      *)
ResponsesAnswered ==
  \A m \in Sent("CredentialResponse") :
    \E h \in Servers :
      /\ Answered(h)
      /\ DOMAIN m.response = DOMAIN server[h].message
      /\ m.response.ke2_message = server[h].message.ke2_message

(* A finished client's session key and its MAC come from one list of secrets *)
(* and from its transcript.                                                  *)
Derived(s) ==
  LET keys == DeriveKeys(client[s].session_key[2], ClientTranscript(s))
      mac  == client[s].message.ke3_message.mac
  IN  /\ IsIdentifiers(ClientIdentifiersOf(s))
      /\ client[s].session_key = keys.session_key
      /\ mac = Hmac(keys.km3, mac[3])

ClientDerived == \A s \in Clients : client[s].pc = "done" => Derived(s)

FinalizationsDone ==
  \A m \in Sent("CredentialFinalization") :
    \E s \in Clients : client[s].pc = "done" /\ m.ke3_message = client[s].message.ke3_message

IInv ==
  /\ TypeOK
  /\ RequestsFormed
  /\ ServerBuilt
  /\ ResponsesAnswered
  /\ ClientDerived
  /\ FinalizationsDone
  /\ ClientAgreement
  /\ ServerAgreement

-------------------------------------------------------------------------------
(* Facts about the operators.                                                *)

(* Equal server MACs were computed from the same secrets and transcript: the *)
(* MAC key is derived from both.                                             *)
LEMMA ServerMacBinds ==
  ASSUME NEW ikms1, NEW ids1, NEW t1, NEW ikms2, NEW ids2, NEW t2,
         ServerMac(DeriveKeys(ikms1, t1), ids1, t1) = ServerMac(DeriveKeys(ikms2, t2), ids2, t2)
  PROVE  ikms1 = ikms2 /\ t1 = t2
<1>1. DeriveKeys(ikms1, t1).km2 = DeriveKeys(ikms2, t2).km2
  BY DEF ServerMac, Hmac
<1>2. Expand(ikms1, "HandshakeSecret", t1) = Expand(ikms2, "HandshakeSecret", t2)
  BY <1>1 DEF DeriveKeys, Expand
<1>3. QED
  BY <1>2 DEF Expand

(* And so were equal MAC keys of the client's side.                          *)
LEMMA ClientKeyBinds ==
  ASSUME NEW ikms1, NEW t1, NEW ikms2, NEW t2,
         DeriveKeys(ikms1, t1).km3 = DeriveKeys(ikms2, t2).km3
  PROVE  ikms1 = ikms2 /\ t1 = t2
<1>1. Expand(ikms1, "HandshakeSecret", t1) = Expand(ikms2, "HandshakeSecret", t2)
  BY DEF DeriveKeys, Expand
<1>2. QED
  BY <1>1 DEF Expand

(* A transcript can be taken apart again.                                    *)
LEMMA TranscriptInjective ==
  ASSUME NEW c1, NEW i1, NEW k1, NEW c2, NEW i2, NEW k2,
         Transcript(c1, i1, k1) = Transcript(c2, i2, k2)
  PROVE  c1 = c2 /\ i1.client = i2.client /\ i1.server = i2.server /\ k1 = k2
  BY DEF Transcript

(* Identifiers that could be encoded are the two of them.                    *)
LEMMA SerializedIdentifiersForm ==
  ASSUME NEW ids, NEW c_pk, NEW s_pk, SerializedIdentifiers(ids, c_pk, s_pk).ok
  PROVE  IsIdentifiers(SerializedIdentifiers(ids, c_pk, s_pk).val)
  BY DEF SerializedIdentifiers, SerializedIdentifier, IsIdentifiers, I2osp2, Ok, Err

(* An envelope that opened was not noise: what unmasking gave is what was    *)
(* masked, so its nonce is the one in the response.                          *)
LEMMA NoiseDoesNotOpen ==
  ASSUME NEW key, NEW masked, NEW rwd, NEW s_pk, NEW ids
  PROVE  ~Open(Noise(key, masked).envelope, rwd, s_pk, ids).ok
<1>1. Noise(key, masked).envelope.hmac = <<"noise">>
  BY DEF Noise, DeserializeEnvelope
<1>2. \A x, y : <<"noise">> # Hmac(x, y)
  BY DEF Hmac
<1>3. \A x, y : ~OpenRaw(Noise(key, masked).envelope, x, y).ok
  BY <1>1, <1>2 DEF OpenRaw, EnvelopeMac, Err
<1>4. QED
  BY <1>3 DEF Open, Ok, Err

(* An accepted KE2 message was authenticated with the keys that the client   *)
(* goes on to use.                                                           *)
LEMMA GenerateKe3Keys ==
  ASSUME NEW request, NEW ke1, NEW response, NEW ke1_state, NEW ke2, NEW server_s_pk,
         NEW client_s_sk, NEW ids, NEW context,
         GenerateKe3(request, ke1, response, ke1_state, ke2, server_s_pk, client_s_sk, ids,
                     context).ok
  PROVE  LET ke3 == GenerateKe3(request, ke1, response, ke1_state, ke2, server_s_pk,
                                client_s_sk, ids, context).val
             t == Transcript(context, ids,
                    Cache(request, ke1, response, ke2.server_nonce, ke2.server_e_pk, ke2.kem_ct))
         IN  \E ikms :
               /\ ke2.mac = ServerMac(DeriveKeys(ikms, t), ids, t)
               /\ ke3.session_key = DeriveKeys(ikms, t).session_key
               /\ ke3.message.mac = ClientMac(DeriveKeys(ikms, t), ids, t, ke2.mac)
<1> DEFINE cache == Cache(request, ke1, response, ke2.server_nonce, ke2.server_e_pk, ke2.kem_ct)
           t == Transcript(context, ids, cache)
           keys == ClientKeys(request, ke1, response, ke1_state, ke2, server_s_pk, client_s_sk,
                              ids, context)
           ke3 == GenerateKe3(request, ke1, response, ke1_state, ke2, server_s_pk, client_s_sk,
                              ids, context)
<1>1. PICK ikms : keys = DeriveKeys(ikms, t)
  BY DEF ClientKeys
<1>2. ke2.mac = ServerMac(keys, ids, t)
  BY DEF GenerateKe3, ServerMacMatches, Err
<1>3. /\ ke3.val.session_key = keys.session_key
      /\ ke3.val.message.mac = ClientMac(keys, ids, t, ke2.mac)
  BY DEF GenerateKe3, Ok, Err
<1>4. QED
  BY <1>1, <1>2, <1>3

(* An envelope that opened was opened for the identifiers that could be      *)
(* encoded with the key pair recovered from it.                              *)
LEMMA OpenIdentifiers ==
  ASSUME NEW envelope, NEW rwd, NEW s_pk, NEW ids, Open(envelope, rwd, s_pk, ids).ok
  PROVE  LET identifiers == SerializedIdentifiers(ids,
                              Pk(ClientStaticKey(rwd, envelope.nonce)), s_pk)
         IN  identifiers.ok /\ Open(envelope, rwd, s_pk, ids).val.identifiers = identifiers.val
<1> DEFINE identifiers == SerializedIdentifiers(ids, Pk(ClientStaticKey(rwd, envelope.nonce)),
                                                s_pk)
<1>1. envelope.mode # "Zero" /\ identifiers.ok
  BY DEF Open, Err
<1>2. QED
  BY <1>1 DEF Open, Ok

(* What a client login that ends well computed: the identifiers it hashed,   *)
(* and the one list of secrets behind the server's MAC, its own and its key. *)
ComputedKeys(state, password, response, params, val) ==
  LET rwd == RandomizedPwd(password, state.oprf_client,
                           response.evaluation_element, params.ksf)
      ids == SerializedIdentifiers(params.identifiers,
               Pk(ClientStaticKey(rwd, response.masked_response.envelope.nonce)),
               val.server_s_pk).val
      ke2 == response.ke2_message
      t == Transcript(SerializedContext(params.context).val, ids,
             Cache(state.credential_request.blinded_element,
                   state.credential_request.ke1_message, ResponseParts(response),
                   ke2.server_nonce, ke2.server_e_pk, ke2.kem_ct))
  IN  /\ IsIdentifiers(ids)
      /\ \E ikms :
           /\ ke2.mac = ServerMac(DeriveKeys(ikms, t), ids, t)
           /\ val.session_key = DeriveKeys(ikms, t).session_key
           /\ val.message.ke3_message.mac = ClientMac(DeriveKeys(ikms, t), ids, t, ke2.mac)

(* The password-derived key is there, or the OPRF client or the stretching   *)
(* function has refused, for nothing but its own input.                      *)
LEMMA PasswordKeyOutcome ==
  ASSUME NEW password, NEW blind, NEW evaluation_element, NEW ksf
  PROVE  LET key == PasswordDerivedKey(password, blind, evaluation_element, ksf)
         IN  \/ /\ key.ok /\ password \notin FinalizeRefuses /\ ksf \notin KsfRefuses
                /\ key.val = RandomizedPwd(password, blind, evaluation_element, ksf)
             \/ ~key.ok /\ PasswordUnusable(key.err, password, ksf)
<1> DEFINE key == PasswordDerivedKey(password, blind, evaluation_element, ksf)
<1>1. CASE password \in FinalizeRefuses
  <2>1. key = Err("OprfError")
    BY <1>1 DEF PasswordDerivedKey, Finalize, Err
  <2>2. QED
    BY <1>1, <2>1 DEF PasswordUnusable, Err
<1>2. CASE password \notin FinalizeRefuses /\ ksf \in KsfRefuses
  <2>1. key = Err("KsfError")
    BY <1>2 DEF PasswordDerivedKey, Finalize, Stretch, Ok, Err
  <2>2. QED
    BY <1>2, <2>1 DEF PasswordUnusable, Err
<1>3. CASE password \notin FinalizeRefuses /\ ksf \notin KsfRefuses
  <2>1. key = Ok(RandomizedPwd(password, blind, evaluation_element, ksf))
    BY <1>3 DEF PasswordDerivedKey, Finalize, Stretch, Ok
  <2>2. QED
    BY <1>3, <2>1 DEF Ok
<1>4. QED
  BY <1>1, <1>2, <1>3

(* ClientLogin::finish computes them whenever it succeeds.                   *)
LEMMA FinishClientLoginKeys ==
  ASSUME NEW state, NEW password, NEW response, NEW params,
         NEW result \in FinishClientLogin(state, password, response, params), result.ok
  PROVE  ComputedKeys(state, password, response, params, result.val)
<1> DEFINE rwd == RandomizedPwd(password, state.oprf_client,
                                response.evaluation_element, params.ksf)
           masked == response.masked_response
<1>0. LET key == PasswordDerivedKey(password, state.oprf_client,
                                    response.evaluation_element, params.ksf)
      IN  key.ok /\ key.val = rwd
  BY PasswordKeyOutcome DEF FinishClientLogin, Err
<1>1. PICK u \in UnmaskResponse(MaskingKey(rwd), response.masking_nonce, masked) :
        result = OpenAndFinish(state, rwd, response, params,
                   MapErr(u, "SerializationError", "InvalidLoginError"))
  BY <1>0 DEF FinishClientLogin, Err
<1> DEFINE unmasked == MapErr(u, "SerializationError", "InvalidLoginError")
           open == Open(unmasked.val.envelope, rwd, unmasked.val.server_s_pk, params.identifiers)
           opened == MapErr(open, "SealOpenHmacError", "InvalidLoginError")
           context == SerializedContext(params.context)
           ke3 == GenerateKe3(state.credential_request.blinded_element,
                    state.credential_request.ke1_message, ResponseParts(response),
                    state.ke1_state, response.ke2_message, unmasked.val.server_s_pk,
                    opened.val.client_s_sk, opened.val.identifiers, context.val)
<1>2. unmasked.ok /\ opened.ok /\ context.ok /\ ke3.ok
  BY <1>1 DEF OpenAndFinish
<1>3. /\ result.val.message.ke3_message = ke3.val.message
      /\ result.val.session_key = ke3.val.session_key
      /\ result.val.server_s_pk = unmasked.val.server_s_pk
  BY <1>1, <1>2 DEF OpenAndFinish, Ok
<1>4. unmasked = u /\ opened = open
  BY <1>2 DEF MapErr, Err
<1>5. u = Ok([ server_s_pk |-> masked.server_s_pk,
               envelope    |-> DeserializeEnvelope(masked.envelope) ])
  BY <1>2, <1>4, NoiseDoesNotOpen DEF UnmaskResponse, Ok, Err
<1>6. unmasked.val.envelope.nonce = masked.envelope.nonce
  BY <1>4, <1>5 DEF Ok, DeserializeEnvelope
<1> DEFINE ids == SerializedIdentifiers(params.identifiers,
                    Pk(ClientStaticKey(rwd, masked.envelope.nonce)), result.val.server_s_pk)
<1>7. ids.ok /\ opened.val.identifiers = ids.val
  <2>1. open.ok /\ opened.val = open.val
    BY <1>2, <1>4
  <2>2. LET i == SerializedIdentifiers(params.identifiers,
                   Pk(ClientStaticKey(rwd, unmasked.val.envelope.nonce)),
                   unmasked.val.server_s_pk)
        IN  i.ok /\ open.val.identifiers = i.val
    <3> HIDE DEF unmasked, rwd
    <3>1. QED
      BY <2>1, OpenIdentifiers
  <2>3. QED
    BY <1>3, <1>6, <2>1, <2>2
<1>8. IsIdentifiers(ids.val)
  BY <1>7, SerializedIdentifiersForm
<1>9. QED
  <2> DEFINE ke2 == response.ke2_message
             t == Transcript(context.val, ids.val,
                    Cache(state.credential_request.blinded_element,
                          state.credential_request.ke1_message, ResponseParts(response),
                          ke2.server_nonce, ke2.server_e_pk, ke2.kem_ct))
  <2>1. ke3 = GenerateKe3(state.credential_request.blinded_element,
                state.credential_request.ke1_message, ResponseParts(response),
                state.ke1_state, ke2, unmasked.val.server_s_pk,
                opened.val.client_s_sk, ids.val, context.val)
    BY <1>7
  <2> HIDE DEF unmasked, opened, ids, rwd, context
  <2>2. PICK ikms :
          /\ ke2.mac = ServerMac(DeriveKeys(ikms, t), ids.val, t)
          /\ ke3.val.session_key = DeriveKeys(ikms, t).session_key
          /\ ke3.val.message.mac = ClientMac(DeriveKeys(ikms, t), ids.val, t, ke2.mac)
    BY <1>2, <2>1, GenerateKe3Keys
  <2> HIDE DEF ke3
  <2>3. /\ ke2.mac = ServerMac(DeriveKeys(ikms, t), ids.val, t)
        /\ result.val.session_key = DeriveKeys(ikms, t).session_key
        /\ result.val.message.ke3_message.mac
             = ClientMac(DeriveKeys(ikms, t), ids.val, t, ke2.mac)
    BY <1>3, <2>2
  <2> HIDE DEF t, ke2
  <2>4. /\ IsIdentifiers(ids.val)
        /\ \E k : /\ ke2.mac = ServerMac(DeriveKeys(k, t), ids.val, t)
                 /\ result.val.session_key = DeriveKeys(k, t).session_key
                 /\ result.val.message.ke3_message.mac
                      = ClientMac(DeriveKeys(k, t), ids.val, t, ke2.mac)
    BY <1>8, <2>3
  <2>5. QED
    BY <2>4 DEF ComputedKeys, ids, rwd, context, t, ke2, masked

-------------------------------------------------------------------------------
(* Which actions can change what.                                            *)

(* Only the three client login actions touch a client login.                 *)
LEMMA ClientSteps ==
  ASSUME [Next]_vars
  PROVE  \/ UNCHANGED client
         \/ \E s \in Clients, password \in Passwords : ClientLoginStart(s, password)
         \/ \E s \in Clients, m \in Sent("CredentialResponse"), password \in Passwords,
               params \in ClientLoginParams : ClientLoginFinish(s, m, password, params)
         \/ \E s \in Clients : ClientLoginRestore(s)
<1>1. ASSUME NEW h \in Servers, NEW m \in Sent("CredentialRequest"), NEW name \in CredentialIds,
             NEW c \in CredentialIds, NEW params \in ServerLoginParams,
             ServerLoginStart(h, m, name, c, params)
      PROVE  UNCHANGED client
  BY <1>1 DEF ServerLoginStart
<1>2. ASSUME NEW h \in Servers, NEW m, ServerLoginBuild(h, m) PROVE UNCHANGED client
  BY <1>2 DEF ServerLoginBuild
<1>3. ASSUME NEW h \in Servers, NEW m, NEW params, ServerLoginFinish(h, m, params)
      PROVE  UNCHANGED client
  BY <1>3 DEF ServerLoginFinish
<1>4. ASSUME NEW r \in Registrations, NEW m, NEW password, NEW params,
             \/ ClientRegistrationStart(r, password)
             \/ ClientRegistrationFinish(r, m, password, params)
             \/ ClientRegistrationRestore(r)
      PROVE  UNCHANGED client
  BY <1>4 DEF ClientRegistrationStart, ClientRegistrationFinish, ClientRegistrationRestore
<1>5. ASSUME NEW m, NEW c, NEW key_material, NEW key_info,
             \/ AskKeyMaterial(c)
             \/ RegistrationAnswer(m, key_material, key_info)
             \/ ServerRegistrationFinish(m, c)
      PROVE  UNCHANGED client
  BY <1>5 DEF AskKeyMaterial, RegistrationAnswer, ServerRegistrationFinish
<1>6. ASSUME NEW h \in Servers, ServerLoginRestore(h) \/ ServerLoginBuilderRestore(h)
      PROVE  UNCHANGED client
  BY <1>6 DEF ServerLoginRestore, ServerLoginBuilderRestore
<1>7. ASSUME NEW g \in Setups, NEW server_s_sk,
             \/ ServerSetupNew(g)
             \/ ServerSetupNewWithKeyPair(g)
             \/ ServerSetupNewWithKeyPairAndSeed(g, server_s_sk)
      PROVE  UNCHANGED client
  BY <1>7 DEF ServerSetupNew, ServerSetupNewWithKeyPair, ServerSetupNewWithKeyPairAndSeed
<1>8. ASSUME NEW m, NEW request, ReflectRegistration(m) \/ ReflectLogin(m, request)
      PROVE  UNCHANGED client
  BY <1>8 DEF ReflectRegistration, ReflectLogin
<1>9. CASE UNCHANGED vars
  BY <1>9 DEF vars
<1>10. CASE ServerRestart
  BY <1>10 DEF ServerRestart
<1>11. ASSUME NEW h \in Servers, NEW m, NEW name, NEW key_material, NEW key_info, NEW params,
              BeginBuilding(h, m, name, key_material, key_info, params)
       PROVE  UNCHANGED client
  BY <1>11 DEF BeginBuilding
<1>12. QED
  BY <1>1, <1>2, <1>3, <1>4, <1>5, <1>6, <1>7, <1>8, <1>9, <1>10, <1>11
  DEF Next, ServerRegistrationStart, ServerRegistrationStartWithKeyMaterial, ServerLoginBuilder,
      ServerLoginBuilderWithKeyMaterial

(* Only the server's login actions and its restart touch a server login.     *)
LEMMA ServerSteps ==
  ASSUME [Next]_vars
  PROVE  \/ UNCHANGED server
         \/ \E h \in Servers, m \in Sent("CredentialRequest"), name, c \in CredentialIds,
               params \in ServerLoginParams :
              ServerLoginStart(h, m, name, c, params)
         \/ \E h \in Servers, m \in Sent("CredentialRequest"), name \in CredentialIds,
               params \in ServerLoginParams :
              \E key_material, key_info :
                /\ BeginBuilding(h, m, name, key_material, key_info, params)
                /\ \/ /\ key_material = OprfKeyMaterial(key_info)
                      /\ \E c \in CredentialIds : key_info = KeyMaterialInfo(setup, c)
                   \/ \E k \in Sent("KeyMaterial") :
                        key_material = k.key_material /\ key_info = k.origin
         \/ \E h \in Servers, m \in Sent("RemoteKeyAnswer") : ServerLoginBuild(h, m)
         \/ \E h \in Servers, m \in Sent("CredentialFinalization"),
               params \in ServerLoginParams : ServerLoginFinish(h, m, params)
         \/ \E h \in Servers : ServerLoginRestore(h) \/ ServerLoginBuilderRestore(h)
         \/ ServerRestart
<1>1. ASSUME NEW s \in Clients, NEW m, NEW password, NEW params,
             \/ ClientLoginStart(s, password)
             \/ ClientLoginFinish(s, m, password, params)
             \/ ClientLoginRestore(s)
      PROVE  UNCHANGED server
  BY <1>1 DEF ClientLoginStart, ClientLoginFinish, ClientLoginRestore
<1>2. ASSUME NEW r \in Registrations, NEW m, NEW password, NEW params,
             \/ ClientRegistrationStart(r, password)
             \/ ClientRegistrationFinish(r, m, password, params)
             \/ ClientRegistrationRestore(r)
      PROVE  UNCHANGED server
  BY <1>2 DEF ClientRegistrationStart, ClientRegistrationFinish, ClientRegistrationRestore
<1>3. ASSUME NEW m, NEW c, NEW key_material, NEW key_info,
             \/ AskKeyMaterial(c)
             \/ RegistrationAnswer(m, key_material, key_info)
             \/ ServerRegistrationFinish(m, c)
      PROVE  UNCHANGED server
  BY <1>3 DEF AskKeyMaterial, RegistrationAnswer, ServerRegistrationFinish
<1>4. ASSUME NEW g \in Setups, NEW server_s_sk,
             \/ ServerSetupNew(g)
             \/ ServerSetupNewWithKeyPair(g)
             \/ ServerSetupNewWithKeyPairAndSeed(g, server_s_sk)
      PROVE  UNCHANGED server
  BY <1>4 DEF ServerSetupNew, ServerSetupNewWithKeyPair, ServerSetupNewWithKeyPairAndSeed
<1>5. ASSUME NEW m, NEW request, ReflectRegistration(m) \/ ReflectLogin(m, request)
      PROVE  UNCHANGED server
  BY <1>5 DEF ReflectRegistration, ReflectLogin
<1>6. CASE UNCHANGED vars
  BY <1>6 DEF vars
<1>7. QED
  BY <1>1, <1>2, <1>3, <1>4, <1>5, <1>6
  DEF Next, ServerRegistrationStart, ServerRegistrationStartWithKeyMaterial, ServerLoginBuilder,
      ServerLoginBuilderWithKeyMaterial

(* Where the messages of a login come from.                                  *)
LEMMA NetSteps ==
  ASSUME TypeOK, [Next]_vars, NEW x \in net', x \notin net,
         x.kind \in {"CredentialRequest", "CredentialResponse", "CredentialFinalization"}
  PROVE  \/ \E s \in Clients, password \in Passwords :
              /\ client'[s].pc = "started" /\ client'[s].state = ClientLoginState(s, password)
              /\ x = credential_request(ClientLoginState(s, password))
         \/ \E h \in Servers : Answered(h)' /\ x = credential_response(server'[h].message)
         \/ \E m \in Sent("CredentialResponse"), request \in Sent("CredentialRequest") :
              x = credential_response(
                    [m.response EXCEPT !.evaluation_element = request.request.blinded_element])
         \/ \E s \in Clients :
              client'[s].pc = "done" /\ x = credential_finalization(client'[s].message)
<1> USE DEF Send
<1>0. DOMAIN client = Clients /\ DOMAIN server = Servers
  BY DEF TypeOK, ClientOK, ServerOK
<1>1. ASSUME NEW r \in Registrations, NEW m, NEW password, NEW params,
             \/ ClientRegistrationStart(r, password)
             \/ ClientRegistrationFinish(r, m, password, params)
             \/ ClientRegistrationRestore(r)
      PROVE  FALSE
  BY <1>1 DEF ClientRegistrationStart, ClientRegistrationFinish, ClientRegistrationRestore,
     registration_request, registration_upload
<1>2. ASSUME NEW m, NEW c, NEW key_material, NEW key_info,
             \/ AskKeyMaterial(c)
             \/ RegistrationAnswer(m, key_material, key_info)
             \/ ServerRegistrationFinish(m, c)
             \/ ReflectRegistration(m)
      PROVE  FALSE
  BY <1>2 DEF AskKeyMaterial, RegistrationAnswer, ServerRegistrationFinish, ReflectRegistration,
     key_material_answer, registration_response
<1>3. ASSUME NEW s \in Clients, NEW password \in Passwords, ClientLoginStart(s, password)
      PROVE  /\ client'[s].pc = "started" /\ client'[s].state = ClientLoginState(s, password)
             /\ x = credential_request(ClientLoginState(s, password))
  BY <1>0, <1>3 DEF ClientLoginStart
<1>4. ASSUME NEW h \in Servers, NEW m \in Sent("CredentialRequest"), NEW name \in CredentialIds,
             NEW c \in CredentialIds, NEW params \in ServerLoginParams,
             ServerLoginStart(h, m, name, c, params)
      PROVE  Answered(h)' /\ x = credential_response(server'[h].message)
  BY <1>0, <1>4 DEF ServerLoginStart, Responded, Answered
<1>5. ASSUME NEW h \in Servers, NEW m, NEW name, NEW key_material, NEW key_info, NEW params,
             BeginBuilding(h, m, name, key_material, key_info, params)
      PROVE  FALSE
  BY <1>5 DEF BeginBuilding, remote_key_answer
<1>6. ASSUME NEW h \in Servers, NEW m \in Sent("RemoteKeyAnswer"), ServerLoginBuild(h, m)
      PROVE  Answered(h)' /\ x = credential_response(server'[h].message)
  BY <1>0, <1>6 DEF ServerLoginBuild, Responded, Answered
<1>7. ASSUME NEW s \in Clients, NEW m \in Sent("CredentialResponse"), NEW password \in Passwords,
             NEW params \in ClientLoginParams, ClientLoginFinish(s, m, password, params)
      PROVE  client'[s].pc = "done" /\ x = credential_finalization(client'[s].message)
  BY <1>0, <1>7 DEF ClientLoginFinish
<1>8. ASSUME NEW s, NEW m, NEW params,
             \/ ClientLoginRestore(s)
             \/ ServerLoginRestore(s)
             \/ ServerLoginBuilderRestore(s)
             \/ ServerLoginFinish(s, m, params)
      PROVE  FALSE
  BY <1>8 DEF ClientLoginRestore, ServerLoginRestore, ServerLoginBuilderRestore, ServerLoginFinish
<1>9. ASSUME NEW g \in Setups, NEW server_s_sk,
             \/ ServerSetupNew(g)
             \/ ServerSetupNewWithKeyPair(g)
             \/ ServerSetupNewWithKeyPairAndSeed(g, server_s_sk)
      PROVE  FALSE
  BY <1>9 DEF ServerSetupNew, ServerSetupNewWithKeyPair, ServerSetupNewWithKeyPairAndSeed
<1>10. ~ServerRestart
  BY DEF ServerRestart
<1>11. ~UNCHANGED vars
  BY DEF vars
<1>12. QED
  BY <1>1, <1>2, <1>3, <1>4, <1>5, <1>6, <1>7, <1>8, <1>9, <1>10, <1>11
  DEF Next, ReflectLogin, ServerRegistrationStart, ServerRegistrationStartWithKeyMaterial, ServerLoginBuilder,
      ServerLoginBuilderWithKeyMaterial

(* What a client login ended with stays.                                     *)
LEMMA DoneStays ==
  ASSUME TypeOK, [Next]_vars, NEW s \in Clients, client[s].pc = "done"
  PROVE  client'[s] = client[s]
<1>0. DOMAIN client = Clients
  BY DEF TypeOK, ClientOK
<1>1. ASSUME NEW t \in Clients, NEW m, NEW password, NEW params,
             \/ ClientLoginStart(t, password)
             \/ ClientLoginFinish(t, m, password, params)
             \/ ClientLoginRestore(t)
      PROVE  client'[s] = client[s]
  BY <1>0, <1>1 DEF ClientLoginStart, ClientLoginFinish, ClientLoginRestore
<1>2. QED
  BY <1>1, ClientSteps

(* What a server login answered, and from what, stays.                       *)
LEMMA AnsweredStays ==
  ASSUME TypeOK, [Next]_vars, NEW h \in Servers, Answered(h)
  PROVE  /\ Answered(h)'
         /\ server'[h].given = server[h].given
         /\ server'[h].builder = server[h].builder
         /\ server'[h].input = server[h].input
         /\ server'[h].message = server[h].message
         /\ server'[h].state = server[h].state
<1> USE DEF Answered
<1>0. DOMAIN server = Servers
  BY DEF TypeOK, ServerOK
<1>1. ASSUME NEW g \in Servers, NEW m, NEW name, NEW c, NEW params,
             NEW key_material, NEW key_info,
             \/ ServerLoginStart(g, m, name, c, params)
             \/ BeginBuilding(g, m, name, key_material, key_info, params)
             \/ ServerLoginBuild(g, m)
             \/ ServerLoginBuilderRestore(g)
      PROVE  server'[h] = server[h]
  BY <1>0, <1>1 DEF ServerLoginStart, BeginBuilding, ServerLoginBuild, ServerLoginBuilderRestore
<1>2. CASE ServerRestart
  BY <1>0, <1>2 DEF ServerRestart
<1>3. ASSUME NEW g \in Servers, NEW m, NEW params,
             ServerLoginFinish(g, m, params) \/ ServerLoginRestore(g)
      PROVE  /\ Answered(h)'
             /\ server'[h].given = server[h].given
             /\ server'[h].builder = server[h].builder
             /\ server'[h].input = server[h].input
             /\ server'[h].message = server[h].message
             /\ server'[h].state = server[h].state
  BY <1>0, <1>3 DEF ServerLoginFinish, ServerLoginRestore
<1>4. QED
  BY <1>1, <1>2, <1>3, ServerSteps

-------------------------------------------------------------------------------
(* The invariant holds initially and every step keeps it.                    *)

(* Initially no session is past its first step and nothing was sent.         *)
LEMMA InvInit == Init => IInv
  BY TypeInit
  DEF IInv, Init, Idle, Sent, Answered, HoldsBuilder, RequestsFormed, ServerBuilt, ResponsesAnswered,
      ClientDerived, FinalizationsDone, ClientAgreement, ServerAgreement

(* A request consists of its two parts.                                      *)
LEMMA RequestsStep ==
  ASSUME TypeOK, RequestsFormed, [Next]_vars PROVE RequestsFormed'
<1> SUFFICES ASSUME NEW m \in net', m.kind = "CredentialRequest"
             PROVE  m.request = [ blinded_element |-> m.request.blinded_element,
                                  ke1_message     |-> m.request.ke1_message ]
  BY DEF RequestsFormed, Sent
<1>1. CASE m \in net
  BY <1>1 DEF RequestsFormed, Sent
<1>2. CASE m \notin net
  <2>1. PICK s, password : m = credential_request(ClientLoginState(s, password))
    BY <1>2, NetSteps DEF credential_response, credential_finalization
  <2>2. QED
    BY <2>1 DEF credential_request, ClientLoginState
<1>3. QED
  BY <1>1, <1>2

(* A fresh builder works with the request it was given.                      *)
LEMMA BuilderViewOK ==
  ASSUME NEW h, NEW name, NEW m, NEW key_material, NEW params, LoginBuilder(h, m, name, key_material, params).ok
  PROVE  LET view == LoginBuilder(h, m, name, key_material, params).val.ke2_builder
         IN  /\ view.cache.request = m.request.blinded_element
             /\ view.cache.ke1 = m.request.ke1_message
             /\ IsIdentifiers(view.identifiers)
<1> DEFINE record == IF files[name] = None THEN DummyRegistration(h, setup) ELSE files[name]
           identifiers == SerializedIdentifiers(params.identifiers, record.client_s_pk,
                                                setup.server_s_pk)
           view == LoginBuilder(h, m, name, key_material, params).val.ke2_builder
<1>1. identifiers.ok
  BY DEF LoginBuilder, ServerLoginBuilderFor
<1>2. \E response, context :
        view = Ke2Builder(h, m.request.blinded_element, m.request.ke1_message, response,
                          record.client_s_pk, identifiers.val, context)
  BY DEF LoginBuilder, ServerLoginBuilderFor, Ok, Err
<1>3. IsIdentifiers(identifiers.val)
  BY <1>1, SerializedIdentifiersForm
<1>4. QED
  BY <1>2, <1>3 DEF Ke2Builder, Cache

(* A server login keeps its builder, and builds from nothing else.           *)
LEMMA ServerBuiltStep ==
  ASSUME TypeOK, ServerBuilt, [Next]_vars PROVE ServerBuilt'
<1> USE DEF ServerBuilt, ViewOK, ServerView
<1>0. DOMAIN server = Servers
  BY DEF TypeOK, ServerOK
<1>1. ASSUME NEW h \in Servers, NEW m \in Sent("CredentialRequest"), NEW name \in CredentialIds,
             NEW c \in CredentialIds, NEW params \in ServerLoginParams,
             ServerLoginStart(h, m, name, c, params)
      PROVE  ServerBuilt'
  <2> DEFINE builder == LoginBuilder(h, m, name, OprfKeyMaterial(KeyMaterialInfo(setup, c)), params)
  <2> HIDE DEF builder
  <2>1. CASE builder.ok
    BY <1>0, <1>1, <2>1, BuilderViewOK
    DEF ServerLoginStart, Responded, Given, Answered, HoldsBuilder, builder
  <2>2. CASE ~builder.ok
    BY <1>0, <1>1, <2>2 DEF ServerLoginStart, Answered, HoldsBuilder, builder
  <2>3. QED
    BY <2>1, <2>2
<1>2. ASSUME NEW h \in Servers, NEW m \in Sent("CredentialRequest"), NEW name \in CredentialIds,
             NEW key_material, NEW key_info, NEW params \in ServerLoginParams,
             BeginBuilding(h, m, name, key_material, key_info, params)
      PROVE  ServerBuilt'
  <2> DEFINE builder == LoginBuilder(h, m, name, key_material, params)
  <2> HIDE DEF builder
  <2>1. CASE builder.ok
    BY <1>0, <1>2, <2>1, BuilderViewOK DEF BeginBuilding, Given, Answered, HoldsBuilder, builder
  <2>2. CASE ~builder.ok
    BY <1>0, <1>2, <2>2 DEF BeginBuilding, Answered, HoldsBuilder, builder
  <2>3. QED
    BY <2>1, <2>2
<1>3. ASSUME NEW h \in Servers, NEW m \in Sent("RemoteKeyAnswer"), ServerLoginBuild(h, m)
      PROVE  ServerBuilt'
  BY <1>0, <1>3 DEF ServerLoginBuild, Responded, Answered, HoldsBuilder
<1>4. ASSUME NEW h \in Servers, NEW m \in Sent("CredentialFinalization"),
             NEW params \in ServerLoginParams, ServerLoginFinish(h, m, params)
      PROVE  ServerBuilt'
  BY <1>0, <1>4 DEF ServerLoginFinish, Answered, HoldsBuilder
<1>5. ASSUME NEW h \in Servers, ServerLoginRestore(h) \/ ServerLoginBuilderRestore(h)
      PROVE  ServerBuilt'
  BY <1>0, <1>5 DEF ServerLoginRestore, ServerLoginBuilderRestore, Answered, HoldsBuilder
<1>6. CASE ServerRestart
  BY <1>0, <1>6 DEF ServerRestart, Interrupted, Answered, HoldsBuilder
<1>7. CASE UNCHANGED server
  BY <1>7 DEF Answered, HoldsBuilder
<1>8. QED
  BY <1>1, <1>2, <1>3, <1>4, <1>5, <1>6, <1>7, ServerSteps

(* A new response is a server login's own, or echoes an older one.           *)
LEMMA ResponsesStep ==
  ASSUME TypeOK, ServerBuilt, ResponsesAnswered, [Next]_vars PROVE ResponsesAnswered'
<1> DEFINE From(response) ==
             \E h \in Servers :
               /\ Answered(h)'
               /\ DOMAIN response = DOMAIN server'[h].message
               /\ response.ke2_message = server'[h].message.ke2_message
<1> SUFFICES ASSUME NEW x \in net', x.kind = "CredentialResponse"
             PROVE  From(x.response)
  BY DEF ResponsesAnswered, Sent
<1>1. ASSUME NEW m \in Sent("CredentialResponse")
      PROVE  From(m.response) /\ "ke2_message" \in DOMAIN m.response
  <2>1. PICK h \in Servers :
          /\ Answered(h)
          /\ DOMAIN m.response = DOMAIN server[h].message
          /\ m.response.ke2_message = server[h].message.ke2_message
    BY DEF ResponsesAnswered
  <2>2. From(m.response)
    BY <2>1, AnsweredStays
  <2>3. "ke2_message" \in DOMAIN server[h].message
    <3>1. server[h].message = BuildServerLogin(server[h].builder, server[h].input).message
      BY <2>1 DEF ServerBuilt
    <3>2. PICK a, b, c, d :
            BuildServerLogin(server[h].builder, server[h].input).message
              = [evaluation_element |-> a, masking_nonce |-> b, masked_response |-> c,
                 ke2_message |-> d]
      BY DEF BuildServerLogin
    <3>3. QED
      BY <3>1, <3>2
  <2>4. QED
    BY <2>1, <2>2, <2>3
<1>2. CASE x \in net
  BY <1>1, <1>2 DEF Sent
<1>3. CASE x \notin net
  <2>1. ASSUME NEW h \in Servers, Answered(h)', x = credential_response(server'[h].message)
        PROVE  From(x.response)
    BY <2>1 DEF credential_response
  <2>2. ASSUME NEW m \in Sent("CredentialResponse"), NEW element,
               x = credential_response([m.response EXCEPT !.evaluation_element = element])
        PROVE  From(x.response)
    <3>1. x.response = [m.response EXCEPT !.evaluation_element = element]
      BY <2>2 DEF credential_response
    <3>2. DOMAIN x.response = DOMAIN m.response /\ x.response.ke2_message = m.response.ke2_message
      BY <1>1, <3>1
    <3>3. QED
      BY <1>1, <3>2
  <2>3. /\ \A s, password : x # credential_request(ClientLoginState(s, password))
        /\ \A message : x # credential_finalization(message)
    BY DEF credential_request, credential_finalization
  <2> HIDE DEF From
  <2>4. QED
    BY <1>3, <2>1, <2>2, <2>3, NetSteps
<1>4. QED
  BY <1>2, <1>3

(* A finalization is sent by the client login that ends with it.             *)
LEMMA FinalizationsStep ==
  ASSUME TypeOK, FinalizationsDone, [Next]_vars PROVE FinalizationsDone'
<1> SUFFICES ASSUME NEW x \in net', x.kind = "CredentialFinalization"
             PROVE  \E s \in Clients :
                      client'[s].pc = "done" /\ x.ke3_message = client'[s].message.ke3_message
  BY DEF FinalizationsDone, Sent
<1>1. CASE x \in net
  BY <1>1, DoneStays DEF FinalizationsDone, Sent
<1>2. CASE x \notin net
  BY <1>2, NetSteps DEF credential_request, credential_response, credential_finalization
<1>3. QED
  BY <1>1, <1>2

(* The server's MAC, the MAC it expects and its session key come from one    *)
(* list of secrets and from its transcript.                                  *)
LEMMA BuiltKeys ==
  ASSUME NEW builder, NEW input
  PROVE  LET built == BuildServerLogin(builder, input)
             view  == builder.ke2_builder
             t     == Transcript(view.context, view.identifiers, view.cache)
         IN  \E ikms, x :
               /\ built.message.ke2_message.mac
                    = ServerMac(DeriveKeys(ikms, t), view.identifiers, t)
               /\ built.state.session_key = DeriveKeys(ikms, t).session_key
               /\ built.state.expected_mac = Hmac(DeriveKeys(ikms, t).km3, x)
<1> DEFINE view == builder.ke2_builder
           t == Transcript(view.context, view.identifiers, view.cache)
           keys == BuilderKeys(view, input)
           ke2 == BuildKe2(view, input)
<1>1. PICK ikms : keys = DeriveKeys(ikms, t)
  BY DEF BuilderKeys
<1>2. ke2.message.mac = ServerMac(keys, view.identifiers, t)
  BY DEF BuildKe2, BuilderServerMac
<1>3. ke2.state.session_key = keys.session_key
  BY DEF BuildKe2
<1>4. PICK x : ke2.state.expected_mac = Hmac(keys.km3, x)
  <2>1. PICK mac : ke2.state.expected_mac = ClientMac(keys, view.identifiers, t, mac)
    BY DEF BuildKe2
  <2>2. QED
    BY <2>1 DEF ClientMac
<1>5. /\ BuildServerLogin(builder, input).message.ke2_message = ke2.message
      /\ BuildServerLogin(builder, input).state = ke2.state
  BY DEF BuildServerLogin
<1>6. QED
  BY <1>1, <1>2, <1>3, <1>4, <1>5

(* Who hashed the same transcript saw the same request and response, under   *)
(* the same context and identifiers.                                         *)
LEMMA SameTranscript ==
  ASSUME NEW view, NEW given, NEW request, NEW context, NEW ids, NEW response,
         NEW server_nonce, NEW server_e_pk, NEW kem_ct,
         view.cache.request = given.blinded_element,
         view.cache.ke1 = given.ke1_message,
         IsIdentifiers(view.identifiers), IsIdentifiers(ids),
         given = [ blinded_element |-> given.blinded_element,
                   ke1_message     |-> given.ke1_message ],
         request = [ blinded_element |-> request.blinded_element,
                     ke1_message     |-> request.ke1_message ],
         Transcript(view.context, view.identifiers, view.cache)
           = Transcript(context, ids,
               Cache(request.blinded_element, request.ke1_message, response,
                     server_nonce, server_e_pk, kem_ct))
  PROVE  /\ given = request
         /\ view.context = context
         /\ view.identifiers = ids
         /\ view.cache.response = response
<1>1. /\ view.context = context
      /\ view.identifiers.client = ids.client
      /\ view.identifiers.server = ids.server
      /\ view.cache = Cache(request.blinded_element, request.ke1_message, response,
                            server_nonce, server_e_pk, kem_ct)
  BY TranscriptInjective
<1>2. view.identifiers = ids
  BY <1>1 DEF IsIdentifiers
<1>3. /\ given.blinded_element = request.blinded_element
      /\ given.ke1_message = request.ke1_message
      /\ view.cache.response = response
  BY <1>1 DEF Cache
<1>4. given = request
  BY <1>3
<1>5. QED
  BY <1>1, <1>2, <1>3, <1>4

(* The step with which a client login ends.                                  *)
LEMMA ClientFinishes ==
  ASSUME TypeOK, [Next]_vars, NEW s \in Clients, client[s].pc # "done", client'[s].pc = "done"
  PROVE  \E m \in Sent("CredentialResponse") :
           /\ UNCHANGED server
           /\ client'[s].response = m.response
           /\ IsIdentifiers(ClientIdentifiersOf(s)')
           /\ \E ikms :
                LET keys == DeriveKeys(ikms, ClientTranscript(s)')
                    mac  == m.response.ke2_message.mac
                IN  /\ mac = ServerMac(keys, ClientIdentifiersOf(s)', ClientTranscript(s)')
                    /\ client'[s].session_key = keys.session_key
                    /\ client'[s].message.ke3_message.mac
                         = ClientMac(keys, ClientIdentifiersOf(s)', ClientTranscript(s)', mac)
<1>0. DOMAIN client = Clients
  BY DEF TypeOK, ClientOK
<1>1. PICK m \in Sent("CredentialResponse"), password \in Passwords,
           params \in ClientLoginParams : ClientLoginFinish(s, m, password, params)
  BY <1>0, ClientSteps DEF ClientLoginStart, ClientLoginRestore, ClientLoginFinish
<1>2. PICK result \in FinishClientLogin(client[s].state, password, m.response, params) :
        /\ result.ok
        /\ client'[s] =
             [ pc |-> "done", password |-> client[s].password, state |-> client[s].state,
               final |-> password, params |-> params, response |-> m.response,
               session_key |-> result.val.session_key,
               export_key  |-> result.val.export_key,
               server_s_pk |-> result.val.server_s_pk,
               message     |-> result.val.message ]
  BY <1>0, <1>1 DEF ClientLoginFinish
<1> DEFINE rwd == RandomizedPwd(password, client[s].state.oprf_client,
                                m.response.evaluation_element, params.ksf)
           ids == SerializedIdentifiers(params.identifiers,
                    Pk(ClientStaticKey(rwd, m.response.masked_response.envelope.nonce)),
                    result.val.server_s_pk).val
           ke2 == m.response.ke2_message
           t == Transcript(SerializedContext(params.context).val, ids,
                  Cache(client[s].state.credential_request.blinded_element,
                        client[s].state.credential_request.ke1_message,
                        ResponseParts(m.response),
                        ke2.server_nonce, ke2.server_e_pk, ke2.kem_ct))
<1>3. /\ IsIdentifiers(ids)
      /\ \E ikms :
           /\ ke2.mac = ServerMac(DeriveKeys(ikms, t), ids, t)
           /\ result.val.session_key = DeriveKeys(ikms, t).session_key
           /\ result.val.message.ke3_message.mac
                = ClientMac(DeriveKeys(ikms, t), ids, t, ke2.mac)
  <2>1. ComputedKeys(client[s].state, password, m.response, params, result.val)
    BY <1>2, FinishClientLoginKeys
  <2>2. QED
    BY <2>1 DEF ComputedKeys
<1>4. ClientIdentifiersOf(s)' = ids
  <2>1. /\ client'[s].params = params
        /\ client'[s].server_s_pk = result.val.server_s_pk
        /\ client'[s].response = m.response
        /\ client'[s].final = password
        /\ client'[s].state = client[s].state
    BY <1>2
  <2>2. ClientPwd(s)' = rwd
    BY <2>1 DEF ClientPwd
  <2> HIDE DEF rwd
  <2>3. QED
    BY <2>1, <2>2 DEF ClientIdentifiersOf
<1>5. ClientTranscript(s)' = t
  BY <1>2, <1>4 DEF ClientTranscript, ClientCache
<1>6. UNCHANGED server
  BY <1>1 DEF ClientLoginFinish
<1> HIDE DEF ids, t
<1>7. QED
  BY <1>2, <1>3, <1>4, <1>5, <1>6

(* The secrets behind a session key are those of the step that ended the     *)
(* login.                                                                    *)
LEMMA DerivedStep ==
  ASSUME TypeOK, ClientDerived, [Next]_vars PROVE ClientDerived'
<1> SUFFICES ASSUME NEW s \in Clients, client'[s].pc = "done" PROVE Derived(s)'
  BY DEF ClientDerived
<1>1. CASE client[s].pc = "done"
  <2>1. client'[s] = client[s]
    BY <1>1, DoneStays
  <2>2. Derived(s)
    BY <1>1 DEF ClientDerived
  <2>3. ClientIdentifiersOf(s)' = ClientIdentifiersOf(s)
    BY <2>1 DEF ClientIdentifiersOf, ClientPwd
  <2>4. ClientTranscript(s)' = ClientTranscript(s)
    BY <2>1, <2>3 DEF ClientTranscript, ClientCache
  <2>5. QED
    BY <2>1, <2>2, <2>3, <2>4 DEF Derived
<1>2. CASE client[s].pc # "done"
  <2>1. PICK m, ikms :
          LET keys == DeriveKeys(ikms, ClientTranscript(s)')
              mac  == m.response.ke2_message.mac
          IN  /\ IsIdentifiers(ClientIdentifiersOf(s)')
              /\ client'[s].session_key = keys.session_key
              /\ client'[s].message.ke3_message.mac
                   = ClientMac(keys, ClientIdentifiersOf(s)', ClientTranscript(s)', mac)
    BY <1>2, ClientFinishes
  <2>2. client'[s].session_key[2] = ikms
    BY <2>1 DEF DeriveKeys, Expand
  <2>3. client'[s].message.ke3_message.mac
          = Hmac(DeriveKeys(ikms, ClientTranscript(s)').km3, client'[s].message.ke3_message.mac[3])
    BY <2>1 DEF ClientMac, Hmac
  <2>4. QED
    BY <2>1, <2>2, <2>3 DEF Derived
<1>3. QED
  BY <1>1, <1>2

(* The client's request, and the one a server login was given, are requests. *)
LEMMA RequestForms ==
  ASSUME TypeOK, RequestsFormed
  PROVE  /\ \A s \in Clients : client[s].pc # "idle" =>
              client[s].state.credential_request =
                [ blinded_element |-> client[s].state.credential_request.blinded_element,
                  ke1_message     |-> client[s].state.credential_request.ke1_message ]
         /\ \A h \in Servers : Answered(h) =>
              server[h].given.request =
                [ blinded_element |-> server[h].given.request.blinded_element,
                  ke1_message     |-> server[h].given.request.ke1_message ]
<1>1. ASSUME NEW s \in Clients, client[s].pc # "idle"
      PROVE  client[s].state.credential_request =
               [ blinded_element |-> client[s].state.credential_request.blinded_element,
                 ke1_message     |-> client[s].state.credential_request.ke1_message ]
  <2>1. client[s].state = ClientLoginState(s, client[s].password)
    BY <1>1 DEF TypeOK, ClientOK
  <2>2. QED
    BY <2>1 DEF ClientLoginState
<1>2. ASSUME NEW h \in Servers, Answered(h)
      PROVE  server[h].given.request =
               [ blinded_element |-> server[h].given.request.blinded_element,
                 ke1_message     |-> server[h].given.request.ke1_message ]
  <2>1. PICK m \in Sent("CredentialRequest") : server[h].given.request = m.request
    BY <1>2 DEF TypeOK, ServerOK, Answered
  <2>2. QED
    BY <2>1 DEF RequestsFormed
<1>3. QED
  BY <1>1, <1>2

(* An agreement, once reached, stays.                                        *)
LEMMA AgreementStays ==
  ASSUME TypeOK, [Next]_vars, NEW s \in Clients, NEW h \in Servers,
         client[s].pc = "done", AgreesWith(s, h)
  PROVE  AgreesWith(s, h)'
<1>1. client'[s] = client[s]
  BY DoneStays
<1>2. /\ Answered(h)'
      /\ server'[h].given = server[h].given
      /\ server'[h].builder = server[h].builder
      /\ server'[h].state = server[h].state
  BY AnsweredStays DEF AgreesWith
<1>3. ClientIdentifiersOf(s)' = ClientIdentifiersOf(s)
  BY <1>1 DEF ClientIdentifiersOf, ClientPwd
<1>4. QED
  BY <1>1, <1>2, <1>3 DEF AgreesWith, ServerView

(* The accepted MAC is the one of some answered login: same secrets, same    *)
(* transcript, and so the same key and the same view.                        *)
LEMMA ClientAgreementStep ==
  ASSUME IInv, [Next]_vars PROVE ClientAgreement'
<1> SUFFICES ASSUME NEW s \in Clients, client'[s].pc = "done"
             PROVE  \E h \in Servers : AgreesWith(s, h)'
  BY DEF ClientAgreement
<1> USE DEF IInv
<1>1. CASE client[s].pc = "done"
  BY <1>1, DoneStays, AgreementStays DEF ClientAgreement
<1>2. CASE client[s].pc # "done"
  <2> DEFINE ids == ClientIdentifiersOf(s)'
             t == ClientTranscript(s)'
  <2>1. PICK m, ikms :
          /\ m \in Sent("CredentialResponse")
          /\ UNCHANGED server
          /\ client'[s].response = m.response
          /\ IsIdentifiers(ids)
          /\ m.response.ke2_message.mac = ServerMac(DeriveKeys(ikms, t), ids, t)
          /\ client'[s].session_key = DeriveKeys(ikms, t).session_key
    BY <1>2, ClientFinishes
  <2>2. PICK h \in Servers :
          Answered(h) /\ m.response.ke2_message = server[h].message.ke2_message
    BY <2>1 DEF ResponsesAnswered
  <2> DEFINE view == ServerView(h)
             th == Transcript(view.context, view.identifiers, view.cache)
  <2>3. PICK ikms_h :
          /\ server[h].message.ke2_message.mac
               = ServerMac(DeriveKeys(ikms_h, th), view.identifiers, th)
          /\ server[h].state.session_key = DeriveKeys(ikms_h, th).session_key
    BY <2>2, BuiltKeys DEF ServerBuilt, ServerView
  <2>4. ikms = ikms_h /\ t = th
    <3> HIDE DEF ids, t, view, th
    <3>1. ServerMac(DeriveKeys(ikms, t), ids, t)
            = ServerMac(DeriveKeys(ikms_h, th), view.identifiers, th)
      BY <2>1, <2>2, <2>3
    <3>2. QED
      BY <3>1, ServerMacBinds
  <2>5. server[h].state.session_key = client'[s].session_key
    BY <2>1, <2>3, <2>4
  <2>6. /\ server[h].given.request = client'[s].state.credential_request
        /\ view.context = SerializedContext(client'[s].params.context).val
        /\ view.identifiers = ids
        /\ view.cache.response = ResponseParts(client'[s].response)
    <3>1. ViewOK(h)
      BY <2>2 DEF ServerBuilt
    <3>2. server[h].given.request =
            [ blinded_element |-> server[h].given.request.blinded_element,
              ke1_message     |-> server[h].given.request.ke1_message ]
      BY <2>2, RequestForms
    <3>3. client'[s].state.credential_request =
            [ blinded_element |-> client'[s].state.credential_request.blinded_element,
              ke1_message     |-> client'[s].state.credential_request.ke1_message ]
      <4>1. client'[s].state = ClientLoginState(s, client'[s].password)
        BY TypeStep DEF TypeOK, ClientOK
      <4>2. QED
        BY <4>1 DEF ClientLoginState
    <3>4. Transcript(view.context, view.identifiers, view.cache)
            = Transcript(SerializedContext(client'[s].params.context).val, ids,
                Cache(client'[s].state.credential_request.blinded_element,
                      client'[s].state.credential_request.ke1_message,
                      ResponseParts(client'[s].response),
                      client'[s].response.ke2_message.server_nonce,
                      client'[s].response.ke2_message.server_e_pk,
                      client'[s].response.ke2_message.kem_ct))
      BY <2>4 DEF ClientTranscript, ClientCache
    <3> HIDE DEF ids
    <3>5. QED
      BY <2>1, <3>1, <3>2, <3>3, <3>4, SameTranscript DEF ViewOK, ids
  <2>7. AgreesWith(s, h)'
    BY <2>1, <2>2, <2>5, <2>6 DEF AgreesWith, Answered, ServerView
  <2>8. QED
    BY <2>7
<1>3. QED
  BY <1>1, <1>2

(* The step with which a server login ends: the finalization carried the MAC *)
(* that the kept state expects.                                              *)
LEMMA ServerFinishes ==
  ASSUME TypeOK, [Next]_vars, NEW h \in Servers, server[h].pc # "done", server'[h].pc = "done"
  PROVE  /\ UNCHANGED client
         /\ Answered(h)
         /\ server'[h].session_key = server[h].state.session_key
         /\ \E m \in Sent("CredentialFinalization") :
              m.ke3_message.mac = server[h].state.expected_mac
<1>0. DOMAIN server = Servers
  BY DEF TypeOK, ServerOK
<1>1. PICK m \in Sent("CredentialFinalization"), params \in ServerLoginParams :
        ServerLoginFinish(h, m, params)
  BY <1>0, ServerSteps
  DEF ServerLoginStart, BeginBuilding, ServerLoginBuild, Responded, ServerLoginFinish,
      ServerLoginRestore, ServerLoginBuilderRestore, ServerRestart, Interrupted
<1> DEFINE result == FinishServerLogin(server[h].state, m.ke3_message, params)
<1>2. result.ok /\ server[h].pc = "responded" /\ server'[h].session_key = result.val
  <2> HIDE DEF result
  <2>1. QED
    BY <1>0, <1>1 DEF ServerLoginFinish, result
<1>3. /\ m.ke3_message.mac = server[h].state.expected_mac
      /\ result.val = server[h].state.session_key
  BY <1>2 DEF FinishServerLogin, FinishKe, ClientMacMatches, Ok, Err
<1>4. QED
  BY <1>1, <1>2, <1>3 DEF ServerLoginFinish, Answered

(* Who sends the MAC that a server login expects agrees with it in all.      *)
LEMMA MacAgrees ==
  ASSUME TypeOK, RequestsFormed, ServerBuilt, ClientDerived,
         NEW s \in Clients, client[s].pc = "done", NEW h \in Servers, Answered(h),
         client[s].message.ke3_message.mac = server[h].state.expected_mac
  PROVE  AgreesWith(s, h)
<1> DEFINE view == ServerView(h)
           th == Transcript(view.context, view.identifiers, view.cache)
           ids == ClientIdentifiersOf(s)
           t == ClientTranscript(s)
           ikms == client[s].session_key[2]
<1>1. PICK ikms_h, x :
        /\ server[h].state.session_key = DeriveKeys(ikms_h, th).session_key
        /\ server[h].state.expected_mac = Hmac(DeriveKeys(ikms_h, th).km3, x)
  BY BuiltKeys DEF ServerBuilt, ServerView
<1>2. /\ IsIdentifiers(ids)
      /\ client[s].session_key = DeriveKeys(ikms, t).session_key
      /\ \E y : client[s].message.ke3_message.mac = Hmac(DeriveKeys(ikms, t).km3, y)
  BY DEF ClientDerived, Derived
<1>3. ikms = ikms_h /\ t = th
  <2> HIDE DEF ikms, t, ids, view, th
  <2>1. DeriveKeys(ikms, t).km3 = DeriveKeys(ikms_h, th).km3
    BY <1>1, <1>2 DEF Hmac
  <2>2. QED
    BY <2>1, ClientKeyBinds
<1>4. server[h].state.session_key = client[s].session_key
  <2> HIDE DEF ikms, t, th
  <2>1. QED
    BY <1>1, <1>2, <1>3
<1>5. /\ server[h].given.request = client[s].state.credential_request
      /\ view.context = SerializedContext(client[s].params.context).val
      /\ view.identifiers = ids
      /\ view.cache.response = ResponseParts(client[s].response)
  <2>1. ViewOK(h)
    BY DEF ServerBuilt
  <2>2. /\ server[h].given.request =
             [ blinded_element |-> server[h].given.request.blinded_element,
               ke1_message     |-> server[h].given.request.ke1_message ]
        /\ client[s].state.credential_request =
             [ blinded_element |-> client[s].state.credential_request.blinded_element,
               ke1_message     |-> client[s].state.credential_request.ke1_message ]
    BY RequestForms
  <2>3. Transcript(view.context, view.identifiers, view.cache)
          = Transcript(SerializedContext(client[s].params.context).val, ids,
              Cache(client[s].state.credential_request.blinded_element,
                    client[s].state.credential_request.ke1_message,
                    ResponseParts(client[s].response),
                    client[s].response.ke2_message.server_nonce,
                    client[s].response.ke2_message.server_e_pk,
                    client[s].response.ke2_message.kem_ct))
    BY <1>3 DEF ClientTranscript, ClientCache
  <2> HIDE DEF ids
  <2>4. QED
    BY <1>2, <2>1, <2>2, <2>3, SameTranscript DEF ViewOK
<1>6. QED
  BY <1>4, <1>5 DEF AgreesWith

(* The expected MAC is the one of some finished client.                      *)
LEMMA ServerAgreementStep ==
  ASSUME IInv, [Next]_vars PROVE ServerAgreement'
<1> SUFFICES ASSUME NEW h \in Servers, server'[h].pc = "done"
             PROVE  \E s \in Clients :
                      /\ client'[s].pc = "done"
                      /\ client'[s].session_key = server'[h].session_key
                      /\ AgreesWith(s, h)'
  BY DEF ServerAgreement
<1> USE DEF IInv
<1>1. CASE server[h].pc = "done"
  <2>1. server'[h] = server[h]
    <3>1. DOMAIN server = Servers
      BY DEF TypeOK, ServerOK
    <3>2. QED
      BY <1>1, <3>1, ServerSteps
      DEF ServerLoginStart, BeginBuilding, ServerLoginBuild, ServerLoginFinish,
          ServerLoginRestore, ServerLoginBuilderRestore, ServerRestart
  <2>2. PICK s \in Clients :
          /\ client[s].pc = "done"
          /\ client[s].session_key = server[h].session_key
          /\ AgreesWith(s, h)
    BY <1>1 DEF ServerAgreement
  <2>3. QED
    BY <2>1, <2>2, DoneStays, AgreementStays
<1>2. CASE server[h].pc # "done"
  <2>1. PICK m \in Sent("CredentialFinalization") :
          /\ UNCHANGED client
          /\ Answered(h)
          /\ server'[h].session_key = server[h].state.session_key
          /\ m.ke3_message.mac = server[h].state.expected_mac
    BY <1>2, ServerFinishes
  <2>2. PICK s \in Clients :
          client[s].pc = "done" /\ m.ke3_message = client[s].message.ke3_message
    BY DEF FinalizationsDone
  <2>3. AgreesWith(s, h)
    BY <2>1, <2>2, MacAgrees
  <2>4. AgreesWith(s, h)'
    BY <2>2, <2>3, AgreementStays
  <2>5. QED
    BY <2>1, <2>2, <2>3, <2>4 DEF AgreesWith
<1>3. QED
  BY <1>1, <1>2

(* One step per part of the invariant.                                       *)
LEMMA InvStep == IInv /\ [Next]_vars => IInv'
<1> SUFFICES ASSUME IInv, [Next]_vars PROVE IInv'
  OBVIOUS
<1>1. TypeOK'
  BY TypeStep DEF IInv
<1>2. RequestsFormed' /\ ServerBuilt' /\ ResponsesAnswered'
  BY RequestsStep, ServerBuiltStep, ResponsesStep DEF IInv
<1>3. ClientDerived' /\ FinalizationsDone'
  BY DerivedStep, FinalizationsStep DEF IInv
<1>4. ClientAgreement' /\ ServerAgreement'
  BY ClientAgreementStep, ServerAgreementStep
<1>5. QED
  BY <1>1, <1>2, <1>3, <1>4 DEF IInv

(* The inductive invariant holds in every reachable state.                   *)
LEMMA Invariance == Spec => []IInv
<1>1. Init => IInv
  BY InvInit
<1>2. IInv /\ [Next]_vars => IInv'
  BY InvStep
<1>3. QED
  BY <1>1, <1>2, PTL DEF Spec

-------------------------------------------------------------------------------
(* A client login ends with a session key only if some server login answered *)
(* its very request, with that very response and under the same context and  *)
(* identifiers, and holds the same key: in every suite, whatever the network *)
(* and the holders of private keys deliver to whom (ClientLogin::finish).    *)
THEOREM ClientsAgree == Spec => []ClientAgreement
<1>1. IInv => ClientAgreement
  BY DEF IInv
<1>2. QED
  BY <1>1, Invariance, PTL

(* A server login ends with a session key only if a client login that agrees *)
(* with it in all that has ended with the same key (ServerLogin::finish).    *)
THEOREM ServersAgree == Spec => []ServerAgreement
<1>1. IInv => ServerAgreement
  BY DEF IInv
<1>2. QED
  BY <1>1, Invariance, PTL
===============================================================================
