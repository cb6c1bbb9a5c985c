----------------------------- MODULE OpaqueHistory -----------------------------
(***************************************************************************)
(* Where everything in Opaque comes from: every session that ended is at a *)
(* result of the operation it called, on a message that was sent, and      *)
(* every message is the work of a session that still holds what it was     *)
(* made from.  The invariant is proved here for every number of sessions   *)
(* and every suite; OpaqueResults draws the conclusions.                   *)
(***************************************************************************)
EXTENDS OpaqueRefinement

-------------------------------------------------------------------------------
(* The history invariant.                                                    *)

IsKeyInfo(key_info) == key_info = [ikm |-> key_info.ikm, info |-> key_info.info]

(* Key material, however it came to the server, is derived from what it is   *)
(* said to be derived from.                                                  *)
Derives(key_material, key_info) ==
  IsKeyInfo(key_info) /\ key_material = OprfKeyMaterial(key_info)

SetupMade == \E g \in Setups : setup.dummy_pk = Pk(<<"dummy_sk", g>>)

KeyMaterialMade == \A k \in Sent("KeyMaterial") : Derives(k.key_material, k.origin)

(* A blinded element is the one of a registration that was begun.            *)
BlindedBy(r, element) ==
  registration[r].pc # "idle" /\ element = Blind(registration[r].password, <<"blind", r>>)

RegistrationRequestsMade ==
  \A m \in Sent("RegistrationRequest") : \E r \in Registrations : BlindedBy(r, m.blinded_element)

Evaluated(m) ==
  m.evaluation_element =
    BlindEvaluate(OprfKey(OprfKeyMaterial(m.origin.key_info)), m.origin.blinded_element)

Echoed(m) ==
  m.evaluation_element = m.origin.blinded_element /\ m.origin.key_info.info = None

RegistrationResponsesMade ==
  \A m \in Sent("RegistrationResponse") :
    /\ IsKeyInfo(m.origin.key_info)
    /\ \E r \in Registrations : BlindedBy(r, m.origin.blinded_element)
    /\ Evaluated(m) \/ Echoed(m)

RegistrationResult(now, r) ==
  FinishClientRegistration(r, now.state, now.final, now.response, now.params)

RegistrationEnded(now, r) ==
  /\ now.response \in Sent("RegistrationResponse")
  /\ now.pc = "done" =>
       /\ RegistrationResult(now, r).ok
       /\ now.upload = RegistrationResult(now, r).val.message
       /\ now.export_key = RegistrationResult(now, r).val.export_key
       /\ now.server_s_pk = RegistrationResult(now, r).val.server_s_pk
  /\ now.pc = "failed" =>
       /\ ~RegistrationResult(now, r).ok
       /\ now.error = RegistrationResult(now, r).err

RegistrationsEnded ==
  \A r \in Registrations :
    registration[r].pc \in {"done", "failed"} => RegistrationEnded(registration[r], r)

(* A file, or what was looked up as one, is what a registration ended with.  *)
UploadsMade ==
  \A m \in Sent("RegistrationUpload") :
    \E r \in Registrations : registration[r].pc = "done" /\ m.upload = registration[r].upload

(* A builder is what the builder operation makes of what the login was       *)
(* given; of the setup it sees only the two keys.                            *)
BuilderMade(h) ==
  LET given == server[h].given
      builder == server[h].builder
  IN  /\ IsKeyInfo(given.key_info)
      /\ given.password_file = None
         \/ \E m \in Sent("RegistrationUpload") : given.password_file = m.upload
      /\ \E g \in Setups :
           LET made == ServerLoginBuilderFor(h,
                         NewServerSetup(None, builder.server_s_sk, <<"dummy_sk", g>>),
                         OprfKeyMaterial(given.key_info), given.password_file, given.request,
                         given.params)
           IN  made.ok /\ builder = made.val

BuildersMade == \A h \in Servers : HoldsBuilder(h) \/ Answered(h) => BuilderMade(h)

TooLongGiven(params) == ParametersTooLong(params.identifiers, params.context)

Refusals ==
  \A h \in Servers : server[h].pc = "refused" =>
    server[h].error = "SerializationError" /\ TooLongGiven(server[h].given.params)

(* In SIGMA-I a builder does not get lost, and a remote answer is the one to *)
(* a builder that some login holds.                                          *)
AnswersOf(answer) ==
  \E h \in Servers :
    (HoldsBuilder(h) \/ Answered(h)) /\ answer = RemoteKeyAnswer(server[h].builder)

RemoteAnswersMade == Sigma => \A m \in Sent("RemoteKeyAnswer") : AnswersOf(m.answer)

InputsMade == Sigma => \A h \in Servers : Answered(h) => AnswersOf(server[h].input)

ClientEnded(now) ==
  /\ \E m \in Sent("CredentialResponse") : now.response = m.response
  /\ \E result \in FinishClientLogin(now.state, now.final, now.response, now.params) :
       /\ now.pc = "done" =>
            /\ result.ok
            /\ now.session_key = result.val.session_key
            /\ now.export_key = result.val.export_key
            /\ now.server_s_pk = result.val.server_s_pk
            /\ now.message = result.val.message
       /\ now.pc = "failed" => ~result.ok /\ now.error = result.err

ClientsEnded == \A s \in Clients : client[s].pc \in {"done", "failed"} => ClientEnded(client[s])

ServerEnded(now) ==
  /\ now.pc = "done" =>
       \E m \in Sent("CredentialFinalization") :
         /\ FinishServerLogin(now.state, m.ke3_message, now.final).ok
         /\ now.session_key = FinishServerLogin(now.state, m.ke3_message, now.final).val
  /\ now.pc = "failed" =>
       /\ ~FinishServerLogin(now.state, now.ke3_message, now.final).ok
       /\ now.error = FinishServerLogin(now.state, now.ke3_message, now.final).err

ServersEnded == \A h \in Servers : ServerEnded(server[h])

HInv ==
  /\ RInv
  /\ SetupMade
  /\ KeyMaterialMade
  /\ RegistrationRequestsMade
  /\ RegistrationResponsesMade
  /\ RegistrationsEnded
  /\ UploadsMade
  /\ BuildersMade
  /\ Refusals
  /\ RemoteAnswersMade
  /\ InputsMade
  /\ ClientsEnded
  /\ ServersEnded

-------------------------------------------------------------------------------
(* Which actions can change what.                                            *)

(* Only the three client registration actions touch a registration.          *)
LEMMA RegistrationSteps ==
  ASSUME [Next]_vars
  PROVE  \/ UNCHANGED registration
         \/ \E r \in Registrations, password \in Passwords : ClientRegistrationStart(r, password)
         \/ \E r \in Registrations, m \in Sent("RegistrationResponse"), password \in Passwords,
               params \in RegistrationParams : ClientRegistrationFinish(r, m, password, params)
         \/ \E r \in Registrations : ClientRegistrationRestore(r)
<1>1. ASSUME NEW s \in Clients, NEW m, NEW password, NEW params,
             \/ ClientLoginStart(s, password)
             \/ ClientLoginFinish(s, m, password, params)
             \/ ClientLoginRestore(s)
      PROVE  UNCHANGED registration
  BY <1>1 DEF ClientLoginStart, ClientLoginFinish, ClientLoginRestore
<1>2. ASSUME NEW h \in Servers, NEW m, NEW name, NEW c, NEW params,
             ServerLoginStart(h, m, name, c, params)
      PROVE  UNCHANGED registration
  BY <1>2 DEF ServerLoginStart
<1>3. ASSUME NEW h \in Servers, NEW m, NEW name, NEW key_material, NEW key_info, NEW params,
             BeginBuilding(h, m, name, key_material, key_info, params)
      PROVE  UNCHANGED registration
  BY <1>3 DEF BeginBuilding
<1>4. ASSUME NEW h \in Servers, NEW m, NEW params,
             \/ ServerLoginBuild(h, m)
             \/ ServerLoginFinish(h, m, params)
             \/ ServerLoginRestore(h)
             \/ ServerLoginBuilderRestore(h)
      PROVE  UNCHANGED registration
  BY <1>4 DEF ServerLoginBuild, ServerLoginFinish, ServerLoginRestore, ServerLoginBuilderRestore
<1>5. ASSUME NEW m, NEW c, NEW key_material, NEW key_info,
             \/ AskKeyMaterial(c)
             \/ RegistrationAnswer(m, key_material, key_info)
             \/ ServerRegistrationFinish(m, c)
      PROVE  UNCHANGED registration
  BY <1>5 DEF AskKeyMaterial, RegistrationAnswer, ServerRegistrationFinish
<1>6. ASSUME NEW g \in Setups, NEW server_s_sk,
             \/ ServerRestart
             \/ ServerSetupNew(g)
             \/ ServerSetupNewWithKeyPair(g)
             \/ ServerSetupNewWithKeyPairAndSeed(g, server_s_sk)
      PROVE  UNCHANGED registration
  BY <1>6
  DEF ServerRestart, ServerSetupNew, ServerSetupNewWithKeyPair, ServerSetupNewWithKeyPairAndSeed
<1>7. ASSUME NEW m, NEW request, ReflectRegistration(m) \/ ReflectLogin(m, request)
      PROVE  UNCHANGED registration
  BY <1>7 DEF ReflectRegistration, ReflectLogin
<1>8. CASE UNCHANGED vars
  BY <1>8 DEF vars
<1>9. CASE ServerRestart
  BY <1>9 DEF ServerRestart
<1>10. QED
  BY <1>1, <1>2, <1>3, <1>4, <1>5, <1>6, <1>7, <1>8, <1>9
  DEF Next, ServerRegistrationStart, ServerRegistrationStartWithKeyMaterial, ServerLoginBuilder,
      ServerLoginBuilderWithKeyMaterial

(* Where the messages of a registration and the answers of remote machines   *)
(* come from.                                                                *)
LEMMA OtherNetSteps ==
  ASSUME TypeOK, [Next]_vars, NEW x \in net', x \notin net,
         x.kind \in { "KeyMaterial", "RegistrationRequest", "RegistrationResponse",
                      "RegistrationUpload", "RemoteKeyAnswer" }
  PROVE  \/ \E c \in CredentialIds : x = key_material_answer(KeyMaterialInfo(setup, c))
         \/ \E r \in Registrations :
              registration'[r].pc = "started" /\ x = registration_request(registration'[r].state)
         \/ \E m \in Sent("RegistrationRequest") : \E key_material, key_info :
              /\ RegistrationAnswer(m, key_material, key_info)
              /\ \/ /\ key_material = OprfKeyMaterial(key_info)
                    /\ \E c \in CredentialIds : key_info = KeyMaterialInfo(setup, c)
                 \/ \E k \in Sent("KeyMaterial") :
                      key_material = k.key_material /\ key_info = k.origin
              /\ x = registration_response(
                       ServerRegistrationResponse(setup, key_material, m.blinded_element),
                       m.blinded_element, key_info)
         \/ \E m \in Sent("RegistrationRequest") :
              x = registration_response(
                    [evaluation_element |-> m.blinded_element, server_s_pk |-> setup.server_s_pk],
                    m.blinded_element, KeyMaterialInfo(setup, None))
         \/ \E r \in Registrations :
              registration'[r].pc = "done" /\ x = registration_upload(registration'[r].upload)
         \/ \E h \in Servers :
              /\ server'[h].pc = "building"
              /\ x = remote_key_answer(RemoteKeyAnswer(server'[h].builder))
<1> USE DEF Send
<1>0. DOMAIN registration = Registrations /\ DOMAIN server = Servers
  BY DEF TypeOK, RegistrationOK, ServerOK
<1>1. ASSUME NEW c \in CredentialIds, AskKeyMaterial(c)
      PROVE  x = key_material_answer(KeyMaterialInfo(setup, c))
  BY <1>1 DEF AskKeyMaterial
<1>2. ASSUME NEW r \in Registrations, NEW password \in Passwords,
             ClientRegistrationStart(r, password)
      PROVE  registration'[r].pc = "started" /\ x = registration_request(registration'[r].state)
  BY <1>0, <1>2 DEF ClientRegistrationStart
<1>3. ASSUME NEW m \in Sent("RegistrationRequest"), NEW key_material, NEW key_info,
             RegistrationAnswer(m, key_material, key_info)
      PROVE  x = registration_response(
                   ServerRegistrationResponse(setup, key_material, m.blinded_element),
                   m.blinded_element, key_info)
  BY <1>3 DEF RegistrationAnswer
<1>4. ASSUME NEW m \in Sent("RegistrationRequest"), ReflectRegistration(m)
      PROVE  x = registration_response(
                   [evaluation_element |-> m.blinded_element, server_s_pk |-> setup.server_s_pk],
                   m.blinded_element, KeyMaterialInfo(setup, None))
  BY <1>4 DEF ReflectRegistration
<1>5. ASSUME NEW r \in Registrations, NEW m, NEW password, NEW params,
             ClientRegistrationFinish(r, m, password, params)
      PROVE  registration'[r].pc = "done" /\ x = registration_upload(registration'[r].upload)
  BY <1>0, <1>5 DEF ClientRegistrationFinish
<1>6. ASSUME NEW h \in Servers, NEW m, NEW name, NEW key_material, NEW key_info, NEW params,
             BeginBuilding(h, m, name, key_material, key_info, params)
      PROVE  /\ server'[h].pc = "building"
             /\ x = remote_key_answer(RemoteKeyAnswer(server'[h].builder))
  BY <1>0, <1>6 DEF BeginBuilding
<1>7. ASSUME NEW s, NEW m, NEW password, NEW params,
             ClientLoginStart(s, password) \/ ClientLoginFinish(s, m, password, params)
      PROVE  FALSE
  BY <1>7 DEF ClientLoginStart, ClientLoginFinish, credential_request, credential_finalization
<1>8. ASSUME NEW h, NEW m, NEW name, NEW c, NEW params, NEW request,
             \/ ServerLoginStart(h, m, name, c, params)
             \/ ServerLoginBuild(h, m)
             \/ ReflectLogin(m, request)
      PROVE  FALSE
  BY <1>8 DEF ServerLoginStart, ServerLoginBuild, ReflectLogin, credential_response
<1>9. ASSUME NEW s, NEW m, NEW params, NEW c,
             \/ ServerRegistrationFinish(m, c)
             \/ ClientRegistrationRestore(s)
             \/ ClientLoginRestore(s)
             \/ ServerLoginRestore(s)
             \/ ServerLoginBuilderRestore(s)
             \/ ServerLoginFinish(s, m, params)
      PROVE  FALSE
  BY <1>9
  DEF ServerRegistrationFinish, ClientRegistrationRestore, ClientLoginRestore,
      ServerLoginRestore, ServerLoginBuilderRestore, ServerLoginFinish
<1>10. ASSUME NEW g \in Setups, NEW server_s_sk,
              \/ ServerSetupNew(g)
              \/ ServerSetupNewWithKeyPair(g)
              \/ ServerSetupNewWithKeyPairAndSeed(g, server_s_sk)
       PROVE  FALSE
  BY <1>10 DEF ServerSetupNew, ServerSetupNewWithKeyPair, ServerSetupNewWithKeyPairAndSeed
<1>11. ~ServerRestart /\ ~UNCHANGED vars
  BY DEF ServerRestart, vars
<1> DEFINE AnsweredFor(m, key_material, key_info) ==
             /\ RegistrationAnswer(m, key_material, key_info)
             /\ \/ /\ key_material = OprfKeyMaterial(key_info)
                   /\ \E c \in CredentialIds : key_info = KeyMaterialInfo(setup, c)
                \/ \E k \in Sent("KeyMaterial") :
                     key_material = k.key_material /\ key_info = k.origin
             /\ x = registration_response(
                      ServerRegistrationResponse(setup, key_material, m.blinded_element),
                      m.blinded_element, key_info)
           RegistrationAnswered ==
             \E m \in Sent("RegistrationRequest") : \E key_material, key_info :
               AnsweredFor(m, key_material, key_info)
<1>12. ASSUME NEW m \in Sent("RegistrationRequest"), NEW c \in CredentialIds,
              ServerRegistrationStart(m, c)
       PROVE  RegistrationAnswered
  <2>1. AnsweredFor(m, OprfKeyMaterial(KeyMaterialInfo(setup, c)), KeyMaterialInfo(setup, c))
    BY <1>3, <1>12 DEF ServerRegistrationStart
  <2> HIDE DEF AnsweredFor
  <2>2. QED
    BY <2>1
<1>13. ASSUME NEW m \in Sent("RegistrationRequest"), NEW k \in Sent("KeyMaterial"),
              ServerRegistrationStartWithKeyMaterial(m, k)
       PROVE  RegistrationAnswered
  <2>1. AnsweredFor(m, k.key_material, k.origin)
    BY <1>3, <1>13 DEF ServerRegistrationStartWithKeyMaterial
  <2> HIDE DEF AnsweredFor
  <2>2. QED
    BY <2>1
<1> SUFFICES ASSUME ~RegistrationAnswered
             PROVE  \/ \E c \in CredentialIds : x = key_material_answer(KeyMaterialInfo(setup, c))
                    \/ \E r \in Registrations :
                         /\ registration'[r].pc = "started"
                         /\ x = registration_request(registration'[r].state)
                    \/ \E m \in Sent("RegistrationRequest") :
                         x = registration_response(
                               [ evaluation_element |-> m.blinded_element,
                                 server_s_pk        |-> setup.server_s_pk ],
                               m.blinded_element, KeyMaterialInfo(setup, None))
                    \/ \E r \in Registrations :
                         /\ registration'[r].pc = "done"
                         /\ x = registration_upload(registration'[r].upload)
                    \/ \E h \in Servers :
                         /\ server'[h].pc = "building"
                         /\ x = remote_key_answer(RemoteKeyAnswer(server'[h].builder))
  OBVIOUS
<1> HIDE DEF RegistrationAnswered
<1>14. QED
  BY <1>1, <1>2, <1>4, <1>5, <1>6, <1>7, <1>8, <1>9, <1>10, <1>11, <1>12, <1>13
  DEF Next, ServerLoginBuilder, ServerLoginBuilderWithKeyMaterial

(* A registration that was begun keeps its password; one that ended with an  *)
(* upload stays as it is.                                                    *)
LEMMA RegistrationStays ==
  ASSUME TypeOK, [Next]_vars, NEW r \in Registrations
  PROVE  /\ registration[r].pc # "idle" =>
              /\ registration'[r].pc # "idle"
              /\ registration'[r].password = registration[r].password
         /\ registration[r].pc = "done" => registration'[r] = registration[r]
<1>0. DOMAIN registration = Registrations
  BY DEF TypeOK, RegistrationOK
<1>1. ASSUME NEW q \in Registrations, NEW m, NEW password, NEW params,
             \/ ClientRegistrationStart(q, password)
             \/ ClientRegistrationFinish(q, m, password, params)
             \/ ClientRegistrationRestore(q)
      PROVE  /\ registration[r].pc # "idle" =>
                  /\ registration'[r].pc # "idle"
                  /\ registration'[r].password = registration[r].password
             /\ registration[r].pc = "done" => registration'[r] = registration[r]
  BY <1>0, <1>1 DEF ClientRegistrationStart, ClientRegistrationFinish, ClientRegistrationRestore
<1>2. QED
  BY <1>1, RegistrationSteps

(* A builder that exists stays, unless it is in the memory of a server that  *)
(* restarts.                                                                 *)
LEMMA BuilderStays ==
  ASSUME TypeOK, [Next]_vars, NEW h \in Servers, HoldsBuilder(h) \/ Answered(h)
  PROVE  HoldsBuilder(h)' \/ Answered(h)' =>
           server'[h].given = server[h].given /\ server'[h].builder = server[h].builder
<1> USE DEF HoldsBuilder, Answered
<1>0. DOMAIN server = Servers
  BY DEF TypeOK, ServerOK
<1>1. ASSUME NEW g \in Servers, NEW m, NEW name, NEW c, NEW params, NEW key_material, NEW key_info,
             \/ ServerLoginStart(g, m, name, c, params)
             \/ BeginBuilding(g, m, name, key_material, key_info, params)
      PROVE  server'[h] = server[h]
  BY <1>0, <1>1 DEF ServerLoginStart, BeginBuilding
<1>2. ASSUME NEW g \in Servers, NEW m, NEW params,
             \/ ServerLoginBuild(g, m)
             \/ ServerLoginFinish(g, m, params)
             \/ ServerLoginRestore(g)
             \/ ServerLoginBuilderRestore(g)
      PROVE  server'[h].given = server[h].given /\ server'[h].builder = server[h].builder
  BY <1>0, <1>2
  DEF ServerLoginBuild, Responded, ServerLoginFinish, ServerLoginRestore,
      ServerLoginBuilderRestore
<1>3. CASE ServerRestart
  BY <1>0, <1>3 DEF ServerRestart, Interrupted
<1>4. QED
  BY <1>1, <1>2, <1>3, ServerSteps

(* In SIGMA-I it always stays.                                               *)
LEMMA SigmaBuilderStays ==
  ASSUME TypeOK, [Next]_vars, Sigma, NEW h \in Servers, HoldsBuilder(h) \/ Answered(h)
  PROVE  HoldsBuilder(h)' \/ Answered(h)'
<1> USE DEF HoldsBuilder, Answered
<1>0. DOMAIN server = Servers
  BY DEF TypeOK, ServerOK
<1>1. ASSUME NEW g \in Servers, NEW m, NEW name, NEW c, NEW params, NEW key_material, NEW key_info,
             \/ ServerLoginStart(g, m, name, c, params)
             \/ BeginBuilding(g, m, name, key_material, key_info, params)
      PROVE  HoldsBuilder(h)' \/ Answered(h)'
  BY <1>0, <1>1 DEF ServerLoginStart, BeginBuilding
<1>2. ASSUME NEW g \in Servers, NEW m, NEW params,
             \/ ServerLoginBuild(g, m)
             \/ ServerLoginFinish(g, m, params)
             \/ ServerLoginRestore(g)
             \/ ServerLoginBuilderRestore(g)
      PROVE  HoldsBuilder(h)' \/ Answered(h)'
  BY <1>0, <1>2
  DEF ServerLoginBuild, Responded, ServerLoginFinish, ServerLoginRestore,
      ServerLoginBuilderRestore
<1>3. CASE ServerRestart
  BY <1>0, <1>3 DEF ServerRestart, Interrupted
<1>4. QED
  BY <1>1, <1>2, <1>3, ServerSteps

(* Only the server's restart and the three ways to a new setup touch the     *)
(* setup.                                                                    *)
LEMMA SetupSteps ==
  ASSUME [Next]_vars
  PROVE  \/ UNCHANGED setup
         \/ ServerRestart
         \/ \E g \in Setups :
              \/ ServerSetupNew(g)
              \/ ServerSetupNewWithKeyPair(g)
              \/ \E server_s_sk : ServerSetupNewWithKeyPairAndSeed(g, server_s_sk)
<1>1. ASSUME NEW s \in Clients, NEW m, NEW password, NEW params,
             \/ ClientLoginStart(s, password)
             \/ ClientLoginFinish(s, m, password, params)
             \/ ClientLoginRestore(s)
      PROVE  UNCHANGED setup
  BY <1>1 DEF ClientLoginStart, ClientLoginFinish, ClientLoginRestore
<1>2. ASSUME NEW h \in Servers, NEW m, NEW name, NEW c, NEW params,
             ServerLoginStart(h, m, name, c, params)
      PROVE  UNCHANGED setup
  BY <1>2 DEF ServerLoginStart
<1>3. ASSUME NEW h \in Servers, NEW m, NEW name, NEW key_material, NEW key_info, NEW params,
             BeginBuilding(h, m, name, key_material, key_info, params)
      PROVE  UNCHANGED setup
  BY <1>3 DEF BeginBuilding
<1>4. ASSUME NEW h \in Servers, NEW m, NEW params,
             \/ ServerLoginBuild(h, m)
             \/ ServerLoginFinish(h, m, params)
             \/ ServerLoginRestore(h)
             \/ ServerLoginBuilderRestore(h)
      PROVE  UNCHANGED setup
  BY <1>4 DEF ServerLoginBuild, ServerLoginFinish, ServerLoginRestore, ServerLoginBuilderRestore
<1>5. ASSUME NEW m, NEW c, NEW key_material, NEW key_info,
             \/ AskKeyMaterial(c)
             \/ RegistrationAnswer(m, key_material, key_info)
             \/ ServerRegistrationFinish(m, c)
      PROVE  UNCHANGED setup
  BY <1>5 DEF AskKeyMaterial, RegistrationAnswer, ServerRegistrationFinish
<1>6. ASSUME NEW r \in Registrations, NEW m, NEW password, NEW params,
             \/ ClientRegistrationStart(r, password)
             \/ ClientRegistrationFinish(r, m, password, params)
             \/ ClientRegistrationRestore(r)
      PROVE  UNCHANGED setup
  BY <1>6 DEF ClientRegistrationStart, ClientRegistrationFinish, ClientRegistrationRestore
<1>7. ASSUME NEW m, NEW request, ReflectRegistration(m) \/ ReflectLogin(m, request)
      PROVE  UNCHANGED setup
  BY <1>7 DEF ReflectRegistration, ReflectLogin
<1>8. CASE UNCHANGED vars
  BY <1>8 DEF vars
<1>9. QED
  BY <1>1, <1>2, <1>3, <1>4, <1>5, <1>6, <1>7, <1>8
  DEF Next, ServerRegistrationStart, ServerRegistrationStartWithKeyMaterial, ServerLoginBuilder,
      ServerLoginBuilderWithKeyMaterial

-------------------------------------------------------------------------------
(* Every step keeps the history, one lemma per part of it.                   *)

(* The dummy key is drawn with the setup, and comes back with it.            *)
LEMMA SetupMadeStep ==
  ASSUME TypeOK, SetupMade, [Next]_vars PROVE SetupMade'
<1>1. CASE UNCHANGED setup
  BY <1>1 DEF SetupMade
<1>2. CASE ServerRestart
  BY <1>2 DEF SetupMade, ServerRestart, DeserializeServerSetup, SerializeServerSetup
<1>3. ASSUME NEW g \in Setups, NEW server_s_sk,
             \/ ServerSetupNew(g)
             \/ ServerSetupNewWithKeyPair(g)
             \/ ServerSetupNewWithKeyPairAndSeed(g, server_s_sk)
      PROVE  SetupMade'
  <2>1. setup'.dummy_pk = Pk(<<"dummy_sk", g>>)
    BY <1>3 DEF ServerSetupNew, ServerSetupNewWithKeyPair, ServerSetupNewWithKeyPairAndSeed,
                FreshSetup, NewServerSetup
  <2>2. QED
    BY <2>1 DEF SetupMade
<1>4. QED
  BY <1>1, <1>2, <1>3, SetupSteps

(* The holder of the seed answers what it was asked.                         *)
LEMMA KeyMaterialMadeStep ==
  ASSUME TypeOK, KeyMaterialMade, [Next]_vars PROVE KeyMaterialMade'
<1> SUFFICES ASSUME NEW x \in net', x.kind = "KeyMaterial"
             PROVE  Derives(x.key_material, x.origin)
  BY DEF KeyMaterialMade, Sent
<1>1. CASE x \in net
  BY <1>1 DEF KeyMaterialMade, Sent
<1>2. CASE x \notin net
  <2>1. PICK c : x = key_material_answer(KeyMaterialInfo(setup, c))
    BY <1>2, OtherNetSteps
    DEF registration_request, registration_response, registration_upload, remote_key_answer
  <2>2. QED
    BY <2>1 DEF key_material_answer, KeyMaterialInfo, Derives, IsKeyInfo
<1>3. QED
  BY <1>1, <1>2

(* A registration that was begun keeps what it blinded.                      *)
LEMMA BlindedByStays ==
  ASSUME TypeOK, [Next]_vars, NEW r \in Registrations, NEW element, BlindedBy(r, element)
  PROVE  BlindedBy(r, element)'
  BY RegistrationStays DEF BlindedBy

(* A registration request is the one that a registration began with.         *)
LEMMA RegistrationRequestsMadeStep ==
  ASSUME TypeOK, RegistrationRequestsMade, [Next]_vars PROVE RegistrationRequestsMade'
<1> SUFFICES ASSUME NEW x \in net', x.kind = "RegistrationRequest"
             PROVE  \E r \in Registrations : BlindedBy(r, x.blinded_element)'
  BY DEF RegistrationRequestsMade, Sent
<1>1. CASE x \in net
  BY <1>1, BlindedByStays DEF RegistrationRequestsMade, Sent
<1>2. CASE x \notin net
  <2>1. PICK r \in Registrations :
          registration'[r].pc = "started" /\ x = registration_request(registration'[r].state)
    BY <1>2, OtherNetSteps
    DEF key_material_answer, registration_response, registration_upload, remote_key_answer
  <2>2. registration'[r].state = ClientRegistrationState(r, registration'[r].password)
    BY <2>1, TypeStep DEF TypeOK, RegistrationOK
  <2>3. QED
    BY <2>1, <2>2 DEF registration_request, ClientRegistrationState, BlindedBy
<1>3. QED
  BY <1>1, <1>2

(* A registration response is the evaluation of the request it answers under *)
(* the key material it says, or its echo.                                    *)
LEMMA RegistrationResponsesMadeStep ==
  ASSUME TypeOK, KeyMaterialMade, RegistrationRequestsMade, RegistrationResponsesMade, [Next]_vars
  PROVE  RegistrationResponsesMade'
<1> SUFFICES ASSUME NEW x \in net', x.kind = "RegistrationResponse"
             PROVE  /\ IsKeyInfo(x.origin.key_info)
                    /\ \E r \in Registrations : BlindedBy(r, x.origin.blinded_element)'
                    /\ Evaluated(x) \/ Echoed(x)
  BY DEF RegistrationResponsesMade, Sent
<1>1. CASE x \in net
  <2>1. /\ IsKeyInfo(x.origin.key_info)
        /\ \E r \in Registrations : BlindedBy(r, x.origin.blinded_element)
        /\ Evaluated(x) \/ Echoed(x)
    BY <1>1 DEF RegistrationResponsesMade, Sent
  <2>2. QED
    BY <2>1, BlindedByStays
<1>2. ASSUME NEW m \in Sent("RegistrationRequest"), x.origin.blinded_element = m.blinded_element
      PROVE  \E r \in Registrations : BlindedBy(r, x.origin.blinded_element)'
  BY <1>2, BlindedByStays DEF RegistrationRequestsMade
<1> DEFINE evaluates ==
             \E m \in Sent("RegistrationRequest") : \E key_material, key_info :
               /\ RegistrationAnswer(m, key_material, key_info)
               /\ \/ /\ key_material = OprfKeyMaterial(key_info)
                     /\ \E c \in CredentialIds : key_info = KeyMaterialInfo(setup, c)
                  \/ \E k \in Sent("KeyMaterial") :
                       key_material = k.key_material /\ key_info = k.origin
               /\ x = registration_response(
                        ServerRegistrationResponse(setup, key_material, m.blinded_element),
                        m.blinded_element, key_info)
           echoes ==
             \E m \in Sent("RegistrationRequest") :
               x = registration_response(
                     [evaluation_element |-> m.blinded_element, server_s_pk |-> setup.server_s_pk],
                     m.blinded_element, KeyMaterialInfo(setup, None))
<1>3. CASE evaluates
  <2>0. PICK m \in Sent("RegistrationRequest") :
          \E key_material, key_info :
            /\ Derives(key_material, key_info)
            /\ x = registration_response(
                     ServerRegistrationResponse(setup, key_material, m.blinded_element),
                     m.blinded_element, key_info)
    BY <1>3 DEF KeyMaterialMade, Derives, IsKeyInfo, KeyMaterialInfo
  <2>1. PICK key_material, key_info :
          /\ Derives(key_material, key_info)
          /\ x = registration_response(
                   ServerRegistrationResponse(setup, key_material, m.blinded_element),
                   m.blinded_element, key_info)
    BY <2>0
  <2>2. /\ x.origin.blinded_element = m.blinded_element
        /\ x.origin.key_info = key_info
        /\ x.evaluation_element = BlindEvaluate(OprfKey(key_material), m.blinded_element)
    BY <2>1 DEF registration_response, ServerRegistrationResponse
  <2>3. QED
    BY <1>2, <2>1, <2>2 DEF Derives, Evaluated
<1>4. CASE echoes
  <2>1. PICK m \in Sent("RegistrationRequest") :
          /\ x.origin.blinded_element = m.blinded_element
          /\ x.origin.key_info = KeyMaterialInfo(setup, None)
          /\ x.evaluation_element = m.blinded_element
    BY <1>4 DEF registration_response
  <2>2. QED
    BY <1>2, <2>1 DEF KeyMaterialInfo, IsKeyInfo, Echoed
<1>5. CASE x \notin net
  <2>1. /\ \A a : x # key_material_answer(a)
        /\ \A a : x # registration_request(a)
        /\ \A a : x # registration_upload(a)
        /\ \A a : x # remote_key_answer(a)
    BY DEF key_material_answer, registration_request, registration_upload, remote_key_answer
  <2>2. evaluates \/ echoes
    BY <1>5, <2>1, OtherNetSteps
  <2>3. QED
    BY <1>3, <1>4, <2>2
<1>6. QED
  BY <1>1, <1>5

(* A registration ends with what ClientRegistration::finish made of the      *)
(* response it was given.                                                    *)
LEMMA RegistrationsEndedStep ==
  ASSUME TypeOK, RegistrationsEnded, [Next]_vars PROVE RegistrationsEnded'
<1> SUFFICES ASSUME NEW r \in Registrations, registration'[r].pc \in {"done", "failed"}
             PROVE  RegistrationEnded(registration[r], r)'
  BY DEF RegistrationsEnded
<1>0. DOMAIN registration = Registrations
  BY DEF TypeOK, RegistrationOK
<1>1. CASE registration'[r] = registration[r]
  <2>1. RegistrationEnded(registration[r], r)
    BY <1>1 DEF RegistrationsEnded
  <2>2. Sent("RegistrationResponse") \subseteq Sent("RegistrationResponse")'
    BY NetGrows DEF Sent
  <2>3. QED
    BY <1>1, <2>1, <2>2 DEF RegistrationEnded, RegistrationResult
<1>2. ASSUME NEW m \in Sent("RegistrationResponse"), NEW password \in Passwords,
             NEW params \in RegistrationParams, ClientRegistrationFinish(r, m, password, params)
      PROVE  RegistrationEnded(registration[r], r)'
  <2> DEFINE now == registration'[r]
             result == FinishClientRegistration(r, registration[r].state, password, m, params)
  <2> HIDE DEF result
  <2>1. /\ now.state = registration[r].state /\ now.final = password
        /\ now.params = params /\ now.response = m
        /\ now.pc = "done" =>
             /\ result.ok
             /\ now.upload = result.val.message
             /\ now.export_key = result.val.export_key
             /\ now.server_s_pk = result.val.server_s_pk
        /\ now.pc = "failed" => ~result.ok /\ now.error = result.err
    BY <1>0, <1>2 DEF ClientRegistrationFinish, result
  <2>2. result = RegistrationResult(now, r)
    BY <2>1 DEF RegistrationResult, result
  <2>3. m \in Sent("RegistrationResponse")'
    BY NetGrows DEF Sent
  <2>4. QED
    BY <2>1, <2>2, <2>3 DEF RegistrationEnded
<1>3. ASSUME NEW q \in Registrations, NEW m \in Sent("RegistrationResponse"),
             NEW password \in Passwords, NEW params \in RegistrationParams,
             ClientRegistrationFinish(q, m, password, params)
      PROVE  RegistrationEnded(registration[r], r)'
  <2>1. CASE q = r
    BY <1>2, <1>3, <2>1
  <2>2. CASE q # r
    BY <1>0, <1>1, <1>3, <2>2 DEF ClientRegistrationFinish
  <2>3. QED
    BY <2>1, <2>2
<1>4. ASSUME NEW q \in Registrations, NEW password,
             ClientRegistrationStart(q, password) \/ ClientRegistrationRestore(q)
      PROVE  registration'[r] = registration[r]
  BY <1>0, <1>4 DEF ClientRegistrationStart, ClientRegistrationRestore
<1>5. CASE UNCHANGED registration
  BY <1>1, <1>5
<1>6. QED
  BY <1>1, <1>3, <1>4, <1>5, RegistrationSteps

(* An upload is sent by the registration that ends with it.                  *)
LEMMA UploadsMadeStep ==
  ASSUME TypeOK, UploadsMade, [Next]_vars PROVE UploadsMade'
<1> SUFFICES ASSUME NEW x \in net', x.kind = "RegistrationUpload"
             PROVE  \E r \in Registrations :
                      registration'[r].pc = "done" /\ x.upload = registration'[r].upload
  BY DEF UploadsMade, Sent
<1>1. CASE x \in net
  BY <1>1, RegistrationStays DEF UploadsMade, Sent
<1>2. CASE x \notin net
  BY <1>2, OtherNetSteps
  DEF key_material_answer, registration_request, registration_response, registration_upload,
      remote_key_answer
<1>3. QED
  BY <1>1, <1>2

(* A builder sees the two keys of the setup and nothing else of it.          *)
LEMMA BuilderSeesKeys ==
  ASSUME TypeOK, NEW g, setup.dummy_pk = Pk(<<"dummy_sk", g>>),
         NEW h, NEW key_material, NEW password_file, NEW request, NEW params,
         ServerLoginBuilderFor(h, setup, key_material, password_file, request, params).ok
  PROVE  LET builder == ServerLoginBuilderFor(h, setup, key_material, password_file, request,
                                              params)
         IN  builder = ServerLoginBuilderFor(h,
                         NewServerSetup(None, builder.val.server_s_sk, <<"dummy_sk", g>>),
                         key_material, password_file, request, params)
<1> DEFINE builder == ServerLoginBuilderFor(h, setup, key_material, password_file, request, params)
           keys == NewServerSetup(None, setup.server_s_sk, <<"dummy_sk", g>>)
<1>1. builder.val.server_s_sk = setup.server_s_sk
  BY DEF ServerLoginBuilderFor, Ok, Err
<1>2. /\ keys.server_s_sk = setup.server_s_sk
      /\ keys.server_s_pk = setup.server_s_pk
      /\ keys.dummy_pk = setup.dummy_pk
  BY DEF NewServerSetup, TypeOK, SetupOK
<1> HIDE DEF keys
<1>3. ServerLoginBuilderFor(h, keys, key_material, password_file, request, params) = builder
  BY <1>2 DEF ServerLoginBuilderFor, DummyRegistration
<1>4. QED
  BY <1>1, <1>3 DEF keys

(* The steps with which a server login comes to hold a builder.              *)
LEMMA BuilderStarts ==
  ASSUME TypeOK, KeyMaterialMade, [Next]_vars, NEW h \in Servers,
         ~HoldsBuilder(h), ~Answered(h), HoldsBuilder(h)' \/ Answered(h)'
  PROVE  \E m \in Sent("CredentialRequest"), name \in CredentialIds,
            params \in ServerLoginParams :
           \E key_info :
             LET builder == LoginBuilder(h, m, name, OprfKeyMaterial(key_info), params)
             IN  /\ IsKeyInfo(key_info)
                 /\ builder.ok
                 /\ server'[h].given = Given(m.request, files[name], key_info, params)
                 /\ server'[h].builder = builder.val
<1> DEFINE Starts(m, name, key_info, params) ==
             LET builder == LoginBuilder(h, m, name, OprfKeyMaterial(key_info), params)
             IN  /\ IsKeyInfo(key_info)
                 /\ builder.ok
                 /\ server'[h].given = Given(m.request, files[name], key_info, params)
                 /\ server'[h].builder = builder.val
           Started == \E m \in Sent("CredentialRequest"), name \in CredentialIds,
                         params \in ServerLoginParams :
                        \E key_info : Starts(m, name, key_info, params)
<1>0. DOMAIN server = Servers
  BY DEF TypeOK, ServerOK
<1>1. ASSUME NEW m \in Sent("CredentialRequest"), NEW name \in CredentialIds,
             NEW c \in CredentialIds, NEW params \in ServerLoginParams,
             ServerLoginStart(h, m, name, c, params)
      PROVE  Started
  <2>1. Starts(m, name, KeyMaterialInfo(setup, c), params)
    BY <1>0, <1>1
    DEF ServerLoginStart, Responded, HoldsBuilder, Answered, IsKeyInfo, KeyMaterialInfo
  <2> HIDE DEF Starts
  <2>2. QED
    BY <2>1
<1>2. ASSUME NEW m \in Sent("CredentialRequest"), NEW name \in CredentialIds,
             NEW key_material, NEW key_info, NEW params \in ServerLoginParams,
             BeginBuilding(h, m, name, key_material, key_info, params),
             Derives(key_material, key_info)
      PROVE  Started
  <2>1. Starts(m, name, key_info, params)
    BY <1>0, <1>2 DEF BeginBuilding, HoldsBuilder, Answered, Derives
  <2> HIDE DEF Starts
  <2>2. QED
    BY <2>1
<1>3. ASSUME NEW g \in Servers, g # h, NEW m, NEW name, NEW c, NEW params, NEW key_material,
             NEW key_info,
             \/ ServerLoginStart(g, m, name, c, params)
             \/ BeginBuilding(g, m, name, key_material, key_info, params)
      PROVE  FALSE
  BY <1>0, <1>3 DEF ServerLoginStart, BeginBuilding, HoldsBuilder, Answered
<1>4. ASSUME NEW g \in Servers, NEW m, NEW params,
             \/ ServerLoginBuild(g, m)
             \/ ServerLoginFinish(g, m, params)
             \/ ServerLoginRestore(g)
             \/ ServerLoginBuilderRestore(g)
      PROVE  FALSE
  BY <1>0, <1>4
  DEF ServerLoginBuild, ServerLoginFinish, ServerLoginRestore, ServerLoginBuilderRestore,
      HoldsBuilder, Answered
<1>5. ~ServerRestart
  BY <1>0 DEF ServerRestart, Interrupted, HoldsBuilder, Answered
<1>6. ~UNCHANGED server
  BY DEF HoldsBuilder, Answered
<1>7. ASSUME NEW g \in Servers, NEW m \in Sent("CredentialRequest"), NEW name \in CredentialIds,
             NEW key_material, NEW key_info, NEW params \in ServerLoginParams,
             BeginBuilding(g, m, name, key_material, key_info, params),
             \/ /\ key_material = OprfKeyMaterial(key_info)
                /\ \E c \in CredentialIds : key_info = KeyMaterialInfo(setup, c)
             \/ \E k \in Sent("KeyMaterial") :
                  key_material = k.key_material /\ key_info = k.origin
      PROVE  Started
  <2>1. Derives(key_material, key_info)
    BY <1>7 DEF KeyMaterialMade, Derives, IsKeyInfo, KeyMaterialInfo
  <2> HIDE DEF Started
  <2>2. QED
    BY <1>2, <1>3, <1>7, <2>1
<1>8. ASSUME NEW g \in Servers, NEW m \in Sent("CredentialRequest"), NEW name \in CredentialIds,
             NEW c \in CredentialIds, NEW params \in ServerLoginParams,
             ServerLoginStart(g, m, name, c, params)
      PROVE  Started
  <2> HIDE DEF Started
  <2>1. QED
    BY <1>1, <1>3, <1>8
<1> SUFFICES Started
  OBVIOUS
<1> HIDE DEF Started
<1>9. CASE \E g \in Servers, m \in Sent("CredentialRequest"), name \in CredentialIds,
              params \in ServerLoginParams :
             \E key_material, key_info :
               /\ BeginBuilding(g, m, name, key_material, key_info, params)
               /\ \/ /\ key_material = OprfKeyMaterial(key_info)
                     /\ \E c \in CredentialIds : key_info = KeyMaterialInfo(setup, c)
                  \/ \E k \in Sent("KeyMaterial") :
                       key_material = k.key_material /\ key_info = k.origin
  <2>1. PICK g \in Servers, m \in Sent("CredentialRequest"), name \in CredentialIds,
             params \in ServerLoginParams :
          \E key_material, key_info :
            /\ BeginBuilding(g, m, name, key_material, key_info, params)
            /\ \/ /\ key_material = OprfKeyMaterial(key_info)
                  /\ \E c \in CredentialIds : key_info = KeyMaterialInfo(setup, c)
               \/ \E k \in Sent("KeyMaterial") :
                    key_material = k.key_material /\ key_info = k.origin
    BY <1>9
  <2>2. QED
    BY <1>7, <2>1
<1>10. CASE \E g \in Servers, m \in Sent("CredentialRequest"), name, c \in CredentialIds,
               params \in ServerLoginParams : ServerLoginStart(g, m, name, c, params)
  BY <1>8, <1>10
<1>11. QED
  BY <1>4, <1>5, <1>6, <1>9, <1>10, ServerSteps

(* What a server login builds is made from what it was given.                *)
LEMMA BuildersMadeStep ==
  ASSUME TypeOK, SetupMade, KeyMaterialMade, BuildersMade, [Next]_vars PROVE BuildersMade'
<1> SUFFICES ASSUME NEW h \in Servers, HoldsBuilder(h)' \/ Answered(h)'
             PROVE  BuilderMade(h)'
  BY DEF BuildersMade
<1>0. Sent("RegistrationUpload") \subseteq Sent("RegistrationUpload")'
  BY NetGrows DEF Sent
<1>1. CASE HoldsBuilder(h) \/ Answered(h)
  <2>1. server'[h].given = server[h].given /\ server'[h].builder = server[h].builder
    BY <1>1, BuilderStays
  <2>2. BuilderMade(h)
    BY <1>1 DEF BuildersMade
  <2>3. QED
    BY <1>0, <2>1, <2>2 DEF BuilderMade
<1>2. CASE ~HoldsBuilder(h) /\ ~Answered(h)
  <2> DEFINE Made(m, name, key_info, params) ==
               LET builder == LoginBuilder(h, m, name, OprfKeyMaterial(key_info), params)
               IN  /\ IsKeyInfo(key_info)
                   /\ builder.ok
                   /\ server'[h].given = Given(m.request, files[name], key_info, params)
                   /\ server'[h].builder = builder.val
  <2>0. PICK m \in Sent("CredentialRequest"), name \in CredentialIds,
             params \in ServerLoginParams : \E key_info : Made(m, name, key_info, params)
    BY <1>2, BuilderStarts
  <2>1. PICK key_info : Made(m, name, key_info, params)
    BY <2>0
  <2>2. PICK g \in Setups : setup.dummy_pk = Pk(<<"dummy_sk", g>>)
    BY DEF SetupMade
  <2> DEFINE builder == ServerLoginBuilderFor(h, setup, OprfKeyMaterial(key_info), files[name],
                                              m.request, params)
  <2>3. builder.ok /\ server'[h].builder = builder.val
    BY <2>1 DEF LoginBuilder
  <2>4. builder = ServerLoginBuilderFor(h,
                    NewServerSetup(None, builder.val.server_s_sk, <<"dummy_sk", g>>),
                    OprfKeyMaterial(key_info), files[name], m.request, params)
    BY <2>2, <2>3, BuilderSeesKeys
  <2>5. files[name] = None \/ \E u \in Sent("RegistrationUpload") : files[name] = u.upload
    BY DEF TypeOK, FilesOK
  <2>6. /\ server'[h].given.key_info = key_info
        /\ server'[h].given.password_file = files[name]
        /\ server'[h].given.request = m.request
        /\ server'[h].given.params = params
    BY <2>1 DEF Given
  <2> HIDE DEF builder
  <2>7. QED
    BY <1>0, <2>1, <2>3, <2>4, <2>5, <2>6 DEF BuilderMade
<1>3. QED
  BY <1>1, <1>2

(* ServerLogin::start and builder refuse only parameters that cannot be      *)
(* encoded.                                                                  *)
LEMMA BuilderRefusal ==
  ASSUME NEW h, NEW s, NEW key_material, NEW password_file, NEW request, NEW params,
         ~ServerLoginBuilderFor(h, s, key_material, password_file, request, params).ok
  PROVE  /\ ServerLoginBuilderFor(h, s, key_material, password_file, request, params).err
              = "SerializationError"
         /\ TooLongGiven(params)
<1> DEFINE record == IF password_file = None THEN DummyRegistration(h, s) ELSE password_file
           context == SerializedContext(params.context)
           identifiers == SerializedIdentifiers(params.identifiers, record.client_s_pk,
                                                s.server_s_pk)
           builder == ServerLoginBuilderFor(h, s, key_material, password_file, request, params)
<1>1. \/ ~context.ok /\ builder = context
      \/ ~identifiers.ok /\ builder = identifiers
  BY DEF ServerLoginBuilderFor, Ok
<1>2. ~context.ok => context.err = "SerializationError" /\ params.context \in TooLong
  BY ParametersAssumption DEF SerializedContext, I2osp2, Ok, Err
<1>3. ~identifiers.ok =>
        /\ identifiers.err = "SerializationError"
        /\ params.identifiers.client \in TooLong \/ params.identifiers.server \in TooLong
  BY DEF SerializedIdentifiers, SerializedIdentifier, I2osp2, Ok, Err
<1> HIDE DEF context, identifiers, builder
<1>4. QED
  BY <1>1, <1>2, <1>3 DEF TooLongGiven, ParametersTooLong, builder

(* A refused server login was given a parameter that cannot be encoded.      *)
LEMMA RefusalsStep ==
  ASSUME TypeOK, Refusals, [Next]_vars PROVE Refusals'
<1> DEFINE Refused(now) == now.error = "SerializationError" /\ TooLongGiven(now.given.params)
<1> SUFFICES ASSUME NEW h \in Servers, server'[h].pc = "refused"
             PROVE  Refused(server'[h])
  BY DEF Refusals
<1>0. DOMAIN server = Servers
  BY DEF TypeOK, ServerOK
<1>1. CASE server'[h] = server[h]
  BY <1>1 DEF Refusals
<1>2. ASSUME NEW g \in Servers, NEW m, NEW name, NEW c, NEW params,
             ServerLoginStart(g, m, name, c, params), server'[h] # server[h]
      PROVE  Refused(server'[h])
  <2> DEFINE builder == LoginBuilder(h, m, name, OprfKeyMaterial(KeyMaterialInfo(setup, c)), params)
  <2> HIDE DEF builder
  <2>1. /\ ~builder.ok
        /\ server'[h].error = builder.err
        /\ server'[h].given.params = params
    BY <1>0, <1>2 DEF ServerLoginStart, Responded, Given, builder
  <2>2. QED
    BY <2>1, BuilderRefusal DEF builder, LoginBuilder
<1>3. ASSUME NEW g \in Servers, NEW m, NEW name, NEW key_material, NEW key_info, NEW params,
             BeginBuilding(g, m, name, key_material, key_info, params), server'[h] # server[h]
      PROVE  Refused(server'[h])
  <2> DEFINE builder == LoginBuilder(h, m, name, key_material, params)
  <2> HIDE DEF builder
  <2>1. /\ ~builder.ok
        /\ server'[h].error = builder.err
        /\ server'[h].given.params = params
    BY <1>0, <1>3 DEF BeginBuilding, Given, builder
  <2>2. QED
    BY <2>1, BuilderRefusal DEF builder, LoginBuilder
<1>4. ASSUME NEW g \in Servers, NEW m, NEW params,
             \/ ServerLoginBuild(g, m)
             \/ ServerLoginFinish(g, m, params)
             \/ ServerLoginRestore(g)
             \/ ServerLoginBuilderRestore(g)
      PROVE  server'[h] = server[h]
  BY <1>0, <1>4
  DEF ServerLoginBuild, Responded, ServerLoginFinish, ServerLoginRestore,
      ServerLoginBuilderRestore
<1>5. CASE ServerRestart
  BY <1>0, <1>1, <1>5 DEF ServerRestart, Interrupted
<1> HIDE DEF Refused
<1>6. QED
  BY <1>1, <1>2, <1>3, <1>4, <1>5, ServerSteps

(* In SIGMA-I a builder that was answered stays.                             *)
LEMMA AnswersOfStay ==
  ASSUME TypeOK, [Next]_vars, Sigma, NEW answer, AnswersOf(answer)
  PROVE  AnswersOf(answer)'
<1>1. PICK h \in Servers :
        (HoldsBuilder(h) \/ Answered(h)) /\ answer = RemoteKeyAnswer(server[h].builder)
  BY DEF AnswersOf
<1>2. HoldsBuilder(h)' \/ Answered(h)'
  BY <1>1, SigmaBuilderStays
<1>3. server'[h].builder = server[h].builder
  BY <1>1, <1>2, BuilderStays
<1>4. QED
  BY <1>1, <1>2, <1>3 DEF AnswersOf

(* The holder of the private key answers a builder.                          *)
LEMMA RemoteAnswersMadeStep ==
  ASSUME TypeOK, RemoteAnswersMade, [Next]_vars PROVE RemoteAnswersMade'
<1> SUFFICES ASSUME Sigma, NEW x \in net', x.kind = "RemoteKeyAnswer"
             PROVE  AnswersOf(x.answer)'
  BY DEF RemoteAnswersMade, Sent
<1>1. CASE x \in net
  BY <1>1, AnswersOfStay DEF RemoteAnswersMade, Sent
<1>2. CASE x \notin net
  <2>1. PICK h \in Servers :
          /\ server'[h].pc = "building"
          /\ x = remote_key_answer(RemoteKeyAnswer(server'[h].builder))
    BY <1>2, OtherNetSteps
    DEF key_material_answer, registration_request, registration_response, registration_upload
  <2>2. QED
    BY <2>1 DEF remote_key_answer, AnswersOf, HoldsBuilder
<1>3. QED
  BY <1>1, <1>2

(* In SIGMA-I a server login was built with the answer to some builder.      *)
LEMMA InputsMadeStep ==
  ASSUME TypeOK, RemoteAnswersMade, InputsMade, [Next]_vars PROVE InputsMade'
<1> SUFFICES ASSUME Sigma, NEW h \in Servers, Answered(h)'
             PROVE  AnswersOf(server[h].input)'
  BY DEF InputsMade
<1>0. DOMAIN server = Servers
  BY DEF TypeOK, ServerOK
<1>1. CASE Answered(h)
  <2>1. AnswersOf(server[h].input)
    BY <1>1 DEF InputsMade
  <2>2. AnswersOf(server[h].input)'
    <3>1. server'[h].input = server[h].input
      BY <1>1, AnsweredStays
    <3>2. PICK answer : answer = server[h].input
      OBVIOUS
    <3>3. AnswersOf(answer)'
      BY <2>1, <3>2, AnswersOfStay
    <3>4. QED
      BY <3>1, <3>2, <3>3 DEF AnswersOf
  <2>3. QED
    BY <2>2
<1>2. ASSUME NEW m, NEW name, NEW c, NEW params, ~Answered(h),
             ServerLoginStart(h, m, name, c, params)
      PROVE  AnswersOf(server[h].input)'
  BY <1>0, <1>2 DEF ServerLoginStart, Responded, AnswersOf, Answered
<1>3. ASSUME NEW m \in Sent("RemoteKeyAnswer"), ServerLoginBuild(h, m)
      PROVE  AnswersOf(server[h].input)'
  <2>1. server'[h].input = m.answer
    BY <1>0, <1>3 DEF ServerLoginBuild, Responded
  <2>2. AnswersOf(m.answer)
    BY DEF RemoteAnswersMade
  <2>3. PICK answer : answer = m.answer
    OBVIOUS
  <2>4. AnswersOf(answer)'
    BY <2>2, <2>3, AnswersOfStay
  <2>5. QED
    BY <2>1, <2>3, <2>4 DEF AnswersOf
<1>4. ASSUME ~Answered(h), NEW g \in Servers, NEW m, NEW name, NEW c, NEW params,
             NEW key_material, NEW key_info,
             \/ g # h /\ ServerLoginStart(g, m, name, c, params)
             \/ BeginBuilding(g, m, name, key_material, key_info, params)
             \/ g # h /\ ServerLoginBuild(g, m)
             \/ ServerLoginFinish(g, m, params)
             \/ ServerLoginRestore(g)
             \/ ServerLoginBuilderRestore(g)
      PROVE  FALSE
  BY <1>0, <1>4
  DEF ServerLoginStart, BeginBuilding, ServerLoginBuild, ServerLoginFinish, ServerLoginRestore,
      ServerLoginBuilderRestore, Answered
<1>5. ~Answered(h) => ~ServerRestart
  BY <1>0 DEF ServerRestart, Interrupted, Answered
<1>6. ~Answered(h) => ~UNCHANGED server
  BY DEF Answered
<1>7. QED
  BY <1>1, <1>2, <1>3, <1>4, <1>5, <1>6, ServerSteps

(* A client login ends with what ClientLogin::finish made of the response it *)
(* was given.                                                                *)
LEMMA ClientsEndedStep ==
  ASSUME TypeOK, ClientsEnded, [Next]_vars PROVE ClientsEnded'
<1> SUFFICES ASSUME NEW s \in Clients, client'[s].pc \in {"done", "failed"}
             PROVE  ClientEnded(client[s])'
  BY DEF ClientsEnded
<1>0. DOMAIN client = Clients
  BY DEF TypeOK, ClientOK
<1>1. CASE client'[s] = client[s]
  <2>1. ClientEnded(client[s])
    BY <1>1 DEF ClientsEnded
  <2>2. Sent("CredentialResponse") \subseteq Sent("CredentialResponse")'
    BY NetGrows DEF Sent
  <2>3. QED
    BY <1>1, <2>1, <2>2 DEF ClientEnded
<1>2. ASSUME NEW m \in Sent("CredentialResponse"), NEW password \in Passwords,
             NEW params \in ClientLoginParams, ClientLoginFinish(s, m, password, params)
      PROVE  ClientEnded(client[s])'
  <2>1. PICK result \in FinishClientLogin(client[s].state, password, m.response, params) :
          client'[s] =
            IF result.ok
            THEN [ pc |-> "done", password |-> client[s].password, state |-> client[s].state,
                   final |-> password, params |-> params, response |-> m.response,
                   session_key |-> result.val.session_key,
                   export_key  |-> result.val.export_key,
                   server_s_pk |-> result.val.server_s_pk,
                   message     |-> result.val.message ]
            ELSE [ pc |-> "failed", password |-> client[s].password, state |-> client[s].state,
                   final |-> password, params |-> params, response |-> m.response,
                   error |-> result.err ]
    BY <1>0, <1>2 DEF ClientLoginFinish
  <2>2. /\ client'[s].state = client[s].state
        /\ client'[s].final = password
        /\ client'[s].response = m.response
        /\ client'[s].params = params
        /\ client'[s].pc = "done" =>
             /\ result.ok
             /\ client'[s].session_key = result.val.session_key
             /\ client'[s].export_key = result.val.export_key
             /\ client'[s].server_s_pk = result.val.server_s_pk
             /\ client'[s].message = result.val.message
        /\ client'[s].pc = "failed" => ~result.ok /\ client'[s].error = result.err
    BY <2>1
  <2>3. m \in Sent("CredentialResponse")'
    BY NetGrows DEF Sent
  <2>4. result \in FinishClientLogin(client'[s].state, client'[s].final, client'[s].response,
                                     client'[s].params)
    BY <2>2
  <2>5. QED
    BY <2>2, <2>3, <2>4 DEF ClientEnded
<1>3. ASSUME NEW t \in Clients, NEW m \in Sent("CredentialResponse"), NEW password \in Passwords,
             NEW params \in ClientLoginParams, ClientLoginFinish(t, m, password, params)
      PROVE  ClientEnded(client[s])'
  <2>1. CASE t = s
    BY <1>2, <1>3, <2>1
  <2>2. CASE t # s
    BY <1>0, <1>1, <1>3, <2>2 DEF ClientLoginFinish
  <2>3. QED
    BY <2>1, <2>2
<1>4. ASSUME NEW t \in Clients, NEW password,
             ClientLoginStart(t, password) \/ ClientLoginRestore(t)
      PROVE  client'[s] = client[s]
  BY <1>0, <1>4 DEF ClientLoginStart, ClientLoginRestore
<1>5. CASE UNCHANGED client
  BY <1>1, <1>5
<1>6. QED
  BY <1>1, <1>3, <1>4, <1>5, ClientSteps

(* A server login ends with what ServerLogin::finish made of the             *)
(* finalization it was given.                                                *)
LEMMA ServersEndedStep ==
  ASSUME TypeOK, ServersEnded, [Next]_vars PROVE ServersEnded'
<1> SUFFICES ASSUME NEW h \in Servers PROVE ServerEnded(server[h])'
  BY DEF ServersEnded
<1>0. DOMAIN server = Servers
  BY DEF TypeOK, ServerOK
<1>1. CASE server'[h] = server[h]
  <2>1. ServerEnded(server[h])
    BY DEF ServersEnded
  <2>2. Sent("CredentialFinalization") \subseteq Sent("CredentialFinalization")'
    BY NetGrows DEF Sent
  <2>3. QED
    BY <1>1, <2>1, <2>2 DEF ServerEnded
<1>2. CASE server'[h].pc \notin {"done", "failed"}
  BY <1>2 DEF ServerEnded
<1>3. ASSUME NEW m \in Sent("CredentialFinalization"), NEW params, ServerLoginFinish(h, m, params)
      PROVE  ServerEnded(server[h])'
  <2> DEFINE now == server'[h]
             result == FinishServerLogin(server[h].state, m.ke3_message, params)
  <2> HIDE DEF result
  <2>1. /\ now.state = server[h].state /\ now.final = params
        /\ now.pc = "done" => result.ok /\ now.session_key = result.val
        /\ now.pc = "failed" =>
             now.ke3_message = m.ke3_message /\ ~result.ok /\ now.error = result.err
    BY <1>0, <1>3 DEF ServerLoginFinish, result
  <2>2. m \in Sent("CredentialFinalization")'
    BY NetGrows DEF Sent
  <2>3. QED
    BY <2>1, <2>2 DEF ServerEnded, result
<1>4. ASSUME NEW g \in Servers, NEW m \in Sent("CredentialFinalization"), NEW params,
             ServerLoginFinish(g, m, params)
      PROVE  ServerEnded(server[h])'
  <2>1. CASE g = h
    BY <1>3, <1>4, <2>1
  <2>2. CASE g # h
    BY <1>0, <1>1, <1>4, <2>2 DEF ServerLoginFinish
  <2>3. QED
    BY <2>1, <2>2
<1>5. ASSUME NEW g \in Servers, NEW m, NEW name, NEW c, NEW params, NEW key_material,
             NEW key_info,
             \/ ServerLoginStart(g, m, name, c, params)
             \/ BeginBuilding(g, m, name, key_material, key_info, params)
             \/ ServerLoginBuild(g, m)
             \/ ServerLoginRestore(g)
             \/ ServerLoginBuilderRestore(g)
      PROVE  server'[h] = server[h] \/ server'[h].pc \notin {"done", "failed"}
  BY <1>0, <1>5
  DEF ServerLoginStart, BeginBuilding, ServerLoginBuild, Responded, ServerLoginRestore,
      ServerLoginBuilderRestore
<1>6. ServerRestart => server'[h] = server[h] \/ server'[h].pc \notin {"done", "failed"}
  BY <1>0 DEF ServerRestart, Interrupted
<1>7. UNCHANGED server => server'[h] = server[h]
  OBVIOUS
<1>8. QED
  BY <1>1, <1>2, <1>4, <1>5, <1>6, <1>7, ServerSteps

-------------------------------------------------------------------------------
(* Nothing has a history at first.                                           *)
LEMMA HInit == Init => HInv
<1> SUFFICES ASSUME Init PROVE HInv
  OBVIOUS
<1>1. RInv
  BY InvInit
  DEF RInv, Init, Idle, RequestsMade, NoncesOwn, Sent, Answered, HoldsBuilder
<1>2. SetupMade
  BY SessionsAssumption DEF Init, SetupMade, FreshSetup, NewServerSetup
<1>3. /\ KeyMaterialMade /\ RegistrationRequestsMade /\ RegistrationResponsesMade
      /\ UploadsMade /\ RemoteAnswersMade
  BY DEF Init, Sent, KeyMaterialMade, RegistrationRequestsMade, RegistrationResponsesMade,
         UploadsMade, RemoteAnswersMade
<1>4. RegistrationsEnded /\ ClientsEnded
  BY DEF Init, Idle, RegistrationsEnded, ClientsEnded
<1>5. BuildersMade /\ Refusals /\ InputsMade /\ ServersEnded
  BY DEF Init, Idle, BuildersMade, Refusals, InputsMade, ServersEnded, ServerEnded,
         Answered, HoldsBuilder
<1>6. QED
  BY <1>1, <1>2, <1>3, <1>4, <1>5 DEF HInv

(* Every step keeps the history.                                             *)
LEMMA HStep == HInv /\ [Next]_vars => HInv'
<1> SUFFICES ASSUME HInv, [Next]_vars PROVE HInv'
  OBVIOUS
<1> USE DEF HInv, RInv, IInv
<1>1. RInv'
  BY InvStep, RequestsMadeStep, NoncesOwnStep
<1>2. SetupMade' /\ KeyMaterialMade'
  BY SetupMadeStep, KeyMaterialMadeStep
<1>3. RegistrationRequestsMade' /\ RegistrationResponsesMade'
  BY RegistrationRequestsMadeStep, RegistrationResponsesMadeStep
<1>4. RegistrationsEnded' /\ UploadsMade'
  BY RegistrationsEndedStep, UploadsMadeStep
<1>5. BuildersMade' /\ Refusals'
  BY BuildersMadeStep, RefusalsStep
<1>6. RemoteAnswersMade' /\ InputsMade'
  BY RemoteAnswersMadeStep, InputsMadeStep
<1>7. ClientsEnded' /\ ServersEnded'
  BY ClientsEndedStep, ServersEndedStep
<1>8. QED
  BY <1>1, <1>2, <1>3, <1>4, <1>5, <1>6, <1>7

(* The history holds in every reachable state.                               *)
LEMMA HInvariance == Spec => []HInv
<1>1. Init => HInv
  BY HInit
<1>2. HInv /\ [Next]_vars => HInv'
  BY HStep
<1>3. QED
  BY <1>1, <1>2, PTL DEF Spec
===============================================================================
