-------------------------------- MODULE Opaque --------------------------------
(***************************************************************************)
(* opaque-vx at work: client registrations, client logins and server       *)
(* logins that run concurrently against one server setup and one table of  *)
(* password files, over a network that loses, delays, duplicates and       *)
(* misdelivers messages.  net is the set of all messages ever sent: a      *)
(* session may be given any of them, any number of times, or none.         *)
(*                                                                         *)
(* A session holds the value the library returned to the application (a    *)
(* ClientRegistration, ClientLogin, ServerLoginBuilder or ServerLogin).    *)
(* finish() consumes that value; after an error the application may load   *)
(* the serialized copy again and retry (the Restore actions).              *)
(***************************************************************************)
EXTENDS Protocol

CONSTANTS
  Registrations,      \* runs of the registration protocol at a client
  Clients,            \* runs of the login protocol at a client
  Servers,            \* runs of the login protocol at the server
  Setups,             \* generations of the server's setup
  FirstSetup,         \* the generation the server begins with
  Passwords,
  CredentialIds,      \* the names an application stores password files under
  ClientIdentifiers,  \* what may be given as a client identifier, None included
  ServerIdentifiers,
  Contexts,           \* what may be given as a context, None included
  Ksfs,               \* configurations of the key-stretching function
  RemoteSeed,         \* TRUE: the OPRF seed is kept in another machine
  Reflecting          \* TRUE: a server may echo the blinded element

ASSUME SessionsAssumption ==
  /\ Registrations \cap Clients = {}
  /\ FirstSetup \in Setups
  /\ None \notin Passwords
  /\ RemoteSeed \in BOOLEAN
  /\ Reflecting \in BOOLEAN

VARIABLES
  setup,      \* the ServerSetup in use
  used,       \* the generations already used
  files,      \* credential identifier -> password file (RegistrationUpload) or None
  registration,
  client,
  server,
  net

vars == <<setup, used, files, registration, client, server, net>>

Identifiers == [client : ClientIdentifiers, server : ServerIdentifiers]

RegistrationParams == [identifiers : Identifiers, ksf : Ksfs]
ClientLoginParams  == [identifiers : Identifiers, ksf : Ksfs, context : Contexts]
ServerLoginParams  == [identifiers : Identifiers, context : Contexts]

FreshSetup(g) == NewServerSetup(<<"oprf_seed", g>>, <<"server_s", g>>, <<"dummy_sk", g>>)

Idle == [pc |-> "idle"]

Init ==
  /\ setup = FreshSetup(FirstSetup)
  /\ used = {FirstSetup}
  /\ files = [c \in CredentialIds |-> None]
  /\ registration = [r \in Registrations |-> Idle]
  /\ client = [s \in Clients |-> Idle]
  /\ server = [h \in Servers |-> Idle]
  /\ net = {}

Send(m) == net' = net \cup {m}

Sent(kind) == {m \in net : m.kind = kind}

-------------------------------------------------------------------------------
(* The messages.                                                             *)

registration_request(state) ==
  [kind |-> "RegistrationRequest", blinded_element |-> state.blinded_element]

(* origin is history: what was answered, and how.  It does not travel and no *)
(* operation looks at it.                                                    *)
registration_response(response, blinded_element, key_info) ==
  [ kind |-> "RegistrationResponse", evaluation_element |-> response.evaluation_element,
    server_s_pk |-> response.server_s_pk,
    origin |-> [blinded_element |-> blinded_element, key_info |-> key_info] ]

key_material_answer(key_info) ==
  [kind |-> "KeyMaterial", key_material |-> OprfKeyMaterial(key_info), origin |-> key_info]

registration_upload(upload) == [kind |-> "RegistrationUpload", upload |-> upload]

credential_request(state) ==
  [kind |-> "CredentialRequest", request |-> state.credential_request]

credential_response(response) == [kind |-> "CredentialResponse", response |-> response]

remote_key_answer(answer) == [kind |-> "RemoteKeyAnswer", answer |-> answer]

credential_finalization(message) ==
  [kind |-> "CredentialFinalization", ke3_message |-> message.ke3_message]

-------------------------------------------------------------------------------
(* Registration.  A password that cannot be blinded makes start fail before  *)
(* there is a state or a message: such a call changes nothing.               *)

ClientRegistrationStart(r, password) ==
  LET state == ClientRegistrationState(r, password)
  IN  /\ registration[r].pc = "idle"
      /\ password \notin BlindRefuses
      /\ registration' = [registration EXCEPT ![r] =
           [pc |-> "started", password |-> password, state |-> state]]
      /\ Send(registration_request(state))
      /\ UNCHANGED <<setup, used, files, client, server>>

(* With a remote seed the key material of a credential identifier is asked   *)
(* for at the machine that holds the seed, whose answer is on its way from   *)
(* then on.                                                                  *)
AskKeyMaterial(credential_identifier) ==
  /\ RemoteSeed
  /\ Send(key_material_answer(KeyMaterialInfo(setup, credential_identifier)))
  /\ UNCHANGED <<setup, used, files, registration, client, server>>

(* The server keeps nothing between its two registration steps.              *)
RegistrationAnswer(m, key_material, key_info) ==
  /\ Send(registration_response(
       ServerRegistrationResponse(setup, key_material, m.blinded_element),
       m.blinded_element, key_info))
  /\ UNCHANGED <<setup, used, files, registration, client, server>>

ServerRegistrationStart(m, credential_identifier) ==
  LET key_info == KeyMaterialInfo(setup, credential_identifier)
  IN  /\ ~RemoteSeed
      /\ RegistrationAnswer(m, OprfKeyMaterial(key_info), key_info)

(* k is any answer of the holder of a seed: one to another question, or one  *)
(* from before the setup was made anew.                                      *)
ServerRegistrationStartWithKeyMaterial(m, k) ==
  RegistrationAnswer(m, k.key_material, k.origin)

ClientRegistrationFinish(r, m, password, params) ==
  LET now == registration[r]
      result == FinishClientRegistration(r, now.state, password, m, params)
  IN  /\ now.pc = "started"
      /\ registration' = [registration EXCEPT ![r] =
           IF result.ok
           THEN [ pc |-> "done", password |-> now.password, state |-> now.state,
                  final |-> password, params |-> params, response |-> m,
                  export_key |-> result.val.export_key,
                  server_s_pk |-> result.val.server_s_pk,
                  upload |-> result.val.message ]
           ELSE [ pc |-> "failed", password |-> now.password, state |-> now.state,
                  final |-> password, params |-> params, response |-> m,
                  error |-> result.err ]]
      /\ net' = IF result.ok THEN net \cup {registration_upload(result.val.message)} ELSE net
      /\ UNCHANGED <<setup, used, files, client, server>>

(* The upload becomes the password file as it is, over any older one.        *)
ServerRegistrationFinish(m, credential_identifier) ==
  /\ files' = [files EXCEPT ![credential_identifier] = m.upload]
  /\ UNCHANGED <<setup, used, registration, client, server, net>>

-------------------------------------------------------------------------------
(* Login.                                                                    *)

ClientLoginStart(s, password) ==
  LET state == ClientLoginState(s, password)
  IN  /\ client[s].pc = "idle"
      /\ password \notin BlindRefuses
      /\ client' = [client EXCEPT ![s] =
           [pc |-> "started", password |-> password, state |-> state]]
      /\ Send(credential_request(state))
      /\ UNCHANGED <<setup, used, files, registration, server>>

(* What a server login was given, the builder and the input it was built     *)
(* with are history: only message and state leave the library.               *)
Given(request, password_file, key_info, params) ==
  [ request |-> request, password_file |-> password_file,
    key_info |-> key_info, params |-> params ]

Responded(given, builder, input) ==
  [ pc |-> "responded", given |-> given, builder |-> builder, input |-> input,
    message |-> BuildServerLogin(builder, input).message,
    state   |-> BuildServerLogin(builder, input).state ]

(* The application looks the password file up under one name and passes a    *)
(* credential identifier beside it; it should be, but need not be, the same. *)
LoginBuilder(h, m, name, key_material, params) ==
  ServerLoginBuilderFor(h, setup, key_material, files[name], m.request, params)

ServerLoginStart(h, m, name, c, params) ==
  LET key_info == KeyMaterialInfo(setup, c)
      builder == LoginBuilder(h, m, name, OprfKeyMaterial(key_info), params)
      given   == Given(m.request, files[name], key_info, params)
      session == Responded(given, builder.val, RemoteKeyAnswer(builder.val))
  IN  /\ ~RemoteSeed
      /\ server[h].pc = "idle"
      /\ IF builder.ok
         THEN /\ server' = [server EXCEPT ![h] = session]
              /\ Send(credential_response(session.message))
         ELSE /\ server' = [server EXCEPT ![h] =
                   [pc |-> "refused", given |-> given, error |-> builder.err]]
              /\ UNCHANGED net
      /\ UNCHANGED <<setup, used, files, registration, client>>

(* With a remote private key the same login takes two calls.  The builder's  *)
(* data goes to the holder of the key, whose answer is on its way from then  *)
(* on.                                                                       *)
BeginBuilding(h, m, name, key_material, key_info, params) ==
  LET builder == LoginBuilder(h, m, name, key_material, params)
      given   == Given(m.request, files[name], key_info, params)
  IN  /\ server[h].pc = "idle"
      /\ IF builder.ok
         THEN /\ server' = [server EXCEPT ![h] =
                   [pc |-> "building", given |-> given, builder |-> builder.val]]
              /\ Send(remote_key_answer(RemoteKeyAnswer(builder.val)))
         ELSE /\ server' = [server EXCEPT ![h] =
                   [pc |-> "refused", given |-> given, error |-> builder.err]]
              /\ UNCHANGED net
      /\ UNCHANGED <<setup, used, files, registration, client>>

ServerLoginBuilder(h, m, name, c, params) ==
  LET key_info == KeyMaterialInfo(setup, c)
  IN  /\ ~RemoteSeed
      /\ BeginBuilding(h, m, name, OprfKeyMaterial(key_info), key_info, params)

ServerLoginBuilderWithKeyMaterial(h, m, name, k, params) ==
  BeginBuilding(h, m, name, k.key_material, k.origin, params)

(* The answers come back in any order, so a builder may be given one that    *)
(* was meant for another.                                                    *)
ServerLoginBuild(h, m) ==
  LET now   == server[h]
      session == Responded(now.given, now.builder, m.answer)
  IN  /\ now.pc = "building"
      /\ server' = [server EXCEPT ![h] = session]
      /\ Send(credential_response(session.message))
      /\ UNCHANGED <<setup, used, files, registration, client>>

ClientLoginFinish(s, m, password, params) ==
  LET now == client[s]
  IN  /\ now.pc = "started"
      /\ \E result \in FinishClientLogin(now.state, password, m.response, params) :
           /\ client' = [client EXCEPT ![s] =
                IF result.ok
                THEN [ pc |-> "done", password |-> now.password, state |-> now.state,
                       final |-> password, params |-> params, response |-> m.response,
                       session_key |-> result.val.session_key,
                       export_key  |-> result.val.export_key,
                       server_s_pk |-> result.val.server_s_pk,
                       message     |-> result.val.message ]
                ELSE [ pc |-> "failed", password |-> now.password, state |-> now.state,
                       final |-> password, params |-> params, response |-> m.response,
                       error |-> result.err ]]
           /\ net' = IF result.ok
                     THEN net \cup {credential_finalization(result.val.message)}
                     ELSE net
      /\ UNCHANGED <<setup, used, files, registration, server>>

ServerLoginFinish(h, m, params) ==
  LET now == server[h]
      result == FinishServerLogin(now.state, m.ke3_message, params)
  IN  /\ now.pc = "responded"
      /\ server' = [server EXCEPT ![h] =
           IF result.ok
           THEN [ pc |-> "done", given |-> now.given, builder |-> now.builder,
                  input |-> now.input, message |-> now.message, state |-> now.state,
                  final |-> params, session_key |-> result.val ]
           ELSE [ pc |-> "failed", given |-> now.given, builder |-> now.builder,
                  input |-> now.input, message |-> now.message, state |-> now.state,
                  final |-> params, ke3_message |-> m.ke3_message,
                  error |-> result.err ]]
      /\ UNCHANGED <<setup, used, files, registration, client, net>>

-------------------------------------------------------------------------------
(* A retry from the serialized copy of a consumed state.                     *)

ClientRegistrationRestore(r) ==
  /\ registration[r].pc = "failed"
  /\ registration' = [registration EXCEPT ![r] =
       [pc |-> "started", password |-> @.password, state |-> @.state]]
  /\ UNCHANGED <<setup, used, files, client, server, net>>

(* Faulty variant: the copy is made for the password typed last.             *)
ClientLoginRestoreLast(s) ==
  /\ client[s].pc = "failed"
  /\ client' = [client EXCEPT ![s] =
       [pc |-> "started", password |-> @.password, state |-> ClientLoginState(s, @.final)]]
  /\ UNCHANGED <<setup, used, files, registration, server, net>>

ClientLoginRestore(s) ==
  /\ client[s].pc = "failed"
  /\ client' = [client EXCEPT ![s] =
       [pc |-> "started", password |-> @.password, state |-> @.state]]
  /\ UNCHANGED <<setup, used, files, registration, server, net>>

(* Faulty variant: the copy leaves out what the signature is verified with.  *)
ServerLoginRestoreShort(h) ==
  /\ server[h].pc = "failed"
  /\ server' = [server EXCEPT ![h] =
       [ pc |-> "responded", given |-> @.given, builder |-> @.builder, input |-> @.input,
         message |-> @.message,
         state |-> [@.state EXCEPT !.verify_state = [cache |-> None, server_mac |-> None]] ]]
  /\ UNCHANGED <<setup, used, files, registration, client, net>>

ServerLoginRestore(h) ==
  /\ server[h].pc = "failed"
  /\ server' = [server EXCEPT ![h] =
       [ pc |-> "responded", given |-> @.given, builder |-> @.builder, input |-> @.input,
         message |-> @.message, state |-> @.state ]]
  /\ UNCHANGED <<setup, used, files, registration, client, net>>

-------------------------------------------------------------------------------
(* The server process.                                                       *)

(* It comes back with the setup it wrote to disk.  Of a builder there is     *)
(* something to come back to only where it has a serialized form: those of   *)
(* SIGMA-I have one.  (3DH's wants one of the running hash, which the hash   *)
(* functions do not offer, and the hybrid's derives none.)                   *)
Interrupted(session) ==
  IF Sigma THEN [pc |-> "lost", given |-> session.given, builder |-> session.builder]
           ELSE [pc |-> "lost"]

ServerRestart ==
  /\ setup' = DeserializeServerSetup(SerializeServerSetup(setup))
  /\ server' = [h \in Servers |-> IF server[h].pc = "building" THEN Interrupted(server[h])
                                                               ELSE server[h]]
  /\ UNCHANGED <<used, files, registration, client, net>>

(* Faulty variant: the copy leaves out the context the login was given.      *)
ServerLoginBuilderRestoreBare(h) ==
  /\ server[h].pc = "lost" /\ Sigma
  /\ server' = [server EXCEPT ![h] =
       [ pc |-> "building", given |-> @.given,
         builder |-> [@.builder EXCEPT !.ke2_builder.context = None] ]]
  /\ UNCHANGED <<setup, used, files, registration, client, net>>

ServerLoginBuilderRestore(h) ==
  /\ server[h].pc = "lost" /\ Sigma
  /\ server' = [server EXCEPT ![h] =
       [pc |-> "building", given |-> @.given, builder |-> @.builder]]
  /\ UNCHANGED <<setup, used, files, registration, client, net>>

(* ServerSetup::new: nothing of the old setup is kept.                       *)
ServerSetupNew(g) ==
  /\ g \notin used
  /\ setup' = FreshSetup(g)
  /\ used' = used \cup {g}
  /\ UNCHANGED <<files, registration, client, server, net>>

(* ServerSetup::new_with_key_pair: the key pair is kept, the seed is not.    *)
ServerSetupNewWithKeyPair(g) ==
  /\ g \notin used
  /\ setup' = NewServerSetup(<<"oprf_seed", g>>, setup.server_s_sk, <<"dummy_sk", g>>)
  /\ used' = used \cup {g}
  /\ UNCHANGED <<files, registration, client, server, net>>

(* ServerSetup::new_with_key_pair_and_seed: the seed is kept, and the key    *)
(* pair if it is given again.  Only the dummy key is always new.             *)
ServerSetupNewWithKeyPairAndSeed(g, server_s_sk) ==
  /\ g \notin used
  /\ setup' = NewServerSetup(setup.oprf_seed, server_s_sk, <<"dummy_sk", g>>)
  /\ used' = used \cup {g}
  /\ UNCHANGED <<files, registration, client, server, net>>

-------------------------------------------------------------------------------
(* A server that sends the blinded element back unevaluated, as the          *)
(* reflection tests of tests/full_test.rs do.                                *)

ReflectRegistration(m) ==
  /\ Reflecting
  /\ Send(registration_response(
       [evaluation_element |-> m.blinded_element, server_s_pk |-> setup.server_s_pk],
       m.blinded_element, KeyMaterialInfo(setup, None)))
  /\ UNCHANGED <<setup, used, files, registration, client, server>>

ReflectLogin(m, request) ==
  /\ Reflecting
  /\ Send(credential_response(
       [m.response EXCEPT !.evaluation_element = request.request.blinded_element]))
  /\ UNCHANGED <<setup, used, files, registration, client, server>>

-------------------------------------------------------------------------------
Next ==
  \/ \E r \in Registrations, password \in Passwords : ClientRegistrationStart(r, password)
  \/ \E c \in CredentialIds : AskKeyMaterial(c)
  \/ \E m \in Sent("RegistrationRequest"), c \in CredentialIds : ServerRegistrationStart(m, c)
  \/ \E m \in Sent("RegistrationRequest"), k \in Sent("KeyMaterial") :
       ServerRegistrationStartWithKeyMaterial(m, k)
  \/ \E r \in Registrations, m \in Sent("RegistrationResponse"), password \in Passwords,
        params \in RegistrationParams : ClientRegistrationFinish(r, m, password, params)
  \/ \E m \in Sent("RegistrationUpload"), c \in CredentialIds : ServerRegistrationFinish(m, c)
  \/ \E s \in Clients, password \in Passwords : ClientLoginStart(s, password)
  \/ \E h \in Servers, m \in Sent("CredentialRequest"), name, c \in CredentialIds,
        params \in ServerLoginParams :
       \/ ServerLoginStart(h, m, name, c, params)
       \/ ServerLoginBuilder(h, m, name, c, params)
  \/ \E h \in Servers, m \in Sent("CredentialRequest"), name \in CredentialIds,
        k \in Sent("KeyMaterial"), params \in ServerLoginParams :
       ServerLoginBuilderWithKeyMaterial(h, m, name, k, params)
  \/ \E h \in Servers, m \in Sent("RemoteKeyAnswer") : ServerLoginBuild(h, m)
  \/ \E s \in Clients, m \in Sent("CredentialResponse"), password \in Passwords,
        params \in ClientLoginParams : ClientLoginFinish(s, m, password, params)
  \/ \E h \in Servers, m \in Sent("CredentialFinalization"), params \in ServerLoginParams :
       ServerLoginFinish(h, m, params)
  \/ \E r \in Registrations : ClientRegistrationRestore(r)
  \/ \E s \in Clients : ClientLoginRestore(s)
  \/ \E h \in Servers : ServerLoginRestore(h)
  \/ ServerRestart
  \/ \E h \in Servers : ServerLoginBuilderRestore(h)
  \/ \E g \in Setups :
       \/ ServerSetupNew(g)
       \/ ServerSetupNewWithKeyPair(g)
       \/ \E server_s_sk \in {setup.server_s_sk, <<"server_s", g>>} :
            ServerSetupNewWithKeyPairAndSeed(g, server_s_sk)
  \/ \E m \in Sent("RegistrationRequest") : ReflectRegistration(m)
  \/ \E m \in Sent("CredentialResponse"), request \in Sent("CredentialRequest") :
       ReflectLogin(m, request)

Spec == Init /\ [][Next]_vars
===============================================================================
