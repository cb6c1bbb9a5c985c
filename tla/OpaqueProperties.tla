--------------------------- MODULE OpaqueProperties ---------------------------
(***************************************************************************)
(* What the protocol promises to the two applications, as invariants and   *)
(* action properties of Opaque.                                            *)
(***************************************************************************)
EXTENDS Opaque

(* A server login that has sent its response, finished or not.             *)
Answered(h) == server[h].pc \in {"responded", "failed", "done"}

(* A server login whose builder is in memory, or in the copy that survived a *)
(* restart.                                                                  *)
HoldsBuilder(h) == server[h].pc = "building" \/ (server[h].pc = "lost" /\ Sigma)

(* The record a server login worked with, dummy or not, as its builder saw it. *)
ServerView(h) == server[h].builder.ke2_builder

(* The password-derived key a finished client computed, and the identifiers *)
(* it hashed.                                                               *)
ClientPwd(s) ==
  RandomizedPwd(client[s].final, client[s].state.oprf_client,
                client[s].response.evaluation_element, client[s].params.ksf)

ClientIdentifiersOf(s) ==
  SerializedIdentifiers(client[s].params.identifiers,
    Pk(ClientStaticKey(ClientPwd(s), client[s].response.masked_response.envelope.nonce)),
    client[s].server_s_pk).val

-------------------------------------------------------------------------------
(* Every session is at a step its operations know and, through failures and *)
(* restored copies, still holds the state its start computed; every server  *)
(* login works on a request that was sent, and every password file is an    *)
(* upload as the client made it (ClientLogin, ServerLogin, RegistrationUpload). *)
SetupOK ==
  /\ setup.server_s_pk = Pk(setup.server_s_sk)
  /\ used \subseteq Setups

FilesOK ==
  /\ DOMAIN files = CredentialIds
  /\ \A c \in CredentialIds :
       files[c] = None \/ \E m \in Sent("RegistrationUpload") : files[c] = m.upload

RegistrationOK ==
  /\ DOMAIN registration = Registrations
  /\ \A r \in Registrations :
       /\ registration[r].pc \in {"idle", "started", "failed", "done"}
       /\ registration[r].pc # "idle" =>
            /\ registration[r].password \in Passwords
            /\ registration[r].state = ClientRegistrationState(r, registration[r].password)

ClientOK ==
  /\ DOMAIN client = Clients
  /\ \A s \in Clients :
       /\ client[s].pc \in {"idle", "started", "failed", "done"}
       /\ client[s].pc # "idle" =>
            /\ client[s].password \in Passwords
            /\ client[s].state = ClientLoginState(s, client[s].password)

ServerOK ==
  /\ DOMAIN server = Servers
  /\ \A h \in Servers :
       /\ server[h].pc \in {"idle", "refused", "building", "lost", "responded", "failed", "done"}
       /\ HoldsBuilder(h) \/ Answered(h) =>
            \E m \in Sent("CredentialRequest") : server[h].given.request = m.request

NetOK ==
  \A m \in net :
    m.kind \in { "KeyMaterial", "RegistrationRequest", "RegistrationResponse", "RegistrationUpload",
                 "CredentialRequest", "RemoteKeyAnswer", "CredentialResponse",
                 "CredentialFinalization" }

TypeOK == SetupOK /\ FilesOK /\ RegistrationOK /\ ClientOK /\ ServerOK /\ NetOK

-------------------------------------------------------------------------------
(* ClientLogin::finish returns a session key only when some server login    *)
(* answered this very request, with this very response, under the same      *)
(* context and the same two identifiers, and holds the same session key     *)
(* (lib.rs: the client's and the server's session_key match).               *)
AgreesWith(s, h) ==
  /\ Answered(h)
  /\ server[h].given.request = client[s].state.credential_request
  /\ server[h].state.session_key = client[s].session_key
  /\ ServerView(h).context = SerializedContext(client[s].params.context).val
  /\ ServerView(h).identifiers = ClientIdentifiersOf(s)
  /\ ServerView(h).cache.response = ResponseParts(client[s].response)

ClientAgreement ==
  \A s \in Clients : client[s].pc = "done" => \E h \in Servers : AgreesWith(s, h)

(* ServerLogin::finish returns a session key only when the client that sent *)
(* the request has finished with that same key.                             *)
ServerAgreement ==
  \A h \in Servers : server[h].pc = "done" =>
    \E s \in Clients :
      /\ client[s].pc = "done"
      /\ client[s].session_key = server[h].session_key
      /\ AgreesWith(s, h)

(* A session key belongs to one client login and one server login, which    *)
(* agree on everything: no request, response or restored copy makes two     *)
(* logins of one side share a key, and sides that compare nothing but their *)
(* keys have compared it all (lib.rs: "Multiple login runs using the same   *)
(* password for the same client will produce different session keys").      *)
Shared(s, h) ==
  client[s].pc = "done" /\ Answered(h) /\ client[s].session_key = server[h].state.session_key

SessionKeysPair ==
  \A s \in Clients, h \in Servers : Shared(s, h) =>
    /\ AgreesWith(s, h)
    /\ \A t \in Clients : Shared(t, h) => t = s
    /\ \A g \in Servers : Shared(s, g) => g = h

(* With a remote private key, a login that was built with the answer to     *)
(* another builder's data is not accepted by its client (messages.rs,       *)
(* ServerLoginBuilder::build takes any input).                              *)
RemoteKeyBound ==
  \A s \in Clients, h \in Servers :
    client[s].pc = "done" /\ Answered(h) /\ AgreesWith(s, h)
      => server[h].input = RemoteKeyAnswer(server[h].builder)

(* Behind every accepted login stands a finished registration, made with    *)
(* the same passwords and stretching, under identifiers that are written    *)
(* alike (a missing one is the public key), answered under the same OPRF    *)
(* seed and credential identifier and with the same server key; both got    *)
(* the same export key (lib.rs: ClientLogin::finish recovers the export_key *)
(* of the registration).                                                    *)
RegisteredAs(s, r) ==
  /\ registration[r].pc = "done"
  /\ registration[r].password = client[s].password
  /\ registration[r].final = client[s].final
  /\ registration[r].params.ksf = client[s].params.ksf
  /\ SerializedIdentifiers(registration[r].params.identifiers, registration[r].upload.client_s_pk,
                           registration[r].server_s_pk).val = ClientIdentifiersOf(s)
  /\ registration[r].server_s_pk = client[s].server_s_pk
  /\ registration[r].export_key = client[s].export_key

LoginNeedsRegistration ==
  \A s \in Clients : client[s].pc = "done" =>
    \E r \in Registrations, h \in Servers :
      /\ RegisteredAs(s, r)
      /\ AgreesWith(s, h)
      /\ server[h].given.password_file = registration[r].upload
      /\ server[h].given.key_info = registration[r].response.origin.key_info

(* A failure says what is wrong: a value too long to be encoded only when   *)
(* one was given, a reflected value only when the server echoed it, one of  *)
(* the two LibraryErrors of get_password_derived_key only when voprf does   *)
(* not hash the password typed or the stretching asked for fails, and for   *)
(* everything else (wrong password, unknown client, another session's       *)
(* response, other parameters) the one InvalidLoginError.                   *)
ParametersTooLong(identifiers, context) ==
  {context, identifiers.client, identifiers.server} \cap TooLong # {}

PasswordUnusable(error, password, ksf) ==
  \/ error = "OprfError" /\ password \in FinalizeRefuses
  \/ error = "KsfError" /\ ksf \in KsfRefuses

FailuresExplained ==
  /\ \A r \in Registrations : registration[r].pc = "failed" =>
       \/ /\ registration[r].error = "ReflectedValueError"
          /\ registration[r].response.origin.key_info.info = None
       \/ /\ registration[r].error = "SerializationError"
          /\ ParametersTooLong(registration[r].params.identifiers, None)
       \/ PasswordUnusable(registration[r].error, registration[r].final,
                           registration[r].params.ksf)
  /\ \A s \in Clients : client[s].pc = "failed" =>
       \/ client[s].error = "InvalidLoginError"
       \/ /\ client[s].error = "SerializationError"
          /\ ParametersTooLong(client[s].params.identifiers, client[s].params.context)
       \/ /\ client[s].error = "ReflectedValueError"
          /\ \A h \in Servers : Answered(h) => server[h].message # client[s].response
       \/ PasswordUnusable(client[s].error, client[s].final, client[s].params.ksf)
  /\ \A h \in Servers :
       /\ server[h].pc = "refused" =>
            /\ server[h].error = "SerializationError"
            /\ ParametersTooLong(server[h].given.params.identifiers,
                                 server[h].given.params.context)
       /\ server[h].pc = "failed" =>
            \/ server[h].error = "InvalidLoginError"
            \/ /\ server[h].error = "SerializationError"
               /\ ParametersTooLong(server[h].final.identifiers, server[h].final.context)

(* lib.rs on ClientLogin::finish: "Otherwise, on failure, the algorithm     *)
(* outputs an InvalidLoginError error", and the same of ServerLogin::finish. *)
FinishFailsAsInvalidLogin ==
  /\ \A s \in Clients : client[s].pc = "failed" => client[s].error = "InvalidLoginError"
  /\ \A h \in Servers : server[h].pc = "failed" => server[h].error = "InvalidLoginError"

(* With PureEdDSA, ServerLogin::finish succeeds only under the context and  *)
(* client identifier that ServerLogin::start was given.                     *)
FinishChecksClient ==
  \A h \in Servers : server[h].pc = "done" =>
    /\ SerializedContext(server[h].final.context).val = ServerView(h).context
    /\ SerializedIdentifier(server[h].final.identifiers.client, server[h].state.client_s_pk).val
         = ServerView(h).identifiers.client

(* lib.rs on custom identifiers: "Failing to supply the same pair of custom *)
(* identifiers in any of the three steps above will result in an error in   *)
(* attempting to complete the protocol!", the third step being              *)
(* ServerLogin::finish.                                                     *)
FinishChecksIdentifiers ==
  \A h \in Servers : server[h].pc = "done" =>
    server[h].final.identifiers = server[h].given.params.identifiers

-------------------------------------------------------------------------------
(* Nothing that should work is refused.  Registration r and the answer of   *)
(* server login h to client login s are consistent when the user repeats    *)
(* everything, and each of his two requests was answered under one seed,    *)
(* one credential identifier and one key pair, with the record of r and the *)
(* parameters of s.                                                         *)
ConsistentRegistration(s, r, h) ==
  /\ registration[r].password = client[s].password
  /\ registration[r].final = client[s].password
  /\ registration[r].response.origin =
       [ blinded_element |-> registration[r].state.blinded_element,
         key_info |-> server[h].given.key_info ]
  /\ registration[r].server_s_pk = Pk(server[h].builder.server_s_sk)
  /\ registration[r].params.identifiers = server[h].given.params.identifiers

ConsistentAnswer(h, s, r) ==
  /\ server[h].given.request = client[s].state.credential_request
  /\ server[h].given.password_file = registration[r].upload
  /\ server[h].input = RemoteKeyAnswer(server[h].builder)

Answers(h, s, r) ==
  /\ registration[r].pc = "done" /\ client[s].pc # "idle" /\ Answered(h)
  /\ ConsistentRegistration(s, r, h)
  /\ ConsistentAnswer(h, s, r)

Repeated(s, r, h, password, params) ==
  /\ password = client[s].password
  /\ params.ksf = registration[r].params.ksf
  /\ params.identifiers = registration[r].params.identifiers
  /\ SerializedContext(params.context) = SerializedContext(server[h].given.params.context)

(* ClientLogin::finish does not fail on the consistent answer to its own    *)
(* request, even if the server was restarted or set up anew, or the client  *)
(* registered again, in between.                                            *)
MatchingLoginNotRefused ==
  \A s \in Clients, r \in Registrations, h \in Servers :
    /\ client[s].pc = "failed"
    /\ client[s].final = client[s].password
    /\ Answers(h, s, r)
    /\ Repeated(s, r, h, client[s].final, client[s].params)
    => client[s].response # server[h].message

(* ServerLogin::finish does not fail on the finalization of the client that *)
(* accepted its response, under the parameters it was started with, even if *)
(* it failed before, on another finalization or under other parameters.     *)
MatchingFinalizationNotRefused ==
  \A s \in Clients, h \in Servers :
    /\ client[s].pc = "done"
    /\ server[h].pc = "failed"
    /\ AgreesWith(s, h)
    /\ server[h].final = server[h].given.params
    => server[h].ke3_message # client[s].message.ke3_message

-------------------------------------------------------------------------------
(* Opaque implements AuthenticatedLogin: what a client login hashed and the *)
(* key it got, against what a server login hashed and derived.              *)
NotYet == <<>>

RequestOf(s) == IF client[s].pc = "idle" THEN NotYet ELSE client[s].state.credential_request

OfferOf(h) ==
  IF ~Answered(h) THEN NotYet
  ELSE [ request     |-> server[h].given.request,
         session_key |-> server[h].state.session_key,
         context     |-> ServerView(h).context,
         identifiers |-> ServerView(h).identifiers,
         response    |-> ServerView(h).cache.response ]

AcceptedBy(s) ==
  IF client[s].pc # "done" THEN NotYet
  ELSE [ request     |-> client[s].state.credential_request,
         session_key |-> client[s].session_key,
         context     |-> SerializedContext(client[s].params.context).val,
         identifiers |-> ClientIdentifiersOf(s),
         response    |-> ResponseParts(client[s].response) ]

Login == INSTANCE AuthenticatedLogin WITH
  NoView    <- NotYet,
  request   <- [s \in Clients |-> RequestOf(s)],
  offer     <- [h \in Servers |-> OfferOf(h)],
  accepted  <- [s \in Clients |-> AcceptedBy(s)],
  confirmed <- {h \in Servers : server[h].pc = "done"}

(* Every behaviour of the protocol is a behaviour of the abstract login:    *)
(* a session key is offered once, accepted only as offered, and confirmed   *)
(* only after it was accepted.                                              *)
ImplementsLogin == Login!Spec

-------------------------------------------------------------------------------
(* Progress, for an application that keeps its promises: the network        *)
(* delivers a message it is asked for often enough, a failed finish is      *)
(* tried again from the saved state, and the calls are made.                *)

(* The user repeats what he registered with, on the response of h.          *)
Delivered(s, h, r) ==
  /\ client[s].pc = "started"
  /\ Answers(h, s, r)
  /\ \E m \in Sent("CredentialResponse"), params \in ClientLoginParams :
       /\ m.response = server[h].message
       /\ Repeated(s, r, h, client[s].password, params)
       /\ ClientLoginFinish(s, m, client[s].password, params)

(* The server repeats its parameters, on the finalization of s.             *)
Confirmed(h, s) ==
  /\ client[s].pc = "done"
  /\ server[h].pc = "responded"
  /\ \E m \in Sent("CredentialFinalization") :
       /\ m.ke3_message = client[s].message.ke3_message
       /\ ServerLoginFinish(h, m, server[h].given.params)

(* The answer to the data of h reaches h.                                    *)
KeyAnswered(h) ==
  /\ server[h].pc = "building"
  /\ \E m \in Sent("RemoteKeyAnswer") :
       m.answer = RemoteKeyAnswer(server[h].builder) /\ ServerLoginBuild(h, m)

ClientFairness ==
  /\ \A s \in Clients : WF_vars(ClientLoginRestore(s))
  /\ \A s \in Clients, h \in Servers, r \in Registrations : SF_vars(Delivered(s, h, r))

KeyHolderFairness ==
  \A h \in Servers : WF_vars(ServerLoginBuilderRestore(h)) /\ SF_vars(KeyAnswered(h))

ServerFairness ==
  /\ \A h \in Servers : WF_vars(ServerLoginRestore(h))
  /\ \A h \in Servers, s \in Clients : SF_vars(Confirmed(h, s))

(* Clients that retry, and key holders that answer.                         *)
FairSpec == Spec /\ ClientFairness /\ KeyHolderFairness

(* Servers that retry.                                                      *)
ConfirmingSpec == Spec /\ ServerFairness

(* A client whose request was answered from its own registration's record   *)
(* ends with a session key, even after wrong passwords and stale,           *)
(* duplicated or other sessions' responses made it fail before.             *)
ClientCompletes ==
  \A s \in Clients, h \in Servers, r \in Registrations :
    Answers(h, s, r) ~> client[s].pc = "done"

(* The server login whose response a client accepted ends with the session  *)
(* key too, even after it failed, any number of times, on another client's  *)
(* finalization or under other parameters (ServerLogin::finish, retried     *)
(* from the serialized copy).                                               *)
ServerConfirms ==
  \A s \in Clients, h \in Servers :
    (client[s].pc = "done" /\ Answered(h) /\ AgreesWith(s, h)) ~> server[h].pc = "done"

(* In SIGMA-I a login that waits for the holder of the private key is       *)
(* answered, however often the server process is restarted in between       *)
(* (ServerLoginBuilder, its serde form and build).                          *)
BuilderAnswers ==
  \A h \in Servers : (server[h].pc = "building" /\ Sigma) ~> Answered(h)
===============================================================================
