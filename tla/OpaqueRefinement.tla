--------------------------- MODULE OpaqueRefinement ---------------------------
(***************************************************************************)
(* Proof that Opaque implements AuthenticatedLogin, for every number of    *)
(* sessions, passwords, parameters and for every suite: each call of the   *)
(* library is a step of the abstract login or changes nothing it sees.     *)
(***************************************************************************)
EXTENDS OpaqueProofs

-------------------------------------------------------------------------------
(* What the invariant of OpaqueProofs leaves open.                           *)

(* A request on the wire is the one of a login that was begun.               *)
RequestsMade ==
  \A m \in Sent("CredentialRequest") :
    \E s \in Clients :
      client[s].pc # "idle" /\ m.request = client[s].state.credential_request

(* A server login hashes the nonce it drew itself.                           *)
NoncesOwn ==
  \A h \in Servers :
    HoldsBuilder(h) \/ Answered(h) => ServerView(h).cache.server_nonce = <<"server_nonce", h>>

RInv == IInv /\ RequestsMade /\ NoncesOwn

-------------------------------------------------------------------------------
(* A login that was begun stays begun, with the state its start computed.    *)
LEMMA BegunStays ==
  ASSUME TypeOK, [Next]_vars, NEW s \in Clients, client[s].pc # "idle"
  PROVE  client'[s].pc # "idle" /\ client'[s].state = client[s].state
<1>0. DOMAIN client = Clients
  BY DEF TypeOK, ClientOK
<1>1. ASSUME NEW t \in Clients, NEW m, NEW password, NEW params,
             \/ ClientLoginStart(t, password)
             \/ ClientLoginFinish(t, m, password, params)
             \/ ClientLoginRestore(t)
      PROVE  client'[s].pc # "idle" /\ client'[s].state = client[s].state
  BY <1>0, <1>1 DEF ClientLoginStart, ClientLoginFinish, ClientLoginRestore
<1>2. QED
  BY <1>1, ClientSteps

(* A new request is sent by the login that begins.                           *)
LEMMA RequestsMadeStep ==
  ASSUME TypeOK, RequestsMade, [Next]_vars PROVE RequestsMade'
<1> SUFFICES ASSUME NEW x \in net', x.kind = "CredentialRequest"
             PROVE  \E s \in Clients :
                      client'[s].pc # "idle" /\ x.request = client'[s].state.credential_request
  BY DEF RequestsMade, Sent
<1>1. CASE x \in net
  BY <1>1, BegunStays DEF RequestsMade, Sent
<1>2. CASE x \notin net
  <2>1. PICK s \in Clients, password \in Passwords :
          /\ client'[s].pc = "started" /\ client'[s].state = ClientLoginState(s, password)
          /\ x = credential_request(ClientLoginState(s, password))
    BY <1>2, NetSteps DEF credential_response, credential_finalization
  <2>2. QED
    BY <2>1 DEF credential_request
<1>3. QED
  BY <1>1, <1>2

(* A builder draws the nonce.                                                *)
LEMMA BuilderNonce ==
  ASSUME NEW h, NEW name, NEW m, NEW key_material, NEW params,
         LoginBuilder(h, m, name, key_material, params).ok
  PROVE  LoginBuilder(h, m, name, key_material, params).val.ke2_builder.cache.server_nonce
           = <<"server_nonce", h>>
<1> DEFINE view == LoginBuilder(h, m, name, key_material, params).val.ke2_builder
<1>1. \E response, client_s_pk, identifiers, context :
        view = Ke2Builder(h, m.request.blinded_element, m.request.ke1_message, response,
                          client_s_pk, identifiers, context)
  BY DEF LoginBuilder, ServerLoginBuilderFor, Ok, Err
<1>2. QED
  BY <1>1 DEF Ke2Builder, Cache

(* A server login keeps its builder.                                         *)
LEMMA NoncesOwnStep ==
  ASSUME TypeOK, NoncesOwn, [Next]_vars PROVE NoncesOwn'
<1> USE DEF NoncesOwn, ServerView
<1>0. DOMAIN server = Servers
  BY DEF TypeOK, ServerOK
<1>1. ASSUME NEW h \in Servers, NEW m \in Sent("CredentialRequest"), NEW name \in CredentialIds,
             NEW c \in CredentialIds, NEW params \in ServerLoginParams,
             ServerLoginStart(h, m, name, c, params)
      PROVE  NoncesOwn'
  <2> DEFINE builder == LoginBuilder(h, m, name, OprfKeyMaterial(KeyMaterialInfo(setup, c)), params)
  <2> HIDE DEF builder
  <2>1. CASE builder.ok
    BY <1>0, <1>1, <2>1, BuilderNonce
    DEF ServerLoginStart, Responded, Answered, HoldsBuilder, builder
  <2>2. CASE ~builder.ok
    BY <1>0, <1>1, <2>2 DEF ServerLoginStart, Answered, HoldsBuilder, builder
  <2>3. QED
    BY <2>1, <2>2
<1>2. ASSUME NEW h \in Servers, NEW m \in Sent("CredentialRequest"), NEW name \in CredentialIds,
             NEW key_material, NEW key_info, NEW params \in ServerLoginParams,
             BeginBuilding(h, m, name, key_material, key_info, params)
      PROVE  NoncesOwn'
  <2> DEFINE builder == LoginBuilder(h, m, name, key_material, params)
  <2> HIDE DEF builder
  <2>1. CASE builder.ok
    BY <1>0, <1>2, <2>1, BuilderNonce DEF BeginBuilding, Answered, HoldsBuilder, builder
  <2>2. CASE ~builder.ok
    BY <1>0, <1>2, <2>2 DEF BeginBuilding, Answered, HoldsBuilder, builder
  <2>3. QED
    BY <2>1, <2>2
<1>3. ASSUME NEW h \in Servers, NEW m \in Sent("RemoteKeyAnswer"), ServerLoginBuild(h, m)
      PROVE  NoncesOwn'
  BY <1>0, <1>3 DEF ServerLoginBuild, Responded, Answered, HoldsBuilder
<1>4. ASSUME NEW h \in Servers, NEW m \in Sent("CredentialFinalization"),
             NEW params \in ServerLoginParams, ServerLoginFinish(h, m, params)
      PROVE  NoncesOwn'
  BY <1>0, <1>4 DEF ServerLoginFinish, Answered, HoldsBuilder
<1>5. ASSUME NEW h \in Servers, ServerLoginRestore(h) \/ ServerLoginBuilderRestore(h)
      PROVE  NoncesOwn'
  BY <1>0, <1>5 DEF ServerLoginRestore, ServerLoginBuilderRestore, Answered, HoldsBuilder
<1>6. CASE ServerRestart
  BY <1>0, <1>6 DEF ServerRestart, Interrupted, Answered, HoldsBuilder
<1>7. CASE UNCHANGED server
  BY <1>7 DEF Answered, HoldsBuilder
<1>8. QED
  BY <1>1, <1>2, <1>3, <1>4, <1>5, <1>6, <1>7, ServerSteps

(* The stronger invariant holds in every reachable state.                    *)
LEMMA RInvariance == Spec => []RInv
<1>1. Init => RInv
  BY InvInit
  DEF RInv, Init, Idle, RequestsMade, NoncesOwn, Sent, Answered, HoldsBuilder
<1>2. RInv /\ [Next]_vars => RInv'
  BY InvStep, RequestsMadeStep, NoncesOwnStep DEF RInv, IInv
<1>3. QED
  BY <1>1, <1>2, PTL DEF Spec

-------------------------------------------------------------------------------
(* Steps as the abstract login sees them.                                    *)

(* Where two builders made the same session key, they hashed the same.       *)
LEMMA KeyBindsCache ==
  ASSUME NEW b1, NEW i1, NEW b2, NEW i2,
         BuildServerLogin(b1, i1).state.session_key = BuildServerLogin(b2, i2).state.session_key
  PROVE  b1.ke2_builder.cache = b2.ke2_builder.cache
<1> DEFINE t1 == Transcript(b1.ke2_builder.context, b1.ke2_builder.identifiers,
                            b1.ke2_builder.cache)
           t2 == Transcript(b2.ke2_builder.context, b2.ke2_builder.identifiers,
                            b2.ke2_builder.cache)
<1>1. PICK ikms1 : BuildServerLogin(b1, i1).state.session_key = DeriveKeys(ikms1, t1).session_key
  BY BuiltKeys
<1>2. PICK ikms2 : BuildServerLogin(b2, i2).state.session_key = DeriveKeys(ikms2, t2).session_key
  BY BuiltKeys
<1>3. t1 = t2
  <2> HIDE DEF t1, t2
  <2>1. Expand(ikms1, "SessionKey", t1) = Expand(ikms2, "SessionKey", t2)
    BY <1>1, <1>2 DEF DeriveKeys
  <2>2. QED
    BY <2>1 DEF Expand
<1>4. QED
  BY <1>3, TranscriptInjective

(* A record is not the empty sequence that stands for nothing.               *)
LEMMA ViewsExist ==
  /\ \A s, password : ClientLoginState(s, password).credential_request # NotYet
  /\ \A a, b, c, d, e :
       [request |-> a, session_key |-> b, context |-> c, identifiers |-> d, response |-> e]
         # NotYet
<1>1. DOMAIN NotYet = {}
  BY DEF NotYet
<1>2. ASSUME NEW s, NEW password
      PROVE  ClientLoginState(s, password).credential_request # NotYet
  <2>1. "ke1_message" \in DOMAIN ClientLoginState(s, password).credential_request
    BY DEF ClientLoginState
  <2>2. QED
    BY <1>1, <2>1
<1>3. ASSUME NEW a, NEW b, NEW c, NEW d, NEW e
      PROVE  [request |-> a, session_key |-> b, context |-> c, identifiers |-> d, response |-> e]
               # NotYet
  <2>1. "request" \in DOMAIN [request |-> a, session_key |-> b, context |-> c,
                              identifiers |-> d, response |-> e]
    OBVIOUS
  <2>2. QED
    BY <1>1, <2>1
<1>4. QED
  BY <1>2, <1>3

(* Nothing that the abstract login sees has changed.                         *)
SameRequests == \A s \in Clients : RequestOf(s)' = RequestOf(s)
SameOffers   == \A h \in Servers : OfferOf(h)' = OfferOf(h)
SameAccepted == \A s \in Clients : AcceptedBy(s)' = AcceptedBy(s)
SameConfirmed == \A h \in Servers : server'[h].pc = "done" <=> server[h].pc = "done"

(* A login is begun with a request that differs from all others.             *)
BeginStep(s) ==
  /\ RequestOf(s) = NotYet
  /\ \A t \in Clients : RequestOf(s)' # RequestOf(t)
  /\ \A t \in Clients \ {s} : RequestOf(t)' = RequestOf(t)
  /\ SameOffers /\ SameAccepted /\ SameConfirmed

OfferStep(h) ==
  /\ OfferOf(h) = NotYet /\ OfferOf(h)' # NotYet
  /\ \E s \in Clients : RequestOf(s) # NotYet /\ OfferOf(h)'.request = RequestOf(s)
  /\ \A g \in Servers : OfferOf(g) # NotYet => OfferOf(g).session_key # OfferOf(h)'.session_key
  /\ \A g \in Servers \ {h} : OfferOf(g)' = OfferOf(g)
  /\ SameRequests /\ SameAccepted /\ SameConfirmed

AcceptStep(s, h) ==
  /\ AcceptedBy(s) = NotYet
  /\ OfferOf(h) # NotYet
  /\ OfferOf(h).request = RequestOf(s)
  /\ AcceptedBy(s)' = OfferOf(h)
  /\ \A t \in Clients \ {s} : AcceptedBy(t)' = AcceptedBy(t)
  /\ SameRequests /\ SameOffers /\ SameConfirmed

ConfirmStep(h) ==
  /\ OfferOf(h) # NotYet
  /\ \E s \in Clients : AcceptedBy(s) = OfferOf(h)
  /\ server'[h].pc = "done"
  /\ \A g \in Servers \ {h} : server'[g].pc = "done" <=> server[g].pc = "done"
  /\ SameRequests /\ SameOffers /\ SameAccepted

Unseen == SameRequests /\ SameOffers /\ SameAccepted /\ SameConfirmed

(* The abstract login sees nothing of sessions but clients and servers.      *)
LEMMA ServerUnchanged ==
  ASSUME UNCHANGED server
  PROVE  SameOffers /\ SameConfirmed
  BY DEF SameOffers, SameConfirmed, OfferOf, Answered, ServerView

(* The same for the side of the clients.                                     *)
LEMMA ClientUnchanged ==
  ASSUME UNCHANGED client
  PROVE  SameRequests /\ SameAccepted
  BY DEF SameRequests, SameAccepted, RequestOf, AcceptedBy, ClientIdentifiersOf, ClientPwd

(* An offer stays as it was made.                                            *)
LEMMA OfferStays ==
  ASSUME TypeOK, [Next]_vars, NEW h \in Servers, Answered(h)
  PROVE  OfferOf(h)' = OfferOf(h)
  BY AnsweredStays DEF OfferOf, ServerView

(* ClientLogin::start begins the abstract login.                             *)
LEMMA StartBegins ==
  ASSUME TypeOK, TypeOK', NEW s \in Clients, NEW password \in Passwords,
         ClientLoginStart(s, password)
  PROVE  BeginStep(s)
<1> USE DEF ClientLoginStart
<1>0. DOMAIN client = Clients
  BY DEF TypeOK, ClientOK
<1>1. SameOffers /\ SameConfirmed
  BY ServerUnchanged
<1>2. \A t \in Clients \ {s} : RequestOf(t)' = RequestOf(t)
  BY <1>0 DEF RequestOf
<1>3. SameAccepted
  BY <1>0 DEF SameAccepted, AcceptedBy, ClientIdentifiersOf, ClientPwd
<1>4. RequestOf(s) = NotYet
  BY DEF RequestOf
<1>5. RequestOf(s)' = ClientLoginState(s, password).credential_request
  BY <1>0 DEF RequestOf
<1>6. ASSUME NEW t \in Clients PROVE RequestOf(s)' # RequestOf(t)
  <2>1. CASE client[t].pc = "idle"
    BY <1>5, <2>1, ViewsExist DEF RequestOf
  <2>2. CASE client[t].pc # "idle"
    <3>1. t # s
      BY <2>2
    <3>2. RequestOf(t) = ClientLoginState(t, client[t].password).credential_request
      BY <2>2 DEF RequestOf, TypeOK, ClientOK
    <3>3. \A u, p : ClientLoginState(u, p).credential_request.blinded_element.blind = <<"blind", u>>
      BY DEF ClientLoginState, Blind
    <3>4. QED
      BY <1>5, <3>1, <3>2, <3>3
  <2>3. QED
    BY <2>1, <2>2
<1>7. QED
  BY <1>1, <1>2, <1>3, <1>4, <1>6 DEF BeginStep

(* ClientLogin::finish accepts an offer when it succeeds, and is not seen    *)
(* when it fails.                                                            *)
LEMMA FinishAccepts ==
  ASSUME IInv, IInv', [Next]_vars, NEW s \in Clients, NEW m, NEW password, NEW params,
         ClientLoginFinish(s, m, password, params)
  PROVE  Unseen \/ \E h \in Servers : AcceptStep(s, h)
<1>0. /\ DOMAIN client = Clients
      /\ UNCHANGED server
      /\ client[s].pc = "started"
      /\ \A t \in Clients \ {s} : client'[t] = client[t]
      /\ client'[s].pc \in {"done", "failed"}
      /\ client'[s].state = client[s].state
  BY DEF ClientLoginFinish, IInv, TypeOK, ClientOK
<1>1. SameOffers /\ SameConfirmed
  BY <1>0, ServerUnchanged
<1>2. SameRequests
  BY <1>0 DEF SameRequests, RequestOf
<1>3. \A t \in Clients \ {s} : AcceptedBy(t)' = AcceptedBy(t)
  BY <1>0 DEF AcceptedBy, ClientIdentifiersOf, ClientPwd
<1>4. AcceptedBy(s) = NotYet
  BY <1>0 DEF AcceptedBy
<1>5. CASE client'[s].pc = "failed"
  <2>1. AcceptedBy(s)' = NotYet
    BY <1>5 DEF AcceptedBy
  <2>2. SameAccepted
    BY <1>3, <1>4, <2>1 DEF SameAccepted
  <2>3. QED
    BY <1>1, <1>2, <2>2 DEF Unseen
<1>6. CASE client'[s].pc = "done"
  <2>1. PICK h \in Servers : AgreesWith(s, h)'
    BY <1>6 DEF IInv, ClientAgreement
  <2>2. Answered(h)
    BY <1>0, <2>1 DEF AgreesWith, Answered
  <2>3. OfferOf(h) # NotYet
    BY <2>2, ViewsExist DEF OfferOf
  <2>4. OfferOf(h).request = RequestOf(s)
    BY <1>0, <2>1, <2>2 DEF AgreesWith, OfferOf, RequestOf
  <2>5. AcceptedBy(s)' = OfferOf(h)
    BY <1>0, <1>6, <2>1, <2>2 DEF AgreesWith, AcceptedBy, OfferOf, ServerView
  <2>6. QED
    BY <1>1, <1>2, <1>3, <1>4, <2>3, <2>4, <2>5 DEF AcceptStep
<1>7. QED
  BY <1>0, <1>5, <1>6

(* A failed client login that is restored is not seen.                       *)
LEMMA ClientRestoreUnseen ==
  ASSUME TypeOK, NEW s \in Clients, ClientLoginRestore(s)
  PROVE  Unseen
<1>0. DOMAIN client = Clients /\ UNCHANGED server
  BY DEF ClientLoginRestore, TypeOK, ClientOK
<1>1. SameOffers /\ SameConfirmed
  BY <1>0, ServerUnchanged
<1>2. SameRequests /\ SameAccepted
  BY <1>0 DEF ClientLoginRestore, SameRequests, SameAccepted, RequestOf, AcceptedBy,
              ClientIdentifiersOf, ClientPwd
<1>3. QED
  BY <1>1, <1>2 DEF Unseen

(* A server login that answers offers a key no other login has offered.      *)
LEMMA AnswerOffers ==
  ASSUME RInv, RInv', [Next]_vars, UNCHANGED client, NEW h \in Servers,
         ~Answered(h), Answered(h)', server[h].pc # "done", server'[h].pc # "done",
         \A g \in Servers \ {h} : server'[g] = server[g]
  PROVE  OfferStep(h)
<1>1. SameRequests /\ SameAccepted
  BY ClientUnchanged
<1>2. SameConfirmed
  BY DEF SameConfirmed
<1>3. \A g \in Servers \ {h} : OfferOf(g)' = OfferOf(g)
  BY DEF OfferOf, Answered, ServerView
<1>4. OfferOf(h) = NotYet /\ OfferOf(h)' # NotYet
  BY ViewsExist DEF OfferOf
<1>5. \E s \in Clients : RequestOf(s) # NotYet /\ OfferOf(h)'.request = RequestOf(s)
  <2>1. PICK m \in Sent("CredentialRequest")' : server'[h].given.request = m.request
    BY DEF RInv, IInv, TypeOK, ServerOK
  <2>2. PICK s \in Clients :
          client'[s].pc # "idle" /\ m.request = client'[s].state.credential_request
    BY <2>1 DEF RInv, RequestsMade
  <2>3. RequestOf(s) = m.request
    BY <2>2 DEF RequestOf
  <2>4. RequestOf(s) # NotYet
    BY <2>2, ViewsExist DEF RequestOf, RInv, IInv, TypeOK, ClientOK
  <2>5. OfferOf(h)'.request = m.request
    BY <2>1 DEF OfferOf
  <2>6. QED
    BY <2>3, <2>4, <2>5
<1>6. ASSUME NEW g \in Servers, OfferOf(g) # NotYet
      PROVE  OfferOf(g).session_key # OfferOf(h)'.session_key
  <2>1. Answered(g)
    BY <1>6 DEF OfferOf
  <2>2. OfferOf(g).session_key
          = BuildServerLogin(server[g].builder, server[g].input).state.session_key
    BY <2>1 DEF OfferOf, RInv, IInv, ServerBuilt
  <2>3. OfferOf(h)'.session_key
          = BuildServerLogin(server'[h].builder, server'[h].input).state.session_key
    BY DEF OfferOf, RInv, IInv, ServerBuilt
  <2>4. /\ server[g].builder.ke2_builder.cache.server_nonce = <<"server_nonce", g>>
        /\ server'[h].builder.ke2_builder.cache.server_nonce = <<"server_nonce", h>>
    BY <2>1 DEF RInv, NoncesOwn, ServerView
  <2>5. g # h
    BY <2>1
  <2>6. ASSUME OfferOf(g).session_key = OfferOf(h)'.session_key
        PROVE  FALSE
    <3>1. BuildServerLogin(server[g].builder, server[g].input).state.session_key
            = BuildServerLogin(server'[h].builder, server'[h].input).state.session_key
      BY <2>2, <2>3, <2>6
    <3>2. server[g].builder.ke2_builder.cache = server'[h].builder.ke2_builder.cache
      BY <3>1, KeyBindsCache
    <3>3. QED
      BY <2>4, <2>5, <3>2
  <2>7. QED
    BY <2>6
<1>7. QED
  BY <1>1, <1>2, <1>3, <1>4, <1>5, <1>6 DEF OfferStep

(* A step of the servers that answers nothing and finishes nothing is not    *)
(* seen.                                                                     *)
LEMMA ServerUnseen ==
  ASSUME TypeOK, [Next]_vars, UNCHANGED client,
         \A h \in Servers : Answered(h)' => Answered(h),
         \A h \in Servers : server'[h].pc = "done" <=> server[h].pc = "done"
  PROVE  Unseen
<1>1. SameRequests /\ SameAccepted
  BY ClientUnchanged
<1>2. SameConfirmed
  BY DEF SameConfirmed
<1>3. SameOffers
  <2>1. ASSUME NEW h \in Servers PROVE OfferOf(h)' = OfferOf(h)
    <3>1. CASE Answered(h)
      BY <3>1, OfferStays
    <3>2. CASE ~Answered(h)
      BY <3>2 DEF OfferOf
    <3>3. QED
      BY <3>1, <3>2
  <2>2. QED
    BY <2>1 DEF SameOffers
<1>4. QED
  BY <1>1, <1>2, <1>3 DEF Unseen

(* ServerLogin::finish confirms when it succeeds, and is not seen when it    *)
(* fails.                                                                    *)
LEMMA FinishConfirms ==
  ASSUME IInv, IInv', [Next]_vars, NEW h \in Servers, NEW m, NEW params,
         ServerLoginFinish(h, m, params)
  PROVE  Unseen \/ ConfirmStep(h)
<1>0. /\ UNCHANGED client
      /\ server[h].pc = "responded"
      /\ \A g \in Servers \ {h} : server'[g] = server[g]
      /\ server'[h].pc \in {"done", "failed"}
  BY DEF ServerLoginFinish, IInv, TypeOK, ServerOK
<1>1. CASE server'[h].pc = "failed"
  <2>1. \A g \in Servers : Answered(g)' => Answered(g)
    BY <1>0 DEF Answered
  <2>2. \A g \in Servers : server'[g].pc = "done" <=> server[g].pc = "done"
    BY <1>0, <1>1
  <2>3. QED
    BY <1>0, <2>1, <2>2, ServerUnseen DEF IInv
<1>2. CASE server'[h].pc = "done"
  <2>1. SameRequests /\ SameAccepted
    BY <1>0, ClientUnchanged
  <2>2. OfferOf(h)' = OfferOf(h)
    BY <1>0, OfferStays DEF IInv, Answered
  <2>3. SameOffers
    BY <1>0, <2>2 DEF SameOffers, OfferOf, Answered, ServerView
  <2>4. OfferOf(h) # NotYet
    BY <1>0, ViewsExist DEF OfferOf, Answered
  <2>5. PICK s \in Clients : client'[s].pc = "done" /\ AgreesWith(s, h)'
    BY <1>2 DEF IInv, ServerAgreement
  <2>6. AcceptedBy(s)' = OfferOf(h)'
    BY <2>5 DEF AgreesWith, AcceptedBy, OfferOf, ServerView
  <2>7. AcceptedBy(s) = OfferOf(h)
    BY <2>1, <2>2, <2>6 DEF SameAccepted
  <2>8. QED
    BY <1>0, <1>2, <2>1, <2>3, <2>4, <2>7 DEF ConfirmStep
<1>3. QED
  BY <1>0, <1>1, <1>2

(* Every step is one of the four, or is not seen.                            *)
LEMMA StepSeen ==
  ASSUME RInv, RInv', [Next]_vars
  PROVE  \/ Unseen
         \/ \E s \in Clients : BeginStep(s)
         \/ \E h \in Servers : OfferStep(h)
         \/ \E s \in Clients, h \in Servers : AcceptStep(s, h)
         \/ \E h \in Servers : ConfirmStep(h)
<1> USE DEF RInv, IInv
<1>0. DOMAIN server = Servers
  BY DEF TypeOK, ServerOK
<1>1. ASSUME NEW s \in Clients, NEW password \in Passwords, ClientLoginStart(s, password)
      PROVE  BeginStep(s)
  BY <1>1, StartBegins
<1>2. ASSUME NEW s \in Clients, NEW m, NEW password, NEW params,
             ClientLoginFinish(s, m, password, params)
      PROVE  Unseen \/ \E h \in Servers : AcceptStep(s, h)
  BY <1>2, FinishAccepts
<1>3. ASSUME NEW s \in Clients, ClientLoginRestore(s) PROVE Unseen
  BY <1>3, ClientRestoreUnseen
<1>4. ASSUME UNCHANGED client, NEW h \in Servers, NEW m, NEW name, NEW c, NEW params,
             ServerLoginStart(h, m, name, c, params)
      PROVE  Unseen \/ OfferStep(h)
  <2>1. /\ ~Answered(h) /\ server[h].pc # "done" /\ server'[h].pc # "done"
        /\ \A g \in Servers \ {h} : server'[g] = server[g]
    BY <1>0, <1>4 DEF ServerLoginStart, Responded, Answered
  <2>2. CASE Answered(h)'
    BY <1>4, <2>1, <2>2, AnswerOffers
  <2>3. CASE ~Answered(h)'
    <3>1. \A g \in Servers : Answered(g)' => Answered(g)
      BY <2>1, <2>3 DEF Answered
    <3>2. \A g \in Servers : server'[g].pc = "done" <=> server[g].pc = "done"
      BY <2>1
    <3>3. QED
      BY <1>4, <3>1, <3>2, ServerUnseen
  <2>4. QED
    BY <2>2, <2>3
<1>5. ASSUME UNCHANGED client, NEW h \in Servers, NEW m, NEW name, NEW key_material,
             NEW key_info, NEW params,
             BeginBuilding(h, m, name, key_material, key_info, params)
      PROVE  Unseen
  <2>1. \A g \in Servers : Answered(g)' => Answered(g)
    BY <1>0, <1>5 DEF BeginBuilding, Answered
  <2>2. \A g \in Servers : server'[g].pc = "done" <=> server[g].pc = "done"
    BY <1>0, <1>5 DEF BeginBuilding
  <2>3. QED
    BY <1>5, <2>1, <2>2, ServerUnseen
<1>6. ASSUME UNCHANGED client, NEW h \in Servers, NEW m, ServerLoginBuild(h, m)
      PROVE  OfferStep(h)
  <2>1. /\ ~Answered(h) /\ Answered(h)'
        /\ server[h].pc # "done" /\ server'[h].pc # "done"
        /\ \A g \in Servers \ {h} : server'[g] = server[g]
    BY <1>0, <1>6 DEF ServerLoginBuild, Responded, Answered
  <2>2. QED
    BY <1>6, <2>1, AnswerOffers
<1>7. ASSUME NEW h \in Servers, NEW m, NEW params, ServerLoginFinish(h, m, params)
      PROVE  Unseen \/ ConfirmStep(h)
  BY <1>7, FinishConfirms
<1>8. ASSUME UNCHANGED client, NEW h \in Servers,
             ServerLoginRestore(h) \/ ServerLoginBuilderRestore(h) \/ ServerRestart
      PROVE  Unseen
  <2>1. \A g \in Servers : Answered(g)' => Answered(g)
    BY <1>0, <1>8
    DEF ServerLoginRestore, ServerLoginBuilderRestore, ServerRestart, Interrupted, Answered
  <2>2. \A g \in Servers : server'[g].pc = "done" <=> server[g].pc = "done"
    BY <1>0, <1>8
    DEF ServerLoginRestore, ServerLoginBuilderRestore, ServerRestart, Interrupted
  <2>3. QED
    BY <1>8, <2>1, <2>2, ServerUnseen
<1>9. ASSUME UNCHANGED client, UNCHANGED server PROVE Unseen
  BY <1>9, ClientUnchanged, ServerUnchanged DEF Unseen
<1>10. CASE UNCHANGED client /\ ServerRestart
  <2>1. \A g \in Servers : Answered(g)' => Answered(g)
    BY <1>0, <1>10 DEF ServerRestart, Interrupted, Answered
  <2>2. \A g \in Servers : server'[g].pc = "done" <=> server[g].pc = "done"
    BY <1>0, <1>10 DEF ServerRestart, Interrupted
  <2>3. QED
    BY <1>10, <2>1, <2>2, ServerUnseen
<1>11. CASE UNCHANGED client
  BY <1>4, <1>5, <1>6, <1>7, <1>8, <1>9, <1>10, <1>11, ServerSteps
<1>12. QED
  BY <1>1, <1>2, <1>3, <1>11, ClientSteps

-------------------------------------------------------------------------------
(* The same steps as those of AuthenticatedLogin.                            *)

(* Nothing has been requested, offered, accepted or confirmed at first.      *)
LEMMA LoginInit == Init => Login!Init
  BY SMT
  DEF Init, Idle, Login!Init, RequestOf, OfferOf, AcceptedBy, Answered

(* One step of the abstract login per step that it sees.                     *)
LEMMA LoginStep ==
  ASSUME RInv, RInv', [Next]_vars
  PROVE  Login!Next \/ UNCHANGED Login!avars
<1>1. CASE Unseen
  BY <1>1
  DEF Unseen, SameRequests, SameOffers, SameAccepted, SameConfirmed, Login!avars
<1>2. ASSUME NEW s \in Clients, BeginStep(s)
      PROVE  Login!Begin(s)
  BY <1>2
  DEF BeginStep, SameOffers, SameAccepted, SameConfirmed, Login!Begin
<1>3. ASSUME NEW h \in Servers, OfferStep(h)
      PROVE  Login!Offer(h)
  <2> DEFINE offers == [g \in Servers |-> OfferOf(g)]
             requests == [s \in Clients |-> RequestOf(s)]
  <2>1. \A g \in Servers : offers[g] = OfferOf(g) /\ offers'[g] = OfferOf(g)'
    OBVIOUS
  <2>2. offers[h] = NotYet /\ offers'[h] # NotYet
    BY <1>3, <2>1 DEF OfferStep, NotYet
  <2>3. \E s \in Clients : requests[s] # NotYet /\ offers'[h].request = requests[s]
    <3>1. PICK s \in Clients : RequestOf(s) # NotYet /\ OfferOf(h)'.request = RequestOf(s)
      BY <1>3 DEF OfferStep
    <3>2. requests[s] = RequestOf(s)
      OBVIOUS
    <3>3. QED
      BY <2>1, <3>1, <3>2
  <2>4. \A g \in Servers : offers[g] # NotYet => offers[g].session_key # offers'[h].session_key
    <3>1. \A g \in Servers :
            OfferOf(g) # NotYet => OfferOf(g).session_key # OfferOf(h)'.session_key
      BY <1>3 DEF OfferStep
    <3>2. QED
      BY <2>1, <3>1
  <2>5. offers' = [offers EXCEPT ![h] = offers'[h]]
    <3>1. \A g \in Servers \ {h} : OfferOf(g)' = OfferOf(g)
      BY <1>3 DEF OfferStep
    <3>2. QED
      BY <3>1
  <2>6. /\ requests' = requests
        /\ [s \in Clients |-> AcceptedBy(s)]' = [s \in Clients |-> AcceptedBy(s)]
        /\ {g \in Servers : server[g].pc = "done"}' = {g \in Servers : server[g].pc = "done"}
    BY <1>3 DEF OfferStep, SameRequests, SameAccepted, SameConfirmed
  <2>7. QED
    BY <2>2, <2>3, <2>4, <2>5, <2>6 DEF Login!Offer
<1>4. ASSUME NEW s \in Clients, NEW h \in Servers, AcceptStep(s, h)
      PROVE  Login!Accept(s, h)
  BY <1>4
  DEF AcceptStep, SameRequests, SameOffers, SameConfirmed, Login!Accept
<1>5. ASSUME NEW h \in Servers, ConfirmStep(h)
      PROVE  Login!Confirm(h)
  BY <1>5
  DEF ConfirmStep, SameRequests, SameOffers, SameAccepted, Login!Confirm
<1>6. QED
  BY <1>1, <1>2, <1>3, <1>4, <1>5, StepSeen DEF Login!Next

(* Two server logins that answered and hold the same session key are one.    *)
LEMMA ServerKeysDiffer ==
  ASSUME RInv, NEW g \in Servers, NEW h \in Servers, Answered(g), Answered(h),
         server[g].state.session_key = server[h].state.session_key
  PROVE  g = h
<1>1. BuildServerLogin(server[g].builder, server[g].input).state.session_key
        = BuildServerLogin(server[h].builder, server[h].input).state.session_key
  BY DEF RInv, IInv, ServerBuilt
<1>2. server[g].builder.ke2_builder.cache = server[h].builder.ke2_builder.cache
  BY <1>1, KeyBindsCache
<1>3. /\ server[g].builder.ke2_builder.cache.server_nonce = <<"server_nonce", g>>
      /\ server[h].builder.ke2_builder.cache.server_nonce = <<"server_nonce", h>>
  BY DEF RInv, NoncesOwn, ServerView
<1>4. QED
  BY <1>2, <1>3

(* A client login and a server login with the same session key agree: the    *)
(* server login that ClientAgreement promises can be no other.               *)
LEMMA SameKeyAgrees ==
  ASSUME RInv, NEW s \in Clients, NEW h \in Servers, Shared(s, h)
  PROVE  AgreesWith(s, h)
<1>1. PICK g \in Servers : AgreesWith(s, g)
  BY DEF Shared, RInv, IInv, ClientAgreement
<1>2. g = h
  BY <1>1, ServerKeysDiffer DEF Shared, AgreesWith
<1>3. QED
  BY <1>1, <1>2

(* Two client logins that made the same request are one.                     *)
LEMMA ClientRequestsDiffer ==
  ASSUME TypeOK, NEW s \in Clients, NEW t \in Clients,
         client[s].pc # "idle", client[t].pc # "idle",
         client[s].state.credential_request = client[t].state.credential_request
  PROVE  s = t
<1>1. /\ client[s].state = ClientLoginState(s, client[s].password)
      /\ client[t].state = ClientLoginState(t, client[t].password)
  BY DEF TypeOK, ClientOK
<1>2. Ke1Message(Ke1State(s)) = Ke1Message(Ke1State(t))
  BY <1>1 DEF ClientLoginState
<1>3. QED
  BY <1>2 DEF Ke1Message, Ke1State

(* A session key belongs to one client login and one server login, which     *)
(* agree on everything, however many sessions run and whatever is delivered  *)
(* to whom (the session_key of ClientLogin::finish and ServerLogin::finish). *)
THEOREM SessionKeysArePaired == Spec => []SessionKeysPair
<1>1. ASSUME RInv, NEW s \in Clients, NEW h \in Servers, Shared(s, h)
      PROVE  /\ AgreesWith(s, h)
             /\ \A t \in Clients : Shared(t, h) => t = s
             /\ \A g \in Servers : Shared(s, g) => g = h
  <2>1. AgreesWith(s, h)
    BY <1>1, SameKeyAgrees
  <2>2. ASSUME NEW t \in Clients, Shared(t, h)
        PROVE  t = s
    <3>1. AgreesWith(t, h)
      BY <1>1, <2>2, SameKeyAgrees
    <3>2. client[s].state.credential_request = client[t].state.credential_request
      BY <2>1, <3>1 DEF AgreesWith
    <3>3. TypeOK /\ client[s].pc # "idle" /\ client[t].pc # "idle"
      BY <1>1, <2>2 DEF Shared, RInv, IInv
    <3>4. QED
      BY <3>2, <3>3, ClientRequestsDiffer
  <2>3. ASSUME NEW g \in Servers, Shared(s, g)
        PROVE  g = h
    BY <1>1, <2>3, ServerKeysDiffer DEF Shared
  <2>4. QED
    BY <2>1, <2>2, <2>3
<1>2. RInv => SessionKeysPair
  BY <1>1 DEF SessionKeysPair
<1>3. QED
  BY <1>2, RInvariance, PTL

-------------------------------------------------------------------------------
(* Every behaviour of the library, used as Opaque says, is a behaviour of    *)
(* the abstract login: a session key is offered once, to the author of a     *)
(* request, accepted only as offered, and confirmed only after that.         *)
THEOREM OpaqueImplementsLogin == Spec => ImplementsLogin
<1>1. Init => Login!Init
  BY LoginInit
<1>2. RInv /\ RInv' /\ [Next]_vars => [Login!Next]_Login!avars
  BY LoginStep
<1>3. QED
  BY <1>1, <1>2, RInvariance, PTL DEF Spec, ImplementsLogin, Login!Spec
===============================================================================
