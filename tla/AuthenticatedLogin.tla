-------------------------- MODULE AuthenticatedLogin --------------------------
(***************************************************************************)
(* What a login is for, without passwords, envelopes or MACs: a server     *)
(* login offers a fresh session key to the author of one request, under    *)
(* one context and pair of identifiers; a client login accepts such an     *)
(* offer for its own request; the server login confirms once its offer has *)
(* been accepted.                                                          *)
(***************************************************************************)
CONSTANTS Clients, Servers, NoView

VARIABLES
  request,    \* request[s]: what identifies the login of client s, or NoView
  offer,      \* offer[h]: the view offered by server login h, or NoView
  accepted,   \* accepted[s]: the view client login s ended with, or NoView
  confirmed   \* the server logins that know their client has accepted

avars == <<request, offer, accepted, confirmed>>

Init ==
  /\ request = [s \in Clients |-> NoView]
  /\ offer = [h \in Servers |-> NoView]
  /\ accepted = [s \in Clients |-> NoView]
  /\ confirmed = {}

(* A client begins with a request that no other client has made.           *)
Begin(s) ==
  /\ request[s] = NoView
  /\ request'[s] \notin {request[t] : t \in Clients}
  /\ request' = [request EXCEPT ![s] = request'[s]]
  /\ UNCHANGED <<offer, accepted, confirmed>>

(* Whatever is offered, its key is new, and it answers a request that was  *)
(* made.                                                                   *)
Offer(h) ==
  /\ offer[h] = NoView /\ offer'[h] # NoView
  /\ \E s \in Clients : request[s] # NoView /\ offer'[h].request = request[s]
  /\ \A g \in Servers : offer[g] # NoView => offer[g].session_key # offer'[h].session_key
  /\ offer' = [offer EXCEPT ![h] = offer'[h]]
  /\ UNCHANGED <<request, accepted, confirmed>>

Accept(s, h) ==
  /\ accepted[s] = NoView
  /\ offer[h] # NoView
  /\ offer[h].request = request[s]
  /\ accepted' = [accepted EXCEPT ![s] = offer[h]]
  /\ UNCHANGED <<request, offer, confirmed>>

Confirm(h) ==
  /\ offer[h] # NoView
  /\ \E s \in Clients : accepted[s] = offer[h]
  /\ confirmed' = confirmed \cup {h}
  /\ UNCHANGED <<request, offer, accepted>>

Next ==
  \/ \E s \in Clients : Begin(s)
  \/ \E h \in Servers : Offer(h)
  \/ \E s \in Clients, h \in Servers : Accept(s, h)
  \/ \E h \in Servers : Confirm(h)

Spec == Init /\ [][Next]_avars
===============================================================================
