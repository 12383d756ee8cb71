---------------------------- MODULE StrictClient ----------------------------
(***************************************************************************)
(* A strict client in use (packages/client/src/client.ts): it connects,    *)
(* refreshes its Agent Card, perhaps several times at once, and carries    *)
(* out operations meanwhile, some of them long streams.  The agent         *)
(* replaces its card whenever it likes.                                    *)
(*                                                                         *)
(* A call of createState suspends while it fetches the card, while the URL *)
(* policy looks at the interface, and while the evidence of its decision   *)
(* is written; the client's state is replaced as a whole when it returns.  *)
(* An operation reads the state once, when it starts, and the SDK client   *)
(* it goes through keeps the card and the requirement it was made with.    *)
(*                                                                         *)
(* Left out: the evidence.  That of a stream's events and of errors reads  *)
(* the state anew, and so names the connection of the moment.              *)
(***************************************************************************)
EXTENDS Negotiation

CONSTANTS
  Clients,     \* the credential providers of clients
  Refreshes,   \* calls of refreshAgentCard
  Operations   \* operations carried out

Connect == "connect"

Calls == {Connect} \cup Refreshes

ASSUME StrictClientAssumption ==
  /\ Clients \subseteq Providers
  /\ Connect \notin Refreshes

NoCard == [interfaces |-> << >>]

Nothing == [card |-> NoCard]

VARIABLES
  provider,   \* options.credentialProvider; never changes
  published,  \* the card the agent publishes
  state,      \* #state
  step,       \* how far a call of createState has come
  held,       \* the card it fetched, and the connection it settled on
  result,     \* what a call returned
  using,      \* the connection of an operation, Nothing while it has not started
  request     \* the request it sent

vars == <<provider, published, state, step, held, result, using, request>>

callVars == <<state, step, held, result>>
operationVars == <<using, request>>

Init ==
  /\ provider \in Clients
  /\ published \in Cards
  /\ state = Nothing
  /\ step = [c \in Calls |-> "idle"]
  /\ held = [c \in Calls |-> Nothing]
  /\ result = [c \in Calls |-> NoCard]
  /\ using = [o \in Operations |-> Nothing]
  /\ request = [o \in Operations |-> Nothing]

Publish(card) ==
  /\ published' = card
  /\ UNCHANGED <<provider, callVars, operationVars>>
----------------------------------------------------------------------------
(***************************************************************************)
(* createState, called by connect and by refreshAgentCard.                 *)
(***************************************************************************)
Move(c, from, to) == step[c] = from /\ step' = [step EXCEPT ![c] = to]

\* A client is handed out once it has connected.
Start(c) ==
  /\ c = Connect \/ state # Nothing
  /\ Move(c, "idle", "fetching")
  /\ UNCHANGED <<provider, published, state, held, result, operationVars>>

\* The card is fetched and validated, a version and an interface found, and the URL policy
\* asked about it.
Negotiate(c) ==
  /\ Move(c, "fetching", "negotiating")
  /\ ValidCard(published)
  /\ Negotiable(published)
  /\ held' = [held EXCEPT ![c] = [card |-> published]]
  /\ UNCHANGED <<provider, published, state, result, operationVars>>

\* The policy admits the interface, and the provider meets a requirement.
Decide(c) ==
  /\ Move(c, "negotiating", "deciding")
  /\ Selectable(provider, held[c].card)
  /\ held' = [held EXCEPT ![c] = Connection(provider, @.card)]
  /\ UNCHANGED <<provider, published, state, result, operationVars>>

\* Only the first call assigns; the others return the card in use.
AssignFirst(c) ==
  /\ Move(c, "deciding", "done")
  /\ state' = IF state = Nothing THEN held[c] ELSE state
  /\ result' = [result EXCEPT ![c] = state'.card]
  /\ UNCHANGED <<provider, published, held, operationVars>>

\* The state is assigned, and read for the result at once.
Assign(c) ==
  /\ Move(c, "deciding", "done")
  /\ state' = held[c]
  /\ result' = [result EXCEPT ![c] = state'.card]
  /\ UNCHANGED <<provider, published, held, operationVars>>

\* The card cannot be fetched or is invalid, nothing usable is in it, the policy rejects the
\* interface, or no requirement is met.
Fail(c) ==
  /\ \/ Move(c, "fetching", "done")
     \/ Move(c, "negotiating", "done")
  /\ UNCHANGED <<provider, published, state, held, result, operationVars>>
----------------------------------------------------------------------------
(***************************************************************************)
(* Operations.                                                             *)
(***************************************************************************)

\* requireState().sdkClient and sdkOptions.
Begin(o) ==
  /\ state # Nothing
  /\ using[o] = Nothing
  /\ using' = [using EXCEPT ![o] = state]
  /\ UNCHANGED <<provider, published, callVars, request>>

\* Headers under the card of the moment.
SendUnderCurrentCard(o) ==
  /\ using[o] # Nothing
  /\ request[o] = Nothing
  /\ request' = [request EXCEPT ![o] =
       [card |-> using[o].card, site |-> using[o].interface.site, extensions |-> using[o].extensions,
        credentials |-> Credentials(provider, state.card, state.requirement)]]
  /\ UNCHANGED <<provider, published, callVars, using>>

\* The policy fetch of the SDK client asks for headers under the card and the requirement it
\* was made with.
Send(o) ==
  /\ using[o] # Nothing
  /\ request[o] = Nothing
  /\ request' = [request EXCEPT ![o] =
       [card |-> using[o].card, site |-> using[o].interface.site, extensions |-> using[o].extensions,
        credentials |-> Credentials(provider, using[o].card, using[o].requirement)]]
  /\ UNCHANGED <<provider, published, callVars, using>>

----------------------------------------------------------------------------
Next ==
  \/ \E card \in Cards : Publish(card)
  \/ \E c \in Calls : Start(c) \/ Negotiate(c) \/ Decide(c) \/ Assign(c) \/ Fail(c)
  \/ \E o \in Operations : Begin(o) \/ Send(o)

Spec == Init /\ [][Next]_vars
----------------------------------------------------------------------------
(***************************************************************************)
(* Properties.                                                             *)
(***************************************************************************)
Connections == {Connection(provider, card) : card \in {c \in Cards : Negotiable(c) /\ Selectable(provider, c)}}

\* Some headers, with the scheme or the part of the workbench's provider each comes from.
CredentialHeaders ==
  UNION {[H -> Names \cup {"profile", "token"}] : H \in SUBSET (Headers \ Protected)}

\* Every variable keeps its type.
TypeOK ==
  /\ provider \in Clients
  /\ published \in Cards
  /\ state \in Connections \cup {Nothing}
  /\ step \in [Calls -> {"idle", "fetching", "negotiating", "deciding", "done"}]
  /\ \A c \in Calls : held[c] \in Connections \cup {[card |-> card] : card \in Cards \cup {NoCard}}
  /\ result \in [Calls -> Cards \cup {NoCard}]
  /\ using \in [Operations -> Connections \cup {Nothing}]
  /\ \A o \in Operations : request[o] # Nothing =>
       request[o] \in [card: Cards, site: Sites, extensions: SUBSET Requested,
                       credentials: CredentialHeaders]

\* Whether nothing but the first usable interface of a card is the one.
IsFirstUsable(card, interface) ==
  \E i \in DOMAIN card.interfaces :
    /\ card.interfaces[i] = interface
    /\ Usable(interface)
    /\ \A k \in 1..(i - 1) : ~Usable(card.interfaces[k])

\* The alternatives before the one chosen each have a scheme the client has no credential for.
IsFirstSatisfied(card, requirement) ==
  \/ requirement = << >> /\ card.requirements = << >>
  \/ \E i \in DOMAIN card.requirements :
       /\ card.requirements[i] = requirement
       /\ \A name \in ToSet(requirement) : Satisfies(provider, card, name)
       /\ \A k \in 1..(i - 1) : \E name \in ToSet(card.requirements[k]) : ~Satisfies(provider, card, name)

\* Whichever refreshes overlap and fail, the connection in use was settled with one card that is
\* valid and whose required extensions are all in use: its first usable interface, and the first
\* of its requirements the client can satisfy in full (createState, negotiateConnection,
\* selectSecurityRequirement).
ConnectionFitsItsCard ==
  state # Nothing =>
    /\ ValidCard(state.card)
    /\ IsFirstUsable(state.card, state.interface)
    /\ state.card.required \subseteq state.extensions /\ state.extensions \subseteq Requested
    /\ IsFirstSatisfied(state.card, state.requirement)

\* The schemes of a requirement whose credentials the package's provider puts into a header.
Owners(card, requirement, h) ==
  {name \in ToSet(requirement) : h \in HeadersOf(provider, card, name)}

\* Every header a scheme of the requirement calls for has the credential of such a scheme, and
\* no other header has any.
Carries(sent, card, requirement) ==
  \A h \in Headers \ Protected :
    IF Owners(card, requirement, h) = {} THEN h \notin DOMAIN sent
    ELSE h \in DOMAIN sent /\ sent[h] \in Owners(card, requirement, h)

RequestFitting(r) ==
  /\ \E i \in DOMAIN r.card.interfaces :
       IsFirstUsable(r.card, r.card.interfaces[i]) /\ r.card.interfaces[i].site = r.site
  /\ r.card.required \subseteq r.extensions
  /\ provider.kind = "static" =>
       \E requirement \in ToSet(r.card.requirements) \cup {<< >>} :
         IsFirstSatisfied(r.card, requirement) /\ Carries(r.credentials, r.card, requirement)

\* A request goes to the interface, names the extensions and, with the package's provider,
\* carries the credentials of one and the same card, even if the client's card was refreshed
\* since the operation began: header by header, those of the requirement selected from that
\* card (the credentialContext of createState, getHeaders).
RequestsFitTheirCard ==
  \A o \in Operations : request[o] # Nothing => RequestFitting(request[o])

\* A refresh returns the card it fetched, whatever another refresh did to the client meanwhile
\* (refreshAgentCard).
RefreshReturnsItsCard ==
  \A c \in Calls : result[c] # NoCard => result[c] = held[c].card

=============================================================================
