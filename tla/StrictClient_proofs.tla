------------------------ MODULE StrictClient_proofs ------------------------
(***************************************************************************)
(* Proofs about StrictClient, for any cards, clients, refreshes and        *)
(* operations: what was settled for one card is never mixed with another.  *)
(***************************************************************************)
EXTENDS StrictClient, WellFoundedInduction, TLAPS

\* The cards a connection can be settled with, and the connections.
Fit == {card \in Cards : ValidCard(card) /\ Negotiable(card) /\ Selectable(provider, card)}

Settled == {Connection(provider, card) : card \in Fit}

\* What is sent over a connection.
RequestOver(connection) ==
  [card |-> connection.card, site |-> connection.interface.site,
   extensions |-> connection.extensions,
   credentials |-> Credentials(provider, connection.card, connection.requirement)]

\* A call holds nothing, then a card, then a connection.
HeldAt(c) ==
  /\ held[c] \in Settled \cup {[card |-> card] : card \in Cards \cup {NoCard}}
  /\ step[c] = "negotiating" =>
       \E card \in Cards : held[c] = [card |-> card] /\ ValidCard(card) /\ Negotiable(card)
  /\ step[c] = "deciding" => held[c] \in Settled

Types ==
  /\ provider \in Clients
  /\ published \in Cards
  /\ step \in [Calls -> {"idle", "fetching", "negotiating", "deciding", "done"}]
  /\ DOMAIN held = Calls
  /\ result \in [Calls -> Cards \cup {NoCard}]
  /\ request = [o \in Operations |-> request[o]]

ResultsReturn ==
  \A c \in Calls : result[c] # NoCard => step[c] = "done" /\ result[c] = held[c].card

IInv ==
  /\ Types
  /\ state \in Settled \cup {Nothing}
  /\ \A c \in Calls : HeldAt(c)
  /\ ResultsReturn
  /\ using \in [Operations -> Settled \cup {Nothing}]
  /\ \A o \in Operations : request[o] # Nothing => \E s \in Settled : request[o] = RequestOver(s)
----------------------------------------------------------------------------
(***************************************************************************)
(* What a connection is.                                                   *)
(***************************************************************************)
LEMMA LeastIndex ==
  ASSUME NEW S \in SUBSET Nat, S # {}
  PROVE  Min(S) \in S /\ \A i \in S : Min(S) <= i
<1>1. \E x \in S : \A y \in S : ~(<<y, x>> \in OpToRel(<, Nat))
  BY NatLessThanWellFounded, WFMin
<1>2. PICK x \in S : \A y \in S : ~(<<y, x>> \in OpToRel(<, Nat))
  BY <1>1
<1>3. OpToRel(<, Nat) = {ss \in Nat \X Nat : ss[1] < ss[2]}
  BY Zenon DEF OpToRel
<1>4. ASSUME NEW y \in S PROVE x <= y
  <2>1. <<y, x>> \in Nat \X Nat /\ x \in Nat /\ y \in Nat
    OBVIOUS
  <2>2. ~(<<y, x>>[1] < <<y, x>>[2])
    BY <1>2, <1>3, <2>1, Zenon
  <2> QED
    BY <2>1, <2>2
<1> QED
  BY <1>4 DEF Min

\* Some indices of a sequence have a last one: the length less it is the least such number.
LEMMA GreatestIndex ==
  ASSUME NEW n \in Nat, NEW S \in SUBSET (1..n), S # {}
  PROVE  LastOf(S) \in S /\ \A i \in S : i <= LastOf(S)
<1> DEFINE Back == {n - i : i \in S}
<1>1. Back \in SUBSET Nat /\ Back # {}
  <2>1. ASSUME NEW i \in S PROVE n - i \in Nat
    <3>1. i \in Nat /\ i <= n
      OBVIOUS
    <3> QED
      BY <3>1
  <2> QED
    BY <2>1
<1>2. PICK least \in Back : \A b \in Back : least <= b
  <2> HIDE DEF Back
  <2> QED
    BY <1>1, LeastIndex
<1>3. PICK last \in S : least = n - last
  OBVIOUS
<1>4. ASSUME NEW i \in S PROVE i <= last
  <2>1. n - i \in Back /\ i \in Nat /\ last \in Nat
    OBVIOUS
  <2>2. n - last <= n - i
    BY <1>2, <1>3, <2>1
  <2> QED
    BY <2>1, <2>2
<1> QED
  BY <1>4 DEF LastOf

LEMMA CardFields ==
  ASSUME NEW card \in Cards
  PROVE  /\ card \in Card
         /\ DOMAIN card.interfaces = 1..Len(card.interfaces)
         /\ DOMAIN card.requirements = 1..Len(card.requirements)
         /\ Len(card.interfaces) \in Nat /\ Len(card.requirements) \in Nat
  BY NegotiationAssumption DEF Card

\* The selected interface is the first usable one.
LEMMA InterfaceIsFirst ==
  ASSUME NEW card \in Cards, Negotiable(card)
  PROVE  IsFirstUsable(card, SelectedInterface(card))
<1>1. UsableAt(card) \in SUBSET Nat /\ UsableAt(card) # {}
  BY CardFields DEF UsableAt, Negotiable
<1>2. Min(UsableAt(card)) \in UsableAt(card) /\ \A i \in UsableAt(card) : Min(UsableAt(card)) <= i
  BY <1>1, LeastIndex
<1>3. ASSUME NEW k \in 1..(Min(UsableAt(card)) - 1)
      PROVE  ~Usable(card.interfaces[k])
  <2>1. k \notin UsableAt(card) /\ k \in DOMAIN card.interfaces
    <3> HIDE DEF UsableAt
    <3>1. Min(UsableAt(card)) \in Nat /\ Min(UsableAt(card)) \in DOMAIN card.interfaces
      BY <1>1, <1>2 DEF UsableAt
    <3>2. k < Min(UsableAt(card)) /\ k \in DOMAIN card.interfaces
      BY <3>1, CardFields
    <3> QED
      BY <1>2, <3>1, <3>2
  <2> QED
    BY <2>1 DEF UsableAt
<1> QED
  BY <1>2, <1>3 DEF IsFirstUsable, SelectedInterface, UsableAt

\* The selected requirement is the first one met, if the card has any.
LEMMA RequirementIsFirst ==
  ASSUME NEW card \in Cards, Selectable(provider, card)
  PROVE  IsFirstSatisfied(card, Selected(provider, card))
<1> DEFINE At == MetAt(provider, card)
<1>1. CASE card.requirements = << >>
  BY <1>1 DEF Selected, IsFirstSatisfied
<1>2. CASE card.requirements # << >>
  <2>1. At \in SUBSET Nat /\ At # {}
    BY <1>2, CardFields DEF MetAt, Selectable
  <2>2. Min(At) \in At /\ \A i \in At : Min(At) <= i
    BY <2>1, LeastIndex
  <2>3. ASSUME NEW k \in 1..(Min(At) - 1)
        PROVE  \E name \in ToSet(card.requirements[k]) : ~Satisfies(provider, card, name)
    <3>1. k \notin At /\ k \in DOMAIN card.requirements
      <4>1. Min(At) \in Nat /\ Min(At) \in DOMAIN card.requirements
        BY <2>1, <2>2 DEF MetAt
      <4> HIDE DEF At
      <4>2. k < Min(At) /\ k \in DOMAIN card.requirements
        BY <4>1, CardFields
      <4> QED
        BY <2>2, <4>1, <4>2
    <3>2. ~Meets(provider, card, card.requirements[k])
      BY <3>1 DEF MetAt
    <3> QED
      BY <3>2 DEF Meets, ToSet
  <2>4. \A name \in ToSet(card.requirements[Min(At)]) : Satisfies(provider, card, name)
    BY <2>2 DEF MetAt, Meets, ToSet
  <2>5. Selected(provider, card) = card.requirements[Min(At)] /\ Min(At) \in DOMAIN card.requirements
    BY <1>2, <2>2 DEF Selected, MetAt
  <2> HIDE DEF At
  <2> QED
    BY <2>3, <2>4, <2>5 DEF IsFirstSatisfied
<1> QED
  BY <1>1, <1>2

LEMMA SettledFacts ==
  ASSUME NEW s \in Settled
  PROVE  /\ s.card \in Fit /\ s.card # NoCard /\ s # Nothing
         /\ s = Connection(provider, s.card)
         /\ IsFirstUsable(s.card, s.interface)
         /\ IsFirstSatisfied(s.card, s.requirement)
         /\ s.card.required \subseteq s.extensions /\ s.extensions \subseteq Requested
<1>1. PICK card \in Fit : s = Connection(provider, card)
  BY DEF Settled
<1>2. /\ s.card = card /\ s.interface = SelectedInterface(card)
      /\ s.extensions = NegotiatedExtensions(card) /\ s.requirement = Selected(provider, card)
  BY <1>1 DEF Connection
<1>3. card \in Cards /\ ValidCard(card) /\ Negotiable(card) /\ Selectable(provider, card)
  BY DEF Fit
<1>4. card # NoCard
  BY <1>3 DEF ValidCard, NoCard
<1>5. s # Nothing
  BY <1>2, <1>4 DEF Nothing
<1>6. card.required \subseteq NegotiatedExtensions(card) /\ NegotiatedExtensions(card) \subseteq Requested
  BY <1>3 DEF Negotiable, RequiredAreRequested, NegotiatedExtensions, DeclaredExtensions
<1> QED
  BY <1>1, <1>2, <1>3, <1>4, <1>5, <1>6, InterfaceIsFirst, RequirementIsFirst
----------------------------------------------------------------------------
(***************************************************************************)
(* The invariant.                                                          *)
(***************************************************************************)
LEMMA InitInv == Init => IInv
<1> SUFFICES ASSUME Init PROVE IInv
  OBVIOUS
<1> QED
  BY DEF Init, IInv, Types, HeldAt, ResultsReturn, Nothing, NoCard

\* Steps that leave the calls alone.
LEMMA CallsUnchanged ==
  ASSUME IInv, UNCHANGED <<provider, callVars>>, published' \in Cards,
         using' \in [Operations -> Settled \cup {Nothing}],
         request' = [o \in Operations |-> request'[o]],
         \A o \in Operations : request'[o] # Nothing => \E s \in Settled : request'[o] = RequestOver(s)
  PROVE  IInv'
<1>1. Settled' = Settled /\ Nothing' = Nothing
  BY DEF Settled, Fit, Nothing
<1>2. \A s : RequestOver(s)' = RequestOver(s)
  BY DEF RequestOver
<1>3. Types'
  BY DEF IInv, Types, callVars
<1>4. \A c \in Calls : HeldAt(c)'
  BY <1>1 DEF IInv, HeldAt, callVars
<1>5. ResultsReturn'
  BY DEF IInv, ResultsReturn, callVars
<1>6. \A o \in Operations : request'[o] # Nothing => \E s \in Settled' : request'[o] = RequestOver(s)'
  BY <1>1, <1>2
<1> QED
  BY <1>1, <1>3, <1>4, <1>5, <1>6 DEF IInv, callVars

\* Steps of a call that leave the operations alone.
LEMMA OperationsUnchanged ==
  ASSUME IInv, UNCHANGED <<provider, published, operationVars>>, NEW c \in Calls,
         NEW to \in {"fetching", "negotiating", "deciding", "done"},
         step' = [step EXCEPT ![c] = to],
         DOMAIN held' = Calls, \A d \in Calls \ {c} : held'[d] = held[d],
         HeldAt(c)',
         result' \in [Calls -> Cards \cup {NoCard}],
         \A d \in Calls \ {c} : result'[d] = result[d],
         result'[c] # NoCard => to = "done" /\ result'[c] = held'[c].card,
         state' \in Settled \cup {Nothing}
  PROVE  IInv'
<1>1. Settled' = Settled
  BY DEF Settled, Fit
<1>2. Types'
  BY DEF IInv, Types, operationVars
<1>3. ASSUME NEW d \in Calls PROVE HeldAt(d)'
  <2>1. CASE d = c
    BY <2>1
  <2>2. CASE d # c
    <3>1. held'[d] = held[d] /\ step'[d] = step[d]
      BY <2>2 DEF IInv, Types
    <3> QED
      BY <1>1, <3>1 DEF IInv, HeldAt
  <2> QED
    BY <2>1, <2>2
<1>4. ResultsReturn'
  <2> SUFFICES ASSUME NEW d \in Calls, result'[d] # NoCard
               PROVE  step'[d] = "done" /\ result'[d] = held'[d].card
    BY DEF ResultsReturn
  <2>1. CASE d = c
    BY <2>1 DEF IInv, Types
  <2>2. CASE d # c
    BY <2>2 DEF IInv, Types, ResultsReturn
  <2> QED
    BY <2>1, <2>2
<1>5. \A o \in Operations : request'[o] # Nothing => \E s \in Settled' : request'[o] = RequestOver(s)'
  BY <1>1 DEF IInv, operationVars, RequestOver
<1> QED
  BY <1>1, <1>2, <1>3, <1>4, <1>5 DEF IInv, operationVars

\* Each step of a call.
LEMMA CallStepsInv ==
  ASSUME IInv, NEW c \in Calls, Start(c) \/ Negotiate(c) \/ Decide(c) \/ Assign(c) \/ Fail(c)
  PROVE  IInv'
<1> USE DEF Move
<1>1. /\ step \in [Calls -> {"idle", "fetching", "negotiating", "deciding", "done"}]
      /\ DOMAIN held = Calls /\ result \in [Calls -> Cards \cup {NoCard}]
      /\ HeldAt(c) /\ state \in Settled \cup {Nothing}
  BY DEF IInv, Types
<1>2. step[c] # "done" => result[c] = NoCard
  BY DEF IInv, ResultsReturn
<1>3. UNCHANGED provider => Settled' = Settled
  BY DEF Settled, Fit
<1>4. CASE Start(c)
  <2>1. HeldAt(c)'
    BY <1>1, <1>3, <1>4 DEF Start, HeldAt
  <2> QED
    BY <1>1, <1>2, <1>3, <1>4, <2>1, OperationsUnchanged DEF Start
<1>5. CASE Negotiate(c)
  <2>1. published \in Cards
    BY DEF IInv, Types
  <2>2. HeldAt(c)'
    BY <1>1, <1>5, <2>1 DEF Negotiate, HeldAt
  <2> QED
    BY <1>1, <1>2, <1>5, <2>2, OperationsUnchanged DEF Negotiate
<1>6. CASE Decide(c)
  <2>1. PICK card \in Cards : held[c] = [card |-> card] /\ ValidCard(card) /\ Negotiable(card)
    BY <1>1, <1>6 DEF Decide, HeldAt
  <2>2. held'[c] = Connection(provider, card) /\ card \in Fit
    BY <1>1, <1>6, <2>1 DEF Decide, Fit
  <2>3. HeldAt(c)'
    BY <1>1, <1>3, <1>6, <2>2 DEF Decide, HeldAt, Settled
  <2> QED
    BY <1>1, <1>2, <1>6, <2>3, OperationsUnchanged DEF Decide
<1>7. CASE Assign(c)
  <2>1. held[c] \in Settled /\ held[c].card \in Cards
    BY <1>1, <1>7, SettledFacts DEF Assign, HeldAt, Fit
  <2>2. HeldAt(c)'
    BY <1>1, <1>3, <1>7, <2>1 DEF Assign, HeldAt
  <2>3. result'[c] = held'[c].card /\ result' \in [Calls -> Cards \cup {NoCard}]
    BY <1>1, <1>7, <2>1 DEF Assign
  <2> QED
    BY <1>1, <1>7, <2>1, <2>2, <2>3, OperationsUnchanged DEF Assign
<1>8. CASE Fail(c)
  <2>1. HeldAt(c)'
    BY <1>1, <1>3, <1>8 DEF Fail, HeldAt
  <2> QED
    BY <1>1, <1>2, <1>8, <2>1, OperationsUnchanged DEF Fail
<1> QED
  BY <1>4, <1>5, <1>6, <1>7, <1>8

LEMMA OperationStepsInv ==
  ASSUME IInv, NEW o \in Operations, Begin(o) \/ Send(o)
  PROVE  IInv'
<1>1. /\ using \in [Operations -> Settled \cup {Nothing}]
      /\ request = [p \in Operations |-> request[p]]
      /\ \A p \in Operations : request[p] # Nothing => \E s \in Settled : request[p] = RequestOver(s)
      /\ state \in Settled \cup {Nothing} /\ published \in Cards
  BY DEF IInv, Types
<1>2. CASE Begin(o)
  BY <1>1, <1>2, CallsUnchanged DEF Begin
<1>3. CASE Send(o)
  <2>1. using[o] \in Settled
    BY <1>1, <1>3 DEF Send
  <2>2. request' = [request EXCEPT ![o] = RequestOver(using[o])]
    BY <1>3 DEF Send, RequestOver
  <2>3. \A p \in Operations : request'[p] # Nothing => \E s \in Settled : request'[p] = RequestOver(s)
    BY <1>1, <2>1, <2>2
  <2>4. request' = [p \in Operations |-> request'[p]]
    BY <1>1, <2>2
  <2> QED
    BY <1>1, <1>3, <2>3, <2>4, CallsUnchanged DEF Send
<1> QED
  BY <1>2, <1>3

LEMMA NextInv == IInv /\ [Next]_vars => IInv'
<1> SUFFICES ASSUME IInv, [Next]_vars PROVE IInv'
  OBVIOUS
<1>1. ASSUME NEW card \in Cards, Publish(card) PROVE IInv'
  BY <1>1, CallsUnchanged DEF Publish, operationVars, IInv, Types
<1>2. CASE \E c \in Calls : Start(c) \/ Negotiate(c) \/ Decide(c) \/ Assign(c) \/ Fail(c)
  BY <1>2, CallStepsInv
<1>3. CASE \E o \in Operations : Begin(o) \/ Send(o)
  BY <1>3, OperationStepsInv
<1>4. CASE UNCHANGED vars
  BY <1>4, CallsUnchanged DEF vars, callVars, IInv, Types
<1> QED
  BY <1>1, <1>2, <1>3, <1>4 DEF Next

\* The invariant holds in every reachable state.
THEOREM Invariance == Spec => []IInv
  BY InitInv, NextInv, PTL DEF Spec

\* The last scheme of a requirement that sets a header is one of those that do.
LEMMA LastSetter ==
  ASSUME NEW card, NEW requirement \in Seq(Names), NEW h,
         SettersOf(provider, card, requirement, h) # {}
  PROVE  /\ LastOf(SettersOf(provider, card, requirement, h)) \in DOMAIN requirement
         /\ h \in HeadersOf(provider, card,
                             requirement[LastOf(SettersOf(provider, card, requirement, h))])
<1> DEFINE S == SettersOf(provider, card, requirement, h)
<1>1. S \in SUBSET (1..Len(requirement)) /\ S # {} /\ Len(requirement) \in Nat
  BY DEF SettersOf
<1>2. LastOf(S) \in S
  <2> HIDE DEF S
  <2> QED
    BY <1>1, GreatestIndex
<1> QED
  BY <1>2 DEF SettersOf

\* What getHeaders returns.
LEMMA CredentialsType ==
  ASSUME provider \in Providers, NEW card, NEW requirement \in Seq(Names)
  PROVE  Credentials(provider, card, requirement) \in CredentialHeaders
<1> DEFINE resolved == Resolved(provider, card, requirement)
           sources == Names \cup {"profile", "token"}
<1>1. DOMAIN resolved \subseteq Headers /\ \A h \in DOMAIN resolved : resolved[h] \in sources
  <2>1. CASE provider.kind = None
    BY <2>1 DEF Resolved, None
  <2>2. CASE provider.kind = "static"
    <3> DEFINE set == {g \in Headers : SettersOf(provider, card, requirement, g) # {}}
    <3>1. resolved = [h \in set |-> requirement[LastOf(SettersOf(provider, card, requirement, h))]]
      BY <2>2 DEF Resolved, None
    <3>2. ASSUME NEW h \in set
          PROVE  requirement[LastOf(SettersOf(provider, card, requirement, h))] \in Names
      <4>1. LastOf(SettersOf(provider, card, requirement, h)) \in DOMAIN requirement
        BY LastSetter
      <4> QED
        BY <4>1
    <3>3. set \subseteq Headers
      OBVIOUS
    <3> HIDE DEF set, resolved
    <3> QED
      BY <3>1, <3>2, <3>3
  <2>3. CASE provider.kind = "workbench"
    <3>1. provider.headers \subseteq Headers
      BY <2>3 DEF Providers, None
    <3> QED
      BY <2>3, <3>1, NegotiationAssumption DEF Resolved, None
  <2> QED
    BY <2>1, <2>2, <2>3 DEF Providers
<1>2. Credentials(provider, card, requirement) = [h \in DOMAIN resolved \ Protected |-> resolved[h]]
  BY DEF Credentials
<1> HIDE DEF resolved
<1>3. Credentials(provider, card, requirement) \in [DOMAIN resolved \ Protected -> sources]
  BY <1>1, <1>2
<1>4. DOMAIN resolved \ Protected \in SUBSET (Headers \ Protected)
  BY <1>1
<1> QED
  BY <1>3, <1>4 DEF CredentialHeaders

\* A connection has the type of one, and so has what is sent over it.
LEMMA SettledTypes ==
  ASSUME provider \in Clients, NEW s \in Settled
  PROVE  /\ s \in Connections /\ s.card \in Cards
         /\ RequestOver(s) \in [card: Cards, site: Sites, extensions: SUBSET Requested,
                                credentials: CredentialHeaders]
<1>1. /\ s.card \in Cards /\ ValidCard(s.card) /\ Negotiable(s.card) /\ Selectable(provider, s.card)
      /\ s = Connection(provider, s.card)
  BY SettledFacts DEF Fit
<1>2. s \in Connections
  BY <1>1 DEF Connections
<1>3. s.interface.site \in Sites
  <2>1. PICK i \in DOMAIN s.card.interfaces : s.card.interfaces[i] = s.interface
    BY SettledFacts DEF IsFirstUsable
  <2>2. s.interface \in Interface
    BY <1>1, <2>1, CardFields DEF Card
  <2> QED
    BY <1>1, <2>1, <2>2 DEF Interface, ValidCard
<1>4. s.requirement \in Seq(Names)
  <2>1. s.card.requirements \in Seq(Seq(Names))
    BY <1>1, CardFields DEF Card
  <2> QED
    BY <2>1, SettledFacts DEF IsFirstSatisfied
<1>5. Credentials(provider, s.card, s.requirement) \in CredentialHeaders
  <2>1. provider \in Providers
    BY StrictClientAssumption
  <2> QED
    BY <1>4, <2>1, CredentialsType
<1> QED
  BY <1>1, <1>2, <1>3, <1>5, SettledFacts DEF RequestOver

\* Every variable keeps its type, for any cards and clients.
THEOREM TypeCorrect == Spec => []TypeOK
<1>1. IInv => TypeOK
  <2> SUFFICES ASSUME IInv PROVE TypeOK
    OBVIOUS
  <2>1. Settled \subseteq Connections
    BY SettledTypes DEF IInv, Types
  <2>2. \A o \in Operations : request[o] # Nothing => request[o] \in
          [card: Cards, site: Sites, extensions: SUBSET Requested, credentials: CredentialHeaders]
    BY SettledTypes DEF IInv, Types
  <2>3. using \in [Operations -> Connections \cup {Nothing}]
    BY <2>1 DEF IInv
  <2> QED
    BY <2>1, <2>2, <2>3 DEF IInv, Types, HeldAt, TypeOK
<1> QED
  BY <1>1, Invariance, PTL

\* Whichever refreshes overlap and fail, the connection in use is what negotiateConnection and
\* selectSecurityRequirement settle on for one valid card.
THEOREM ConnectionCorrect == Spec => []ConnectionFitsItsCard
<1>1. IInv => ConnectionFitsItsCard
  BY SettledFacts DEF IInv, ConnectionFitsItsCard, Fit
<1> QED
  BY <1>1, Invariance, PTL

\* A refresh returns the card it fetched, whatever another refresh does meanwhile
\* (refreshAgentCard).
THEOREM RefreshCorrect == Spec => []RefreshReturnsItsCard
<1>1. IInv => RefreshReturnsItsCard
  BY DEF IInv, ResultsReturn, RefreshReturnsItsCard
<1> QED
  BY <1>1, Invariance, PTL

\* What the package's provider sets, header by header.
LEMMA StaticHeaders ==
  ASSUME provider.kind = "static", NEW card, NEW requirement \in Seq(Names)
  PROVE  Carries(Credentials(provider, card, requirement), card, requirement)
<1> SUFFICES ASSUME NEW h \in Headers \ Protected
             PROVE  LET sent == Credentials(provider, card, requirement)
                    IN  IF Owners(card, requirement, h) = {} THEN h \notin DOMAIN sent
                        ELSE h \in DOMAIN sent /\ sent[h] \in Owners(card, requirement, h)
  BY DEF Carries
<1> DEFINE sent == Credentials(provider, card, requirement)
           setters(g) == SettersOf(provider, card, requirement, g)
           set == {g \in Headers : setters(g) # {}}
<1>1. Resolved(provider, card, requirement) = [g \in set |-> requirement[LastOf(setters(g))]]
  BY DEF Resolved, None
<1>2. DOMAIN sent = set \ Protected /\ \A g \in DOMAIN sent : sent[g] = requirement[LastOf(setters(g))]
  BY <1>1 DEF Credentials
<1>3. Owners(card, requirement, h) = {} <=> setters(h) = {}
  BY DEF Owners, SettersOf, ToSet
<1>4. ASSUME setters(h) # {} PROVE requirement[LastOf(setters(h))] \in Owners(card, requirement, h)
  BY <1>4, LastSetter DEF Owners, ToSet
<1>5. h \in DOMAIN sent <=> setters(h) # {}
  BY <1>2
<1> HIDE DEF sent, setters, set
<1>6. IF Owners(card, requirement, h) = {} THEN h \notin DOMAIN sent
      ELSE h \in DOMAIN sent /\ sent[h] \in Owners(card, requirement, h)
  BY <1>2, <1>3, <1>4, <1>5
<1> QED
  BY <1>6 DEF sent

\* What a request over a connection carries.
LEMMA RequestFits ==
  ASSUME NEW s \in Settled
  PROVE  RequestFitting(RequestOver(s))
<1> DEFINE card == s.card
           r == RequestOver(s)
<1>1. /\ r.card = card /\ r.site = s.interface.site /\ r.extensions = s.extensions
      /\ r.credentials = Credentials(provider, card, s.requirement)
  BY DEF RequestOver
<1>2. \E i \in DOMAIN card.interfaces :
        IsFirstUsable(card, card.interfaces[i]) /\ card.interfaces[i].site = r.site
  <2>1. PICK i \in DOMAIN card.interfaces : card.interfaces[i] = s.interface
    BY SettledFacts DEF IsFirstUsable
  <2> QED
    BY <1>1, <2>1, SettledFacts
<1>3. card.required \subseteq r.extensions
  BY <1>1, SettledFacts
<1>4. s.requirement \in ToSet(card.requirements) \cup {<< >>} /\ IsFirstSatisfied(card, s.requirement)
  BY SettledFacts DEF IsFirstSatisfied, ToSet
<1>5. s.requirement \in Seq(Names)
  <2>1. card.requirements \in Seq(Seq(Names))
    BY SettledFacts, CardFields DEF Fit, Card
  <2> QED
    BY <2>1, SettledFacts DEF IsFirstSatisfied
<1>6. provider.kind = "static" => Carries(r.credentials, card, s.requirement)
  BY <1>1, <1>5, StaticHeaders DEF Carries
<1> HIDE DEF card, r
<1> QED
  BY <1>1, <1>2, <1>3, <1>4, <1>6 DEF RequestFitting, card, r

\* A request goes to the interface and names the extensions of the card its operation began
\* under, and with the package's provider it carries the credentials of the requirement selected
\* from that card, header by header (the credentialContext of createState, getHeaders).
THEOREM RequestCorrect == Spec => []RequestsFitTheirCard
<1>1. IInv => RequestsFitTheirCard
  <2> SUFFICES ASSUME IInv PROVE RequestsFitTheirCard
    OBVIOUS
  <2>1. ASSUME NEW o \in Operations, request[o] # Nothing
        PROVE  \E s \in Settled : request[o] = RequestOver(s)
    BY <2>1 DEF IInv
  <2>2. ASSUME NEW s \in Settled PROVE RequestFitting(RequestOver(s))
    BY <2>2, RequestFits
  <2>3. ASSUME NEW o \in Operations, request[o] # Nothing PROVE RequestFitting(request[o])
    BY <2>1, <2>2, <2>3
  <2> QED
    BY <2>3 DEF RequestsFitTheirCard
<1> QED
  BY <1>1, Invariance, PTL
=============================================================================
