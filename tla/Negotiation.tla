---------------------------- MODULE Negotiation ----------------------------
(***************************************************************************)
(* What the strict client makes of an Agent Card: whether the card is      *)
(* valid (packages/client/src/validation.ts), which interface and which    *)
(* extensions it settles on (negotiation.ts), and which of the card's      *)
(* security requirements its credential provider meets (security.ts and    *)
(* the provider of src/lib/workbench-client-adapter.ts).                   *)
(*                                                                         *)
(* Of a card the fields these decisions read are kept.  A security scheme  *)
(* is its kind, and the header it names if it is an API key; a requirement *)
(* is the sequence of the names it lists.  Left out: headers the caller    *)
(* has the package's provider add to every request (defaultHeaders).       *)
(***************************************************************************)
EXTENDS Naturals, Sequences, SequencesExt

CONSTANTS
  Names,     \* names of security schemes
  Uris,      \* URIs of extensions
  Sites,     \* absolute HTTP URLs of interfaces
  Cards,     \* the Agent Cards the agent may publish; see Card
  Requested, \* options.requestedExtensions
  Headers,   \* names of HTTP headers
  Protected  \* PROTECTED_HEADERS of network.ts, which no credential may set

NoSite == "not a URL"
None == "none"

\* "query" is an API key outside the headers, "digest" another HTTP scheme, "oauth2User" OAuth2
\* without a client credentials flow, and "several" more than one scheme type at once.
SchemeKinds ==
  {"apiKey", "query", "basic", "bearer", "digest", "oauth2", "oauth2User", "openId", "mtls", "several"}

Interface ==
  [binding: {"JSONRPC", "HTTP+JSON", "GRPC"}, version: {"1.0", "0.3"}, site: Sites \cup {NoSite}]

\* schemes: Names to their kinds, None where the card has no scheme of the name; keyHeader:
\* the header an API key goes into.
Card ==
  [interfaces: Seq(Interface), required: SUBSET Uris, optional: SUBSET Uris,
   schemes: [Names -> SchemeKinds \cup {None}], keyHeader: [Names -> Headers],
   requirements: Seq(Seq(Names))]

\* A provider has a credential for some names: of the kind of a scheme, or headers of its own.
CredentialKinds == {"apiKey", "basic", "bearer", "oauth2", "headers"}

\* There may be no provider; the package's own has a credential per scheme name, custom being
\* the headers of those of kind "headers"; the workbench's has the headers of the profile, or
\* OAuth, or both.
Providers ==
  [kind: {None}]
    \cup [kind: {"static"}, credentials: [Names -> CredentialKinds \cup {None}],
          custom: [Names -> SUBSET Headers]]
    \cup {p \in [kind: {"workbench"}, headers: SUBSET Headers, oauth: BOOLEAN] :
            p.headers # {} \/ p.oauth}

ASSUME NegotiationAssumption ==
  /\ \A card \in Cards : card \in Card
  /\ Requested \subseteq Uris
  /\ "Authorization" \in Headers
  /\ Protected \subseteq Headers

\* validateAgentCard, with validateAgentInterface, validateSecurityScheme and
\* validateSecurityRequirement.
ValidCard(card) ==
  /\ card.interfaces # << >>
  /\ \A i \in DOMAIN card.interfaces : card.interfaces[i].site # NoSite
  /\ \A name \in Names : card.schemes[name] # "several"
  /\ \A i \in DOMAIN card.requirements :
       \A k \in DOMAIN card.requirements[i] : card.schemes[card.requirements[i][k]] # None
----------------------------------------------------------------------------
(***************************************************************************)
(* Extensions and interfaces.                                              *)
(***************************************************************************)
RequiredAreRequested(card) == card.required \subseteq Requested

DeclaredExtensions(card) == card.required \cup card.optional

NegotiatedExtensions(card) == Requested \cap DeclaredExtensions(card)

Usable(interface) == interface.version = "1.0" /\ interface.binding \in {"JSONRPC", "HTTP+JSON"}

\* Where the usable interfaces are in the card.
UsableAt(card) == {i \in DOMAIN card.interfaces : Usable(card.interfaces[i])}

SelectedInterface(card) == card.interfaces[Min(UsableAt(card))]
----------------------------------------------------------------------------
(***************************************************************************)
(* Security.                                                               *)
(***************************************************************************)

\* isSupportedAuthenticationScheme.
Supported(kind) == kind \in {"apiKey", "basic", "bearer", "oauth2"}

\* canProvide, of either provider.
CanProvide(provider, name, kind) ==
  \/ /\ provider.kind = "static"
     /\ provider.credentials[name] \in {"headers", kind}
     /\ Supported(kind)
  \/ /\ provider.kind = "workbench"
     /\ \/ provider.headers # {}
        \/ provider.oauth /\ kind = "oauth2"

Satisfies(provider, card, name) ==
  Supported(card.schemes[name]) /\ CanProvide(provider, name, card.schemes[name])

\* A requirement is met when one of its schemes is.
MeetsOneOf(provider, card, requirement) ==
  \E k \in DOMAIN requirement : Satisfies(provider, card, requirement[k])

Meets(provider, card, requirement) ==
  \A k \in DOMAIN requirement : Satisfies(provider, card, requirement[k])

\* Where the requirements the client meets are in the card.
MetAt(provider, card) ==
  {i \in DOMAIN card.requirements : Meets(provider, card, card.requirements[i])}

\* selectSecurityRequirement; a card without requirements has none selected.
Selectable(provider, card) ==
  \/ card.requirements = << >>
  \/ provider.kind # None /\ MetAt(provider, card) # {}

Selected(provider, card) ==
  IF card.requirements = << >> THEN << >> ELSE card.requirements[Min(MetAt(provider, card))]

\* The headers a scheme's credential of the package's provider goes into
\* (#headersForCredential).
HeadersOf(provider, card, name) ==
  CASE provider.credentials[name] = "headers" -> provider.custom[name]
    [] card.schemes[name] = "apiKey" -> {card.keyHeader[name]}
    [] OTHER -> {"Authorization"}

\* The schemes of a requirement that set a header, by their place in it.
SettersOf(provider, card, requirement, h) ==
  {k \in DOMAIN requirement : h \in HeadersOf(provider, card, requirement[k])}

LastOf(S) == CHOOSE k \in S : \A j \in S : j <= k

\* getHeaders: what each header is set to, the credential of a scheme or something of the
\* workbench's own.  A header set twice keeps its last value; the workbench sends the same
\* whatever the card requires.
Resolved(provider, card, requirement) ==
  CASE provider.kind = None -> << >>
    [] provider.kind = "static" ->
         [h \in {g \in Headers : SettersOf(provider, card, requirement, g) # {}} |->
            requirement[LastOf(SettersOf(provider, card, requirement, h))]]
    [] provider.kind = "workbench" ->
         [h \in provider.headers \cup (IF provider.oauth THEN {"Authorization"} ELSE {}) |->
            IF provider.oauth /\ h = "Authorization" THEN "token" ELSE "profile"]

\* The credentials a request carries: the policy fetch keeps the protected headers to itself.
Credentials(provider, card, requirement) ==
  LET resolved == Resolved(provider, card, requirement)
  IN  [h \in DOMAIN resolved \ Protected |-> resolved[h]]
----------------------------------------------------------------------------
\* What createState settles on for a card it can use: selectedInterface, negotiatedExtensions
\* and securityRequirement, together with the card.
Connection(provider, card) ==
  [card |-> card, interface |-> SelectedInterface(card),
   extensions |-> NegotiatedExtensions(card), requirement |-> Selected(provider, card)]

\* Whether createState gets as far as asking the URL policy about the interface.
Negotiable(card) == RequiredAreRequested(card) /\ UsableAt(card) # {}
=============================================================================
