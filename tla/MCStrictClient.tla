--------------------------- MODULE MCStrictClient ---------------------------
(***************************************************************************)
(* Small instances of StrictClient: cards that differ in their interfaces, *)
(* extensions and requirements, some of them of no use to the client, and  *)
(* clients with either provider or with none.  Credentials of one request  *)
(* meet in the header Authorization, and a card asks for its API key in a  *)
(* header that is protected.                                               *)
(***************************************************************************)
EXTENDS StrictClient

JsonRpc(version, site) == [binding |-> "JSONRPC", version |-> version, site |-> site]
Rest(site) == [binding |-> "HTTP+JSON", version |-> "1.0", site |-> site]
Grpc == [binding |-> "GRPC", version |-> "1.0", site |-> "old"]

Schemes(key, user, flow) == [n \in Names |-> CASE n = "key" -> key [] n = "user" -> user [] n = "flow" -> flow]

AllSchemes == Schemes("apiKey", "basic", "oauth2")

KeyIn(header) == [n \in Names |-> header]

MCCards ==
  {[interfaces |-> <<JsonRpc("1.0", "old")>>, required |-> {}, optional |-> {"a2ui"},
    schemes |-> Schemes(None, None, None), keyHeader |-> KeyIn("X-Key"),
    requirements |-> << >>],
   [interfaces |-> <<JsonRpc("0.3", "old"), Grpc, Rest("new"), JsonRpc("1.0", "old")>>, required |-> {"a2ui"}, optional |-> {"other"},
    schemes |-> AllSchemes, keyHeader |-> KeyIn("X-Key"),
    requirements |-> <<<<"flow", "key">>, <<"key">>>>],
   [interfaces |-> <<Rest("new")>>, required |-> {}, optional |-> {},
    schemes |-> AllSchemes, keyHeader |-> KeyIn("X-Key"),
    requirements |-> <<<<"user", "flow">>>>],
   [interfaces |-> <<Rest("new")>>, required |-> {"other"}, optional |-> {},
    schemes |-> AllSchemes, keyHeader |-> KeyIn("X-Key"),
    requirements |-> << >>],
   [interfaces |-> <<Grpc>>, required |-> {}, optional |-> {},
    schemes |-> AllSchemes, keyHeader |-> KeyIn("X-Key"),
    requirements |-> << >>],
   [interfaces |-> <<Rest("new")>>, required |-> {}, optional |-> {},
    schemes |-> Schemes("apiKey", None, None), keyHeader |-> KeyIn("A2A-Version"),
    requirements |-> <<<<"user">>, <<"key">>>>],
   [interfaces |-> <<Rest("new")>>, required |-> {}, optional |-> {},
    schemes |-> Schemes("query", "digest", "oauth2User"), keyHeader |-> KeyIn("X-Key"),
    requirements |-> <<<<"key">>, <<"user">>, <<"flow">>, << >>>>]}

NoCustom == [n \in Names |-> {}]

MCClients ==
  {[kind |-> None],
   [kind |-> "static", custom |-> NoCustom,
    credentials |-> [n \in Names |-> CASE n = "key" -> "apiKey" [] n = "user" -> "basic" [] n = "flow" -> "oauth2"]],
   [kind |-> "static", custom |-> [NoCustom EXCEPT !["key"] = {"X-Key", "Authorization"}],
    credentials |-> [n \in Names |-> CASE n = "key" -> "headers" [] n = "user" -> None [] n = "flow" -> "oauth2"]],
   [kind |-> "workbench", headers |-> {}, oauth |-> TRUE],
   [kind |-> "workbench", headers |-> {"X-Key"}, oauth |-> FALSE],
   [kind |-> "workbench", headers |-> {"X-Key", "Authorization"}, oauth |-> TRUE]}
=============================================================================
