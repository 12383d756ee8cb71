--------------------------- MODULE MCPolicyFetch ---------------------------
(***************************************************************************)
(* Small instances of PolicyFetch: calls of either binding, of streams and *)
(* of other operations, one of them to a JSON-RPC endpoint whose path is   *)
(* one of the other binding's; streams of up to two frames, the last one   *)
(* terminated or not, in each of the three line ends.                      *)
(***************************************************************************)
EXTENDS PolicyFetch

MCCalls ==
  {[operation |-> "discover", binding |-> "none", origin |-> "home", path |-> "discover",
    provider |-> FALSE]}
  \cup {[operation |-> o, binding |-> "HTTP+JSON", origin |-> "home", path |-> o, provider |-> TRUE] :
          o \in {"sendMessage", "getTask", "subscribeToTask"}}
  \cup {[operation |-> o, binding |-> "JSONRPC", origin |-> "home", path |-> "other", provider |-> FALSE] :
          o \in {"sendStreamingMessage", "getTask"}}
  \cup {[operation |-> "getTask", binding |-> "JSONRPC", origin |-> "home", path |-> "listTasks",
         provider |-> FALSE]}

LineEndings == {<<"LF">>, <<"CR">>, <<"CR", "LF">>}

FrameLines == {<<"whole">>, <<"head", "rest">>, <<"whole", "whole">>, <<"other", "bad">>, <<"other", "whole">>}

\* A frame is its lines, each with its end, and an empty line.
Written(lines, end) ==
  FoldLeft(LAMBDA text, line : text \o <<line>> \o end, << >>, lines)

MCStreams ==
  {Written(f, e) \o e \o Written(g, e) : f \in FrameLines, g \in FrameLines, e \in LineEndings}
  \cup {Written(f, e) \o e : f \in FrameLines, e \in LineEndings}
=============================================================================
