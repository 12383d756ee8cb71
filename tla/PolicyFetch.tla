---------------------------- MODULE PolicyFetch ----------------------------
(***************************************************************************)
(* One request of the client to an agent, from the call of the function    *)
(* that createPolicyFetch returns (packages/client/src/network.ts) to its  *)
(* response, and the stream of events that the response may be.            *)
(*                                                                         *)
(* One timer covers the credentials, every hop of a chain of redirects and *)
(* the body of an answer, but not the stream.  The URL policy is asked     *)
(* before each request, and once more about the target of a redirect; it   *)
(* resolves names anew, so it may change its mind.  The body of a request  *)
(* is consumed by the first fetch.                                         *)
(*                                                                         *)
(* A stream is read in chunks that may end between any two tokens; a chunk *)
(* is passed on when the frames it completes are validated.                *)
(***************************************************************************)
EXTENDS SseFrames

CONSTANTS
  Origins,       \* origins of URLs
  Calls,         \* the calls made; see Call
  MaxRedirects,  \* options.maxRedirects
  MaxTokens,     \* options.maxResponseBytes, in tokens of a stream
  Streams        \* the texts agents stream

NoUrl == "none"

Streaming == {"sendStreamingMessage", "subscribeToTask"}

\* The paths inferOperation knows, in the order it tries them, each by the operation it
\* stands for.
KnownPaths ==
  <<"discover", "getExtendedAgentCard", "sendMessage", "sendStreamingMessage", "cancelTask",
    "subscribeToTask", "getTask", "listTasks">>

Operations == {KnownPaths[i] : i \in DOMAIN KnownPaths}

\* A call of an operation over a binding, at a URL whose path is that of an operation or
\* another one; the transport for HTTP+JSON calls each operation at its own path.  provider:
\* headers are to be had from a credential provider.
Call ==
  {c \in [operation: Operations, binding: {"JSONRPC", "HTTP+JSON", "none"}, origin: Origins,
          path: Operations \cup {"other"}, provider: BOOLEAN] :
     c.binding = "HTTP+JSON" => c.path = c.operation}

ASSUME PolicyFetchAssumption ==
  /\ Calls \subseteq Call
  /\ MaxRedirects \in Nat
  /\ MaxTokens \in Nat
  /\ Streams \subseteq Seq(Tokens)

\* A redirect by its kind: 301 and 302, 303, or 307 and 308.  A response is a stream or not,
\* a success or not, of a size within the limit or not, and valid or not.
Response ==
  [kind: {"found", "seeOther", "preserved"}, target: Origins \cup {NoUrl}]
    \cup [kind: {"body"}, ok: BOOLEAN, large: BOOLEAN, valid: BOOLEAN]
    \cup [kind: {"stream"}, text: Streams]

\* A request of a call: its body is yet to be sent or consumed, and it may carry credentials.
Request ==
  [origin: Origins, method: {"GET", "POST"}, body: {"none", "fresh", "used"}, secret: BOOLEAN]

VARIABLES
  call,       \* the call; never changes
  step,       \* what it waits for
  request,    \* the request of the current hop
  hops,       \* redirectCount
  response,   \* the response to the last request
  timer,      \* the timer of the call
  aborted,    \* the caller's signal
  outcome,    \* the response, or the code of the error the call ended with
  buffer,     \* text of the stream that is not a frame yet
  received,   \* tokens of the stream that arrived
  delivered,  \* tokens of the stream that were passed on
  ending,     \* how the stream ended
  sent,       \* history: the requests sent
  admitted    \* history: how many URLs the URL policy admitted

callVars == <<call, step, request, hops, response, timer, outcome, sent, admitted>>
streamVars == <<buffer, received, delivered, ending>>
vars == <<callVars, aborted, streamVars>>

Method(c) ==
  IF c.binding = "JSONRPC" \/ c.operation \in {"sendMessage", "cancelTask"} \cup Streaming THEN "POST"
  ELSE "GET"

Init ==
  /\ call \in Calls
  /\ step = "credentials"
  /\ request = [origin |-> call.origin, method |-> Method(call),
                body |-> IF Method(call) = "POST" THEN "fresh" ELSE "none", secret |-> FALSE]
  /\ hops = 0
  /\ response = [kind |-> "none"]
  /\ timer = "armed"
  /\ aborted = FALSE
  /\ outcome = "none"
  /\ buffer = << >>
  /\ received = 0
  /\ delivered = 0
  /\ ending = "none"
  /\ sent = << >>
  /\ admitted = 0
----------------------------------------------------------------------------
(***************************************************************************)
(* The operation of a request.                                             *)
(***************************************************************************)

\* Whether a path matches the pattern of an operation; that of a task matches every path
\* with one segment below /tasks.
Matches(path, operation) ==
  \/ path = operation
  \/ operation = "getTask" /\ path \in {"cancelTask", "subscribeToTask"}

PathOperation(path, order) ==
  LET known == {i \in DOMAIN order : Matches(path, order[i])}
  IN  IF known = {} THEN "other" ELSE order[Min(known)]

\* A task's path is tried before the paths of what is done to a task.
InferOperationByTaskFirst(c) ==
  LET found == PathOperation(c.path, <<"getTask">> \o KnownPaths)
  IN  IF found = "other" THEN c.operation ELSE found

\* A path that is none of these leaves it to the JSON-RPC method; the fallback is for calls
\* without one, which are discoveries.
InferOperation(c) ==
  LET found == PathOperation(c.path, KnownPaths)
  IN  IF found = "other" THEN c.operation ELSE found

\* validateRawProtocolRequest: a JSON-RPC method is that of the operation.
RequestFits == call.binding = "JSONRPC" => InferOperation(call) = call.operation
----------------------------------------------------------------------------
(***************************************************************************)
(* The end of a call.                                                      *)
(***************************************************************************)

Interrupted == aborted \/ timer = "fired"

\* The catch block calls every error after the timer a timeout, unless the caller aborted.
Reported(code) == IF timer = "fired" /\ ~aborted THEN "TIMEOUT" ELSE code

\* A timer that is left to itself.
LeaveTimer == UNCHANGED timer

\* The finally block.
ClearTimer == timer' = IF timer = "armed" THEN "cleared" ELSE timer

Fail(code) ==
  /\ outcome' = Reported(code)
  /\ step' = "done"
  /\ ClearTimer
  /\ UNCHANGED <<call, request, hops, response, sent, admitted, aborted, streamVars>>

Return ==
  /\ outcome' = IF timer = "fired" THEN "returnedLate" ELSE "returned"
  /\ step' = "done"
  /\ ClearTimer
  /\ UNCHANGED <<call, request, hops, sent, admitted, aborted>>
----------------------------------------------------------------------------
(***************************************************************************)
(* The hops of a call.                                                     *)
(***************************************************************************)

\* The provider's headers, if there is a provider, join those of the request.
TakeCredentials ==
  /\ step = "credentials"
  /\ step' = "policy"
  /\ request' = [request EXCEPT !.secret = call.provider]
  /\ UNCHANGED <<call, hops, response, timer, aborted, outcome, sent, admitted, streamVars>>

MissCredentials == step = "credentials" /\ call.provider /\ Fail("AUTHENTICATION_FAILED")

\* assertAllowed, before a request and about the target of a redirect.
Admit ==
  /\ step = "policy"
  /\ step' = "sending"
  /\ admitted' = admitted + 1
  /\ UNCHANGED <<call, request, hops, response, timer, aborted, outcome, sent, streamVars>>

Reject == step = "policy" /\ Fail("URL_POLICY_REJECTED")

\* fetch consumes the body, and sends nothing once the signal is aborted.
Send ==
  /\ step = "sending"
  /\ RequestFits
  /\ ~Interrupted
  /\ step' = "response"
  /\ sent' = Append(sent, request)
  /\ request' = [request EXCEPT !.body = IF @ = "none" THEN "none" ELSE "used"]
  /\ UNCHANGED <<call, hops, response, timer, aborted, outcome, admitted, streamVars>>

RefuseToSend ==
  /\ step = "sending"
  /\ \/ ~RequestFits /\ Fail("PROTOCOL_VIOLATION")
     \/ RequestFits /\ Interrupted /\ Fail("AbortError")

BecomesGet ==
  \/ response.kind = "seeOther"
  \/ response.kind = "found" /\ request.method = "POST"

\* A redirect that sends the body again.
RedirectedWithBody ==
  IF BecomesGet THEN [request EXCEPT !.origin = response.target, !.method = "GET", !.body = "none"]
  ELSE [request EXCEPT !.origin = response.target, !.body = IF @ = "used" THEN "fresh" ELSE @]

\* redirectRequest.
Redirected ==
  IF BecomesGet THEN [request EXCEPT !.origin = response.target, !.method = "GET", !.body = "none"]
  ELSE [request EXCEPT !.origin = response.target]

\* A redirect to wherever the URL policy admits, and one more than is allowed.
FollowedAnywhere == response.target # NoUrl /\ hops < MaxRedirects

FollowedOnceMore == response.target = call.origin /\ hops <= MaxRedirects

Followed == response.target = call.origin /\ hops < MaxRedirects

FollowRedirect ==
  /\ step = "redirect"
  /\ Followed
  /\ Redirected.body # "used"
  /\ step' = "policy"
  /\ request' = Redirected
  /\ hops' = hops + 1
  /\ admitted' = admitted + 1
  /\ UNCHANGED <<call, response, timer, aborted, outcome, sent, streamVars>>

\* No Location, another origin, one hop too many, or the policy's verdict on the target; or a
\* body that was consumed, of which no request can be made.
RefuseRedirect ==
  /\ step = "redirect"
  /\ \/ Fail("URL_POLICY_REJECTED")
     \/ Followed /\ Redirected.body = "used" /\ Fail("TypeError")

Validated == call.binding # "none" /\ InferOperation(call) \in Streaming

Respond(r) ==
  /\ step = "response"
  /\ ~Interrupted
  /\ response' = r
  /\ step' = IF r.kind = "stream" THEN "evidence" ELSE IF r.kind = "body" THEN "body" ELSE "redirect"
  /\ UNCHANGED <<call, request, hops, timer, aborted, outcome, sent, admitted, streamVars>>

\* What is checked of a body that is not a stream: of a success, and of whatever JSON-RPC
\* answers.
Checked ==
  \/ call.binding = "JSONRPC"
  \/ call.binding # "none" /\ response.ok

ReadBody ==
  /\ step = "body"
  /\ ~Interrupted
  /\ IF response.large THEN Fail("RESPONSE_TOO_LARGE")
     ELSE IF Checked /\ ~response.valid THEN Fail("PROTOCOL_VIOLATION")
     ELSE Return /\ UNCHANGED <<response, streamVars>>

\* A stream is handed over once its evidence is written, which the timer may outrun: the caller
\* then gets a stream whose signal is aborted.
HandOverStream ==
  /\ step = "evidence"
  /\ Return
  /\ ending' = "open"
  /\ UNCHANGED <<response, buffer, received, delivered>>

\* A signal that reaches the headers of an answer and not its body.
HearSignalOfFetch ==
  /\ step \in {"credentials", "response"}
  /\ Interrupted
  /\ Fail("AbortError")

\* The fetch and the reading of a body hear the combined signal, and so does the credential
\* provider, which is given it: both providers of the repository heed it.
HearSignal ==
  /\ step \in {"credentials", "response", "body"}
  /\ Interrupted
  /\ Fail("AbortError")

BreakConnection == step \in {"response", "body"} /\ Fail("NETWORK_ERROR")

FireTimer ==
  /\ timer = "armed"
  /\ timer' = "fired"
  /\ UNCHANGED <<call, step, request, hops, response, outcome, sent, admitted, aborted, streamVars>>

Abort ==
  /\ ~aborted
  /\ aborted' = TRUE
  /\ UNCHANGED <<callVars, streamVars>>
----------------------------------------------------------------------------
(***************************************************************************)
(* The stream.                                                             *)
(***************************************************************************)
Live == ending = "open"

End(how) ==
  /\ ending' = how
  /\ UNCHANGED <<callVars, aborted>>

AllSound(frames) == \A i \in DOMAIN frames : Sound(frames[i])

\* Each data line is a payload of its own.
PassesByLine(text) ==
  Validated => \A i \in DOMAIN Cut(text).frames :
                 \A k \in DataAt(Cut(text).frames[i]) : Cut(text).frames[i][k] = "whole"

Passes(text) == Validated => AllSound(Cut(text).frames)

\* The chunk that brings the stream to its nth token.
TakeChunk(n) ==
  /\ Live
  /\ n \in (received + 1)..Len(response.text)
  /\ LET text == buffer \o SubSeq(response.text, received + 1, n)
     IN  IF n > MaxTokens
         THEN End("RESPONSE_TOO_LARGE") /\ UNCHANGED <<buffer, received, delivered>>
         ELSE IF ~Passes(text)
         THEN End("STREAM_INVALID") /\ received' = n /\ UNCHANGED <<buffer, delivered>>
         ELSE /\ buffer' = Cut(text).rest
              /\ received' = n
              /\ delivered' = n
              /\ UNCHANGED <<callVars, aborted, ending>>

\* flush: what follows the last frame is a frame, its text passed on already.
EndOfStream ==
  /\ Live
  /\ received = Len(response.text)
  /\ End(IF Validated /\ ~Blank(buffer) /\ ~Sound(buffer) THEN "STREAM_INVALID" ELSE "closed")
  /\ UNCHANGED <<buffer, received, delivered>>

BreakStream ==
  /\ Live
  /\ End("NETWORK_ERROR")
  /\ UNCHANGED <<buffer, received, delivered>>

\* The signal of the request reaches its body.
AbortStream ==
  /\ Live
  /\ Interrupted
  /\ End("AbortError")
  /\ UNCHANGED <<buffer, received, delivered>>
----------------------------------------------------------------------------
Policy == Admit \/ Reject

CallSteps ==
  \/ TakeCredentials \/ MissCredentials \/ Policy \/ Send \/ RefuseToSend
  \/ FollowRedirect \/ RefuseRedirect \/ ReadBody \/ HandOverStream \/ HearSignal

Agent ==
  \/ \E r \in Response : Respond(r)
  \/ BreakConnection
  \/ \E n \in 1..(MaxTokens + 1) : TakeChunk(n)
  \/ EndOfStream \/ BreakStream

Next == CallSteps \/ Agent \/ FireTimer \/ Abort \/ AbortStream

Spec == Init /\ [][Next]_vars

\* The client's own steps are taken, and the timer fires; the agent may keep silent for ever,
\* and so may the provider, as long as it heeds the signal.
Fairness ==
  /\ WF_vars(Policy \/ Send \/ RefuseToSend \/ FollowRedirect \/ RefuseRedirect \/ HandOverStream)
  /\ WF_vars(HearSignal \/ AbortStream)
  /\ WF_vars(FireTimer)

FairSpec == Spec /\ Fairness
----------------------------------------------------------------------------
(***************************************************************************)
(* Properties.                                                             *)
(***************************************************************************)

\* Every variable keeps its type; a call that ended left no armed timer behind.
TypeOK ==
  /\ call \in Calls
  /\ step \in {"credentials", "policy", "sending", "response", "redirect", "body", "evidence", "done"}
  /\ request \in Request
  /\ hops \in 0..MaxRedirects
  /\ response \in Response \cup {[kind |-> "none"]}
  /\ timer \in {"armed", "fired", "cleared"} /\ (timer = "armed" <=> step # "done" /\ timer # "fired")
  /\ aborted \in BOOLEAN
  /\ outcome \in {"none", "returned", "returnedLate", "TIMEOUT", "AbortError", "AUTHENTICATION_FAILED",
                  "URL_POLICY_REJECTED", "PROTOCOL_VIOLATION", "RESPONSE_TOO_LARGE",
                  "NETWORK_ERROR", "TypeError"}
  /\ buffer \in Seq(Tokens)
  /\ received \in 0..MaxTokens /\ delivered \in 0..received
  /\ ending \in {"none", "open", "closed", "STREAM_INVALID", "RESPONSE_TOO_LARGE",
                 "NETWORK_ERROR", "AbortError"}
  /\ sent \in Seq(Request)
  /\ admitted \in Nat

\* Whatever chain of redirects the agent sends a call through, each of its requests, which
\* carry the credentials, goes to the origin the call was made to and has a verdict of the URL
\* policy of its own (the loop of createPolicyFetch).
RequestsStayAdmitted ==
  /\ Len(sent) <= admitted
  /\ \A i \in DOMAIN sent : sent[i].origin = call.origin

\* No chain of redirects delivers a message twice: the body of a call is in one request at most
\* (redirectRequest).
BodyIsSentOnce ==
  \A i, j \in DOMAIN sent : sent[i].body # "none" /\ sent[j].body # "none" => i = j

\* The frames of a whole stream, what follows the last one among them.
Events(text) == Append(Parsed(text).frames, Parsed(text).rest)

\* Whether the validator cuts a text where the standard does: a frame written with carriage
\* returns and line feeds has no more than one data line.
OneLineFrames(text) ==
  (\E i \in 1..(Len(text) - 1) : text[i] = "CR" /\ text[i + 1] = "LF")
    => LET events == Events(text)
       IN  \A i \in DOMAIN events : \A j, k \in DataAt(events[i]) : j = k

\* However an agent's stream is cut into chunks, every complete event passed on to the reader of
\* a streaming operation is valid, with the frames of the standard the reader goes by; and at the
\* end of the stream what follows the last frame is valid too (validateSseResponse).
EventsAreValidated ==
  LET text == SubSeq(response.text, 1, delivered)
  IN  call.operation \in Streaming /\ call.binding # "none" /\ response.kind = "stream"
        /\ OneLineFrames(response.text)
      => /\ AllSound(Parsed(text).frames)
         /\ ending = "closed" => AllSound(Events(text))

\* An event that is refused is invalid: a stream, cut into whatever chunks, is found invalid
\* only when one of its events is (validateAvailableFrames).
RefusalIsEarned ==
  ending = "STREAM_INVALID" /\ OneLineFrames(response.text) => ~AllSound(Events(response.text))

\* A stream all of whose events are valid is not found invalid, whatever line ends it is written
\* with ("Each SSE data payload is decoded and validated independently",
\* docs/architecture/protocol-contract.md:93).
ValidStreamsPass == ending = "STREAM_INVALID" => ~AllSound(Events(response.text))

\* The timer of a call spares its stream: a stream that was handed over in time ends with an
\* AbortError only when the caller aborted (the finally block of createPolicyFetch).
TimerSparesStreams == ending = "AbortError" => aborted \/ outcome = "returnedLate"

\* Every call ends, whatever the agent and the redirects do and however long the provider is
\* silent, for the timer runs over all of them; and the caller's abort ends its stream
\* (createPolicyFetch).  Of the provider it supposes that it heeds the signal it is given.
CallsSettle ==
  /\ <>(step = "done")
  /\ aborted ~> step = "done" /\ ~Live
=============================================================================
