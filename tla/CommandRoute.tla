---------------------------- MODULE CommandRoute ----------------------------
(***************************************************************************)
(* One command served by the route (src/app/api/a2a/stream/route.ts), from *)
(* its body to the end of the stream of frames: the adapter that runs it   *)
(* (src/lib/workbench-client-adapter.ts), the strict client's operations   *)
(* (packages/client/src/client.ts), the compatibility client's             *)
(* (packages/client/src/compat), and the limit on the time of a request    *)
(* (packages/client/src/network.ts).                                       *)
(*                                                                         *)
(* Three parties act at once: the route, the agent, whose events come at   *)
(* their own pace, and the page, which may abort the request and give up   *)
(* the stream, in either order.  A frame enqueued on a stream given up     *)
(* throws where it is enqueued.                                            *)
(*                                                                         *)
(* Left out: evidence and A2UI frames, and what a frame says beyond the    *)
(* failure it tells of.                                                    *)
(***************************************************************************)
EXTENDS Naturals, Sequences, SequencesExt

CONSTANTS
  Tasks,       \* identifiers of tasks
  NoTask,      \* no identifier
  Asked,       \* the tasks commands name
  TaskStates,  \* the task states events report
  MaxEvents    \* bound on the events of a stream

Operations == {"connect", "sendMessage", "sendStreamingMessage", "getTask", "listTasks",
               "cancelTask", "subscribeToTask", "getExtendedAgentCard"}

Streaming == {"sendStreamingMessage", "subscribeToTask"}

\* TERMINAL_TASK_STATES, and FAILED_A2A_STATES.
TerminalStates == {"completed", "failed", "canceled", "rejected"}

FailedStates == {"failed", "canceled", "rejected"}

ASSUME CommandAssumption ==
  /\ NoTask \notin Tasks
  /\ Asked \subseteq Tasks
  /\ MaxEvents \in Nat

Event ==
  [kind: {"task", "status"}, task: Tasks, state: TaskStates]
    \cup [kind: {"artifact"}, task: Tasks, state: {"none"}]
    \cup [kind: {"message"}, task: Tasks \cup {NoTask}, state: {"none"}]
    \cup [kind: {"malformed"}, task: {NoTask}, state: {"none"}]

\* What the agent may answer an operation that is not a stream with.
Answer ==
  {e \in Event : e.kind \in {"task", "message", "malformed"}}
    \cup [kind: {"list", "card"}, task: {NoTask}, state: {"none"}]

\* problem: what is wrong with the body.  It is not a JSON object that names a
\* connection ("unreadable"), or lacks what the operation requires ("incomplete").
\* capable: the Agent Card declares the capability the operation needs.
Command ==
  [mode: {"strict", "compatibility"}, operation: Operations \cup {"other"},
   task: Tasks \cup {NoTask}, problem: {"none", "unreadable", "incomplete"},
   oauth: BOOLEAN, capable: BOOLEAN]

VARIABLES
  command,    \* the command and the card it meets; never changes
  step,       \* what the route is doing
  line,       \* the agent's stream
  incoming,   \* events of the stream the route has not seen yet
  fresh,      \* no event of the stream was seen yet
  ok,         \* no payload told of a failure
  wire,       \* the frames sent to the page
  aborted,    \* request.signal
  cancelled,  \* the page's end of the stream is gone
  told,       \* history: every event the agent sent
  shown       \* history: the payloads of which frames were sent

vars == <<command, step, line, incoming, fresh, ok, wire, aborted, cancelled, told, shown>>

agentsPart == <<line, incoming, told>>
outcome == <<fresh, ok, shown>>

Strict == command.mode = "strict"

\* readOperation.
Operation == IF command.operation = "other" THEN "sendStreamingMessage" ELSE command.operation

\* Tasks are named only by operations that are about one; subscribing, getting and
\* cancelling require it.  OAuth is told apart in compatibility mode only, where every
\* card declares every capability.
Sensible(c) ==
  /\ c.task \in Asked \cup {NoTask}
  /\ IF c.mode = "strict" THEN ~c.oauth ELSE c.capable
  /\ c.operation = "other" => c.task = NoTask /\ ~c.oauth
  /\ c.operation \in {"connect", "listTasks", "getExtendedAgentCard"} => c.task = NoTask
  /\ c.operation \in {"getTask", "cancelTask", "subscribeToTask"} /\ c.problem = "none"
       => c.task # NoTask

Init ==
  /\ command \in {c \in Command : Sensible(c)}
  /\ step = "reading"
  /\ line = "none"
  /\ incoming = << >>
  /\ fresh = TRUE
  /\ ok = TRUE
  /\ wire = << >>
  /\ aborted = FALSE
  /\ cancelled = FALSE
  /\ told = << >>
  /\ shown = << >>
----------------------------------------------------------------------------
(***************************************************************************)
(* Sending frames.                                                         *)
(***************************************************************************)

Failing(e) == e.state \in FailedStates

Terminal(e) == e.state \in TerminalStates

\* The frames of a payload, its status under the name of its state.
FramesByState(e) ==
  CASE e.kind = "card" -> <<"agentCard">>
    [] e.kind = "list" -> <<"a2a">>
    [] e.kind \in {"task", "status"} -> <<"a2a", "meta", e.state>>
    [] e.kind \in {"message", "artifact"} -> <<"a2a", "meta", "text">>

\* processProtocolPayload, and the frame of an extended card.
Frames(e) ==
  CASE e.kind = "card" -> <<"agentCard">>
    [] e.kind = "list" -> <<"a2a">>
    [] e.kind \in {"task", "status"} ->
         <<"a2a", "meta", IF Failing(e) THEN "failed" ELSE "status">>
    [] e.kind \in {"message", "artifact"} -> <<"a2a", "meta", "text">>

\* The route goes on with "next" when its frames were enqueued, and fails otherwise.
Emit(frames, next) ==
  IF cancelled
    THEN step' = "throwing" /\ UNCHANGED wire
    ELSE step' = next /\ wire' = wire \o frames

Throw == step' = "throwing" /\ UNCHANGED <<wire, outcome>>

\* A payload that does not count after one that failed.
ShowUntilFailure(e, next) ==
  IF ok
    THEN /\ Emit(Frames(e), next)
         /\ ok' = ~Failing(e)
         /\ shown' = IF cancelled THEN shown ELSE Append(shown, e)
    ELSE step' = next /\ UNCHANGED <<wire, ok, shown>>

Show(e, next) ==
  /\ Emit(Frames(e), next)
  /\ ok' = (ok /\ (cancelled \/ ~Failing(e)))
  /\ shown' = IF cancelled THEN shown ELSE Append(shown, e)
----------------------------------------------------------------------------
(***************************************************************************)
(* The route.                                                              *)
(***************************************************************************)

Supported ==
  Strict \/ Operation \in {"connect", "sendMessage", "sendStreamingMessage"}

Proceed(from, to) ==
  /\ step = from /\ step' = to
  /\ UNCHANGED <<command, agentsPart, outcome, wire, aborted, cancelled>>

Fail ==
  /\ step' = "throwing"
  /\ UNCHANGED <<command, agentsPart, outcome, wire, aborted, cancelled>>

\* The body is read.  Strict mode discovers the card; compatibility mode knows the endpoint,
\* and gets its OAuth token before it connects.
ReadCommand ==
  Proceed("reading",
          IF command.problem = "unreadable" \/ ~Supported THEN "throwing"
          ELSE IF Strict THEN "connecting"
          ELSE IF command.oauth THEN "admitting" ELSE "resolving")

\* The URL policy allowed the token endpoint, and the endpoint gave a token.
Admit == Proceed("admitting", "authorizing")

Authorize == Proceed("authorizing", "resolving")

\* The card was found and verified, and an interface chosen.
Discover == Proceed("connecting", "resolving") \/ Proceed("readingCard", "resolving")

\* The body states what the operation requires: a message or a draft with valid Parts, a task,
\* a page size.
Stated == command.problem = "none"

\* The client has what it needs to carry the operation out.
Prepared ==
  /\ Stated
  /\ Strict /\ Operation \in Streaming \cup {"getExtendedAgentCard"} => command.capable

\* The frames of a connection; compatibility mode also shows its request.
Greeting ==
  IF Strict THEN <<"connection", "agentCard">>
  ELSE IF Operation # "connect" /\ Stated THEN <<"connection", "request">>
  ELSE <<"connection">>

\* The URL policy allowed the interface's endpoint; the operation is called in the same turn.
Connect ==
  /\ step = "resolving"
  /\ Emit(Greeting,
          IF Operation = "connect" THEN "returning"
          ELSE IF Prepared THEN "calling" ELSE "throwing")
  /\ UNCHANGED <<command, agentsPart, outcome, aborted, cancelled>>

ConcernsTask(e) == command.task = NoTask \/ e.task \in {NoTask, command.task}

\* The shapes the validators ask of a result of each operation, and of an event of a stream.
Valid(e) ==
  /\ e.kind # "malformed"
  /\ Operation = "listTasks" <=> e.kind = "list"
  /\ Operation = "getExtendedAgentCard" <=> e.kind = "card"
  /\ Operation = "sendMessage" => e.kind \in {"task", "message"}
  /\ Operation \in {"getTask", "cancelTask"} => e.kind = "task"

\* A client that compares only the first event of a subscription with its task.
AcceptedByFirst(e) ==
  /\ Valid(e)
  /\ Strict /\ Operation = "subscribeToTask" /\ fresh => e.kind = "task"
  /\ Strict /\ Operation # "sendStreamingMessage" /\ fresh => ConcernsTask(e)

\* What the client accepts; the strict one compares it with the task it asked for.
Accepted(e) ==
  /\ Valid(e)
  /\ Strict /\ Operation = "subscribeToTask" /\ fresh => e.kind = "task"
  /\ Strict /\ Operation # "sendStreamingMessage" => ConcernsTask(e)

\* An answer whose content type names an event stream: the policy fetch returns it unread, and
\* its reader has no timer.  (Discovery goes on with one that names JSON as well.)
AnswerAsStream ==
  \/ Proceed("connecting", "readingCard")
  \/ Operation \notin Streaming /\ Proceed("calling", "readingAnswer")

\* The agent answers an operation that is not a stream.
ReceiveAnswer ==
  /\ step \in {"calling", "readingAnswer"} /\ Operation \notin Streaming
  /\ \E e \in Answer :
       /\ told' = Append(told, e)
       /\ IF Accepted(e) THEN Show(e, "returning") /\ UNCHANGED fresh ELSE Throw
  /\ UNCHANGED <<command, line, incoming, aborted, cancelled>>

\* The response of a stream begins.
OpenStream ==
  /\ step = "calling" /\ Operation \in Streaming
  /\ step' = "streaming"
  /\ line' = "open"
  /\ UNCHANGED <<command, incoming, told, outcome, wire, aborted, cancelled>>

\* The strict client leaves the loop at a terminal state, the compatibility client reads on.
AfterEvent(e) == IF Strict /\ Terminal(e) THEN "returning" ELSE "streaming"

\* The loops that do not look for a terminal state.
TakeEventWhatever ==
  /\ step = "streaming" /\ incoming # << >>
  /\ incoming' = Tail(incoming)
  /\ LET e == Head(incoming)
     IN IF Accepted(e) THEN Show(e, "streaming") /\ fresh' = FALSE ELSE Throw
  /\ UNCHANGED <<command, line, told, aborted, cancelled>>

\* The loops of the client and the adapter take an event of the stream.
TakeEvent ==
  /\ step = "streaming" /\ incoming # << >>
  /\ incoming' = Tail(incoming)
  /\ LET e == Head(incoming)
     IN IF Accepted(e)
        THEN /\ Show(e, AfterEvent(e))
             /\ fresh' = FALSE
        ELSE Throw
  /\ UNCHANGED <<command, line, told, aborted, cancelled>>

\* The stream ends, or breaks, when every event was taken.
LeaveStream ==
  /\ step = "streaming" /\ incoming = << >> /\ line \in {"ended", "broken"}
  /\ step' = IF line = "broken" \/ (Strict /\ Operation = "subscribeToTask" /\ fresh)
             THEN "throwing" ELSE "returning"
  /\ UNCHANGED <<command, agentsPart, outcome, wire, aborted, cancelled>>

\* A request is on its way, or its answer: under the timer of the policy fetch, or without a
\* limit.  Compatibility mode gets its OAuth token without one.
Timed == step \in {"connecting", "calling"}

Unlimited == step \in {"authorizing", "readingCard", "readingAnswer"}

\* The URL policy has a name looked up, outside any request.
LookingUp == step \in {"admitting", "resolving"}

\* Refused, not understood, too large; rejected by a policy; the name is not known.
FailRequest == (Timed \/ Unlimited) /\ Fail

RejectUrl == LookingUp /\ Fail

\* A timer that is cleared once the agent is connected.
TimeOutConnecting == step = "connecting" /\ Fail

TimeOut == Timed /\ Fail

\* The signal reaches requests under a timer only.
HearAbortInTime == aborted /\ (Timed \/ step = "streaming") /\ Fail

\* The signal reaches every request and stream; nothing that looks up a name hears it.
HearAbort == aborted /\ (Timed \/ Unlimited \/ step = "streaming") /\ Fail

\* The command returned, and what it returned is not looked at.
ReportDoneOk ==
  /\ step = "returning"
  /\ Emit(<<"doneOk">>, "closing")
  /\ UNCHANGED <<command, agentsPart, outcome, aborted, cancelled>>

\* The command returned.
ReportDone ==
  /\ step = "returning"
  /\ Emit(<<IF ok THEN "doneOk" ELSE "doneNotOk">>, "closing")
  /\ UNCHANGED <<command, agentsPart, outcome, aborted, cancelled>>

\* The catch block.  What it cannot enqueue rejects the start of the stream.
Report(frame, next) ==
  /\ IF cancelled
       THEN step' = "ended" /\ UNCHANGED wire
       ELSE step' = next /\ wire' = Append(wire, frame)
  /\ UNCHANGED <<command, agentsPart, outcome, aborted, cancelled>>

ReportError == step = "throwing" /\ Report("error", "reporting")

ReportNotOk == step = "reporting" /\ Report("doneNotOk", "closing")

\* The finally block.
Close ==
  /\ step = "closing"
  /\ step' = "ended"
  /\ UNCHANGED <<command, agentsPart, outcome, wire, aborted, cancelled>>
----------------------------------------------------------------------------
(***************************************************************************)
(* The agent's end of a stream, while the route listens.                   *)
(***************************************************************************)

AgentTells ==
  /\ step = "streaming" /\ line = "open"
  /\ Len(told) < MaxEvents
  /\ \E e \in Event : told' = Append(told, e) /\ incoming' = Append(incoming, e)
  /\ UNCHANGED <<command, step, line, outcome, wire, aborted, cancelled>>

AgentEnds ==
  /\ step = "streaming" /\ line = "open"
  /\ line' = "ended"
  /\ UNCHANGED <<command, step, incoming, told, outcome, wire, aborted, cancelled>>

\* The stream breaks; events on their way may be lost, the last ones first.
AgentBreaks ==
  /\ step = "streaming" /\ line = "open"
  /\ line' = "broken"
  /\ \E n \in 0..Len(incoming) : incoming' = SubSeq(incoming, 1, n)
  /\ UNCHANGED <<command, step, told, outcome, wire, aborted, cancelled>>
----------------------------------------------------------------------------
(***************************************************************************)
(* The page's end.                                                         *)
(***************************************************************************)

Abort ==
  /\ ~aborted
  /\ aborted' = TRUE
  /\ UNCHANGED <<command, step, agentsPart, outcome, wire, cancelled>>

Cancel ==
  /\ ~cancelled
  /\ cancelled' = TRUE
  /\ UNCHANGED <<command, step, agentsPart, outcome, wire, aborted>>
----------------------------------------------------------------------------
Begin == ReadCommand \/ Admit \/ Authorize \/ Discover \/ Connect

Work == AnswerAsStream \/ ReceiveAnswer \/ OpenStream \/ TakeEvent \/ LeaveStream

Finish == ReportDone \/ ReportError \/ ReportNotOk \/ Close

Agent == AgentTells \/ AgentEnds \/ AgentBreaks

Next ==
  \/ Begin \/ Work \/ Finish
  \/ FailRequest \/ RejectUrl \/ TimeOut \/ HearAbort
  \/ Agent \/ Abort \/ Cancel

(***************************************************************************)
(* JavaScript goes on with what arrived, the timer of a request fires, an  *)
(* aborted request is rejected, and a look-up of a name ends, one way or   *)
(* the other.  Neither the agent nor the page owes anything.               *)
(***************************************************************************)
Fairness ==
  /\ WF_vars(ReadCommand \/ TakeEvent \/ LeaveStream \/ Finish)
  /\ WF_vars(Admit \/ Connect \/ RejectUrl)
  /\ WF_vars(TimeOut)
  /\ WF_vars(HearAbort)

Spec == Init /\ [][Next]_vars

FairSpec == Spec /\ Fairness
----------------------------------------------------------------------------
(***************************************************************************)
(* Properties.                                                             *)
(***************************************************************************)

\* Every variable keeps its type.
TypeOK ==
  /\ command \in Command
  /\ step \in {"reading", "admitting", "authorizing", "connecting", "readingCard", "resolving",
              "calling", "readingAnswer", "streaming", "returning", "throwing", "reporting",
              "closing", "ended"}
  /\ line \in {"none", "open", "ended", "broken"}
  /\ incoming \in Seq(Event)
  /\ fresh \in BOOLEAN
  /\ ok \in BOOLEAN
  /\ wire \in Seq({"connection", "agentCard", "request", "a2a", "meta", "status", "failed",
                  "text", "error", "doneOk", "doneNotOk"})
  /\ aborted \in BOOLEAN
  /\ cancelled \in BOOLEAN
  /\ told \in Seq(Event \cup Answer)
  /\ shown \in Seq(Event \cup Answer)

Phase ==
  CASE cancelled \/ step = "ended" -> "closed"
    [] ~cancelled /\ step = "closing" -> "done"
    [] ~cancelled /\ step = "reporting" -> "failing"
    [] OTHER -> IF Contains(wire, "failed") THEN "servingFailed"
                ELSE IF wire = << >> THEN "requested" ELSE "serving"

Page == INSTANCE EventStream WITH
  phase <- Phase,
  wire <- IF cancelled THEN << >> ELSE wire

\* However the agent's events, its failures, the timer, the page's abort and the loss of
\* the page interleave, the page reads a stream as EventStream promises it: one "done"
\* at its end, which says ok exactly if nothing before it told of a failure.
ImplementsEventStream == Page!Spec

\* The payloads the page is shown are the agent's, in the agent's order; and a command
\* that ends without an error has shown all of them, up to the terminal one in strict
\* mode, failures included.
NothingIsDropped ==
  /\ IsPrefix(shown, told)
  /\ step = "closing" /\ ~Contains(wire, "error")
       => shown = told \/ (Strict /\ shown # << >> /\ Terminal(Last(shown)))

\* A subscription shows the Task it is about first, then only what concerns it, and
\* nothing after its terminal state; one that ends without an error has shown a terminal
\* state, or the agent has ended the stream before there was one (client.ts:237 takes that
\* for an end like any other).
SubscriptionFollowsItsTask ==
  Strict /\ Operation = "subscribeToTask" =>
    /\ \A i \in DOMAIN shown :
         /\ i = 1 => shown[i].kind = "task"
         /\ ConcernsTask(shown[i])
         /\ Terminal(shown[i]) => i = Len(shown)
    /\ step = "closing" /\ ~Contains(wire, "error") =>
         shown # << >> /\ (Terminal(Last(shown)) \/ line = "ended")

\* A strict command ends once the agent has reported a terminal state, whether or not
\* the agent ends the stream.
TerminalEndsCommand ==
  (Strict /\ \E i \in DOMAIN told : Terminal(told[i])) ~> step = "ended"

\* A command that is not a stream ends whatever the agent does, or it waits for ever at one
\* of the places that have no timer: the OAuth token of compatibility mode, and the body of
\* an answer whose content type names an event stream.
AnswersEnd == Operation \notin Streaming => <>(step = "ended") \/ <>[]Unlimited

\* A command ends once the page has aborted it, wherever it waits.
AbortEndsCommand == aborted ~> step = "ended"
=============================================================================
