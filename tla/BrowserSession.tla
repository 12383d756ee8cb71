-------------------------- MODULE BrowserSession --------------------------
(***************************************************************************)
(* The session of the workbench page (src/components/workbench-client.tsx) *)
(* and the command stream the route serves to it (src/app/api/a2a/stream). *)
(*                                                                         *)
(* Every run is one call of sendPrompt, an asynchronous function with its  *)
(* own AbortController that reads the route's stream until it ends, fails  *)
(* or is aborted, and writes what it reads into the one session the page   *)
(* shows.  A run may outlive the moment the page stops showing it as       *)
(* streaming: the page accepts the next run as soon as the state it has    *)
(* rendered is not "streaming".                                            *)
(*                                                                         *)
(* React's part: what a handler or a continuation sets is visible to the   *)
(* operator's next event only once rendered, and the effect that aborts a  *)
(* controller when it is replaced runs after rendering (Commit).  An event *)
(* of the operator is rendered, with its effects, before the next event.   *)
(* JavaScript's part: the continuation of a read that an abort rejected    *)
(* runs before any other event (Settled).                                  *)
(*                                                                         *)
(* Left out: the frames that only reach the inspector, A2UI surfaces, the  *)
(* wording of messages, and the operator's edits of the form.              *)
(***************************************************************************)
EXTENDS Naturals, Sequences

CONSTANTS
  MaxRuns,    \* bound on the number of runs started
  MaxResets,  \* bound on the number of clears and mode changes
  MaxFrames   \* bound on the frames the route sends a run before it ends it

Runs == 1..MaxRuns

NoRun == 0

Modes == {"strict", "compatibility"}

Frames == {"meta", "failed", "text", "error", "doneOk", "doneNotOk"}

Roles == {"user", "assistant", "error", "aborted"}

ASSUME SessionAssumption ==
  /\ MaxRuns \in Nat
  /\ MaxResets \in Nat
  /\ MaxFrames \in Nat

VARIABLES
  mode,        \* the selected client mode
  started,     \* the number of runs started; the last one is run "started"
  reader,      \* where the sendPrompt call of each run stands
  aborted,     \* the signal of the run's controller
  controller,  \* abortController as last set: the run it belongs to, or NoRun
  runState,    \* runState as last set
  failedRef,   \* failedStatusRef: the current run has reported a failed status
  chat,        \* the transcript: who wrote into it, in which run
  context,     \* contextId as last set: the run that learned it, or NoRun
  rendered,    \* abortController, runState and contextId as the page last rendered them
  server,      \* the route's end of each run's stream
  served,      \* how many frames the route has sent before the end
  wire,        \* frames on their way to the page
  epoch,       \* history: the number of clears and mode changes
  origin,      \* history: mode, epoch and context each run was started with
  asked,       \* history: the operator stopped the run
  completed    \* history: the page has read "done" with ok from the run

page == <<mode, started, rendered>>
session == <<runState, failedRef, chat, context>>
route == <<server, served, wire>>
history == <<epoch, origin, asked, completed>>
vars == <<mode, started, reader, aborted, controller, runState, failedRef, chat,
          context, rendered, server, served, wire, epoch, origin, asked, completed>>

\* What handlers and effects of the page see once everything set is rendered.
Current == [controller |-> controller, state |-> runState, context |-> context]

Init ==
  /\ mode \in Modes
  /\ started = 0
  /\ reader = [r \in Runs |-> "unused"]
  /\ aborted = [r \in Runs |-> FALSE]
  /\ controller = NoRun
  /\ runState = "idle"
  /\ failedRef = FALSE
  /\ chat = {}
  /\ context = NoRun
  /\ rendered = Current
  /\ server = [r \in Runs |-> "none"]
  /\ served = [r \in Runs |-> 0]
  /\ wire = [r \in Runs |-> << >>]
  /\ epoch = 0
  /\ origin = [r \in Runs |-> [mode |-> mode, epoch |-> 0, context |-> NoRun]]
  /\ asked = [r \in Runs |-> FALSE]
  /\ completed = [r \in Runs |-> FALSE]
----------------------------------------------------------------------------
Open(r) == reader[r] = "open"

Live(r) == Open(r) /\ ~aborted[r]

\* No run has yet to notice that it was aborted.
Settled == \A r \in Runs : Open(r) => ~aborted[r]

Entry(r, role) == [run |-> r, role |-> role]

\* The signals after the controller of run r, if any, is aborted.
Abort(r) == [s \in Runs |-> aborted[s] \/ s = r]

\* Rendering runs the effect that aborts a controller which was replaced.
AfterCleanup(newController) ==
  IF newController = rendered.controller THEN aborted ELSE Abort(rendered.controller)
----------------------------------------------------------------------------
(***************************************************************************)
(* What the operator does.                                                 *)
(***************************************************************************)

\* The run the operator starts, and what it sends.
Start(r) ==
  /\ started' = r
  /\ reader' = [reader EXCEPT ![r] = "open"]
  /\ server' = [server EXCEPT ![r] = "requested"]
  /\ origin' = [origin EXCEPT ![r] =
       [mode |-> mode, epoch |-> epoch, context |-> rendered.context]]
  /\ controller' = r
  /\ runState' = "streaming"
  /\ failedRef' = FALSE
  /\ chat' = chat \cup {Entry(r, "user")}
  /\ UNCHANGED <<mode, context, served, wire, epoch, asked, completed>>
  /\ rendered' = Current'

\* Without the effect that aborts the controller run r replaces.
RunWithoutCleanup ==
  /\ Settled
  /\ started < MaxRuns /\ rendered.state # "streaming"
  /\ Start(started + 1)
  /\ UNCHANGED aborted

\* sendPrompt, up to its first await.
Run ==
  /\ Settled
  /\ started < MaxRuns /\ rendered.state # "streaming"
  /\ Start(started + 1)
  /\ aborted' = AfterCleanup(started + 1)

\* sendStructuredMessage with Parts that do not make a message.
RejectDraft ==
  /\ Settled
  /\ rendered.state # "streaming"
  /\ runState' = "failed"
  /\ aborted' = AfterCleanup(controller)
  /\ UNCHANGED <<mode, started, reader, controller, failedRef, chat, context, route, history>>
  /\ rendered' = Current'

\* The operator stops the run whose controller the page holds.
Stop ==
  asked' = [s \in Runs |-> asked[s] \/ (s = rendered.controller /\ Open(s))]

\* abortRun.  The button is enabled while the page shows a streaming run.
AbortRun ==
  /\ Settled
  /\ rendered.state = "streaming"
  /\ aborted' = Abort(rendered.controller)
  /\ Stop
  /\ UNCHANGED <<page, reader, controller, session, route, epoch, origin, completed>>

\* The session starts over: what resetRun and the mode effect have in common.
StartOver(newContext) ==
  /\ Settled
  /\ epoch < MaxResets
  /\ epoch' = epoch + 1
  /\ aborted' = Abort(rendered.controller)
  /\ Stop
  /\ runState' = "idle"
  /\ failedRef' = FALSE
  /\ chat' = {}
  /\ context' = newContext
  /\ UNCHANGED <<started, reader, controller, route, origin, completed>>
  /\ rendered' = Current'

\* Without setContextId("").
ClearKeepingContext ==
  /\ StartOver(context)
  /\ UNCHANGED mode

\* resetRun, the Clear button.
Clear ==
  /\ StartOver(NoRun)
  /\ UNCHANGED mode

\* The mode selector, and the effect of the changed mode.
ChangeMode ==
  /\ StartOver(NoRun)
  /\ mode' \in Modes \ {mode}
----------------------------------------------------------------------------
(***************************************************************************)
(* React renders what continuations have set since.                        *)
(***************************************************************************)

Commit ==
  /\ Settled
  /\ rendered # Current
  /\ rendered' = Current
  /\ aborted' = AfterCleanup(controller)
  /\ UNCHANGED <<mode, started, reader, controller, session, route, history>>
----------------------------------------------------------------------------
(***************************************************************************)
(* The continuations of sendPrompt.                                        *)
(***************************************************************************)

\* handleWorkbenchFrame, for the frames that reach the session.
HandleMeta(r) ==
  /\ context' = r
  /\ UNCHANGED <<runState, failedRef, chat, completed>>

HandleFailedStatus(r) ==
  /\ failedRef' = TRUE
  /\ runState' = "failed"
  /\ UNCHANGED <<chat, context, completed>>

HandleText(r) ==
  /\ chat' = chat \cup {Entry(r, "assistant")}
  /\ UNCHANGED <<runState, failedRef, context, completed>>

HandleError(r) ==
  /\ chat' = chat \cup {Entry(r, "error")}
  /\ runState' = "failed"
  /\ UNCHANGED <<failedRef, context, completed>>

\* "done" taken as success, whatever it reports.
HandleDoneAsSuccess(r, ok) ==
  /\ runState' = "complete"
  /\ completed' = [completed EXCEPT ![r] = @ \/ ok]
  /\ UNCHANGED <<failedRef, chat, context>>

HandleDone(r, ok) ==
  /\ runState' = IF runState \in {"aborted", "failed"} \/ failedRef THEN runState
                 ELSE IF ok THEN "complete" ELSE "failed"
  /\ completed' = [completed EXCEPT ![r] = @ \/ ok]
  /\ UNCHANGED <<failedRef, chat, context>>

Handle(r, frame) ==
  \/ frame = "meta" /\ HandleMeta(r)
  \/ frame = "failed" /\ HandleFailedStatus(r)
  \/ frame = "text" /\ HandleText(r)
  \/ frame = "error" /\ HandleError(r)
  \/ frame = "doneOk" /\ HandleDone(r, TRUE)
  \/ frame = "doneNotOk" /\ HandleDone(r, FALSE)

\* One turn of the read loop, taken frame by frame.
ReadFrame(r) ==
  /\ Settled
  /\ Open(r) /\ wire[r] # << >>
  /\ Handle(r, Head(wire[r]))
  /\ wire' = [wire EXCEPT ![r] = Tail(@)]
  /\ UNCHANGED <<page, reader, aborted, controller, server, served, epoch, origin, asked>>

\* The call returns; its finally block drops the controller, whosever it is.
Return(r) ==
  /\ reader' = [reader EXCEPT ![r] = "ended"]
  /\ wire' = [wire EXCEPT ![r] = << >>]
  /\ controller' = NoRun
  /\ UNCHANGED <<page, aborted, served, history>>

\* The stream ends.
ReadEnd(r) ==
  /\ Settled
  /\ Open(r) /\ wire[r] = << >> /\ server[r] \in {"closed", "foreign"}
  /\ Return(r)
  /\ UNCHANGED <<session, server>>

\* The catch block of a run that was aborted, without its state update.
CatchAbortQuietly(r) ==
  /\ Open(r) /\ aborted[r]
  /\ chat' = chat \cup {Entry(r, "aborted")}
  /\ server' = [server EXCEPT ![r] = "closed"]
  /\ Return(r)
  /\ UNCHANGED <<runState, failedRef, context>>

\* The catch block, for a run that was aborted.
CatchAbort(r) ==
  /\ Open(r) /\ aborted[r]
  /\ runState' = "aborted"
  /\ chat' = chat \cup {Entry(r, "aborted")}
  /\ server' = [server EXCEPT ![r] = "closed"]
  /\ Return(r)
  /\ UNCHANGED <<failedRef, context>>

\* The catch block that shows the kind of failure as the state of the run.
CatchFailureByKind(r) ==
  /\ Settled
  /\ Open(r)
  /\ runState' = "networkError"
  /\ server' = [server EXCEPT ![r] = "closed"]
  /\ Return(r)
  /\ UNCHANGED <<failedRef, chat, context>>

\* The catch block, when the request or the stream failed.
CatchFailure(r) ==
  /\ Settled
  /\ Open(r)
  /\ runState' = "failed"
  /\ server' = [server EXCEPT ![r] = "closed"]
  /\ Return(r)
  /\ UNCHANGED <<failedRef, chat, context>>
----------------------------------------------------------------------------
(***************************************************************************)
(* The route's end of a stream.  The page may rely on what EventStream     *)
(* promises, which CommandRoute implements, and on nothing else: the route *)
(* takes any step that EventStream allows.                                 *)
(***************************************************************************)

Stream(r) == INSTANCE EventStream WITH
  phase <- IF server[r] = "foreign" THEN "closed" ELSE server[r],
  wire <- wire[r]

\* Frames are added to a stream the route still has to do with.
Add(r, frames) ==
  /\ server[r] \notin {"none", "closed", "foreign"}
  /\ wire' = [wire EXCEPT ![r] = @ \o frames]
  /\ \E phase \in Stream(r)!Phases : server' = [server EXCEPT ![r] = phase]

RouteOnly == UNCHANGED <<page, reader, aborted, controller, session, history>>

ServePayload(r) ==
  /\ served[r] < MaxFrames
  /\ \E frame \in Frames : Add(r, <<frame>>)
  /\ Stream(r)!Serve
  /\ served' = [served EXCEPT ![r] = @ + 1]
  /\ RouteOnly

ServeError(r) ==
  /\ Add(r, <<"error">>)
  /\ Stream(r)!ReportError
  /\ UNCHANGED served /\ RouteOnly

ServeDone(r) ==
  /\ \E frame \in Frames : Add(r, <<frame>>)
  /\ Stream(r)!ReportDone
  /\ UNCHANGED served /\ RouteOnly

Close(r) ==
  /\ Add(r, << >>)
  /\ Stream(r)!Close
  /\ UNCHANGED served /\ RouteOnly

\* Something in front of the route answers in its place, with a page that holds no
\* frame; sendPrompt does not look at the status of the answer.
AnswerForRoute(r) ==
  /\ server[r] = "requested"
  /\ server' = [server EXCEPT ![r] = "foreign"]
  /\ UNCHANGED <<page, reader, aborted, controller, session, served, wire, history>>
----------------------------------------------------------------------------
Operator == Run \/ RejectDraft \/ AbortRun \/ Clear \/ ChangeMode

Reader(r) == ReadFrame(r) \/ ReadEnd(r) \/ CatchAbort(r) \/ CatchFailure(r)

Route(r) == ServePayload(r) \/ ServeError(r) \/ ServeDone(r) \/ Close(r) \/ AnswerForRoute(r)

Next == Operator \/ Commit \/ \E r \in Runs : Reader(r) \/ Route(r)

(***************************************************************************)
(* React renders what was set, JavaScript resumes a pending read, and the  *)
(* route ends every stream it serves.  The operator owes nothing.          *)
(***************************************************************************)
Fairness ==
  /\ WF_vars(Commit)
  /\ \A r \in Runs : WF_vars(ReadFrame(r) \/ ReadEnd(r)) /\ WF_vars(CatchAbort(r))
  /\ \A r \in Runs : WF_vars(ServeDone(r) \/ Close(r))

Spec == Init /\ [][Next]_vars

FairSpec == Spec /\ Fairness
----------------------------------------------------------------------------
(***************************************************************************)
(* Properties.                                                             *)
(***************************************************************************)

RunStates == {"idle", "streaming", "complete", "failed", "aborted"}

\* Every variable keeps its type.
TypeOK ==
  /\ mode \in Modes
  /\ started \in 0..MaxRuns
  /\ reader \in [Runs -> {"unused", "open", "ended"}]
  /\ aborted \in [Runs -> BOOLEAN]
  /\ controller \in 0..MaxRuns
  /\ runState \in RunStates
  /\ failedRef \in BOOLEAN
  /\ chat \subseteq [run: Runs, role: Roles]
  /\ context \in 0..MaxRuns
  /\ rendered \in [controller: 0..MaxRuns, state: RunStates, context: 0..MaxRuns]
  /\ server \in [Runs -> {"none", "requested", "serving", "servingFailed", "failing",
                          "done", "closed", "foreign"}]
  /\ served \in [Runs -> Nat]
  /\ wire \in [Runs -> Seq(Frames)]
  /\ epoch \in Nat
  /\ origin \in [Runs -> [mode: Modes, epoch: Nat, context: 0..MaxRuns]]
  /\ asked \in [Runs -> BOOLEAN]
  /\ completed \in [Runs -> BOOLEAN]

\* A run that is still read and has not been told to stop is the last one started,
\* belongs to the session as it is since the last clear or mode change, and can be
\* stopped from the page.
OneLiveRun ==
  \A r \in Runs :
    Live(r) => r = started /\ origin[r].epoch = epoch /\ rendered.controller = r

\* A run continues the conversation of an earlier run only within one session: after
\* Clear or a mode change no run is sent the contextId of a run from before.
ContextStaysInSession ==
  \A r \in Runs :
    origin[r].context # NoRun => origin[origin[r].context].epoch = origin[r].epoch

\* The page shows a run as complete only if that run, the last one started, has
\* reported ok, however earlier runs end in the meantime.
CompleteIsEarned ==
  \A s \in {runState, rendered.state} : s = "complete" => started # 0 /\ completed[started]

\* Text and errors enter the transcript only from the run that was started last, and
\* only while the session it was started in lasts.
OnlyCurrentRunSpeaks ==
  [][\A e \in chat' \ chat :
       e.role \in {"assistant", "error"} => e.run = started /\ origin[e.run].epoch = epoch]_vars

\* Unless something answered the last run in place of the route, the page leaves
\* "streaming" again and again: no run, aborted, broken, overtaken or finished, leaves
\* it there for good.
EveryRunSettles ==
  []<>(rendered.state # "streaming" \/ (started # 0 /\ server[started] = "foreign"))

\* workbench-client.tsx:616 "Stream aborted by operator.", frontend-c4-model.md:395
\* "Streaming --> Aborted: abort": a run is aborted because the operator asked, or at
\* most because the operator started another.
OnlyOperatorAborts ==
  \A r \in Runs : Entry(r, "aborted") \in chat => asked[r] \/ r # started
=============================================================================
