----------------------- MODULE BrowserSession_proofs -----------------------
(***************************************************************************)
(* Proofs about BrowserSession, for any number of runs, resets and frames. *)
(*                                                                         *)
(* The properties rest on one fact: what the rendered page holds as its    *)
(* abortController is the controller of the only run that is still live,   *)
(* so whatever overtakes that run (the next run, Clear, a mode change)     *)
(* aborts it in the same step.                                             *)
(***************************************************************************)
EXTENDS BrowserSession, SequenceTheorems, TLAPS

\* The controller last set is the rendered one, or has been dropped.
ControllerRendered ==
  /\ controller \in {NoRun, rendered.controller}
  /\ rendered.controller <= started

\* The contextId of the form, as set and as rendered, is of the present session.
ContextCurrent ==
  \A c \in {context, rendered.context} : c # NoRun => c <= started /\ origin[c].epoch = epoch

\* The contextId a run was sent was learned by an earlier run of its session.
OriginsConnected ==
  \A r \in Runs :
    origin[r].context # NoRun =>
      /\ origin[r].context <= started
      /\ origin[origin[r].context].epoch = origin[r].epoch

IInv ==
  /\ TypeOK
  /\ ControllerRendered
  /\ OneLiveRun
  /\ ContextCurrent
  /\ OriginsConnected
  /\ CompleteIsEarned
----------------------------------------------------------------------------
(***************************************************************************)
(* Types.                                                                  *)
(***************************************************************************)

LEMMA FramesAdded ==
  ASSUME NEW w \in [Runs -> Seq(Frames)], NEW r \in Runs, NEW f \in Seq(Frames)
  PROVE  [w EXCEPT ![r] = @ \o f] \in [Runs -> Seq(Frames)]
  OBVIOUS

LEMMA FramesTail ==
  ASSUME NEW w \in [Runs -> Seq(Frames)], NEW r \in Runs, w[r] # << >>
  PROVE  [w EXCEPT ![r] = Tail(@)] \in [Runs -> Seq(Frames)]
  OBVIOUS

LEMMA FramesDropped ==
  ASSUME NEW w \in [Runs -> Seq(Frames)], NEW r \in Runs
  PROVE  [w EXCEPT ![r] = << >>] \in [Runs -> Seq(Frames)]
  OBVIOUS

LEMMA TranscriptGrows ==
  ASSUME NEW c \in SUBSET [run: Runs, role: Roles], NEW r \in Runs, NEW role \in Roles
  PROVE  c \cup {Entry(r, role)} \in SUBSET [run: Runs, role: Roles]
<1>1. Entry(r, role) \in [run: Runs, role: Roles]
  BY DEF Entry
<1> QED
  BY <1>1

LEMMA ServedGrows ==
  ASSUME NEW f \in [Runs -> Nat], NEW r \in Runs
  PROVE  [f EXCEPT ![r] = @ + 1] \in [Runs -> Nat]
  OBVIOUS

\* Every way a step changes the signals keeps their type.
LEMMA SignalsType ==
  ASSUME aborted \in [Runs -> BOOLEAN]
  PROVE  /\ \A c : Abort(c) \in [Runs -> BOOLEAN]
         /\ \A c : AfterCleanup(c) \in [Runs -> BOOLEAN]
  BY DEF Abort, AfterCleanup

LEMMA RunType ==
  ASSUME TypeOK, Run
  PROVE  TypeOK'
<1> USE SessionAssumption DEF TypeOK, Runs, NoRun, RunStates, Roles
<1>1. started + 1 \in Runs
  BY DEF Run
<1>2. /\ started' \in 0..MaxRuns /\ reader' \in [Runs -> {"unused", "open", "ended"}]
      /\ controller' \in 0..MaxRuns /\ runState' \in RunStates /\ failedRef' \in BOOLEAN
  <2>1. /\ started' = started + 1 /\ controller' = started + 1 /\ runState' = "streaming"
        /\ failedRef' = FALSE /\ reader' = [reader EXCEPT ![started + 1] = "open"]
    BY DEF Run, Start
  <2>2. reader' \in [Runs -> {"unused", "open", "ended"}]
    BY <1>1, <2>1
  <2>3. started' \in 0..MaxRuns /\ controller' \in 0..MaxRuns
    BY <1>1, <2>1
  <2> QED
    BY <2>1, <2>2, <2>3
<1>7. chat' \subseteq [run: Runs, role: Roles]
  BY <1>1, TranscriptGrows DEF Run, Start
<1>3. aborted' \in [Runs -> BOOLEAN]
  BY SignalsType DEF Run
<1>6. rendered' \in [controller: 0..MaxRuns, state: RunStates, context: 0..MaxRuns]
  <2>1. /\ rendered' = [controller |-> started + 1, state |-> "streaming", context |-> context]
        /\ started + 1 \in 0..MaxRuns /\ context \in 0..MaxRuns
    BY <1>1 DEF Run, Start, Current
  <2> QED
    BY <2>1
<1>4. origin' \in [Runs -> [mode: Modes, epoch: Nat, context: 0..MaxRuns]]
  BY <1>1 DEF Run, Start
<1>5. server' \in [Runs -> {"none", "requested", "serving", "servingFailed", "failing",
                            "done", "closed", "foreign"}]
  BY <1>1 DEF Run, Start
<1> QED
  BY <1>2, <1>3, <1>4, <1>5, <1>6, <1>7 DEF Run, Start

LEMMA OperatorType ==
  ASSUME TypeOK, RejectDraft \/ AbortRun \/ Clear \/ ChangeMode \/ Commit
  PROVE  TypeOK'
<1> USE SessionAssumption DEF TypeOK, Runs, NoRun, RunStates
<1>1. CASE RejectDraft
  BY <1>1 DEF RejectDraft, route, history, AfterCleanup, Abort, Current
<1>2. CASE AbortRun
  BY <1>2 DEF AbortRun, Stop, Abort, page, session, route, Open
<1>3. ASSUME NEW c \in {NoRun, context}, StartOver(c), mode' \in Modes
      PROVE  TypeOK'
  <2>1. aborted' \in [Runs -> BOOLEAN]
    BY <1>3, SignalsType DEF StartOver
  <2>2. asked' \in [Runs -> BOOLEAN]
    BY <1>3 DEF StartOver, Stop, Open
  <2>3. rendered' \in [controller: 0..MaxRuns, state: RunStates, context: 0..MaxRuns]
    <3>1. /\ rendered' = [controller |-> controller, state |-> "idle", context |-> c]
          /\ c \in 0..MaxRuns
      BY <1>3 DEF StartOver, Current
    <3> QED
      BY <3>1
  <2>4. /\ runState' \in RunStates /\ chat' = {} /\ failedRef' \in BOOLEAN
        /\ epoch' = epoch + 1 /\ context' = c
        /\ UNCHANGED <<started, reader, controller, server, served, wire, origin, completed>>
    BY <1>3 DEF StartOver, route
  <2>5. chat' \subseteq [run: Runs, role: Roles] /\ epoch' \in Nat /\ context' \in 0..MaxRuns
    BY <2>4
  <2> QED
    BY <1>3, <2>1, <2>2, <2>3, <2>4, <2>5
<1>4. CASE Clear
  BY <1>3, <1>4 DEF Clear
<1>5. CASE ChangeMode
  BY <1>3, <1>5 DEF ChangeMode
<1>6. CASE Commit
  BY <1>6 DEF Commit, session, route, history, AfterCleanup, Abort, Current
<1> QED
  BY <1>1, <1>2, <1>4, <1>5, <1>6

LEMMA ReaderType ==
  ASSUME TypeOK, NEW r \in Runs, Reader(r)
  PROVE  TypeOK'
<1> USE SessionAssumption DEF TypeOK, Runs, NoRun, RunStates, Roles
<1>1. CASE ReadFrame(r)
  <2>1. wire' \in [Runs -> Seq(Frames)]
    BY <1>1, FramesTail DEF ReadFrame
  <2>2. Handle(r, Head(wire[r]))
    BY <1>1 DEF ReadFrame
  <2>3. runState' \in RunStates /\ failedRef' \in BOOLEAN
    BY <2>2 DEF Handle, HandleMeta, HandleFailedStatus, HandleText, HandleError, HandleDone
  <2>6. context' \in {context, r}
    BY <2>2 DEF Handle, HandleMeta, HandleFailedStatus, HandleText, HandleError, HandleDone
  <2>7. context' \in 0..MaxRuns
    BY <2>6
  <2>5. chat' \subseteq [run: Runs, role: Roles]
    <3>1. CASE chat' = chat
      BY <3>1
    <3>2. ASSUME NEW role \in Roles, chat' = chat \cup {Entry(r, role)}
          PROVE  chat' \subseteq [run: Runs, role: Roles]
      BY <3>2, TranscriptGrows
    <3> QED
      BY <2>2, <3>1, <3>2 DEF Handle, HandleMeta, HandleFailedStatus, HandleText,
        HandleError, HandleDone
  <2>4. completed' \in [Runs -> BOOLEAN]
    <3>1. ASSUME NEW ok \in BOOLEAN, completed' = [completed EXCEPT ![r] = @ \/ ok]
          PROVE  completed' \in [Runs -> BOOLEAN]
      BY <3>1, Zenon
    <3> QED
      BY <2>2, <3>1 DEF Handle, HandleMeta, HandleFailedStatus, HandleText, HandleError,
        HandleDone
  <2> QED
    BY <1>1, <2>1, <2>3, <2>4, <2>5, <2>7 DEF ReadFrame, page
<1>2. ASSUME Return(r), server' \in [Runs -> {"none", "requested", "serving",
               "servingFailed", "failing", "done", "closed", "foreign"}],
             runState' \in RunStates, failedRef' \in BOOLEAN,
             chat' \subseteq [run: Runs, role: Roles], context' \in 0..MaxRuns
      PROVE  TypeOK'
  <2>1. wire' \in [Runs -> Seq(Frames)]
    BY <1>2, FramesDropped DEF Return
  <2>2. reader' \in [Runs -> {"unused", "open", "ended"}] /\ controller' \in 0..MaxRuns
    BY <1>2 DEF Return
  <2>3. UNCHANGED <<page, aborted, served, history>>
    BY <1>2 DEF Return
  <2> QED
    BY <1>2, <2>1, <2>2, <2>3 DEF page, history
<1>3. CASE ReadEnd(r)
  BY <1>2, <1>3 DEF ReadEnd, session
<1>4. CASE CatchAbort(r)
  <2>1. chat' \subseteq [run: Runs, role: Roles]
    BY <1>4, TranscriptGrows DEF CatchAbort
  <2>2. /\ Return(r) /\ runState' = "aborted"
        /\ server' = [server EXCEPT ![r] = "closed"] /\ UNCHANGED <<failedRef, context>>
    BY <1>4 DEF CatchAbort
  <2> QED
    BY <1>2, <2>1, <2>2
<1>5. CASE CatchFailure(r)
  BY <1>2, <1>5 DEF CatchFailure
<1> QED
  BY <1>1, <1>3, <1>4, <1>5 DEF Reader

LEMMA RouteType ==
  ASSUME TypeOK, NEW r \in Runs, Route(r)
  PROVE  TypeOK'
<1> USE SessionAssumption DEF TypeOK, Runs, NoRun, RunStates
<1>1. ASSUME NEW frames \in Seq(Frames), Add(r, frames), served' \in [Runs -> Nat], RouteOnly
      PROVE  TypeOK'
  <2>1. wire' \in [Runs -> Seq(Frames)]
    BY <1>1, FramesAdded DEF Add
  <2>2. PICK s \in Stream(r)!Phases : server' = [server EXCEPT ![r] = s]
    BY <1>1 DEF Add
  <2>3. s \in {"none", "requested", "serving", "servingFailed", "failing", "done", "closed"}
    BY DEF Stream!Phases
  <2>4. UNCHANGED <<page, reader, aborted, controller, session, history>>
    BY <1>1 DEF RouteOnly
  <2> QED
    BY <1>1, <2>1, <2>2, <2>3, <2>4 DEF page, session, history
<1>2. CASE ServePayload(r)
  <2>1. served' \in [Runs -> Nat] /\ RouteOnly
    BY <1>2, ServedGrows DEF ServePayload
  <2>2. PICK frame \in Frames : Add(r, <<frame>>)
    BY <1>2 DEF ServePayload
  <2>3. <<frame>> \in Seq(Frames)
    OBVIOUS
  <2> QED
    BY <1>1, <2>1, <2>2, <2>3
<1>3. CASE ServeError(r)
  <2>1. <<"error">> \in Seq(Frames)
    BY DEF Frames
  <2> QED
    BY <1>1, <1>3, <2>1 DEF ServeError
<1>4. CASE ServeDone(r)
  <2>1. PICK frame \in Frames : Add(r, <<frame>>)
    BY <1>4 DEF ServeDone
  <2>2. <<frame>> \in Seq(Frames)
    OBVIOUS
  <2> QED
    BY <1>1, <1>4, <2>1, <2>2 DEF ServeDone
<1>5. CASE Close(r)
  <2>1. << >> \in Seq(Frames)
    OBVIOUS
  <2> QED
    BY <1>1, <1>5, <2>1 DEF Close
<1>6. CASE AnswerForRoute(r)
  BY <1>6 DEF AnswerForRoute, page, session, history
<1> QED
  BY <1>2, <1>3, <1>4, <1>5, <1>6 DEF Route
----------------------------------------------------------------------------
(***************************************************************************)
(* The session.                                                            *)
(***************************************************************************)

LEMMA EarlierRun ==
  ASSUME started \in 0..MaxRuns, NEW c \in 0..MaxRuns, c # NoRun, c <= started
  PROVE  c \in Runs /\ c # started + 1 /\ c <= started + 1
  BY SessionAssumption DEF Runs, NoRun

LEMMA RunStep ==
  ASSUME IInv, Run
  PROVE  ControllerRendered' /\ OneLiveRun' /\ ContextCurrent' /\ OriginsConnected'
         /\ CompleteIsEarned'
<1> DEFINE n == started + 1
<1> USE SessionAssumption DEF IInv, TypeOK, Runs, NoRun
<1>1. /\ n \in Runs /\ started' = n /\ controller' = n
      /\ rendered' = [controller |-> n, state |-> "streaming", context |-> context]
      /\ runState' = "streaming" /\ context' = context /\ epoch' = epoch
      /\ origin' = [origin EXCEPT ![n] =
           [mode |-> mode, epoch |-> epoch, context |-> rendered.context]]
      /\ reader' = [reader EXCEPT ![n] = "open"]
  BY DEF Run, Start, Current
<1>2. rendered.controller \in 0..MaxRuns /\ rendered.controller # n
  BY DEF ControllerRendered
<1>3. aborted' = Abort(rendered.controller)
  BY <1>2 DEF Run, AfterCleanup
<1>4. ControllerRendered'
  BY <1>1 DEF ControllerRendered
<1>5. OneLiveRun'
  <2> SUFFICES ASSUME NEW r \in Runs, Live(r)'
               PROVE  r = started' /\ origin'[r].epoch = epoch' /\ rendered'.controller = r
    BY DEF OneLiveRun
  <2>1. r # n => Live(r)
    BY <1>1, <1>3 DEF Live, Open, Abort
  <2>2. r = n
    BY <1>3, <2>1 DEF OneLiveRun, Live, Open, Abort
  <2> QED
    BY <1>1, <2>2
<1>6. ContextCurrent'
  BY <1>1 DEF ContextCurrent
<1>7. OriginsConnected'
  <2> SUFFICES ASSUME NEW r \in Runs, origin'[r].context # NoRun
               PROVE  /\ origin'[r].context <= started'
                      /\ origin'[origin'[r].context].epoch = origin'[r].epoch
    BY DEF OriginsConnected
  <2>1. CASE r = n
    <3>1. /\ origin'[r].context = rendered.context /\ origin'[r].epoch = epoch
          /\ rendered.context \in 0..MaxRuns
      BY <1>1, <2>1
    <3>2. rendered.context <= started /\ origin[rendered.context].epoch = epoch
      BY <3>1 DEF ContextCurrent
    <3>3. rendered.context # n /\ rendered.context \in Runs /\ rendered.context <= n
      BY <3>1, <3>2, EarlierRun
    <3>4. origin'[rendered.context] = origin[rendered.context]
      BY <1>1, <3>3
    <3> QED
      BY <1>1, <3>1, <3>2, <3>3, <3>4
  <2>2. CASE r # n
    <3>1. origin'[r] = origin[r] /\ origin[r].context \in 0..MaxRuns
      BY <1>1, <2>2
    <3>2. /\ origin[r].context <= started
          /\ origin[origin[r].context].epoch = origin[r].epoch
      BY <3>1 DEF OriginsConnected
    <3>3. /\ origin[r].context \in Runs /\ origin[r].context # n
          /\ origin[r].context <= n
      BY <3>1, <3>2, EarlierRun
    <3>4. origin'[origin[r].context] = origin[origin[r].context]
      BY <1>1, <3>3
    <3> QED
      BY <1>1, <3>1, <3>2, <3>3, <3>4
  <2> QED
    BY <2>1, <2>2
<1>8. CompleteIsEarned'
  BY <1>1 DEF CompleteIsEarned
<1> QED
  BY <1>4, <1>5, <1>6, <1>7, <1>8

\* Clear and a mode change leave no live run and no context.
LEMMA StartOverStep ==
  ASSUME IInv, StartOver(NoRun)
  PROVE  ControllerRendered' /\ OneLiveRun' /\ ContextCurrent' /\ OriginsConnected'
         /\ CompleteIsEarned'
<1> USE SessionAssumption DEF IInv, TypeOK, Runs, NoRun
<1>1. /\ rendered' = [controller |-> controller, state |-> "idle", context |-> NoRun]
      /\ UNCHANGED <<started, controller, reader, origin, completed>>
      /\ runState' = "idle" /\ context' = NoRun /\ aborted' = Abort(rendered.controller)
  BY DEF StartOver, Current
<1>2. ControllerRendered'
  BY <1>1 DEF ControllerRendered
<1>3. OneLiveRun'
  BY <1>1 DEF OneLiveRun, Live, Open, Abort
<1>4. ContextCurrent' /\ CompleteIsEarned'
  BY <1>1 DEF ContextCurrent, CompleteIsEarned
<1>5. OriginsConnected'
  BY <1>1 DEF OriginsConnected
<1> QED
  BY <1>2, <1>3, <1>4, <1>5

\* What any other event of the operator, or rendering, does.
LEMMA RenderStep ==
  ASSUME IInv, RejectDraft \/ AbortRun \/ Commit
  PROVE  ControllerRendered' /\ OneLiveRun' /\ ContextCurrent' /\ OriginsConnected'
         /\ CompleteIsEarned'
<1> USE SessionAssumption DEF IInv, TypeOK, Runs, NoRun
<1>1. UNCHANGED <<started, controller, reader, context, origin, epoch, completed>>
  BY DEF RejectDraft, AbortRun, Commit, page, session, route, history
<1>2. /\ \/ rendered' = rendered /\ aborted' = Abort(rendered.controller)
         \/ rendered'.controller = controller /\ aborted' = AfterCleanup(controller)
      /\ rendered'.context \in {context, rendered.context}
      /\ rendered'.state \in {runState, rendered.state, "failed"}
      /\ runState' \in {runState, "failed"}
  BY DEF RejectDraft, AbortRun, Commit, page, session, Current
<1>3. ControllerRendered'
  <2>1. rendered'.controller \in {controller, rendered.controller}
    BY <1>2
  <2>2. controller <= started
    BY DEF ControllerRendered
  <2>3. rendered' = rendered \/ rendered'.controller = controller
    BY <1>2
  <2> QED
    BY <1>1, <2>1, <2>2, <2>3 DEF ControllerRendered
<1>4. OneLiveRun'
  <2> SUFFICES ASSUME NEW r \in Runs, Live(r)'
               PROVE  r = started' /\ origin'[r].epoch = epoch' /\ rendered'.controller = r
    BY DEF OneLiveRun
  <2>1. CASE aborted' = Abort(rendered.controller)
    <3>1. Live(r) /\ r # rendered.controller
      BY <1>1, <2>1 DEF Live, Open, Abort
    <3> QED
      BY <3>1 DEF OneLiveRun
  <2>2. CASE aborted' = aborted /\ rendered'.controller = rendered.controller
    <3>1. Live(r)
      BY <1>1, <2>2 DEF Live, Open
    <3> QED
      BY <1>1, <2>2, <3>1 DEF OneLiveRun
  <2> QED
    BY <1>2, <2>1, <2>2 DEF AfterCleanup
<1>5. ContextCurrent'
  BY <1>1, <1>2 DEF ContextCurrent
<1>6. OriginsConnected'
  BY <1>1 DEF OriginsConnected
<1>7. CompleteIsEarned'
  BY <1>1, <1>2 DEF CompleteIsEarned
<1> QED
  BY <1>3, <1>4, <1>5, <1>6, <1>7

LEMMA ReaderStep ==
  ASSUME IInv, NEW r \in Runs, Reader(r)
  PROVE  ControllerRendered' /\ OneLiveRun' /\ ContextCurrent' /\ OriginsConnected'
         /\ CompleteIsEarned'
<1> USE SessionAssumption DEF IInv, TypeOK, Runs, NoRun
<1>1. UNCHANGED <<started, rendered, aborted, origin, epoch>>
  BY DEF Reader, ReadFrame, ReadEnd, CatchAbort, CatchFailure, Return, page, history
<1>2. controller' \in {controller, NoRun}
  BY DEF Reader, ReadFrame, ReadEnd, CatchAbort, CatchFailure, Return
<1>3. \A s \in Runs : Live(s)' => Live(s)
  BY <1>1 DEF Reader, ReadFrame, ReadEnd, CatchAbort, CatchFailure, Return, Live, Open
<1>4. ControllerRendered'
  BY <1>1, <1>2 DEF ControllerRendered
<1>5. OneLiveRun'
  BY <1>1, <1>3 DEF OneLiveRun
<1>6. OriginsConnected'
  BY <1>1 DEF OriginsConnected
<1>7. ContextCurrent' /\ CompleteIsEarned'
  <2>1. CASE ReadFrame(r)
    <3>1. r = started /\ origin[r].epoch = epoch /\ started # 0
      BY <2>1 DEF ReadFrame, Settled, OneLiveRun, Live
    <3>2. context' \in {context, r}
      BY <2>1 DEF ReadFrame, Handle, HandleMeta, HandleFailedStatus, HandleText,
        HandleError, HandleDone
    <3>3. \A s \in Runs : completed[s] => completed'[s]
      BY <2>1 DEF ReadFrame, Handle, HandleMeta, HandleFailedStatus, HandleText,
        HandleError, HandleDone
    <3>4. runState' = "complete" => runState = "complete" \/ completed'[r]
      BY <2>1 DEF ReadFrame, Handle, HandleMeta, HandleFailedStatus, HandleText,
        HandleError, HandleDone
    <3>5. ContextCurrent'
      <4>1. \A c \in {context', rendered'.context} : c \in {context, rendered.context, r}
        BY <1>1, <3>2
      <4>2. \A c \in {context, rendered.context, r} :
              c # NoRun => c <= started /\ origin[c].epoch = epoch
        <5>1. started <= started
          OBVIOUS
        <5> QED
          BY <3>1, <5>1 DEF ContextCurrent
      <4> QED
        BY <1>1, <4>1, <4>2 DEF ContextCurrent
    <3>6. CompleteIsEarned'
      BY <1>1, <3>1, <3>3, <3>4 DEF CompleteIsEarned
    <3> QED
      BY <3>5, <3>6
  <2>2. CASE ReadEnd(r) \/ CatchAbort(r) \/ CatchFailure(r)
    <3>1. /\ context' = context /\ completed' = completed
          /\ runState' \in {runState, "aborted", "failed"}
      BY <2>2 DEF ReadEnd, CatchAbort, CatchFailure, Return, session, history
    <3> QED
      BY <1>1, <3>1 DEF ContextCurrent, CompleteIsEarned
  <2> QED
    BY <2>1, <2>2 DEF Reader
<1> QED
  BY <1>4, <1>5, <1>6, <1>7

LEMMA RouteStep ==
  ASSUME IInv, NEW r \in Runs, Route(r)
  PROVE  ControllerRendered' /\ OneLiveRun' /\ ContextCurrent' /\ OriginsConnected'
         /\ CompleteIsEarned'
<1>1. UNCHANGED <<page, reader, aborted, controller, session, history>>
  BY DEF Route, ServePayload, ServeError, ServeDone, Close, AnswerForRoute, RouteOnly
<1> QED
  BY <1>1 DEF IInv, page, session, history, ControllerRendered, OneLiveRun, Live, Open,
    ContextCurrent, OriginsConnected, CompleteIsEarned
----------------------------------------------------------------------------
LEMMA InitIInv ==
  ASSUME Init
  PROVE  IInv
<1> USE SessionAssumption DEF Init, NoRun, Current
<1>1. TypeOK
  <2>1. origin \in [Runs -> [mode: Modes, epoch: Nat, context: 0..MaxRuns]]
    OBVIOUS
  <2>2. wire \in [Runs -> Seq(Frames)]
    OBVIOUS
  <2>3. rendered \in [controller: 0..MaxRuns, state: RunStates, context: 0..MaxRuns]
    BY DEF RunStates
  <2> QED
    BY <2>1, <2>2, <2>3 DEF TypeOK, RunStates
<1>2. ControllerRendered /\ OneLiveRun /\ ContextCurrent /\ OriginsConnected /\ CompleteIsEarned
  BY DEF ControllerRendered, OneLiveRun, Live, Open, ContextCurrent, OriginsConnected,
    CompleteIsEarned
<1> QED
  BY <1>1, <1>2 DEF IInv

LEMMA NextIInv ==
  ASSUME IInv, [Next]_vars
  PROVE  IInv'
<1>1. CASE Run
  BY <1>1, RunType, RunStep DEF IInv
<1>2. CASE RejectDraft \/ AbortRun \/ Commit
  BY <1>2, OperatorType, RenderStep DEF IInv
<1>3. CASE Clear \/ ChangeMode
  <2>1. StartOver(NoRun)
    BY <1>3 DEF Clear, ChangeMode
  <2> QED
    BY <1>3, <2>1, OperatorType, StartOverStep DEF IInv
<1>4. ASSUME NEW r \in Runs, Reader(r)
      PROVE  IInv'
  BY <1>4, ReaderType, ReaderStep DEF IInv
<1>5. ASSUME NEW r \in Runs, Route(r)
      PROVE  IInv'
  BY <1>5, RouteType, RouteStep DEF IInv
<1>6. CASE UNCHANGED vars
  BY <1>6 DEF vars, IInv, TypeOK, ControllerRendered, OneLiveRun, Live, Open,
    ContextCurrent, OriginsConnected, CompleteIsEarned
<1> QED
  BY <1>1, <1>2, <1>3, <1>4, <1>5, <1>6 DEF Next, Operator

\* The invariant the properties of the session follow from.
THEOREM Invariance == Spec => []IInv
<1>1. Init => IInv
  BY InitIInv
<1>2. IInv /\ [Next]_vars => IInv'
  BY NextIInv
<1> QED
  BY <1>1, <1>2, PTL DEF Spec

\* Every variable keeps its type, for any number of runs and frames.
THEOREM TypeCorrect == Spec => []TypeOK
<1>1. IInv => TypeOK
  BY DEF IInv
<1> QED
  BY <1>1, Invariance, PTL

\* However runs overtake each other, at most the last one is live, and it can be stopped.
THEOREM LiveRunCorrect == Spec => []OneLiveRun
<1>1. IInv => OneLiveRun
  BY DEF IInv
<1> QED
  BY <1>1, Invariance, PTL

\* No run is sent a contextId from before the last clear or mode change.
THEOREM ContextCorrect == Spec => []ContextStaysInSession
<1>1. IInv => ContextStaysInSession
  BY DEF IInv, OriginsConnected, ContextStaysInSession
<1> QED
  BY <1>1, Invariance, PTL

\* A run shown as complete has reported ok, and is the last one started.
THEOREM CompletionCorrect == Spec => []CompleteIsEarned
<1>1. IInv => CompleteIsEarned
  BY DEF IInv
<1> QED
  BY <1>1, Invariance, PTL

\* What a step may add to the transcript in the name of a run.
LEMMA SpeakerStep ==
  ASSUME IInv, [Next]_vars
  PROVE  [\A e \in chat' \ chat :
            e.role \in {"assistant", "error"} => e.run = started /\ origin[e.run].epoch = epoch]_vars
<1> SUFFICES ASSUME Next, NEW e \in chat' \ chat, e.role \in {"assistant", "error"}
             PROVE  e.run = started /\ origin[e.run].epoch = epoch
  OBVIOUS
<1>1. CASE Run
  BY <1>1 DEF Run, Start, Entry
<1>2. CASE RejectDraft \/ AbortRun \/ Clear \/ ChangeMode \/ Commit
  BY <1>2 DEF RejectDraft, AbortRun, Clear, ChangeMode, StartOver, Commit, session
<1>3. ASSUME NEW r \in Runs, ReadFrame(r)
      PROVE  e.run = started /\ origin[e.run].epoch = epoch
  <2>1. r = started /\ origin[r].epoch = epoch
    BY <1>3 DEF IInv, ReadFrame, Settled, OneLiveRun, Live
  <2>2. e.run = r
    BY <1>3 DEF ReadFrame, Handle, HandleMeta, HandleFailedStatus, HandleText,
      HandleError, HandleDone, Entry
  <2> QED
    BY <2>1, <2>2
<1>4. ASSUME NEW r \in Runs, ReadEnd(r) \/ CatchAbort(r) \/ CatchFailure(r)
      PROVE  e.run = started /\ origin[e.run].epoch = epoch
  BY <1>4 DEF ReadEnd, CatchAbort, CatchFailure, session, Entry
<1>5. ASSUME NEW r \in Runs, Route(r)
      PROVE  e.run = started /\ origin[e.run].epoch = epoch
  BY <1>5 DEF Route, ServePayload, ServeError, ServeDone, Close, AnswerForRoute, RouteOnly, session
<1> QED
  BY <1>1, <1>2, <1>3, <1>4, <1>5 DEF Next, Operator, Reader

\* Only the current run of the current session speaks in the transcript.
THEOREM SpeakerCorrect == Spec => OnlyCurrentRunSpeaks
<1>1. IInv /\ [Next]_vars =>
        [\A e \in chat' \ chat :
           e.role \in {"assistant", "error"} => e.run = started /\ origin[e.run].epoch = epoch]_vars
  BY SpeakerStep
<1> QED
  BY <1>1, Invariance, PTL DEF Spec, OnlyCurrentRunSpeaks
=============================================================================
