-------------------------------- MODULE Page --------------------------------
(***************************************************************************)
(* What the workbench page shows of its runs: the transcript and the A2UI  *)
(* surfaces (src/components/workbench-client.tsx), and the way there of    *)
(* what the agent sends (Transcript, A2ui, A2aPayload).  BrowserSession    *)
(* models the life of the runs; of it only what the content depends on is  *)
(* repeated here: a run may be replaced while it is still read once it has *)
(* reported a failure, the continuation of the replaced run then drops the *)
(* controller of the new one, and the operator clears the page or changes  *)
(* the mode.                                                               *)
(*                                                                         *)
(* setChat with a function only queues it.  The functions run when React   *)
(* renders (Rendered), in the order of the calls, each of them twice where *)
(* React checks that they are pure.  The function that adds text to the    *)
(* transcript is not: it reads and writes the refs of the assistant's      *)
(* message, which handlers reset at once.  An event of the operator is     *)
(* rendered, with its effects, before the next event.                      *)
(*                                                                         *)
(* The renderer of A2UI is a library, taken as the page uses it: a surface *)
(* cannot be created twice, components and data of a surface that does not *)
(* exist are refused with an exception, and dispose empties its model.     *)
(***************************************************************************)
EXTENDS A2aPayload, Transcript

CONSTANTS
  MaxRuns,      \* bound on the number of runs started
  MaxPayloads,  \* bound on the payloads of all runs
  MaxResets,    \* bound on the number of clears and mode changes
  ChatLimit,    \* how many messages the transcript keeps, 140
  Payloads      \* what an agent may send

ASSUME PageAssumption ==
  /\ {MaxRuns, MaxPayloads, MaxResets} \subseteq Nat
  /\ ChatLimit \in Nat \ {0}
  /\ \A payload \in Payloads : \A place \in DOMAIN payload : payload[place] \in Objects

Runs == 1..MaxRuns

NoRun == 0

Modes == {"strict", "compatibility"}

NoMessage == [id |-> 0, text |-> << >>]

VARIABLES
  mode,        \* the selected client mode
  started,     \* the number of runs started
  open,        \* the runs whose stream is read
  aborted,     \* those of them whose controller was aborted
  controller,  \* abortController as last set: the run it belongs to, or NoRun
  streaming,   \* whether runState as last set is "streaming"
  context,     \* contextId as last set
  shown,       \* the last three as last rendered
  wire,        \* frames the page has received and not yet handled, of the last run
  assistant,   \* assistantMessageIdRef (0 for null) and assistantTextRef
  updates,     \* functions given to setChat since the last rendering
  chat,        \* the transcript as last rendered
  model,       \* the surfaces in the renderer's model
  surfaces,    \* the surfaces the page shows
  refused,     \* the renderer has refused messages since the surfaces were last cleared
  remade,      \* history: the surfaces that one payload created more than once
  origin,      \* history: of each run, its mode and whether A2UI was negotiated for it
  sent,        \* the number of payloads sent
  named,       \* history: the surfaces that typed Parts of each run name
  said,        \* history: the texts of each run rendered since the last start over
  overtaken,   \* history: the runs with text unrendered when the next run was started
  epoch        \* history: the number of clears and mode changes

vars == <<mode, started, open, aborted, controller, streaming, context, shown, wire, assistant,
          updates, chat, model, surfaces, refused, remade, origin, sent, named, said, overtaken, epoch>>

Current == [controller |-> controller, streaming |-> streaming, context |-> context]

NoSurfaces == [s \in {} |-> s]

\* A mode read from the stored profile is a change of the mode, too.
Init ==
  /\ mode = "strict"
  /\ started = 0
  /\ open = {} /\ aborted = {}
  /\ controller = NoRun /\ streaming = FALSE /\ context = ""
  /\ shown = Current
  /\ wire = << >>
  /\ assistant = NoMessage
  /\ updates = << >> /\ chat = << >>
  /\ model = NoSurfaces /\ surfaces = NoSurfaces /\ refused = FALSE /\ remade = {}
  /\ origin = [r \in Runs |-> [mode |-> mode, negotiated |-> FALSE]]
  /\ sent = 0
  /\ named = [r \in Runs |-> {}]
  /\ said = [r \in Runs |-> << >>]
  /\ overtaken = {}
  /\ epoch = 0
----------------------------------------------------------------------------
(***************************************************************************)
(* The transcript.                                                         *)
(***************************************************************************)

LimitList(list) == SubSeq(list, Max({1, Len(list) - ChatLimit + 1}), Len(list))

Say(r, role) == << [kind |-> "say", run |-> r, role |-> role, text |-> << >>] >>

Text(r, text) == << [kind |-> "text", run |-> r, role |-> "assistant", text |-> text] >>

Reset == << [kind |-> "reset", run |-> NoRun, role |-> "system", text |-> << >>] >>

\* newId.
NewId(content) ==
  1 + Max({0, content.assistant.id} \cup {content.chat[i].id : i \in DOMAIN content.chat})

\* The function upsertAssistantTranscript gives to setChat.
UpsertAssistantTranscript(content, r, text) ==
  LET id == IF content.assistant.id = 0 THEN NewId(content) ELSE content.assistant.id
      merged == MergeAssistantTranscriptText(content.assistant.text, text)
      found == {i \in DOMAIN content.chat : content.chat[i].id = id}
      message(runs) == [id |-> id, role |-> "assistant", runs |-> runs, text |-> merged]
  IN  [assistant |-> [id |-> id, text |-> merged],
       chat |-> IF found = {} THEN LimitList(Append(content.chat, message({r})))
                ELSE [i \in DOMAIN content.chat |->
                        IF i \in found THEN message({r} \cup content.chat[i].runs)
                        ELSE content.chat[i]]]

Apply(content, update) ==
  CASE update.kind = "text" -> UpsertAssistantTranscript(content, update.run, update.text)
    [] update.kind = "say" ->
         [content EXCEPT !.chat = LimitList(Append(@,
            [id |-> NewId(content), role |-> update.role, runs |-> {update.run}, text |-> << >>]))]
    [] update.kind = "reset" -> [content EXCEPT !.chat = << >>]

\* The same function once more, on the transcript it was given first.
ApplyTwice(content, update) ==
  Apply([content EXCEPT !.assistant = Apply(content, update).assistant], update)

\* What the queued functions make of the refs and the transcript, in their order.
Content(queue, refs, twice) ==
  LET after[n \in 0..Len(queue)] ==
        IF n = 0 THEN [assistant |-> refs, chat |-> chat]
        ELSE IF twice THEN ApplyTwice(after[n - 1], queue[n])
        ELSE Apply(after[n - 1], queue[n])
  IN  after[Len(queue)]

Contents(queue, refs) == {Content(queue, refs, twice) : twice \in BOOLEAN}

\* The texts of a run that wait in the queue.
TextsOf(r, queue) ==
  FlattenSeq([i \in DOMAIN queue |->
    IF queue[i].kind = "text" /\ queue[i].run = r THEN <<queue[i].text>> ELSE << >>])

\* The runs that are aborted once the clean-up does nothing, and once it aborts the controller.
SignalsWithoutCleanUp(signals) == open' \cap signals

Signals(signals) ==
  open' \cap (signals \cup IF controller' # shown.controller THEN {shown.controller} ELSE {})

\* React renders.  The clean-up of the effect that holds the controller aborts the controller
\* that was replaced and disposes of the renderer's model.
Rendered(queue, content, signals, surfaceModel) ==
  /\ chat' = content.chat
  /\ updates' = << >>
  /\ shown' = Current'
  /\ aborted' = Signals(signals)
  /\ model' = IF controller' # shown.controller THEN NoSurfaces ELSE surfaceModel
  /\ said' = [r \in Runs |-> IF content.chat = << >> THEN << >> ELSE said[r] \o TextsOf(r, queue)]
----------------------------------------------------------------------------
(***************************************************************************)
(* What the operator does.                                                 *)
(***************************************************************************)

Settled == open \cap aborted = {}

\* sendPrompt up to its first await, with the refs it leaves to the new run.
SendPrompt(refs) ==
  LET r == started + 1
      queue == updates \o Say(r, "user")
      keeps == shown.context # ""
  IN  /\ Settled
      /\ ~shown.streaming /\ started < MaxRuns
      /\ started' = r
      /\ open' = open \cup {r}
      /\ controller' = r
      /\ streaming' = TRUE
      /\ wire' = << >>
      /\ surfaces' = IF keeps THEN surfaces ELSE NoSurfaces
      /\ refused' = (refused /\ keeps)
      /\ \E negotiated \in BOOLEAN :
           origin' = [origin EXCEPT ![r] = [mode |-> mode, negotiated |-> negotiated]]
      /\ overtaken' = overtaken \cup {s \in Runs : \E i \in DOMAIN updates :
                                              updates[i].kind = "text" /\ updates[i].run = s}
      /\ UNCHANGED <<mode, context, remade, sent, named, epoch>>
      /\ \E content \in Contents(queue, refs) :
           /\ assistant' = content.assistant
           /\ Rendered(queue, content, aborted, IF keeps THEN model ELSE NoSurfaces)

\* Without resetAssistantTranscript.
RunKeepingTranscript == SendPrompt(assistant)

Run == SendPrompt(NoMessage)

\* abortRun, enabled while the page shows a streaming run.
AbortRun ==
  /\ Settled
  /\ shown.streaming
  /\ aborted' = aborted \cup (open \cap {shown.controller})
  /\ UNCHANGED <<mode, started, open, controller, streaming, context, shown, wire, assistant,
                 updates, chat, model, surfaces, refused, remade, origin, sent, named, said,
                 overtaken, epoch>>

\* What resetRun and the effect of a changed mode have in common.
StartOver(content) ==
  /\ Settled
  /\ epoch < MaxResets /\ epoch' = epoch + 1
  /\ streaming' = FALSE
  /\ context' = ""
  /\ surfaces' = NoSurfaces
  /\ refused' = FALSE
  /\ UNCHANGED <<started, open, controller, wire, remade, origin, sent, named, overtaken>>
  /\ Rendered(updates \o Reset, content, aborted \cup {shown.controller}, NoSurfaces)

\* resetRun: the refs are reset at once, what is queued still runs.
Clear ==
  /\ \E content \in Contents(updates \o Reset, NoMessage) :
       StartOver(content) /\ assistant' = content.assistant
  /\ UNCHANGED mode

\* The effect of the changed mode runs after what is queued.
ChangeMode ==
  /\ \E content \in Contents(updates \o Reset, assistant) : StartOver(content)
  /\ assistant' = NoMessage
  /\ mode' \in Modes \ {mode}
----------------------------------------------------------------------------
(***************************************************************************)
(* React renders what the continuations have set.                          *)
(***************************************************************************)

Commit ==
  /\ Settled
  /\ shown # Current \/ updates # << >>
  /\ UNCHANGED <<mode, started, open, controller, streaming, context, wire, surfaces, refused,
                 remade, origin, sent, named, overtaken, epoch>>
  /\ \E content \in Contents(updates, assistant) :
       /\ assistant' = content.assistant
       /\ Rendered(updates, content, aborted, model)
----------------------------------------------------------------------------
(***************************************************************************)
(* The frames of a payload reach the page and are handled one by one.      *)
(***************************************************************************)

Reading == Settled /\ started \in open

\* The surfaces that the Parts of a payload typed as A2UI name.
NamedByParts(payload) ==
  {IF item.surfaceId = "" THEN DefaultSurfaceId ELSE item.surfaceId : item \in
     UNION {ToSet(typed.items) : typed \in
       UNION {ToSet(part.typed) : part \in
         UNION {ToSet(payload[place].parts) : place \in DOMAIN payload}}}}

\* The adapter sends the frames of a payload; one payload is on its way at a time.
Receive ==
  /\ Reading
  /\ wire = << >>
  /\ sent < MaxPayloads /\ sent' = sent + 1
  /\ \E payload \in Payloads :
       LET compatibility == origin[started].mode = "compatibility"
       IN  /\ wire' = ProcessProtocolPayload(payload,
                        compatibility \/ origin[started].negotiated, compatibility)
           /\ named' = [named EXCEPT ![started] = @ \cup NamedByParts(payload)]
  /\ UNCHANGED <<mode, started, open, aborted, controller, streaming, context, shown, assistant,
                 updates, chat, model, surfaces, refused, remade, origin, said, overtaken, epoch>>

\* What the renderer makes of a message.
RenderMessage(state, message) ==
  LET id == message.surfaceId
      exists == id \in DOMAIN state.model
      with(components) == [s \in DOMAIN state.model \cup {id} |->
        IF s = id THEN [run |-> started, components |-> components] ELSE state.model[s]]
  IN  CASE state.refused -> state
        [] ~state.refused /\ message.kind = "deleteSurface" ->
             [state EXCEPT !.model = [s \in DOMAIN state.model \ {id} |-> state.model[s]]]
        [] ~state.refused /\ message.kind = "createSurface" ->
             IF exists THEN [state EXCEPT !.refused = TRUE] ELSE [state EXCEPT !.model = with({})]
        [] ~state.refused /\ message.kind = "updateComponents" ->
             IF ~exists THEN [state EXCEPT !.refused = TRUE]
             ELSE [state EXCEPT !.model = with(state.model[id].components \cup message.components)]
        [] ~state.refused /\ message.kind = "updateDataModel" -> [state EXCEPT !.refused = ~exists]

\* What it makes of messages, one after the other.
Processed(base, messages) ==
  LET after[n \in 0..Len(messages)] ==
        IF n = 0 THEN base ELSE RenderMessage(after[n - 1], messages[n])
  IN  after[Len(messages)]

CreatedTwice(messages) ==
  LET creating == {i \in DOMAIN messages : messages[i].kind = "createSurface"}
  IN  {messages[i].surfaceId : i \in {i \in creating : \E j \in creating :
                                        j < i /\ messages[j].surfaceId = messages[i].surfaceId}}

\* A surface that is to be created is deleted first.  Where the renderer throws, what it did
\* before stays, and the page goes on showing what it showed.
ProcessA2uiMessages(messages) ==
  LET created == SurfacesOf("createSurface", messages)
      kept == [s \in DOMAIN model \ created |-> model[s]]
      state == Processed([model |-> kept, refused |-> FALSE], messages)
  IN  /\ model' = state.model
      /\ surfaces' = IF state.refused THEN surfaces ELSE state.model
      /\ refused' = (refused \/ state.refused)
      /\ remade' = remade \cup CreatedTwice(messages)

\* handleWorkbenchFrame.
HandleMeta(value) ==
  /\ context' = IF value = "" THEN context ELSE value
  /\ UNCHANGED <<streaming, updates, model, surfaces, refused, remade>>

HandleStatus(value) ==
  /\ streaming' = (streaming /\ value # "failed")
  /\ UNCHANGED <<context, updates, model, surfaces, refused, remade>>

HandleText(value) ==
  /\ updates' = updates \o Text(started, value)
  /\ UNCHANGED <<streaming, context, model, surfaces, refused, remade>>

HandleA2ui(value) ==
  /\ ProcessA2uiMessages(value)
  /\ UNCHANGED <<streaming, context, updates>>

HandleWorkbenchFrame ==
  /\ Reading
  /\ wire # << >> /\ wire' = Tail(wire)
  /\ LET frame == Head(wire)
     IN  \/ frame.kind = "meta" /\ HandleMeta(frame.value)
         \/ frame.kind = "status" /\ HandleStatus(frame.value)
         \/ frame.kind = "text" /\ HandleText(frame.value)
         \/ frame.kind = "a2ui" /\ HandleA2ui(frame.value)
  /\ UNCHANGED <<mode, started, open, aborted, controller, shown, assistant, chat, origin,
                 sent, named, said, overtaken, epoch>>
----------------------------------------------------------------------------
(***************************************************************************)
(* A run ends.                                                             *)
(***************************************************************************)

\* The finally block drops the controller, whosever it is.
Return(r) ==
  /\ open' = open \ {r}
  /\ aborted' = aborted \ {r}
  /\ controller' = NoRun
  /\ wire' = << >>
  /\ UNCHANGED <<mode, started, context, shown, assistant, chat, model, surfaces,
                 refused, remade, origin, sent, named, said, overtaken, epoch>>

\* The stream ends.  Whether "done" or the catch block reports a failure makes no difference to
\* what else the page shows.
ReadEnd ==
  /\ Reading /\ wire = << >>
  /\ streaming' = FALSE
  /\ UNCHANGED updates
  /\ Return(started)

\* The catch block of a run that was aborted.
CatchAbort ==
  \E r \in open \cap aborted :
    /\ streaming' = FALSE
    /\ updates' = updates \o Say(r, "system")
    /\ Return(r)
----------------------------------------------------------------------------
Next ==
  \/ Run \/ AbortRun \/ Clear \/ ChangeMode
  \/ Commit
  \/ Receive \/ HandleWorkbenchFrame
  \/ ReadEnd \/ CatchAbort

Spec == Init /\ [][Next]_vars
----------------------------------------------------------------------------
(***************************************************************************)
(* Properties.                                                             *)
(***************************************************************************)

\* Every variable has its type; at most the last run is read.
TypeOK ==
  /\ mode \in Modes
  /\ started \in 0..MaxRuns
  /\ open \subseteq 1..started /\ aborted \subseteq open
  /\ open \ aborted \subseteq {started}
  /\ {controller, shown.controller} \subseteq 0..started
  /\ {streaming, shown.streaming} \subseteq BOOLEAN
  /\ assistant.id \in Nat
  /\ Len(chat) <= ChatLimit
  /\ \A i, j \in DOMAIN chat : chat[i].id = chat[j].id => i = j
  /\ refused \in BOOLEAN
  /\ overtaken \subseteq Runs
  /\ sent \in 0..MaxPayloads
  /\ epoch \in 0..MaxResets

Assistant(m) == m.role = "assistant"

\* What an agent says in a run is one message of the transcript, and the message holds no text of
\* another run (upsertAssistantTranscript and resetAssistantTranscript).  The refs do not ensure
\* this for a run whose text waits to be rendered when the operator starts the next run, which is
\* possible once the page shows that the run has failed.
OneMessagePerRun ==
  \A i, j \in DOMAIN chat :
    LET common == chat[i].runs \cap chat[j].runs
    IN  /\ Assistant(chat[i]) =>
             Cardinality(chat[i].runs) = 1 \/ chat[i].runs \cap overtaken # {}
        /\ i # j /\ Assistant(chat[i]) /\ Assistant(chat[j]) => common \subseteq overtaken

\* The message of a run holds every text of the run, except those given up for a later text that
\* is long enough to be a final answer or to repeat the end of the message; the last text is
\* never given up (mergeAssistantTranscriptText, also where React runs the update twice).
ShortTextsAreKept ==
  \A i \in DOMAIN chat : \A r \in chat[i].runs \ overtaken : Assistant(chat[i]) =>
    \A n \in DOMAIN said[r] :
      \/ Includes(CompactText(chat[i].text), CompactText(said[r][n]))
      \/ \E later \in (n + 1)..Len(said[r]) :
           Len(said[r][later]) >= Min({ShortFragmentMaxLength, LongFinalMinLength, TailMinLength})

\* In strict mode the page shows only surfaces that a Part typed as A2UI names, in a run for
\* which the extension was negotiated; fenced blocks and A2UI messages outside of such Parts do
\* not become surfaces (docs/architecture/protocol-contract.md, "Extensions and A2UI").
StrictSurfacesWereNegotiated ==
  \A s \in DOMAIN surfaces :
    LET r == surfaces[s].run
    IN  origin[r].mode = "strict" => origin[r].negotiated /\ s \in named[r]

\* Every surface the page shows has a root component, whatever the agent sent, unless the
\* renderer has refused messages: what it did of them stays in its model and is shown with the
\* next messages that succeed (ensureRenderableMessages, processA2uiMessages).  A surface that
\* one payload creates, deletes and creates again may lack the root: components that the payload
\* gave it before count.
ShownSurfacesHaveRoot ==
  ~refused => \A s \in DOMAIN surfaces \ remade : "root" \in surfaces[s].components

\* The surfaces the page shows are not disposed of: that is left to a reset, a change of the mode
\* or the unmount of the page (docs/architecture/frontend-c4-model.md), and to the agent.
ShownSurfacesAreLive ==
  ~refused => \A s \in DOMAIN surfaces : s \in DOMAIN model /\ model[s] = surfaces[s]
=============================================================================
