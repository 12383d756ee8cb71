# a2a-workbench: a verification development

TLA+ modules, TLC runs and TLAPS proofs about the A2A workbench: the strict A2A client of
`packages/client`, the Next.js route that runs commands with it, and the page that starts
commands and shows what they stream. (Paths below are relative to the repository.)

Run `tlc -config X.cfg MCx.tla` for a run listed in `PROJECT.json`, `tlapm X_proofs.tla`
for the proofs. `PROJECT.json` maps every definition to the lines it models.

## 1. Inventory

| Component | Code | State it keeps | Operations | Where |
| --- | --- | --- | --- | --- |
| Agent Card discovery and HTTP cache | `packages/client/src/discovery.ts`, `cache.ts` | a card entry per URL: card, storedAt, expiresAt, mustRevalidate, validator, trust label | `discoverAgentCard`: cache look-up, conditional GET, 304 renewal, 200 store or delete, `verifyCardTrust` | `Discovery`, `CardService` |
| Browser session | `src/components/workbench-client.tsx` | mode, run state, AbortController, failedStatusRef, transcript, contextId, as set and as rendered | `sendPrompt`, `sendStructuredMessage`, `abortRun`, `resetRun`, the mode effect, the controller's clean-up effect, `handleWorkbenchFrame` | `BrowserSession` |
| Command route and adapter | `src/app/api/a2a/stream/route.ts`, `src/lib/workbench-client-adapter.ts` | the stream of one command, `ok`, `request.signal` | `POST`, `runWorkbenchCommand`, `runStrict`, `runCompatibility`, `processProtocolPayload` | `CommandRoute`, `EventStream` |
| Strict client facade | `packages/client/src/client.ts` | the connected state (card, interface, extensions, requirement, SDK client), replaced as a whole | `connect`, `refreshAgentCard`, the A2A operations; capability checks, correlation, terminal events, error mapping | operations in `CommandRoute`; connection and refresh in `StrictClient` |
| Negotiation, security selection | `negotiation.ts`, `security.ts`, the provider in `workbench-client-adapter.ts` | none | interface, version and extension choice; requirement choice; headers | `Negotiation` |
| Compatibility client | `packages/client/src/compat` | none | `sendMessage`, `sendStreamingMessage`, v0.3 normalisation | operations in `CommandRoute` |
| OAuth2 token caches | `src/lib/oauth.ts`, `packages/client/src/security.ts` | tokens with an expiry, by grant or by scheme | look-up, token request, store or drop, clear | `TokenCache` |
| Policy fetch | `packages/client/src/network.ts` | per call: a timer, an abort controller, the request of the current hop, a redirect count, the undelivered text of a stream | `createPolicyFetch`: credentials, URL policy, redirects, size limit, validation of answers and streams | `PolicyFetch` |
| SSE validation and parsing | `network.ts` `validateSseResponse`, `src/lib/sse.ts` | undelivered text | frame cutting, validation, parsing | `SseFrames` |
| A2UI | `src/lib/a2ui.ts`, `a2ui-stage.tsx` | none; the renderer's model is external | normalisation, creation of surfaces and roots | `A2ui`, renderer in `Page` |
| A2A payload extraction, transcript merge | `src/lib/a2a.ts`, `src/lib/chat-transcript.ts` | none | candidates of a payload, context, status, texts, A2UI; merging of repeated and growing texts | `A2aPayload`, `Transcript` |
| What the page shows | `workbench-client.tsx` `handleWorkbenchFrame`, `upsertAssistantTranscript`, `processA2uiMessages` | chat, the ref of the assistant's message, queued updaters, surfaces, the A2UI model | one handler per kind of frame, clear, mode change, end of a run | `Page` |
| Validators | `packages/client/src/validation.ts`, `schema` | none | checks of cards, requests, responses and stream payloads | what others depend on, in `Negotiation`, `SseFrames`, `PolicyFetch`; field checks left out |
| Preferences | `workbench-client.tsx` 460-508 | localStorage | hydration, write-back | not modelled |
| URL policy, drafts, redaction, errors, evidence | see `PROJECT.json` | none | address checks, conversions | not modelled: pure, no state |

**Interactions.** The page POSTs a command and reads frames from the response body; the
only other thing that passes between the two is the abort of the request. The route runs
one command with one client. A client's requests all go through one policy fetch, which asks
the credential provider and the URL policy, and hands a streamed answer on in chunks that it
has validated. Every client of the process shares the module-level
`cardCache`; compatibility commands share `oauth.ts`'s `tokenCache`. Both caches are read,
left for a network request, and written when it is answered, without a lock.

**What is hard here.** Two actors between an `await` and the line after it (discoveries,
token requests); React state as set against React state as rendered, and effects that run
between the two (runs of the page); the agent's events, the timer, the page's abort and the
loss of the page in any order (a command); a timer that covers several requests but not the
stream after them, a stream cut into chunks anywhere (the policy fetch); state replaced while
operations that read it are under way (a refresh); texts and surfaces that wait for React while
the next run starts (the page); counting lifetimes from the right moment
(cards, tokens). `PROJECT.json` lists every hazard at its line with the property that
watches it, or why there is none.

## 2. The modules

`CardService` <- `Discovery` <- `MCDiscovery`, `Discovery_proofs`
`EventStream` <- `CommandRoute` <- `MCCommandRoute`, `CommandRoute_proofs`
`EventStream` <- `BrowserSession` <- `MCBrowserSession`, `BrowserSession_proofs`
`TokenCache` <- `MCTokenCache`, `TokenCache_proofs`
`SseFrames` <- `PolicyFetch` <- `MCPolicyFetch`, `PolicyFetch_proofs` (with `Induction`)
`Negotiation` <- `StrictClient` <- `MCStrictClient`, `StrictClient_proofs`
`A2ui` <- `A2aPayload`, with `Transcript` <- `Page` <- `MCPage`, `Page_proofs` (with `Induction`)

### CardService and Discovery

`CardService` is what discovery promises: a call made at time t returns a version of the
card the agent was still publishing at some moment no more than `Bound` before t, or fails.
`Discovery` is the code: one action per stretch of `discoverAgentCard` between two awaits
(`Lookup`; `ServeFresh` or `SendRequest`; `Answer` of the agent or of a cache on the way;
`Revalidate`, `StoreCard`, `RejectCard`; `Abandon` for every other failure), over one shared
entry, for any number of overlapping calls with different trust stores. `Tick` and `Publish`
are the wall clock and the agent. ETag and Last-Modified are one validator, since the code
handles them alike. Headers are records of what `cacheMetadata` distinguishes. `Discovery`
implements `CardService` with `Bound = MaxAge + Timeout`: a lifetime is counted from before
the request, and the answer may be composed until the timeout.

The trust label of a cached entry is that of the call that stored it. A call with another
trust store, or none, is served the entry under that label (`ServeFresh`, `Revalidate`), although
`protocol-contract.md:189-192` wants a signed card refused without a trust store that verifies it.
`SignedCardsAreVerified` states the document's sentence; the run `discovery_trust` finds it violated,
and it is proved for callers that all have the same trust store. (The workbench's own clients have
none, so they never store a signed card.)

### EventStream, CommandRoute and BrowserSession

`EventStream` is the interface of route and page: frames, at most one `error`, one `done`
that says ok only if nothing before it told of a failure, the end; or the stream is given
up at any point.

`CommandRoute` is one command, from its body to the end of its stream. `step` is where
`POST` stands. `ReadCommand` (body, mode, operation), `Admit` and `Authorize` (compatibility's
check of the token endpoint and its OAuth token), `Discover` (strict mode's card), `Connect` (the
URL policy admits the endpoint; `connection` and `agent-card` frames, and the checks the operation
makes before its request), `ReceiveAnswer` or `OpenStream`/`TakeEvent`/`LeaveStream` (the
client's validations and the adapter's loop), `ReportDone`, `ReportError`, `ReportNotOk`, `Close`
(the try, catch and finally of `POST`). Around it act the agent (`AgentTells`, `AgentEnds`,
`AgentBreaks`), the timer (`TimeOut`), the signal (`Abort`, `HearAbort`) and the page going away
(`Cancel`), after which an enqueue throws.

The timer covers requests of the policy fetch only (`Timed`). Three waits have none (`Unlimited`):
compatibility mode's OAuth token (`workbench-client-adapter.ts:195`); the body of an answer to an
operation that is no stream, if its content type names an event stream, since the policy fetch then
returns it unread and clears its timer (`network.ts:109-126`, `AnswerAsStream`); and that of a card
whose content type does. The URL policy's look-ups of names (`LookingUp`; in compatibility mode these
are all there is to connecting) have neither timer nor signal, and end by themselves.
The model lets others act between the two frames of the catch block, which the code writes
in one turn: it has every behaviour of the code, and the interface wants a step per final
frame. `FailRequest` stands for everything that makes a request fail. Evidence
frames are left out: they carry no verdict.

`BrowserSession` is the page: every run is one call of `sendPrompt` with its own
`AbortController`. `controller`, `runState` and `context` are React state *as set*,
`rendered` what handlers and effects see; `Commit` renders, and runs the clean-up effect that aborts
the controller that was replaced. The operator's actions (`Run`, `RejectDraft`,
`AbortRun`, `Clear`, `ChangeMode`) are whole handlers followed by their rendering, which
React does synchronously for such events. The continuations are `ReadFrame`, `ReadEnd`, `CatchAbort` and
`CatchFailure`, each of the last three with its `finally`. The rejection of an aborted
read is handled before any other event (`Settled`), since it is a microtask of the abort. The other
end of a run's stream is any step that `EventStream` allows (`Stream`, with `ServePayload`,
`ServeError`, `ServeDone`, `Close` for its actions): the page is checked against the promise, and
`CommandRoute` is shown to keep it. `AnswerForRoute` is a proxy's page in its place.

### TokenCache

Both caches in one module, told apart by `kind`: the process-wide one keyed by the whole
grant (endpoint, client, scope, audience), which drops a token whose life is unstated or
within the skew; and the credential provider's, keyed by scheme alone, which assumes a
life (`Default`) when none is stated. `life = Unstated` also stands for an `expires_in`
that is not positive. `MaxDelay` is how long after its issue a token may be heard. Strict
mode asks for tokens under the timer of its request (`A2A_UPSTREAM_TIMEOUT_MS`, 120 s unless
set), compatibility mode under the limits of `fetch` alone; the skew is 30 s. So
`SharedTokensAreValid` says what the skew buys: `Skew - MaxDelay` of remaining life, which
may be negative. `ProcessTokensFitTheGrant` speaks of the process-wide cache only; that the
provider keys by scheme is how a provider of one connection is meant. `Clear` is exported
and called by tests only.

### SseFrames and PolicyFetch

`SseFrames` is text cut into frames, twice: as the validator between agent and SDK does it
(`Cut`, with the code's regular expression) and as the page's parser and the standard do
(`Parsed`). Characters that end lines are tokens; so is a whole line, of which it matters
whether it carries a payload, half of one, or an invalid one.

`PolicyFetch` is one call of the function `createPolicyFetch` returns, and the stream it may
hand over. `step` is what the call waits for: `TakeCredentials` or `MissCredentials`; the
policy (`Admit`, `Reject`) before each hop; `Send` or `RefuseToSend`; the agent's `Respond` or
`BreakConnection`; `FollowRedirect` or `RefuseRedirect`; `ReadBody`, or `HandOverStream` once
the evidence of a streamed answer is written. `Fail` and `Return` are the catch and finally
blocks. `HearSignal` is the combined signal reaching whatever the call waits for. The stream
then goes on by itself: `TakeChunk` (any division into chunks, with the size limit, the
validation and the text left over), `EndOfStream` (the flush), `BreakStream`, `AbortStream`.

What the model makes visible, and the properties therefore allow for:
- A stream is handed over after its evidence is written, and the timer may fire while it is
  (`returnedLate`): such a stream is aborted although its call returned. `TimerSparesStreams`
  excepts these.
- The operation is inferred from the path first and the JSON-RPC method second, so a request to
  a JSON-RPC endpoint whose path ends like one of the other binding's routes is refused
  (`RequestFits`).
- A stream in answer to an operation that is not a streaming one passes without validation.
- A 307 or 308 after a POST sends a body that was consumed; `fetch` answers with a TypeError.
- Every error after the timer has fired is reported as `TIMEOUT`.
- The validator's separator takes one CRLF for two line ends, so `EventsAreValidated` and
  `RefusalIsEarned` speak of frames that have a single data line where a text uses CRLF
  (`OneLineFrames`); the run `policy_fetch_line_ends` shows what happens to others.

### Negotiation and StrictClient

`Negotiation` holds what is decided about an Agent Card, as operators: `ValidCard`, the
extensions, the first usable interface (`SelectedInterface`), the first security requirement the
provider meets (`Selected`), for the package's own provider and the workbench's, and the
headers a request then carries: what the provider returns (`Resolved`) less the headers the policy
fetch keeps to itself (`Credentials`, `Protected`). With the package's provider each scheme of the
requirement sets its header or, for custom headers, several; one set twice keeps the last value.
The workbench's provider sends the headers of the profile whatever the requirement, and its
OAuth token overwrites an `Authorization` among them (`workbench-client-adapter.ts:417-424`).

So a requirement can be selected and its credentials still not all be sent: when two of its schemes
share a header, when a header is protected, or with the workbench's provider when the profile's
headers are not the ones the scheme asks for. `protocol-contract.md:171-173` ("all schemes named by one object are AND") reads
otherwise. `RequestsFitTheirCard` does not claim it: it says that a request's site, extensions and
(for the package's provider) the credential in each header come from one card and from the
requirement selected from it.

`StrictClient` is a client in use: `connect` and any number of `refreshAgentCard` calls, each
suspended at the fetch of the card, the URL policy and the evidence (`Start`, `Negotiate`, `Decide`,
`Assign`, `Fail`), while the agent replaces its card and operations begin and send. The state is
replaced as a whole, an operation keeps what it read, and the call that finishes last wins,
even with the older card. The evidence of a stream's events, which reads the state anew, is left out.

### Transcript, A2ui, A2aPayload and Page

`Transcript` is `mergeAssistantTranscriptText`, over short texts and with the code's thresholds as
constants. `A2ui` is `normalizeA2uiPayload`: wrappers, versions, default surface and root, and what
`ensureRenderableMessages` adds. `A2aPayload` is what the adapter reads out of a payload from
whichever of its places, and the frames it sends for it.

`Page` puts them together: payloads of an agent become frames (`Receive`), which the page's
handlers handle one by one (`HandleMeta`, `HandleStatus`, `HandleText`, `HandleA2ui`). Text goes
into queued functions that React runs when it renders, once or, in strict mode of React, twice
(`Contents`), and that read the refs of the assistant's message only then. `Run`, `Clear`,
`ChangeMode` and `AbortRun` are the operator's, as in `BrowserSession`; of the life of the runs only
what the content depends on is kept, and the run state is only whether it is streaming. The renderer
of A2UI is a library and external: creating a surface twice and updating a missing one throw,
`dispose` empties it. One payload is on its way at a time. The initial mode is strict; reading
another one from storage is a change of the mode.

What the code does here that a reader may not expect, and the properties allow for:
- A run whose status was a failure may be followed by another one while text of it waits to be
  rendered; the texts of the two are then one message. `OneMessagePerRun` excepts such runs
  (`overtaken`), and only such.
- A payload that only updates a surface creates it first (`a2ui.ts:148`) and so wipes its
  components; one that deletes a surface which is there makes the renderer refuse the rest and the
  page keep showing the surface. `ShownSurfacesHaveRoot` speaks of pages whose renderer has not
  refused anything.
- A payload that creates a surface, deletes it and creates it again may leave it without a root: that
  it had one before the deletion counts (`a2ui.ts:174`). `ShownSurfacesHaveRoot` excepts surfaces
  that a payload created more than once (`remade`).
- In strict mode fenced blocks are taken out of texts without being rendered.

## 3. Runs

| Run | Instance | Shows |
| --- | --- | --- |
| `discovery` | 2 calls at a time, 3 in all, 2 versions, clock to 3 | types; validators are their card's; no chain of renewals outlives MaxAge + Timeout; implements `CardService` |
| `browser_session` | 2 runs, 2 clears or mode changes, 2 frames a run before its end | one live run, no contextId across sessions, "complete" is earned, only the current run speaks, the page never stays streaming |
| `command_route` | every command in both modes, 2 tasks, 2 events | implements `EventStream`; nothing dropped; subscriptions follow their task; terminal events, answers and aborts end commands |
| `token_cache` | 2 calls at a time, 3 in all, 2 grants, lives 1 and 3, skew 1, delay 2, clock to 5 | shared tokens are valid as far as the skew goes, fit their grant, and have a stated life |
| `policy_fetch` | 7 calls of both bindings, 2 redirects, streams of up to 2 frames in 3 line ends, cut anywhere, limit 11 tokens | requests stay at their origin and admitted; bodies sent once; events validated as the reader sees them, refusals earned; the timer spares streams; calls settle |
| `strict_client` | 7 cards, 6 clients, connect and 2 refreshes, 1 operation | the connection, each request and each result of a refresh belong to one card |
| `page` | 2 runs, 3 payloads of 5 kinds, 1 clear or mode change, transcript of 3 messages, thresholds 2 and 3 | one message per run; short texts kept; strict surfaces were negotiated; shown surfaces have a root |

Five further runs each check one sentence of the repository's documents or comments that the code
does not keep; TLC finds the behaviour (see `findings` in `PROJECT.json`):

- `discovery_renewal`: a 304 is applied to the entry read *before* the request, so a newer
  card stored meanwhile is replaced by the older one. (`MaxAge = 0` makes the shortest
  counterexample; it needs two conditional requests in flight.)
- `browser_operator_aborts`: the `finally` of an old run clears the controller of the new
  one; rendering that aborts the new run, which is reported as the operator's abort.
- `discovery_trust`: a signed card that one client verified is served from the shared cache to
  another that has no trust store, as verified.
- `policy_fetch_line_ends`: an event of two data lines written with CRLF is cut in two by the
  validator and refused.
- `page_surfaces`: the end of a run empties the renderer's model while the page goes on
  showing the surfaces.

Five more disagreements are short enough to read off the code, and have no run of their own:
a subscription that the agent ends before a terminal state is reported as ended well
(`client.ts:237`, against `protocol-contract.md:93-94`; `SubscriptionFollowsItsTask` says that
nothing else ends it early without an error); the schemes of one requirement are not all presented
(`security.ts:74`, see above);
a 304 that carries `no-store` is stored all the same (`discovery.ts:82`, against
`protocol-contract.md:74`); the run that a mode change aborts writes its abort into the new
mode's session (`workbench-client.tsx:613`, against `frontend-c4-model.md:75-76`); an answer
without any frame leaves the page streaming, and no run can be started until the session is
cleared (`workbench-client.tsx:588`, against `frontend-c4-model.md:298`).

**Why the bounds are enough.** The hazards are pairwise: a call or a run acts on what
another one changed in between, so two at a time reach each of them, and the third call of
`discovery` and `token_cache` observes what two left behind. Two versions let a card be
replaced once, three clock values let it be fresh, expire and be renewed. Two resets put a
session between two others. Two events per stream cover first and later, failing and not,
terminal and not. Two redirects are the fewest of which one is neither first nor last; two
frames of up to two lines put every separator next to a line and next to a frame, and a limit
of 11 tokens is passed by the longer streams only. The two refreshes overlap each other and the
connection, with an operation begun before, between and after. The page's thresholds are scaled
to texts of one to three characters, so that each rule of the merge applies to some pair of the
five payloads and fails on another; three payloads let two of a run and one of the next, or three
of one run, meet. Where bounds matter beyond that, the proofs take over: they hold for
every value of the constants. Mutants of the code, one per property, are found by TLC under
the same bounds. Deadlock is not checked: each system may stop, when the operator, the caller
or the agent does nothing more, and the bounded counters stop every model.

**Fairness.** `BrowserSession`: React renders what was set (`Commit`); a pending
read is resumed once data or the end is there; the catch block of an aborted run runs; the route ends what it serves
(which is `command_route`'s subject; an agent that never ends a stream is excluded here).
`CommandRoute`: JavaScript goes on with what arrived; the timer of a request fires; an
aborted request or stream rejects; a look-up of a name ends. The agent, the operator and the page
owe nothing. `AnswersEnd` says that a command which is no stream ends, or waits for ever at one of the
places that have no timer (`Unlimited`). A
stream has none either: an agent that neither ends it nor reports a terminal state holds
the command until the page aborts, which is why `TerminalEndsCommand` and
`AbortEndsCommand` are what can be said. `PolicyFetch`: the client's own steps are taken, a signal
reaches what waits for it, the timer fires; the agent may be silent for ever, and so may the
credential provider as long as it heeds the signal it is given. Both providers of the repository
do; the interface (`network.ts:65`) obliges no other one to, and `CallsSettle` says nothing of a
provider that does not.

## 4. Proofs

Each module of proofs has an inductive invariant `IInv`, of which initial states are states and
which steps preserve, and the theorems that follow from it.

`Discovery_proofs`: `TypeOK`, `ValidatorMatchesCard`, `EntryExpiresInTime`,
`SignedCardsAreVerified` under the hypothesis that all callers have the same trust store (it is
violated without it), and that `Discovery` implements `CardService` (initial states map to
initial states, every step to a step or a stutter). `IInv` says of
*every entry at large*, in the cache or in the hands of a call, what the properties say of
the cache: own validator, true label, expiry within MaxAge + Timeout of the card's last
publication, and lifetime at most MaxAge, since a 304 without headers inherits it. Of an
answer it says that it was composed between the request and the timeout and confirms the
validator of the entry the call holds. The implementation needs it where a call returns:
the entry was fresh or has just been confirmed.

`BrowserSession_proofs`: `TypeOK`, `OneLiveRun`, `ContextStaysInSession`, `CompleteIsEarned` and
`OnlyCurrentRunSpeaks`. `OneLiveRun` is not inductive: that the page can stop a live run
rests on how the controller as set and as rendered may differ, which is
`ControllerRendered`; `ContextStaysInSession` rests on the context, as set and as rendered,
coming from a run of this session (`ContextCurrent`) and on origins of runs that are yet to
start (`OriginsConnected`). Of the route the proofs use only what `EventStream` says.

`TokenCache_proofs`: `TypeOK`, `ProcessTokensFitTheGrant`, `UnstatedTokensAreNotShared` and
`SharedTokensAreValid`. The invariant is again about every entry kept: it expires no later
than its token's issue plus its life plus MaxDelay (`EntriesExpire`) and, in the
process-wide cache, is of the grant it is kept under (`EntriesFit`); and about every token
on its way: it answers the request of the call it goes to (`TokensAnswerCalls`), which is
why calls that reuse a slot and answers out of order do no harm.

`CommandRoute_proofs`: `TypeOK`, `NothingIsDropped`, `SubscriptionFollowsItsTask`, and that
`CommandRoute` implements `EventStream`. What was shown and what is coming together are what
was told, in its order (`ShownWasTold`, `ComingIsNext`), all of it unless the stream broke; so a
stream that ends with nothing coming has shown everything (`EndIsComplete`). A subscription that
goes on has shown no terminal state, and is fresh exactly while it has shown nothing; so one that
returns has shown a terminal state, or its Task and all the agent told before it ended the stream
(`SubscriptionIsOver`). The
implementation rests on `OkIsTrue`: while the page reads, `ok` is false exactly if a frame on the
wire told of a failure, which is what `done` then says.

`PolicyFetch_proofs`: `TypeOK`, `RequestsStayAdmitted`, `BodyIsSentOnce`, `TimerSparesStreams`,
`EventsAreValidated` and `RefusalIsEarned`, for any number of redirects and any texts. A request is sent only after a verdict that follows those of all requests before
it (`VerdictsLead`); a body that was sent is consumed, or dropped for good by a redirect that
becomes a GET (`BodyIsConsumed`); a stream exists only once its call has ended, so that the
timer is cleared or has fired before (`StreamFollowsCall`).

The two about the stream compare two ways of cutting a text into frames, one applied to chunks and
what is left over of them, the other to the whole text with its line ends rewritten. The proof
leaves the frames behind: of a data line it says, by places in the text, whether the data lines
that no empty line keeps apart from it make one payload (`SoundAt`). `CutFacts` says that `Cut`
gives sound frames exactly when the data lines up to some place are sound; `Window` that a part of
a text that starts where a frame may start says of its data what the whole text says;
`FaithfulSound` that rewriting line ends changes nothing of this, if it keeps apart what is apart,
which is what `OneLineFrames` ensures (`OneLineFramesAreFaithful`). The invariant `StreamInv` is
then that what was passed on is sound up to the place where the text left over waits to be cut
(`StreamRead`); that a refused stream has a data line that is not sound; and that a stream is a
response to a request whose operation the policy fetch inferred (`StreamOrigin`).

`Page_proofs`: `TypeOK`, `OneMessagePerRun`, `StrictSurfacesWereNegotiated`,
`ShownSurfacesHaveRoot` and `ShortTextsAreKept`, for any payloads: lists of parts, texts and messages of any length.
Its first invariant is about the transcript. Only the message that the refs name can get text of the
last run (`Kept`), and the texts that wait for a rendering are the last run's, or of runs it overtook
(`Fits`). A rendering is a fold of the waiting updaters over the transcript; that each of them
keeps this is an induction over the waiting updaters (`Folding`), and holds for a second fold from
the refs the first one left, which is what React's strict mode does.

The second one, `SurfacesInv`, follows messages from the payload to the page. Every surface in the
renderer's model and on the page comes from a run that may show it (`Earned`), and has a root unless
the renderer has refused a message or one payload created the surface twice (`Rooted`); the frames on
their way hold messages that normalisation made (`Underway`). The proof goes along the code: what
flattening and filtering lists preserve; what is read out of a payload in either mode; what
normalisation makes of it, above all that a surface with an update is created, and that the last
creation is followed by components that have a root (`WellMade`); what frames then carry
(`FramesFacts`); and what the renderer does with such a list (`RenderFacts`). The last is again a fold:
in a run of the renderer that refuses nothing, no update comes before the creation of its surface, so
a surface that was created once has the root that came after it.

The third one, `SaidInv`, is about what texts become. That one text includes another means that it is
the other one with something around it (`IncludesBy`), which makes inclusion reflexive, transitive and
indifferent to what is added (`IncludesFacts`); texts are compared without spaces, which concatenation
respects (`CompactConcat`) and trimming does not change (`TrimFacts`). From these, `MergeTells` takes
the merge case by case: the message then holds the new text, and what it held before unless the new
text is long enough to be a final answer or to repeat the end of the message. The waiting texts are
folded into the transcript together with what was heard by then (`FoldingTells`), so that after each
rendering the refs' message holds what was said in the last run and each message of the transcript
what was said in its runs (`Told`). Runs that another one overtook are excepted: their texts may go
into the message of the other run, whose next long text may replace them.

`Induction` has what such proofs need of the natural numbers. The library's induction theorems take
a predicate, which the provers cannot instantiate; stated of a *set* (`Induct`, `InductUpTo`), they
can, and `Iteration` gives the recursive functions that `Cut` and `Normalized` are.

`StrictClient_proofs`: `TypeOK`, `ConnectionFitsItsCard`, `RequestsFitTheirCard` and
`RefreshReturnsItsCard`. Every connection at large, in the client's state, with a call that is
deciding or with an operation, is one settled for a single fit card (`Settled`), whatever happened
to the client since; the rest are facts about `Negotiation` (the first usable interface and the
first requirement that is met exist and are the first).

Assumptions: only those named in the modules (bounds are naturals, the constants have the types
their comments say, answers that state no lifetime come from the agent itself, model values are
not records, a payload's parts and objects are lists, the lengths that the merge
compares are positive and the end it compares is long enough for them).

Model-checked only: liveness (`EveryRunSettles`, `TerminalEndsCommand`, `AnswersEnd`,
`AbortEndsCommand`, `CallsSettle`), which the prover does not do. Every other property of a run
that holds is stated by a theorem.

## 5. Not modelled

- The fields of protocol messages: what validators check one by one is a verdict here (a
  `malformed` event, an answer that is not `valid`). So are the v0.3 conversions.
- The inspector's frames and lists, evidence, edits of the form, what a draft becomes (whether it is complete is `Stated`), redaction, wording.
- Catalogs, data models and properties of components of A2UI surfaces, and how they are drawn.
- Preferences in localStorage: three effects that do not interleave. Their one hazard is that the
  effects that store run on the first render, before what hydration has read is rendered
  (`workbench-client.tsx:495`), so that for a moment the defaults are stored; a page closed in that
  moment loses the profile. It takes a model of storage across page loads to say more.
- DNS and address checks of the URL policy: a predicate without state, whose verdict the models
  leave open at every call.

## 6. Plan

Done: `Discovery`, `BrowserSession`, `EventStream`/`CommandRoute`, `TokenCache`,
`PolicyFetch`, `StrictClient`, `Page` and what they rest on, and proofs of all of them. What
remains worth doing, in this order:

1. `CommandRoute` over `PolicyFetch`: the timer and signal of a command as those of its requests.
2. Preferences across page loads.
