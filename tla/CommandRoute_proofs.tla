------------------------ MODULE CommandRoute_proofs ------------------------
(***************************************************************************)
(* Proofs about CommandRoute, for any tasks, task states and number of     *)
(* events: what a command shows of what the agent told, and that the page  *)
(* reads the stream EventStream promises.                                  *)
(***************************************************************************)
EXTENDS CommandRoute, SequenceTheorems, TLAPS

FrameKinds == {"connection", "agentCard", "request", "a2a", "meta", "status", "failed", "text",
               "error", "doneOk", "doneNotOk"}

\* TypeOK, with the frames under a name.
Types ==
  /\ command \in Command
  /\ step \in {"reading", "admitting", "authorizing", "connecting", "readingCard", "resolving",
              "calling", "readingAnswer", "streaming", "returning", "throwing", "reporting",
              "closing", "ended"}
  /\ line \in {"none", "open", "ended", "broken"}
  /\ incoming \in Seq(Event)
  /\ fresh \in BOOLEAN
  /\ ok \in BOOLEAN
  /\ wire \in Seq(FrameKinds)
  /\ aborted \in BOOLEAN
  /\ cancelled \in BOOLEAN
  /\ told \in Seq(Event \cup Answer)
  /\ shown \in Seq(Event \cup Answer)

\* The steps before the agent is heard.
Early == {"reading", "admitting", "authorizing", "connecting", "readingCard", "resolving",
          "calling", "readingAnswer"}

\* The steps of a command that nothing but the route's reading, looking up and waiting takes.
Passing ==
  \/ ReadCommand \/ Admit \/ Authorize \/ Discover \/ AnswerAsStream
  \/ FailRequest \/ RejectUrl \/ TimeOut \/ HearAbort

NothingYet == step \in Early => told = << >> /\ shown = << >> /\ incoming = << >> /\ fresh

\* What was shown was told, in the same order.
ShownWasTold ==
  /\ Len(shown) <= Len(told)
  /\ \A i \in 1..Len(shown) : shown[i] = told[i]

\* On a stream the events on their way are those told after the ones shown, and all of them
\* unless the stream broke.
ComingIsNext ==
  step = "streaming" =>
    /\ Len(shown) + Len(incoming) <= Len(told)
    /\ \A i \in 1..Len(incoming) : incoming[i] = told[Len(shown) + i]
    /\ line # "broken" => Len(shown) + Len(incoming) = Len(told)

Complete == shown = told \/ (Strict /\ shown # << >> /\ Terminal(Last(shown)))

EndIsComplete ==
  /\ step = "returning" => Complete
  /\ step = "reporting" => Contains(wire, "error")
  /\ step = "closing" => Complete \/ Contains(wire, "error")

\* A subscription that goes on has not shown a terminal state.
SubscriptionIsFresh ==
  Strict /\ Operation = "subscribeToTask" /\ step = "streaming" =>
    /\ fresh <=> shown = << >>
    /\ \A i \in DOMAIN shown : ~Terminal(shown[i])

\* What a subscription shows is about its task.
ShownFollows ==
  Strict /\ Operation = "subscribeToTask" =>
    \A i \in DOMAIN shown :
      /\ i = 1 => shown[i].kind = "task"
      /\ ConcernsTask(shown[i])
      /\ Terminal(shown[i]) => i = Len(shown)

\* A subscription that is over without a failure has shown a terminal state, or its stream ended.
SubscriptionIsOver ==
  Strict /\ Operation = "subscribeToTask"
  /\ (step = "returning" \/ (step = "closing" /\ ~Contains(wire, "error"))) =>
    shown # << >> /\ (Terminal(Last(shown)) \/ line = "ended")

\* While the page reads, ok says whether it was told of a failure.
OkIsTrue == ~cancelled => (ok <=> ~Contains(wire, "failed"))

IInv ==
  /\ Types
  /\ NothingYet
  /\ ShownWasTold
  /\ ComingIsNext
  /\ EndIsComplete
  /\ SubscriptionIsFresh
  /\ SubscriptionIsOver
  /\ ShownFollows
  /\ OkIsTrue
----------------------------------------------------------------------------
(***************************************************************************)
(* Frames.                                                                 *)
(***************************************************************************)
LEMMA FramesOfEvents ==
  ASSUME NEW e \in Event \cup Answer, e.kind # "malformed"
  PROVE  /\ Frames(e) \in Seq(FrameKinds \ Page!Final)
         /\ Frames(e) # << >>
         /\ Contains(Frames(e), "failed") <=> Failing(e)
<1>1. e.kind \in {"card", "list", "task", "status", "message", "artifact"}
  BY DEF Event, Answer
<1>2. e.kind \notin {"task", "status"} => ~Failing(e)
  BY DEF Event, Answer, Failing, FailedStates
<1>3. CASE e.kind \in {"task", "status"}
  <2>1. Frames(e) = <<"a2a", "meta", IF Failing(e) THEN "failed" ELSE "status">>
    BY <1>3 DEF Frames
  <2> QED
    BY <2>1 DEF FrameKinds, Page!Final, Contains
<1>4. CASE e.kind = "card"
  <2>1. Frames(e) = <<"agentCard">>
    BY <1>4 DEF Frames
  <2> QED
    BY <1>2, <1>4, <2>1 DEF FrameKinds, Page!Final, Contains
<1>5. CASE e.kind = "list"
  <2>1. Frames(e) = <<"a2a">>
    BY <1>5 DEF Frames
  <2> QED
    BY <1>2, <1>5, <2>1 DEF FrameKinds, Page!Final, Contains
<1>6. CASE e.kind \in {"message", "artifact"}
  <2>1. Frames(e) = <<"a2a", "meta", "text">>
    BY <1>6 DEF Frames
  <2> QED
    BY <1>2, <1>6, <2>1 DEF FrameKinds, Page!Final, Contains
<1> QED
  BY <1>1, <1>3, <1>4, <1>5, <1>6

LEMMA GreetingFrames ==
  /\ Greeting \in Seq(FrameKinds \ Page!Final)
  /\ Greeting # << >>
  /\ ~Contains(Greeting, "failed")
<1>1. \/ Greeting = <<"connection", "agentCard">>
      \/ Greeting = <<"connection", "request">>
      \/ Greeting = <<"connection">>
  BY DEF Greeting
<1>2. CASE Greeting = <<"connection", "agentCard">>
  BY <1>2 DEF FrameKinds, Page!Final, Contains
<1>3. CASE Greeting = <<"connection", "request">>
  BY <1>3 DEF FrameKinds, Page!Final, Contains
<1>4. CASE Greeting = <<"connection">>
  BY <1>4 DEF FrameKinds, Page!Final, Contains
<1> QED
  BY <1>1, <1>2, <1>3, <1>4

\* What is added to the wire adds to what it contains, and is what was added.
LEMMA AddedFrames ==
  ASSUME NEW w \in Seq(FrameKinds), NEW f \in Seq(FrameKinds)
  PROVE  /\ w \o f \in Seq(FrameKinds)
         /\ Len(w \o f) = Len(w) + Len(f)
         /\ SubSeq(w \o f, 1, Len(w)) = w
         /\ SubSeq(w \o f, Len(w) + 1, Len(w \o f)) = f
         /\ \A frame : Contains(w \o f, frame) <=> Contains(w, frame) \/ Contains(f, frame)
<1>1. /\ w \o f \in Seq(FrameKinds) /\ Len(w \o f) = Len(w) + Len(f)
      /\ Len(w) \in Nat /\ Len(f) \in Nat
      /\ \A i \in 1..Len(w) : (w \o f)[i] = w[i]
      /\ \A i \in 1..Len(f) : (w \o f)[Len(w) + i] = f[i]
  BY ConcatProperties, LenProperties
<1>2. SubSeq(w \o f, 1, Len(w)) = w
  BY <1>1
<1>3. SubSeq(w \o f, Len(w) + 1, Len(w \o f)) = f
  <2> DEFINE sub == SubSeq(w \o f, Len(w) + 1, Len(w \o f))
  <2>1. /\ sub \in Seq(FrameKinds) /\ Len(sub) = Len(f)
        /\ \A i \in 1..Len(f) : sub[i] = (w \o f)[Len(w) + i]
    BY <1>1
  <2> QED
    BY <1>1, <2>1, SeqEqual
<1>4. ASSUME NEW frame PROVE Contains(w \o f, frame) <=> Contains(w, frame) \/ Contains(f, frame)
  <2>1. ASSUME Contains(w \o f, frame) PROVE Contains(w, frame) \/ Contains(f, frame)
    <3>1. PICK i \in 1..(Len(w) + Len(f)) : (w \o f)[i] = frame
      BY <1>1, <2>1 DEF Contains
    <3>2. CASE i <= Len(w)
      BY <1>1, <3>1, <3>2 DEF Contains
    <3>3. CASE i > Len(w)
      <4>1. i - Len(w) \in 1..Len(f) /\ i = Len(w) + (i - Len(w))
        BY <1>1, <3>3
      <4>2. f[i - Len(w)] = frame
        BY <1>1, <3>1, <4>1
      <4> QED
        BY <4>1, <4>2 DEF Contains
    <3> QED
      BY <1>1, <3>2, <3>3
  <2>2. ASSUME Contains(w, frame) PROVE Contains(w \o f, frame)
    BY <1>1, <2>2 DEF Contains
  <2>3. ASSUME Contains(f, frame) PROVE Contains(w \o f, frame)
    <3>1. PICK i \in 1..Len(f) : f[i] = frame
      BY <2>3 DEF Contains
    <3>2. (w \o f)[Len(w) + i] = frame
      BY <1>1, <3>1
    <3>3. Len(w) + i \in 1..Len(w \o f)
      BY <1>1
    <3> QED
      BY <3>2, <3>3 DEF Contains
  <2> QED
    BY <2>1, <2>2, <2>3
<1> QED
  BY <1>1, <1>2, <1>3, <1>4
----------------------------------------------------------------------------
(***************************************************************************)
(* Types.                                                                  *)
(***************************************************************************)
LEMMA InitTypes == Init => Types
<1> SUFFICES ASSUME Init PROVE Types
  OBVIOUS
<1>1. command \in Command /\ step = "reading" /\ line = "none" /\ aborted = FALSE /\ cancelled = FALSE
  BY DEF Init
<1>2. fresh \in BOOLEAN /\ ok \in BOOLEAN /\ aborted \in BOOLEAN /\ cancelled \in BOOLEAN
  BY Zenon DEF Init
<1>3. /\ incoming \in Seq(Event) /\ wire \in Seq(FrameKinds)
      /\ told \in Seq(Event \cup Answer) /\ shown \in Seq(Event \cup Answer)
  BY EmptySeq DEF Init
<1> QED
  BY <1>1, <1>2, <1>3 DEF Types

LEMMA EmitTypes ==
  ASSUME wire \in Seq(FrameKinds), NEW frames \in Seq(FrameKinds), NEW next, Emit(frames, next)
  PROVE  step' \in {next, "throwing"} /\ wire' \in Seq(FrameKinds)
<1>1. wire \o frames \in Seq(FrameKinds)
  BY ConcatProperties
<1> QED
  BY <1>1 DEF Emit

LEMMA ShowTypes ==
  ASSUME Types, NEW e \in Event \cup Answer, e.kind # "malformed", NEW next, Show(e, next)
  PROVE  /\ step' \in {next, "throwing"} /\ ok' \in BOOLEAN
         /\ wire' \in Seq(FrameKinds) /\ shown' \in Seq(Event \cup Answer)
<1>1. Frames(e) \in Seq(FrameKinds)
  BY FramesOfEvents
<1>2. step' \in {next, "throwing"} /\ wire' \in Seq(FrameKinds)
  BY <1>1, EmitTypes DEF Show, Types
<1>3. ok' \in BOOLEAN
  BY Zenon DEF Show
<1>4. shown' \in Seq(Event \cup Answer)
  BY DEF Show, Types
<1> QED
  BY <1>2, <1>3, <1>4

\* They move the route alone, towards the operation or into the catch block.
LEMMA PassingSteps ==
  ASSUME Passing
  PROVE  /\ UNCHANGED <<command, agentsPart, outcome, wire, aborted, cancelled>>
         /\ step \in Early \cup {"streaming"}
         /\ step' \in (Early \ {"reading"}) \cup {"throwing"}
         /\ step = "streaming" => step' = "throwing"
<1>1. CASE ReadCommand \/ Admit \/ Authorize
  BY <1>1 DEF ReadCommand, Admit, Authorize, Proceed, Early
<1>2. CASE Discover \/ AnswerAsStream
  BY <1>2 DEF Discover, AnswerAsStream, Proceed, Early
<1>3. CASE FailRequest \/ RejectUrl \/ TimeOut \/ HearAbort
  <2>1. Fail /\ (Timed \/ Unlimited \/ LookingUp \/ step = "streaming")
    BY <1>3 DEF FailRequest, RejectUrl, TimeOut, HearAbort
  <2> QED
    BY <2>1 DEF Fail, Timed, Unlimited, LookingUp, Early
<1> QED
  BY <1>1, <1>2, <1>3 DEF Passing

LEMMA CommandStays == [Next]_vars => command' = command
<1> SUFFICES ASSUME [Next]_vars PROVE command' = command
  OBVIOUS
<1>1. CASE Passing
  BY <1>1, PassingSteps
<1>2. CASE Connect \/ ReceiveAnswer \/ OpenStream \/ TakeEvent \/ LeaveStream \/ Finish
  BY <1>2 DEF Connect, ReceiveAnswer, OpenStream, TakeEvent, LeaveStream, Finish, ReportDone,
     ReportError, ReportNotOk, Report, Close
<1>3. CASE Agent \/ Abort \/ Cancel \/ UNCHANGED vars
  BY <1>3 DEF Agent, AgentTells, AgentEnds, AgentBreaks, Abort, Cancel, vars
<1> QED
  BY <1>1, <1>2, <1>3 DEF Next, Begin, Work, Passing

LEMMA NextTypes == Types /\ [Next]_vars => Types'
<1> SUFFICES ASSUME Types, [Next]_vars PROVE Types'
  OBVIOUS
<1> USE DEF agentsPart, outcome
<1>1. CASE OpenStream \/ LeaveStream \/ Close
  BY <1>1 DEF OpenStream, LeaveStream, Close, Types
<1>2. CASE Connect
  <2>1. Greeting \in Seq(FrameKinds)
    BY GreetingFrames
  <2>2. /\ wire' \in Seq(FrameKinds)
        /\ step' \in {"returning", "calling", "throwing"}
    BY <1>2, <2>1, EmitTypes DEF Connect, Types
  <2> QED
    BY <1>2, <2>2 DEF Connect, Types
<1>3. CASE ReceiveAnswer
  <2>1. PICK e \in Answer : /\ told' = Append(told, e)
                            /\ IF Accepted(e) THEN Show(e, "returning") /\ UNCHANGED fresh ELSE Throw
    BY <1>3 DEF ReceiveAnswer
  <2>2. told' \in Seq(Event \cup Answer)
    BY <2>1 DEF Types
  <2>3. CASE Accepted(e)
    BY <1>3, <2>1, <2>2, <2>3, ShowTypes DEF Accepted, Valid, ReceiveAnswer, Types
  <2>4. CASE ~Accepted(e)
    BY <1>3, <2>1, <2>2, <2>4 DEF Throw, ReceiveAnswer, Types
  <2> QED
    BY <2>3, <2>4
<1>4. CASE TakeEvent
  <2> DEFINE e == Head(incoming)
  <2>1. e \in Event /\ incoming' \in Seq(Event)
    BY <1>4 DEF TakeEvent, Types
  <2>2. CASE Accepted(e)
    <3>1. Show(e, IF Strict /\ Terminal(e) THEN "returning" ELSE "streaming") /\ fresh' = FALSE
      BY <1>4, <2>2 DEF TakeEvent, AfterEvent
    <3>2. e.kind # "malformed"
      BY <2>2 DEF Accepted, Valid
    <3> HIDE DEF e
    <3> QED
      BY <1>4, <2>1, <3>1, <3>2, ShowTypes DEF TakeEvent, Types
  <2>3. CASE ~Accepted(e)
    BY <1>4, <2>1, <2>3 DEF TakeEvent, Throw, Types
  <2> QED
    BY <2>2, <2>3
<1>5. CASE ReportDone
  <2>1. <<IF ok THEN "doneOk" ELSE "doneNotOk">> \in Seq(FrameKinds)
    BY DEF FrameKinds
  <2>2. wire' \in Seq(FrameKinds) /\ step' \in {"closing", "throwing"}
    BY <1>5, <2>1, EmitTypes DEF ReportDone, Types
  <2> QED
    BY <1>5, <2>2 DEF ReportDone, Types
<1>6. CASE ReportError \/ ReportNotOk
  <2>1. "error" \in FrameKinds /\ "doneNotOk" \in FrameKinds
    BY DEF FrameKinds
  <2>2. PICK frame \in FrameKinds, next \in {"reporting", "closing"} : Report(frame, next)
    BY <1>6, <2>1 DEF ReportError, ReportNotOk
  <2>3. wire \in Seq(FrameKinds) /\ Append(wire, frame) \in Seq(FrameKinds)
    BY DEF Types
  <2>4. wire' \in Seq(FrameKinds) /\ step' \in {"reporting", "closing", "ended"}
    BY <2>2, <2>3 DEF Report
  <2> QED
    BY <2>2, <2>4 DEF Report, Types
<1>7. CASE Passing
  BY <1>7, PassingSteps DEF Types, Early
<1>8. CASE AgentTells
  BY <1>8 DEF AgentTells, Types
<1>9. CASE AgentEnds
  BY <1>9 DEF AgentEnds, Types
<1>10. CASE AgentBreaks
  <2>1. incoming' \in Seq(Event)
    BY <1>10 DEF AgentBreaks, Types
  <2> QED
    BY <1>10, <2>1 DEF AgentBreaks, Types
<1>11. CASE Abort \/ Cancel
  BY <1>11 DEF Abort, Cancel, Types
<1>12. CASE UNCHANGED vars
  BY <1>12 DEF vars, Types
<1> QED
  BY <1>1, <1>2, <1>3, <1>4, <1>5, <1>6, <1>7, <1>8, <1>9, <1>10, <1>11, <1>12
     DEF Next, Begin, Work, Finish, Agent, Passing
----------------------------------------------------------------------------
(***************************************************************************)
(* What was shown of what was told.                                        *)
(***************************************************************************)
OrderInv == NothingYet /\ ShownWasTold /\ ComingIsNext /\ EndIsComplete

LEMMA SameComplete ==
  ASSUME UNCHANGED <<command, told, shown>>
  PROVE  Complete' = Complete
  BY DEF Complete, Strict

\* Steps that show nothing, and go on with a stream only if they were.
LEMMA NothingShown ==
  ASSUME Types, OrderInv, UNCHANGED <<command, told, shown, incoming, fresh>>,
         step' \in Early => step \in Early,
         step' = "streaming" =>
           \/ step = "streaming" /\ (line' = line \/ (line # "broken" /\ line' = "ended"))
           \/ step \in Early,
         step' \in {"returning", "reporting", "closing"} => step' = step /\ wire' = wire
  PROVE  OrderInv'
<1> USE DEF OrderInv
<1>1. NothingYet' /\ ShownWasTold'
  BY DEF NothingYet, ShownWasTold
<1>2. ComingIsNext'
  BY DEF NothingYet, ComingIsNext
<1>3. EndIsComplete'
  BY SameComplete DEF EndIsComplete
<1> QED
  BY <1>1, <1>2, <1>3

\* The event at the head of those coming is the next one told.
LEMMA NextIsTold ==
  ASSUME Types, OrderInv, step = "streaming", incoming # << >>
  PROVE  /\ Head(incoming) \in Event
         /\ Len(shown) < Len(told) /\ told[Len(shown) + 1] = Head(incoming)
         /\ Len(Tail(incoming)) = Len(incoming) - 1
         /\ \A i \in 1..Len(Tail(incoming)) : Tail(incoming)[i] = told[Len(shown) + 1 + i]
         /\ Len(shown) \in Nat /\ Len(told) \in Nat /\ Len(incoming) \in Nat
<1>1. incoming \in Seq(Event) /\ Len(shown) \in Nat /\ Len(told) \in Nat /\ Len(incoming) \in Nat
  BY DEF Types
<1>2. /\ Len(incoming) > 0 /\ Head(incoming) = incoming[1]
      /\ Len(Tail(incoming)) = Len(incoming) - 1
      /\ \A i \in 1..(Len(incoming) - 1) : Tail(incoming)[i] = incoming[i + 1]
  BY <1>1
<1>3. /\ Len(shown) + Len(incoming) <= Len(told)
      /\ \A i \in 1..Len(incoming) : incoming[i] = told[Len(shown) + i]
  BY DEF OrderInv, ComingIsNext
<1>4. ASSUME NEW i \in 1..Len(Tail(incoming)) PROVE Tail(incoming)[i] = told[Len(shown) + 1 + i]
  <2>1. i + 1 \in 1..Len(incoming) /\ i \in 1..(Len(incoming) - 1)
    BY <1>1, <1>2
  <2>2. incoming[i + 1] = told[Len(shown) + (i + 1)]
    BY <1>3, <2>1
  <2>3. Len(shown) + (i + 1) = Len(shown) + 1 + i
    BY <1>1, <2>1
  <2> QED
    BY <1>2, <2>1, <2>2, <2>3
<1> QED
  BY <1>1, <1>2, <1>3, <1>4

LEMMA TakeEventOrder ==
  ASSUME Types, OrderInv, TakeEvent
  PROVE  OrderInv'
<1> DEFINE e == Head(incoming)
<1>1. /\ step = "streaming" /\ incoming # << >> /\ incoming' = Tail(incoming)
      /\ UNCHANGED <<command, line, told>>
  BY DEF TakeEvent
<1>2. /\ step' \in {"returning", "streaming", "throwing"}
      /\ \/ shown' = shown /\ step' = "throwing"
         \/ shown' = Append(shown, e) /\ (step' = "returning" => Strict /\ Terminal(e))
  BY DEF TakeEvent, AfterEvent, Throw, outcome, Show, Emit
<1>3. CASE shown' = shown /\ step' = "throwing"
  BY <1>1, <1>3 DEF OrderInv, NothingYet, ShownWasTold, ComingIsNext, EndIsComplete, Early
<1>4. CASE shown' = Append(shown, e) /\ (step' = "returning" => Strict /\ Terminal(e))
  <2> HIDE DEF e
  <2>1. /\ Len(shown') = Len(shown) + 1 /\ shown'[Len(shown) + 1] = e
        /\ \A i \in 1..Len(shown) : shown'[i] = shown[i]
        /\ shown' # << >> /\ Last(shown') = e
    <3>1. shown \in Seq(Event \cup Answer) /\ e \in Event \cup Answer
      <4>1. Head(incoming) \in Event
        BY <1>1, NextIsTold
      <4> QED
        BY <4>1 DEF Types, e
    <3>2. shown' \in Seq(Event \cup Answer) /\ Len(shown') = Len(shown) + 1 /\ Len(shown) \in Nat
      BY <1>4, <3>1
    <3>3. \A i \in 1..Len(shown) : shown'[i] = shown[i]
      BY <1>4, <3>1
    <3>4. shown'[Len(shown) + 1] = e
      BY <1>4, <3>1
    <3>5. shown' # << >>
      BY <3>2
    <3> QED
      BY <3>2, <3>3, <3>4, <3>5 DEF Last
  <2>2. ShownWasTold'
    <3>1. /\ Len(shown) < Len(told) /\ told[Len(shown) + 1] = e
          /\ Len(shown) \in Nat /\ Len(told) \in Nat /\ told' = told
      BY <1>1, NextIsTold DEF e
    <3>2. \A i \in 1..Len(shown) : shown[i] = told[i]
      BY DEF OrderInv, ShownWasTold
    <3>3. ASSUME NEW i \in 1..(Len(shown) + 1) PROVE shown'[i] = told[i]
      BY <2>1, <3>1, <3>2
    <3> QED
      BY <2>1, <3>1, <3>3 DEF ShownWasTold
  <2>3. ComingIsNext'
    <3>1. /\ Len(shown) + Len(incoming) <= Len(told)
          /\ line # "broken" => Len(shown) + Len(incoming) = Len(told)
      BY <1>1 DEF OrderInv, ComingIsNext
    <3>2. Len(shown') + Len(incoming') = Len(shown) + Len(incoming)
      BY <1>1, <2>1, NextIsTold
    <3>3. \A i \in 1..Len(incoming') : incoming'[i] = told'[Len(shown') + i]
      BY <1>1, <2>1, NextIsTold
    <3> QED
      BY <1>1, <3>1, <3>2, <3>3 DEF ComingIsNext
  <2>4. EndIsComplete'
    BY <1>1, <1>2, <1>4, <2>1 DEF EndIsComplete, Complete, Strict
  <2>5. NothingYet'
    BY <1>2 DEF NothingYet, Early
  <2> QED
    BY <2>2, <2>3, <2>4, <2>5 DEF OrderInv
<1> QED
  BY <1>2, <1>3, <1>4

LEMMA ReceiveAnswerOrder ==
  ASSUME Types, OrderInv, ReceiveAnswer
  PROVE  OrderInv'
<1>1. told = << >> /\ shown = << >> /\ incoming = << >>
  BY DEF OrderInv, NothingYet, ReceiveAnswer, Early
<1>2. PICK e \in Answer : /\ told' = <<e>>
                          /\ \/ shown' = <<e>> /\ step' = "returning"
                             \/ shown' = << >> /\ step' = "throwing"
  BY <1>1 DEF ReceiveAnswer, Throw, outcome, Show, Emit
<1>3. ShownWasTold'
  <2>1. CASE shown' = <<e>>
    BY <1>2, <2>1 DEF ShownWasTold
  <2>2. CASE shown' = << >>
    <3>1. Len(shown') = 0 /\ Len(told') = 1
      BY <1>2, <2>2
    <3> QED
      BY <3>1 DEF ShownWasTold
  <2> QED
    BY <1>2, <2>1, <2>2
<1>4. NothingYet' /\ ComingIsNext' /\ EndIsComplete'
  BY <1>2 DEF NothingYet, Early, ComingIsNext, EndIsComplete, Complete
<1> QED
  BY <1>3, <1>4 DEF OrderInv

LEMMA AgentOrder ==
  ASSUME Types, OrderInv, Agent
  PROVE  OrderInv'
<1>1. step = "streaming" /\ step' = "streaming" /\ shown' = shown
  BY DEF Agent, AgentTells, AgentEnds, AgentBreaks, outcome
<1>2. /\ Len(shown) \in Nat /\ Len(told) \in Nat /\ Len(incoming) \in Nat
      /\ incoming \in Seq(Event) /\ told \in Seq(Event \cup Answer)
  BY DEF Types
<1>3. CASE AgentTells
  <2>1. PICK e \in Event : told' = Append(told, e) /\ incoming' = Append(incoming, e)
    BY <1>3 DEF AgentTells
  <2>2. /\ Len(told') = Len(told) + 1 /\ Len(incoming') = Len(incoming) + 1
        /\ \A i \in 1..Len(told) : told'[i] = told[i]
        /\ \A i \in 1..Len(incoming) : incoming'[i] = incoming[i]
        /\ told'[Len(told) + 1] = e /\ incoming'[Len(incoming) + 1] = e
    BY <1>2, <2>1
  <2>3. /\ line = "open" /\ line' = line
        /\ Len(shown) + Len(incoming) = Len(told)
        /\ \A i \in 1..Len(incoming) : incoming[i] = told[Len(shown) + i]
    BY <1>1, <1>3 DEF AgentTells, OrderInv, ComingIsNext
  <2>4. ComingIsNext'
    <3>1. ASSUME NEW i \in 1..Len(incoming') PROVE incoming'[i] = told'[Len(shown) + i]
      <4>1. CASE i \in 1..Len(incoming)
        <5>1. Len(shown) + i \in 1..Len(told)
          BY <1>2, <2>3, <4>1
        <5> QED
          BY <2>2, <2>3, <4>1, <5>1
      <4>2. CASE i = Len(incoming) + 1
        <5>1. Len(shown) + Len(incoming) = Len(told)
          BY <2>3
        <5>2. Len(shown) + i = Len(told) + 1
          BY <1>2, <4>2, <5>1
        <5> QED
          BY <2>2, <4>2, <5>2
      <4> QED
        BY <1>2, <2>2, <4>1, <4>2
    <3>2. Len(shown') + Len(incoming') = Len(told')
      BY <1>1, <1>2, <2>2, <2>3
    <3> QED
      BY <1>1, <1>2, <2>2, <3>1, <3>2 DEF ComingIsNext
  <2>5. ShownWasTold'
    BY <1>1, <1>2, <2>2 DEF OrderInv, ShownWasTold
  <2> QED
    BY <1>1, <2>4, <2>5 DEF OrderInv, NothingYet, Early, EndIsComplete
<1>4. CASE AgentEnds
  BY <1>1, <1>4, NothingShown DEF AgentEnds, outcome, Early
<1>5. CASE AgentBreaks
  <2>1. PICK n \in 0..Len(incoming) : incoming' = SubSeq(incoming, 1, n)
    BY <1>5 DEF AgentBreaks
  <2>2. Len(incoming') = n /\ \A i \in 1..n : incoming'[i] = incoming[i]
    BY <1>2, <2>1
  <2>3. ComingIsNext'
    BY <1>1, <1>2, <1>5, <2>2 DEF AgentBreaks, OrderInv, ComingIsNext
  <2>4. ShownWasTold'
    BY <1>1, <1>5 DEF AgentBreaks, OrderInv, ShownWasTold
  <2> QED
    BY <1>1, <2>3, <2>4 DEF OrderInv, NothingYet, Early, EndIsComplete
<1> QED
  BY <1>3, <1>4, <1>5 DEF Agent

LEMMA LeaveStreamOrder ==
  ASSUME Types, OrderInv, LeaveStream
  PROVE  OrderInv'
<1>1. /\ step = "streaming" /\ incoming = << >>
      /\ UNCHANGED <<command, line, told, shown, incoming, wire>>
      /\ step' \in {"throwing", "returning"} /\ (line = "broken" => step' = "throwing")
  BY DEF LeaveStream, agentsPart, outcome
<1>2. ASSUME line # "broken" PROVE Complete
  <2>1. /\ Len(shown) = Len(told) /\ \A i \in 1..Len(shown) : shown[i] = told[i]
        /\ shown \in Seq(Event \cup Answer) /\ told \in Seq(Event \cup Answer)
    BY <1>1, <1>2 DEF OrderInv, ShownWasTold, ComingIsNext, Types
  <2> QED
    BY <2>1, SeqEqual DEF Complete
<1> QED
  BY <1>1, <1>2, SameComplete
     DEF OrderInv, NothingYet, Early, ShownWasTold, ComingIsNext, EndIsComplete

\* The frames that end a stream.
LEMMA FinishOrder ==
  ASSUME Types, OrderInv, Finish
  PROVE  OrderInv'
<1>1. /\ UNCHANGED <<command, line, told, shown, incoming, fresh>>
      /\ step' \notin Early \cup {"streaming", "returning"}
  BY DEF Finish, ReportDone, ReportError, ReportNotOk, Report, Close, Emit, agentsPart, outcome, Early
<1>2. EndIsComplete'
  <2>1. CASE ReportDone
    BY <1>1, <2>1, SameComplete DEF ReportDone, Emit, OrderInv, EndIsComplete
  <2>2. CASE ReportError
    <3>1. step' = "ended" \/ (step' = "reporting" /\ wire' = Append(wire, "error"))
      BY <2>2 DEF ReportError, Report
    <3>2. Contains(Append(wire, "error"), "error")
      <4>1. /\ Len(Append(wire, "error")) = Len(wire) + 1 /\ Len(wire) \in Nat
            /\ Append(wire, "error")[Len(wire) + 1] = "error"
        BY DEF Types
      <4> QED
        BY <4>1 DEF Contains
    <3> QED
      BY <3>1, <3>2 DEF EndIsComplete
  <2>3. CASE ReportNotOk
    <3>1. step' = "ended" \/ (step' = "closing" /\ wire' = Append(wire, "doneNotOk"))
      BY <2>3 DEF ReportNotOk, Report
    <3>2. Contains(wire, "error") /\ wire \in Seq(FrameKinds)
      BY <2>3 DEF ReportNotOk, OrderInv, EndIsComplete, Types
    <3>3. Contains(Append(wire, "doneNotOk"), "error")
      BY <3>2 DEF Contains
    <3> QED
      BY <3>1, <3>3 DEF EndIsComplete
  <2>4. CASE Close
    BY <2>4 DEF Close, EndIsComplete
  <2> QED
    BY <2>1, <2>2, <2>3, <2>4 DEF Finish
<1> QED
  BY <1>1, <1>2 DEF OrderInv, NothingYet, ShownWasTold, ComingIsNext

LEMMA NextOrder == Types /\ OrderInv /\ [Next]_vars => OrderInv'
<1> SUFFICES ASSUME Types, OrderInv, [Next]_vars PROVE OrderInv'
  OBVIOUS
<1>1. CASE Passing
  BY <1>1, PassingSteps, NothingShown DEF agentsPart, outcome, Early
<1>4. CASE Abort \/ Cancel \/ UNCHANGED vars
  BY <1>4, NothingShown DEF Abort, Cancel, vars, agentsPart, outcome
<1>2. CASE OpenStream
  BY <1>2, NothingShown DEF OpenStream, outcome, Early
<1>3. CASE Connect
  <2>1. /\ UNCHANGED <<command, told, shown, incoming, fresh>> /\ told = << >> /\ shown = << >>
        /\ step' \in {"returning", "calling", "throwing"} /\ step = "resolving"
    BY <1>3 DEF Connect, Emit, agentsPart, outcome, OrderInv, NothingYet, Early
  <2> QED
    BY <2>1 DEF OrderInv, NothingYet, Early, ShownWasTold, ComingIsNext, EndIsComplete, Complete
<1> QED
  BY <1>1, <1>2, <1>3, <1>4, TakeEventOrder, ReceiveAnswerOrder, AgentOrder, LeaveStreamOrder,
     FinishOrder DEF Next, Begin, Work, Passing
----------------------------------------------------------------------------
(***************************************************************************)
(* Subscriptions.                                                          *)
(***************************************************************************)
SubscriptionInv == SubscriptionIsFresh /\ ShownFollows

LEMMA TakeEventSubscription ==
  ASSUME Types, SubscriptionInv, TakeEvent
  PROVE  SubscriptionInv'
<1> DEFINE e == Head(incoming)
           same == shown' = shown /\ step' = "throwing"
           more == /\ shown' = Append(shown, e) /\ Accepted(e) /\ ~fresh'
                   /\ step' = "streaming" => ~(Strict /\ Terminal(e))
<1>1. step = "streaming" /\ command' = command
  BY DEF TakeEvent
<1>2. same \/ more
  BY DEF TakeEvent, AfterEvent, Throw, outcome, Show, Emit
<1>3. CASE same
  BY <1>1, <1>3 DEF SubscriptionInv, SubscriptionIsFresh, ShownFollows, Strict, Operation,
     ConcernsTask
<1>4. CASE more
  <2> SUFFICES ASSUME Strict, Operation = "subscribeToTask" PROVE SubscriptionInv'
    BY <1>1 DEF SubscriptionInv, SubscriptionIsFresh, ShownFollows, Strict, Operation
  <2>1. /\ fresh <=> shown = << >>
        /\ \A i \in DOMAIN shown : ~Terminal(shown[i])
        /\ \A i \in DOMAIN shown : (i = 1 => shown[i].kind = "task") /\ ConcernsTask(shown[i])
    BY <1>1 DEF SubscriptionInv, SubscriptionIsFresh, ShownFollows
  <2>2. /\ fresh => e.kind = "task"
        /\ ConcernsTask(e)
    BY <1>4 DEF Accepted, Valid
  <2> HIDE DEF e
  <2>3. /\ shown \in Seq(Event \cup Answer) /\ Len(shown) \in Nat /\ DOMAIN shown = 1..Len(shown)
        /\ DOMAIN shown' = 1..(Len(shown) + 1) /\ Len(shown') = Len(shown) + 1
        /\ shown'[Len(shown) + 1] = e /\ \A i \in 1..Len(shown) : shown'[i] = shown[i]
    BY <1>4 DEF Types
  <2>4. \A i \in DOMAIN shown' : i \in DOMAIN shown \/ i = Len(shown')
    BY <2>3
  <2>5. shown = << >> <=> Len(shown') = 1
    BY <2>3
  <2>6. \A i \in DOMAIN shown' : ConcernsTask(shown'[i])
    BY <2>1, <2>2, <2>3, <2>4
  <2>7. \A i \in DOMAIN shown' : i = 1 => shown'[i].kind = "task"
    BY <2>1, <2>2, <2>3, <2>4, <2>5
  <2>8. \A i \in DOMAIN shown' : Terminal(shown'[i]) => i = Len(shown')
    BY <2>1, <2>3, <2>4
  <2>9. step' = "streaming" => \A i \in DOMAIN shown' : ~Terminal(shown'[i])
    BY <1>4, <2>1, <2>3, <2>4
  <2>10. ~fresh' /\ shown' # << >>
    BY <1>4, <2>3
  <2>11. SubscriptionIsFresh'
    BY <2>9, <2>10 DEF SubscriptionIsFresh
  <2>12. ShownFollows'
    BY <1>1, <2>6, <2>7, <2>8 DEF ShownFollows, ConcernsTask
  <2> QED
    BY <2>11, <2>12 DEF SubscriptionInv
<1> QED
  BY <1>2, <1>3, <1>4

LEMMA NextSubscription == Types /\ NothingYet /\ SubscriptionInv /\ [Next]_vars => SubscriptionInv'
<1> SUFFICES ASSUME Types, NothingYet, SubscriptionInv, [Next]_vars PROVE SubscriptionInv'
  OBVIOUS
<1>1. ASSUME UNCHANGED <<command, fresh, shown>>, step' = "streaming" => step = "streaming"
      PROVE  SubscriptionInv'
  BY <1>1 DEF SubscriptionInv, SubscriptionIsFresh, ShownFollows, Strict, Operation,
     ConcernsTask
<1>2. CASE LeaveStream \/ Abort \/ Cancel \/ UNCHANGED vars
  BY <1>1, <1>2 DEF LeaveStream, Abort, Cancel, vars, agentsPart, outcome
<1>8. CASE Passing
  BY <1>1, <1>8, PassingSteps DEF outcome, Early
<1>3. CASE Connect
  <2>1. UNCHANGED <<command, fresh, shown>> /\ step' # "streaming"
    BY <1>3 DEF Connect, Emit, agentsPart, outcome
  <2> QED
    BY <1>1, <2>1
<1>4. CASE Finish
  <2>1. UNCHANGED <<command, fresh, shown>> /\ step' # "streaming"
    BY <1>4 DEF Finish, ReportDone, ReportError, ReportNotOk, Report, Close, Emit, agentsPart, outcome
  <2> QED
    BY <1>1, <2>1
<1>5. CASE Agent
  BY <1>1, <1>5 DEF Agent, AgentTells, AgentEnds, AgentBreaks, outcome
<1>6. CASE OpenStream
  <2>1. shown' = << >> /\ fresh' /\ DOMAIN shown' = {}
    BY <1>6 DEF OpenStream, outcome, NothingYet, Early
  <2> QED
    BY <2>1 DEF SubscriptionInv, SubscriptionIsFresh, ShownFollows
<1>7. CASE ReceiveAnswer
  <2>1. command' = command /\ Operation # "subscribeToTask"
    BY <1>7 DEF ReceiveAnswer, Streaming
  <2> QED
    BY <2>1 DEF SubscriptionInv, SubscriptionIsFresh, ShownFollows, Operation
<1> QED
  BY <1>2, <1>3, <1>4, <1>5, <1>6, <1>7, <1>8, TakeEventSubscription
     DEF Next, Begin, Work, Passing

\* How a subscription comes to its end.
LEMMA NextOver ==
  Types /\ EndIsComplete /\ SubscriptionIsFresh /\ SubscriptionIsOver /\ [Next]_vars
    => SubscriptionIsOver'
<1> SUFFICES ASSUME Types, EndIsComplete, SubscriptionIsFresh, SubscriptionIsOver, [Next]_vars
             PROVE  SubscriptionIsOver'
  OBVIOUS
<1>1. command' = command
  BY CommandStays
<1> SUFFICES ASSUME Strict, Operation = "subscribeToTask",
                    step' = "returning" \/ (step' = "closing" /\ ~Contains(wire', "error"))
             PROVE  /\ shown' # << >>
                    /\ Terminal(Last(shown')) \/ line' = "ended"
  BY <1>1 DEF SubscriptionIsOver, Strict, Operation
<1>2. CASE TakeEvent
  <2> DEFINE e == Head(incoming)
  <2>1. /\ step = "streaming" /\ incoming # << >>
        /\ shown' = Append(shown, e) /\ Terminal(e)
    BY <1>2 DEF TakeEvent, AfterEvent, Throw, outcome, Show, Emit
  <2>2. e \in Event /\ shown \in Seq(Event \cup Answer)
    BY <2>1 DEF Types
  <2> HIDE DEF e
  <2>3. shown' # << >> /\ Last(shown') = e
    BY <2>1, <2>2 DEF Last
  <2> QED
    BY <2>1, <2>3
<1>3. CASE LeaveStream
  <2>1. step = "streaming" /\ line = "ended" /\ ~fresh /\ UNCHANGED <<line, shown>>
    BY <1>3 DEF LeaveStream, agentsPart, outcome
  <2> QED
    BY <2>1 DEF SubscriptionIsFresh
<1>4. CASE ReportDone
  <2>1. step = "returning" /\ UNCHANGED <<line, shown>>
    BY <1>4 DEF ReportDone, agentsPart, outcome
  <2> QED
    BY <2>1 DEF SubscriptionIsOver
<1>5. CASE ReportNotOk
  <2>1. step = "reporting" /\ (step' = "ended" \/ wire' = Append(wire, "doneNotOk"))
    BY <1>5 DEF ReportNotOk, Report
  <2>2. Contains(wire, "error") /\ wire \in Seq(FrameKinds)
    BY <2>1 DEF EndIsComplete, Types
  <2>3. Contains(Append(wire, "doneNotOk"), "error")
    BY <2>2 DEF Contains
  <2>4. step' # "returning"
    BY <1>5 DEF ReportNotOk, Report
  <2> QED
    BY <2>1, <2>3, <2>4
<1>6. CASE ReportError \/ Close \/ OpenStream \/ ReceiveAnswer \/ Agent
  BY <1>6 DEF ReportError, Report, Close, OpenStream, ReceiveAnswer, Streaming, Agent, AgentTells,
     AgentEnds, AgentBreaks
<1>7. CASE Connect
  BY <1>7 DEF Connect, Emit
<1>8. CASE Passing
  BY <1>8, PassingSteps DEF Early
<1>9. CASE Abort \/ Cancel \/ UNCHANGED vars
  <2>1. UNCHANGED <<step, wire, line, shown>>
    BY <1>9 DEF Abort, Cancel, vars, agentsPart, outcome
  <2> QED
    BY <2>1 DEF SubscriptionIsOver
<1> QED
  BY <1>2, <1>3, <1>4, <1>5, <1>6, <1>7, <1>8, <1>9 DEF Next, Begin, Work, Finish, Passing
----------------------------------------------------------------------------
(***************************************************************************)
(* Failures and the end of a stream.                                       *)
(***************************************************************************)
LEMMA ShowTruly ==
  ASSUME Types, OkIsTrue, UNCHANGED cancelled,
         NEW e \in Event \cup Answer, e.kind # "malformed", NEW next, Show(e, next)
  PROVE  OkIsTrue'
<1>1. CASE cancelled
  BY <1>1 DEF OkIsTrue
<1>2. CASE ~cancelled
  <2>1. wire' = wire \o Frames(e) /\ (ok' <=> ok /\ ~Failing(e))
    BY <1>2, Zenon DEF Show, Emit
  <2>2. wire \in Seq(FrameKinds) /\ Frames(e) \in Seq(FrameKinds)
    BY FramesOfEvents DEF Types
  <2>3. Contains(wire', "failed") <=> Contains(wire, "failed") \/ Failing(e)
    BY <2>1, <2>2, AddedFrames, FramesOfEvents
  <2> QED
    BY <1>2, <2>1, <2>3, Zenon DEF OkIsTrue
<1> QED
  BY <1>1, <1>2

\* Frames that do not tell of a failure.
LEMMA SameTruth ==
  ASSUME Types, OkIsTrue, UNCHANGED <<ok, cancelled>>, NEW f \in Seq(FrameKinds),
         ~Contains(f, "failed"), wire' = wire \/ wire' = wire \o f
  PROVE  OkIsTrue'
<1>1. Contains(wire', "failed") <=> Contains(wire, "failed")
  <2>1. wire \in Seq(FrameKinds)
    BY DEF Types
  <2>2. Contains(wire \o f, "failed") <=> Contains(wire, "failed")
    BY <2>1, AddedFrames
  <2> QED
    BY <2>2
<1> QED
  BY <1>1 DEF OkIsTrue

\* One frame, other than of a failed status.
LEMMA OneFrame ==
  ASSUME NEW w \in Seq(FrameKinds), NEW frame \in FrameKinds, frame # "failed"
  PROVE  /\ <<frame>> \in Seq(FrameKinds) /\ ~Contains(<<frame>>, "failed")
         /\ Append(w, frame) = w \o <<frame>>
  BY AppendIsConcat DEF Contains

LEMMA NextTruth == Types /\ OkIsTrue /\ [Next]_vars => OkIsTrue'
<1> SUFFICES ASSUME Types, OkIsTrue, [Next]_vars PROVE OkIsTrue'
  OBVIOUS
<1> USE DEF agentsPart, outcome
<1>1. CASE Passing \/ OpenStream \/ LeaveStream \/ Close \/ Agent \/ Abort \/ UNCHANGED vars
  <2>1. UNCHANGED <<ok, cancelled, wire>>
    BY <1>1, PassingSteps DEF OpenStream, LeaveStream, Close, Agent, AgentTells, AgentEnds,
       AgentBreaks, Abort, vars
  <2> QED
    BY <2>1 DEF OkIsTrue
<1>2. CASE Cancel
  BY <1>2 DEF Cancel, OkIsTrue
<1>3. CASE Connect
  <2>1. UNCHANGED <<ok, cancelled>> /\ (wire' = wire \/ wire' = wire \o Greeting)
    BY <1>3 DEF Connect, Emit
  <2>2. Greeting \in Seq(FrameKinds)
    BY GreetingFrames
  <2> QED
    BY <2>1, <2>2, GreetingFrames, SameTruth
<1>4. CASE ReceiveAnswer
  <2>1. PICK e \in Answer : IF Accepted(e) THEN Show(e, "returning") /\ UNCHANGED fresh ELSE Throw
    BY <1>4 DEF ReceiveAnswer
  <2>2. CASE Accepted(e)
    BY <1>4, <2>1, <2>2, ShowTruly DEF Accepted, Valid, ReceiveAnswer
  <2>3. CASE ~Accepted(e)
    BY <1>4, <2>1, <2>3 DEF Throw, ReceiveAnswer, OkIsTrue
  <2> QED
    BY <2>2, <2>3
<1>5. CASE TakeEvent
  <2> DEFINE e == Head(incoming)
  <2>1. e \in Event /\ UNCHANGED cancelled
    BY <1>5 DEF TakeEvent, Types
  <2>2. CASE Accepted(e)
    <3>1. Show(e, IF Strict /\ Terminal(e) THEN "returning" ELSE "streaming") /\ e.kind # "malformed"
      BY <1>5, <2>2 DEF TakeEvent, AfterEvent, Accepted, Valid
    <3> HIDE DEF e
    <3> QED
      BY <2>1, <3>1, ShowTruly
  <2>3. CASE ~Accepted(e)
    BY <1>5, <2>3 DEF TakeEvent, Throw, OkIsTrue
  <2> QED
    BY <2>2, <2>3
<1>6. CASE ReportDone
  <2> DEFINE frame == IF ok THEN "doneOk" ELSE "doneNotOk"
  <2>1. frame \in FrameKinds /\ frame # "failed" /\ wire \in Seq(FrameKinds)
    BY DEF FrameKinds, Types
  <2>2. UNCHANGED <<ok, cancelled>> /\ (wire' = wire \/ wire' = wire \o <<frame>>)
    BY <1>6 DEF ReportDone, Emit
  <2> HIDE DEF frame
  <2> QED
    BY <2>1, <2>2, OneFrame, SameTruth
<1>7. CASE ReportError \/ ReportNotOk
  <2>1. PICK frame \in {"error", "doneNotOk"}, next \in {"reporting", "closing"} : Report(frame, next)
    BY <1>7 DEF ReportError, ReportNotOk
  <2>2. frame \in FrameKinds /\ frame # "failed" /\ wire \in Seq(FrameKinds)
    BY DEF FrameKinds, Types
  <2>3. UNCHANGED <<ok, cancelled>> /\ (wire' = wire \/ wire' = wire \o <<frame>>)
    BY <2>1, <2>2, OneFrame DEF Report
  <2> QED
    BY <2>2, <2>3, OneFrame, SameTruth
<1> QED
  BY <1>1, <1>2, <1>3, <1>4, <1>5, <1>6, <1>7 DEF Next, Begin, Work, Finish, Passing
----------------------------------------------------------------------------
LEMMA InitInv == Init => IInv
<1> SUFFICES ASSUME Init PROVE IInv
  OBVIOUS
<1>1. Types
  BY InitTypes
<1>2. NothingYet /\ ComingIsNext /\ EndIsComplete /\ SubscriptionIsFresh /\ SubscriptionIsOver
  BY DEF Init, NothingYet, ComingIsNext, EndIsComplete, SubscriptionIsFresh, SubscriptionIsOver
<1>3. ShownWasTold /\ ShownFollows
  BY DEF Init, ShownWasTold, ShownFollows
<1>4. OkIsTrue
  BY DEF Init, OkIsTrue, Contains
<1> QED
  BY <1>1, <1>2, <1>3, <1>4 DEF IInv

LEMMA NextInv == IInv /\ [Next]_vars => IInv'
  BY NextTypes, NextOrder, NextSubscription, NextOver, NextTruth DEF IInv, OrderInv, SubscriptionInv

\* The invariant holds in every reachable state.
THEOREM Invariance == Spec => []IInv
  BY InitInv, NextInv, PTL DEF Spec

\* Every variable keeps its type, for any tasks, states and number of events.
THEOREM TypeCorrect == Spec => []TypeOK
<1>1. IInv => TypeOK
  BY DEF IInv, Types, TypeOK, FrameKinds
<1> QED
  BY <1>1, Invariance, PTL

\* However the agent, the timer and the page interleave, the page is shown what the agent told, in
\* order, and a command without an error has shown it all (the loops of the client and the adapter).
THEOREM ShowingCorrect == Spec => []NothingIsDropped
<1>1. IInv => NothingIsDropped
  <2> SUFFICES ASSUME IInv PROVE NothingIsDropped
    OBVIOUS
  <2>1. IsPrefix(shown, told)
    BY DEF IInv, Types, ShownWasTold, IsPrefix
  <2>2. step = "closing" /\ ~Contains(wire, "error") => Complete
    BY DEF IInv, EndIsComplete
  <2> QED
    BY <2>1, <2>2 DEF NothingIsDropped, Complete
<1> QED
  BY <1>1, Invariance, PTL

\* A subscription shows its Task first, then what concerns it, and nothing after its terminal
\* state; one without an error has shown a terminal state, or the agent ended the stream
\* (subscribeToTask).
THEOREM SubscriptionCorrect == Spec => []SubscriptionFollowsItsTask
<1>1. IInv => SubscriptionFollowsItsTask
  BY DEF IInv, SubscriptionIsOver, ShownFollows, SubscriptionFollowsItsTask
<1> QED
  BY <1>1, Invariance, PTL
----------------------------------------------------------------------------
(***************************************************************************)
(* CommandRoute implements EventStream.                                    *)
(***************************************************************************)

\* The wire as the page sees it.
PageWire == IF cancelled THEN << >> ELSE wire

Special == {"closing", "reporting", "ended"}

LEMMA PhaseBy ==
  /\ cancelled => Phase = "closed"
  /\ step = "ended" => Phase = "closed"
  /\ ~cancelled /\ step = "closing" => Phase = "done"
  /\ ~cancelled /\ step = "reporting" => Phase = "failing"
  /\ ~cancelled /\ step \notin Special =>
       Phase = IF Contains(wire, "failed") THEN "servingFailed"
               ELSE IF wire = << >> THEN "requested" ELSE "serving"
<1>1. CASE cancelled
  BY <1>1 DEF Phase
<1>2. CASE ~cancelled
  BY <1>2 DEF Phase, Special
<1> QED
  BY <1>1, <1>2

\* The same after a step.
LEMMA PhaseNextBy ==
  /\ cancelled' => Phase' = "closed"
  /\ step' = "ended" => Phase' = "closed"
  /\ ~cancelled' /\ step' = "closing" => Phase' = "done"
  /\ ~cancelled' /\ step' = "reporting" => Phase' = "failing"
  /\ ~cancelled' /\ step' \notin Special =>
       Phase' = IF Contains(wire', "failed") THEN "servingFailed"
                ELSE IF wire' = << >> THEN "requested" ELSE "serving"
<1>1. CASE cancelled'
  BY <1>1 DEF Phase
<1>2. CASE ~cancelled'
  BY <1>2 DEF Phase, Special
<1> QED
  BY <1>1, <1>2

\* Steps the page does not see.
LEMMA NothingRead ==
  ASSUME Types, UNCHANGED cancelled,
         \/ cancelled
         \/ UNCHANGED wire /\ step \notin Special /\ step' \notin Special
  PROVE  UNCHANGED <<Phase, PageWire>>
<1>1. CASE cancelled
  BY <1>1, PhaseBy, PhaseNextBy DEF PageWire
<1>2. CASE ~cancelled
  BY <1>2, PhaseBy, PhaseNextBy DEF PageWire
<1> QED
  BY <1>1, <1>2

\* Frames that do not end a stream are served.
LEMMA FramesServed ==
  ASSUME Types, UNCHANGED cancelled, ~cancelled, step \notin Special, step' \notin Special,
         NEW f \in Seq(FrameKinds \ Page!Final), f # << >>, wire' = wire \o f
  PROVE  Page!Serve
<1>1. wire \in Seq(FrameKinds) /\ f \in Seq(FrameKinds) /\ f \in Seq(FrameKinds \ Page!Final)
  BY DEF Types
<1>2. /\ PageWire = wire /\ PageWire' = wire'
      /\ Len(wire') = Len(wire) + Len(f) /\ SubSeq(wire', 1, Len(wire)) = wire
      /\ SubSeq(wire', Len(wire) + 1, Len(wire')) = f
      /\ Contains(wire', "failed") <=> Contains(wire, "failed") \/ Contains(f, "failed")
  BY <1>1, AddedFrames DEF PageWire
<1>3. /\ Len(f) > 0 /\ Len(wire) \in Nat /\ Len(f) \in Nat /\ wire' # << >>
      /\ Contains(f, "failed") <=> \E i \in DOMAIN f : f[i] = "failed"
      /\ \A i \in DOMAIN f : f[i] \notin Page!Final
  <2>1. Len(f) \in Nat /\ DOMAIN f = 1..Len(f) /\ Len(f) > 0 /\ Len(wire) \in Nat
    BY <1>1
  <2>2. wire' # << >>
    BY <1>2, <2>1
  <2>3. \A i \in DOMAIN f : f[i] \in FrameKinds \ Page!Final
    BY <1>1, <2>1
  <2> QED
    BY <2>1, <2>2, <2>3 DEF Contains
<1>4. Page!Sent = f
  BY <1>2 DEF Page!Sent, PageWire
<1>5. Page!Sends
  <2>1. Len(wire') > Len(wire)
    BY <1>2, <1>3
  <2> QED
    BY <1>2, <1>3, <1>4, <2>1 DEF Page!Sends, PageWire
<1>6. /\ Phase \in {"requested", "serving", "servingFailed"}
      /\ Phase = "servingFailed" <=> Contains(wire, "failed")
  BY PhaseBy
<1>7. Phase' = IF Contains(wire', "failed") THEN "servingFailed" ELSE "serving"
  BY <1>3, PhaseNextBy
<1> QED
  BY <1>2, <1>3, <1>4, <1>5, <1>6, <1>7 DEF Page!Serve

LEMMA StepRefines == IInv /\ [Next]_vars => [Page!Next]_<<Phase, PageWire>>
<1> SUFFICES ASSUME IInv, [Next]_vars PROVE [Page!Next]_<<Phase, PageWire>>
  OBVIOUS
<1>1. Types /\ wire \in Seq(FrameKinds)
  BY DEF IInv, Types
<1> USE DEF agentsPart, outcome
<1>2. CASE Passing \/ OpenStream \/ LeaveStream \/ Agent
  <2>1. UNCHANGED <<cancelled, wire>> /\ step \notin Special /\ step' \notin Special
    BY <1>2, PassingSteps DEF Early, OpenStream, LeaveStream, Agent, AgentTells, AgentEnds,
       AgentBreaks, Special
  <2> QED
    BY <1>1, <2>1, NothingRead
<1>3. CASE Abort \/ UNCHANGED vars
  <2>1. UNCHANGED <<step, cancelled, wire>>
    BY <1>3 DEF Abort, vars
  <2>2. UNCHANGED <<Phase, PageWire>>
    BY <2>1 DEF Phase, PageWire
  <2> QED
    BY <2>2
<1>4. CASE Cancel
  <2>1. Phase' = "closed" /\ PageWire' = << >>
    BY <1>4, PhaseNextBy DEF Cancel, PageWire
  <2> QED
    BY <2>1 DEF Page!Next, Page!GiveUp, PageWire
<1>5. ASSUME UNCHANGED cancelled, cancelled
      PROVE  UNCHANGED <<Phase, PageWire>>
  BY <1>1, <1>5, NothingRead
<1>6. CASE Connect
  <2>1. UNCHANGED cancelled /\ step \notin Special
    BY <1>6 DEF Connect, Special
  <2>2. CASE cancelled
    BY <1>5, <2>1, <2>2
  <2>3. CASE ~cancelled
    <3>1. wire' = wire \o Greeting /\ step' \notin Special
      BY <1>6, <2>3 DEF Connect, Emit, Special
    <3>2. Greeting \in Seq(FrameKinds \ Page!Final) /\ Greeting # << >>
      BY GreetingFrames
    <3> QED
      BY <1>1, <2>1, <2>3, <3>1, <3>2, FramesServed DEF Page!Next
  <2> QED
    BY <2>2, <2>3
<1>7. ASSUME NEW e \in Event \cup Answer, e.kind # "malformed", NEW next \in {"returning", "streaming"},
             Show(e, next), UNCHANGED cancelled, step \notin Special
      PROVE  Page!Serve \/ UNCHANGED <<Phase, PageWire>>
  <2>1. CASE cancelled
    BY <1>5, <1>7, <2>1
  <2>2. CASE ~cancelled
    <3>1. wire' = wire \o Frames(e) /\ step' \notin Special
      BY <1>7, <2>2 DEF Show, Emit, Special
    <3>2. Frames(e) \in Seq(FrameKinds \ Page!Final) /\ Frames(e) # << >>
      BY <1>7, FramesOfEvents
    <3> QED
      BY <1>1, <1>7, <2>2, <3>1, <3>2, FramesServed
  <2> QED
    BY <2>1, <2>2
<1>8. CASE ReceiveAnswer
  <2>1. PICK e \in Answer : IF Accepted(e) THEN Show(e, "returning") /\ UNCHANGED fresh ELSE Throw
    BY <1>8 DEF ReceiveAnswer
  <2>2. UNCHANGED cancelled /\ step \notin Special
    BY <1>8 DEF ReceiveAnswer, Special
  <2>3. CASE Accepted(e)
    BY <1>7, <2>1, <2>2, <2>3 DEF Accepted, Valid, Page!Next
  <2>4. CASE ~Accepted(e)
    <3>1. UNCHANGED wire /\ step' \notin Special
      BY <2>1, <2>4 DEF Throw, Special
    <3> QED
      BY <1>1, <2>2, <3>1, NothingRead
  <2> QED
    BY <2>3, <2>4
<1>9. CASE TakeEvent
  <2> DEFINE e == Head(incoming)
             next == IF Strict /\ Terminal(e) THEN "returning" ELSE "streaming"
  <2>1. e \in Event /\ UNCHANGED cancelled /\ step \notin Special /\ next \in {"returning", "streaming"}
    BY <1>1, <1>9 DEF TakeEvent, Types, Special
  <2>2. CASE Accepted(e)
    <3>1. Show(e, next) /\ e.kind # "malformed"
      BY <1>9, <2>2 DEF TakeEvent, AfterEvent, Accepted, Valid
    <3> HIDE DEF e, next
    <3> QED
      BY <1>7, <2>1, <3>1 DEF Page!Next
  <2>3. CASE ~Accepted(e)
    <3>1. UNCHANGED wire /\ step' \notin Special
      BY <1>9, <2>3 DEF TakeEvent, Throw, Special
    <3> QED
      BY <1>1, <2>1, <3>1, NothingRead
  <2> QED
    BY <2>2, <2>3
<1>10. CASE ReportDone
  <2>1. UNCHANGED cancelled /\ step = "returning"
    BY <1>10 DEF ReportDone
  <2>2. CASE cancelled
    BY <1>5, <2>1, <2>2
  <2>3. CASE ~cancelled
    <3> DEFINE frame == IF ok THEN "doneOk" ELSE "doneNotOk"
    <3>1. wire' = wire \o <<frame>> /\ step' = "closing"
      BY <1>10, <2>3 DEF ReportDone, Emit
    <3>2. Append(wire, frame) = wire \o <<frame>>
      BY <1>1, OneFrame DEF FrameKinds
    <3>3. Phase' = "done"
      BY <2>1, <2>3, <3>1, PhaseNextBy
    <3>4. IF ok THEN Phase \in {"requested", "serving"} ELSE Phase = "servingFailed"
      BY <2>1, <2>3, PhaseBy DEF IInv, OkIsTrue, Special
    <3>5. PageWire' = Append(PageWire, frame)
      BY <2>1, <2>3, <3>1, <3>2 DEF PageWire
    <3> QED
      BY <3>3, <3>4, <3>5 DEF Page!Next, Page!ReportDone, PageWire
  <2> QED
    BY <2>2, <2>3
<1>11. CASE ReportError
  <2>1. UNCHANGED cancelled /\ step = "throwing"
    BY <1>11 DEF ReportError, Report
  <2>2. CASE cancelled
    BY <1>5, <2>1, <2>2
  <2>3. CASE ~cancelled
    <3>1. PageWire' = Append(PageWire, "error") /\ Phase' = "failing"
      BY <1>11, <2>1, <2>3, PhaseNextBy DEF ReportError, Report, PageWire
    <3>2. Phase \in {"requested", "serving", "servingFailed"}
      BY <2>1, <2>3, PhaseBy DEF Special
    <3> QED
      BY <3>1, <3>2 DEF Page!Next, Page!ReportError, PageWire
  <2> QED
    BY <2>2, <2>3
<1>12. CASE ReportNotOk
  <2>1. UNCHANGED cancelled /\ step = "reporting"
    BY <1>12 DEF ReportNotOk, Report
  <2>2. CASE cancelled
    BY <1>5, <2>1, <2>2
  <2>3. CASE ~cancelled
    <3>1. PageWire' = Append(PageWire, "doneNotOk") /\ Phase' = "done"
      BY <1>12, <2>1, <2>3, PhaseNextBy DEF ReportNotOk, Report, PageWire
    <3>2. Phase = "failing"
      BY <2>1, <2>3, PhaseBy
    <3> QED
      BY <3>1, <3>2 DEF Page!Next, Page!ReportDone, PageWire
  <2> QED
    BY <2>2, <2>3
<1>13. CASE Close
  <2>1. UNCHANGED <<cancelled, wire>> /\ step = "closing" /\ step' = "ended"
    BY <1>13 DEF Close
  <2>2. CASE cancelled
    BY <1>5, <2>1, <2>2
  <2>3. CASE ~cancelled
    BY <2>1, <2>3, PhaseBy, PhaseNextBy DEF Page!Next, Page!Close, PageWire
  <2> QED
    BY <2>2, <2>3
<1> QED
  BY <1>2, <1>3, <1>4, <1>6, <1>8, <1>9, <1>10, <1>11, <1>12, <1>13
     DEF Next, Begin, Work, Finish, Passing

\* However the agent's events, failures, the timer, the abort and the loss of the page interleave,
\* the page reads a stream with one "done" at its end that says ok exactly if nothing before it told
\* of a failure: the route implements EventStream.
THEOREM Implementation == Spec => ImplementsEventStream
<1>1. Init => Page!Init
  <2> SUFFICES ASSUME Init PROVE Page!Init
    OBVIOUS
  <2>1. ~cancelled /\ step = "reading" /\ wire = << >> /\ ~Contains(wire, "failed")
    BY DEF Init, Contains
  <2> QED
    BY <2>1, PhaseBy DEF Page!Init, Special
<1>2. IInv /\ [Next]_vars => [Page!Next]_<<Phase, IF cancelled THEN << >> ELSE wire>>
  BY StepRefines DEF PageWire
<1> QED
  BY <1>1, <1>2, Invariance, PTL DEF Spec, ImplementsEventStream, Page!Spec
=============================================================================
