----------------------------- MODULE A2aPayload -----------------------------
(***************************************************************************)
(* What the adapter reads out of a payload of an agent, whatever its       *)
(* wrapping (src/lib/a2a.ts): the context it belongs to, its status, its   *)
(* texts and its A2UI messages; and the frames it sends the page for it    *)
(* (processProtocolPayload in src/lib/workbench-client-adapter.ts).        *)
(*                                                                         *)
(* A payload is a function from the places of its objects to the objects.  *)
(* A place is the sequence of names that leads to it; the payload itself   *)
(* is at the empty one.  Of an object it matters what it says of context   *)
(* and status ("" if nothing), the parts it holds in the order they are    *)
(* read, and the A2UI payload it is itself, if it is one.  Of a part it    *)
(* matters what is left of its text without fenced blocks, the A2UI        *)
(* payloads in these, and the A2UI payload it is typed as (at most one).   *)
(***************************************************************************)
EXTENDS A2ui

NoPayload == [readable |-> TRUE, items |-> << >>]

Parts == [text : Seq(STRING), fenced : Seq(A2uiPayloads), typed : Seq(A2uiPayloads)]

Objects == [contextId : STRING, state : STRING, kind : STRING, parts : Seq(Parts), itself : A2uiPayloads]

\* The first of the places that the payload has an object at, or the last one.
FirstPlace(payload, places) ==
  LET taken == {i \in DOMAIN places : places[i] \in DOMAIN payload}
  IN  places[IF taken = {} THEN Len(places) ELSE Min(taken)]

\* The places of the objects that are read, in order.
GetPayloadCandidates(payload) ==
  LET places == << << >>, <<"result">>, <<"params">>, <<"params", "result">>,
                   FirstPlace(payload, << <<"statusUpdate">>, <<"result", "statusUpdate">> >>),
                   FirstPlace(payload, << <<"artifactUpdate">>, <<"result", "artifactUpdate">> >>),
                   FirstPlace(payload, << <<"task">>, <<"result", "task">>, <<"params", "result", "task">> >>) >>
  IN  Only(places, DOMAIN payload)

\* What an object says, or else the task in it.  What its message says is taken as its own.
Says(payload, place, field) ==
  IF payload[place][field] # "" THEN payload[place][field]
  ELSE IF Append(place, "task") \in DOMAIN payload THEN payload[Append(place, "task")][field]
  ELSE ""

\* The status of an object or of the task in it, or else what the object says of itself ("state",
\* or "kind" in older protocols).
StateOf(payload, place) ==
  IF Says(payload, place, "state") # "" THEN Says(payload, place, "state") ELSE payload[place].kind

ContextOf(payload, place) == Says(payload, place, "contextId")

\* The first of the answers that is one.
FirstSaid(answers) ==
  LET saying == {i \in DOMAIN answers : answers[i] # ""}
  IN  IF saying = {} THEN "" ELSE answers[Min(saying)]

ExtractA2aMeta(payload) ==
  LET places == GetPayloadCandidates(payload)
  IN  FirstSaid([i \in DOMAIN places |-> ContextOf(payload, places[i])])

ExtractA2aStatus(payload) ==
  LET places == GetPayloadCandidates(payload)
  IN  FirstSaid([i \in DOMAIN places |-> StateOf(payload, places[i])])

GetParts(payload) ==
  LET places == GetPayloadCandidates(payload)
  IN  FlattenSeq([i \in DOMAIN places |-> payload[places[i]].parts])

\* Every text once, where it comes first.
ExtractTextParts(payload) ==
  LET parts == GetParts(payload)
      First(i) == \A j \in 1..(i - 1) : parts[j].text # parts[i].text
  IN  FlattenSeq([i \in DOMAIN parts |->
        IF parts[i].text # << >> /\ First(i) THEN <<parts[i].text>> ELSE << >>])

NormalizeAll(payloads) ==
  FlattenSeq([i \in DOMAIN payloads |-> NormalizeA2uiPayload(payloads[i])])

ExtractNegotiatedA2uiEnvelopes(payload) ==
  LET parts == GetParts(payload)
  IN  NormalizeAll(FlattenSeq([i \in DOMAIN parts |-> parts[i].typed]))

\* A typed part is read as such, any other one for its fenced blocks; where no part holds A2UI
\* messages the objects are tried themselves.
ExtractA2uiEnvelopes(payload) ==
  LET parts == GetParts(payload)
      places == GetPayloadCandidates(payload)
      fromParts == NormalizeAll(FlattenSeq([i \in DOMAIN parts |->
                     IF parts[i].typed # << >> THEN parts[i].typed ELSE parts[i].fenced]))
  IN  IF fromParts # << >> THEN fromParts
      ELSE NormalizeAll([i \in DOMAIN places |-> payload[places[i]].itself])
----------------------------------------------------------------------------
Frame(kind, value) == << [kind |-> kind, value |-> value] >>

\* Fenced blocks and the objects themselves are read in either mode.
EnvelopesInEitherMode(payload, compatibility) == ExtractA2uiEnvelopes(payload)

Envelopes(payload, compatibility) ==
  IF compatibility THEN ExtractA2uiEnvelopes(payload) ELSE ExtractNegotiatedA2uiEnvelopes(payload)

\* The frames for a payload that the page's content depends on, in their order.
ProcessProtocolPayload(payload, enabled, compatibility) ==
  LET status == ExtractA2aStatus(payload)
      texts == ExtractTextParts(payload)
      messages == Envelopes(payload, compatibility)
  IN  Frame("meta", ExtractA2aMeta(payload))
      \o (IF status # "" THEN Frame("status", status) ELSE << >>)
      \o [i \in DOMAIN texts |-> [kind |-> "text", value |-> texts[i]]]
      \o (IF enabled /\ messages # << >> THEN Frame("a2ui", messages) ELSE << >>)
=============================================================================
