-------------------------------- MODULE A2ui --------------------------------
(***************************************************************************)
(* What is made of the A2UI messages of an agent before they reach the     *)
(* renderer (src/lib/a2ui.ts): wrappers are taken off, messages of another *)
(* version are dropped, and so much is added that every surface a payload  *)
(* names is created by it and has a root component.                        *)
(*                                                                         *)
(* A message is of one of the four kinds, names a surface or none (""),    *)
(* and, if it updates components, lists their ids ("" for one without).    *)
(* Catalogs, data models and the properties of components are left out.    *)
(***************************************************************************)
EXTENDS Naturals, Sequences, SequencesExt

Kinds == {"createSurface", "updateComponents", "updateDataModel", "deleteSurface"}

DefaultSurfaceId == "investigation"

SupportedVersions == {"", "0.9", "0.9.1", "1.0"}

\* What a message may be before it is known to be one, and what holds messages.
Items == [kind : STRING, version : STRING, surfaceId : STRING, components : SUBSET STRING]

A2uiPayloads == [readable : BOOLEAN, items : Seq(Items)]

Message(kind, surfaceId, components) ==
  [kind |-> kind, version |-> "0.9", surfaceId |-> surfaceId, components |-> components]

\* The elements of a list that are in a set, in their order.
Only(list, set) ==
  FlattenSeq([i \in DOMAIN list |-> IF list[i] \in set THEN <<list[i]>> ELSE << >>])

\* The messages of a payload: a message, a list, an object with messages, or the JSON of one of
\* these.  What is not a message is dropped.
CollectA2uiMessages(payload) ==
  IF payload.readable THEN Only(payload.items, {item \in ToSet(payload.items) : item.kind \in Kinds})
  ELSE << >>

\* The ids of the components, to which a root is added that holds them all.
EnsureRootComponent(components) ==
  IF "root" \in components THEN components
  ELSE components \cup {"root"} \cup (IF components \ {""} = {} THEN {"a2uiFallbackText"} ELSE {})

NormalizeA2uiMessage(message) ==
  IF message.version \notin SupportedVersions THEN << >>
  ELSE << Message(message.kind,
                  IF message.surfaceId = "" THEN DefaultSurfaceId ELSE message.surfaceId,
                  IF message.kind = "updateComponents" THEN EnsureRootComponent(message.components)
                  ELSE {}) >>

SurfaceIds(messages) == {m.surfaceId : m \in ToSet(messages)}

SurfacesOf(kind, messages) == {m.surfaceId : m \in {m \in ToSet(messages) : m.kind = kind}}

ForEach(surfaceIds, Make(_)) ==
  LET ids == SetToSeq(surfaceIds) IN [i \in DOMAIN ids |-> Make(ids[i])]

CreateSurfaceMessage(surfaceId) == Message("createSurface", surfaceId, {})

FallbackComponentsMessage(surfaceId) ==
  Message("updateComponents", surfaceId, EnsureRootComponent({}))

\* Only surfaces are added, no components.
EnsureCreatedMessages(messages) ==
  ForEach(SurfaceIds(messages) \ SurfacesOf("createSurface", messages), CreateSurfaceMessage) \o messages

\* A surface the payload does not create is created before its messages, one it says nothing of
\* the components of gets some after them.  The order among what is added does not matter.
EnsureRenderableMessages(messages) ==
  ForEach(SurfaceIds(messages) \ SurfacesOf("createSurface", messages), CreateSurfaceMessage)
  \o messages
  \o ForEach(SurfaceIds(messages) \ SurfacesOf("updateComponents", messages), FallbackComponentsMessage)

NormalizeA2uiPayload(payload) ==
  LET collected == CollectA2uiMessages(payload)
  IN  EnsureRenderableMessages(
        FlattenSeq([i \in DOMAIN collected |-> NormalizeA2uiMessage(collected[i])]))
=============================================================================
