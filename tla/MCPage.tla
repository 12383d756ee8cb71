------------------------------- MODULE MCPage -------------------------------
(***************************************************************************)
(* Runs of the page on a handful of payloads, one of each kind that is     *)
(* told apart on its way to the transcript and the surfaces.               *)
(***************************************************************************)
EXTENDS Page, TLC

Object == [contextId |-> "", state |-> "", kind |-> "", parts |-> << >>, itself |-> NoPayload]

Part(text, fenced, typed) == [text |-> text, fenced |-> fenced, typed |-> typed]

Words(text) == Part(text, << >>, << >>)

A2uiPayload(items) == << [readable |-> TRUE, items |-> items] >>

Holding(parts) == [Object EXCEPT !.parts = parts]

\* The start of an answer, in an object that is an A2UI message itself.
Delta == (<< >> :> [Object EXCEPT !.itself = A2uiPayload(<<Message("createSurface", "", {})>>)[1]])
  @@ (<<"result">> :> Holding(<<Words(<<"a">>)>>))

\* All that was said so far, in a status update that tells of the context and deletes the surface.
Cumulative == <<"result", "statusUpdate">> :>
  [Holding(<<Part(<<"a", " ", "b">>, << >>, A2uiPayload(<<Message("deleteSurface", "s", {})>>))>>)
     EXCEPT !.contextId = "c"]

\* A task with the final answer, whose wording is another one, and a surface without root in a
\* Part typed as A2UI; the fenced block of a text holds another surface.
Final == (<< >> :> [Object EXCEPT !.kind = "task"]) @@ (<<"task">> :>
  Holding(<<Part(<<"#", "b", "a">>, A2uiPayload(<<Message("createSurface", "f", {})>>), << >>),
            Part(<< >>, << >>, A2uiPayload(<<Message("updateComponents", "s", {"title"})>>))>>))

\* The text goes on, in two Parts that say the same, and there are data for the surface and a
\* message of an older version.
Continued == <<"artifactUpdate">> :> Holding(
  <<Words(<<"b">>), Words(<<"b">>),
    Part(<< >>, << >>, A2uiPayload(
      <<Message("updateDataModel", "s", {}),
        [Message("updateComponents", "", {}) EXCEPT !.version = "0.8"]>>))>>)

\* A failed status, with a text and a surface that is made twice, the second time without root.
Failed == <<"statusUpdate">> :> [Holding(<<Part(<<",", "a">>, << >>, A2uiPayload(
  <<Message("createSurface", "s", {}), Message("updateComponents", "s", {}),
    Message("deleteSurface", "s", {}), Message("createSurface", "s", {})>>))>>)
  EXCEPT !.state = "failed"]

MCPayloads == {Delta, Cumulative, Final, Continued, Failed}
=============================================================================
