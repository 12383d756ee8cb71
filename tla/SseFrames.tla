----------------------------- MODULE SseFrames -----------------------------
(***************************************************************************)
(* How the two readers of server-sent events cut a text into frames: the   *)
(* validator between an agent and the SDK (validateAvailableFrames in      *)
(* packages/client/src/network.ts), and the page's parser                  *)
(* (src/lib/sse.ts), which follows the standard.                           *)
(*                                                                         *)
(* A text is a sequence of tokens: the characters that end lines, and the  *)
(* lines themselves, each one token.  Of a line it matters whether it is a *)
(* data line, and whether it holds a whole payload ("whole"), one half of  *)
(* a payload written over two lines ("head", "rest"), or a payload that is *)
(* not valid ("bad").  Lines of other fields are "other".                  *)
(***************************************************************************)
EXTENDS Naturals, Sequences, SequencesExt

LineEnds == {"CR", "LF"}

DataLines == {"whole", "head", "rest", "bad"}

Tokens == LineEnds \cup DataLines \cup {"other"}

\* Where a frame has its data lines.
DataAt(frame) == {i \in DOMAIN frame : frame[i] \in DataLines}

\* The data lines of a frame, joined, are JSON that passes the validators of the protocol: one
\* whole payload, or the two halves of one.  A frame without data is passed over.
Sound(frame) ==
  LET data == DataAt(frame)
  IN  \/ data = {}
      \/ \E i \in data : data = {i} /\ frame[i] = "whole"
      \/ \E i, j \in data : data = {i, j} /\ i < j /\ frame[i] = "head" /\ frame[j] = "rest"
----------------------------------------------------------------------------
(***************************************************************************)
(* The validator's separator, the first match of (?:\r\n|\r|\n){2}: two    *)
(* characters that end lines, the carriage return and the line feed of one *)
(* line end among them, where no longer match starts.                      *)
(***************************************************************************)
Separators(text) == {i \in 1..(Len(text) - 1) : {text[i], text[i + 1]} \subseteq LineEnds}

EndLength(text, i) == IF i < Len(text) /\ text[i] = "CR" /\ text[i + 1] = "LF" THEN 2 ELSE 1

SeparatorLength(text, i) ==
  LET next == i + EndLength(text, i)
  IN  IF next <= Len(text) /\ text[next] \in LineEnds THEN EndLength(text, i) + EndLength(text, next)
      ELSE 2

\* The frame before the first separator is cut off what is left of a text.
CutOnce(text) ==
  LET found == Separators(text.rest)
      i == Min(found)
  IN  IF found = {} THEN text
      ELSE [frames |-> Append(text.frames, SubSeq(text.rest, 1, i - 1)),
            rest |-> SubSeq(text.rest, i + SeparatorLength(text.rest, i), Len(text.rest))]

\* The frames the text completes, and what is left of it.  A separator has two characters at
\* least.
Cut(text) ==
  LET cut[n \in 0..(Len(text) \div 2)] ==
        IF n = 0 THEN [frames |-> << >>, rest |-> text] ELSE CutOnce(cut[n - 1])
  IN  cut[Len(text) \div 2]

\* buffer.trim() is empty: white space is line ends here.
Blank(text) == \A i \in DOMAIN text : text[i] \in LineEnds
----------------------------------------------------------------------------
(***************************************************************************)
(* parseSseBuffer: the line ends are made one character each, and two of   *)
(* them in a row end a frame.                                              *)
(***************************************************************************)
EndsPair(text, n) == n > 1 /\ text[n - 1] = "CR" /\ text[n] = "LF"

\* Each pair, and each carriage return, becomes one line end.
Normalized(text) ==
  LET upTo[n \in 0..Len(text)] ==
        IF n = 0 THEN << >>
        ELSE IF EndsPair(text, n) THEN upTo[n - 1]
        ELSE Append(upTo[n - 1], IF text[n] = "CR" THEN "LF" ELSE text[n])
  IN  upTo[Len(text)]

Parsed(text) == Cut(Normalized(text))
=============================================================================
