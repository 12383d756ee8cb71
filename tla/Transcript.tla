----------------------------- MODULE Transcript -----------------------------
(***************************************************************************)
(* How the page merges what an agent says during a run into one message    *)
(* of the transcript (src/lib/chat-transcript.ts).  An agent may send what *)
(* is new, all it has said so far, or its whole answer once more at the    *)
(* end; which one it does is guessed from the texts.                       *)
(*                                                                         *)
(* A text is a sequence of characters: " ", "," for the punctuation that   *)
(* takes no space before it, "#" for the marks of a list, a table or a     *)
(* code block, and letters.  The case of letters is left out, and so are   *)
(* line breaks and opening brackets, which keep a space out too.           *)
(***************************************************************************)
EXTENDS Naturals, Sequences, SequencesExt

CONSTANTS
  ShortFragmentMaxLength,  \* SHORT_FRAGMENT_MAX_LENGTH, 80
  StreamContextMaxLength,  \* STREAM_CONTEXT_MAX_LENGTH, 320
  LongFinalMinLength,      \* LONG_FINAL_MIN_LENGTH, 120
  CompactTailLength,       \* COMPACT_TAIL_LENGTH, 120
  TailMinLength            \* the shortest tail that is looked for, 12

ASSUME TranscriptAssumption ==
  /\ {ShortFragmentMaxLength, StreamContextMaxLength, LongFinalMinLength,
      CompactTailLength, TailMinLength} \subseteq Nat \ {0}
  /\ TailMinLength <= CompactTailLength

\* A sequence holds another one as a run of neighbours (String.includes).
Includes(text, part) ==
  \E from \in 0..(Len(text) - Len(part)) : SubSeq(text, from + 1, from + Len(part)) = part

\* Without spaces at its ends (String.trim).
Trim(text) ==
  LET marks == {i \in DOMAIN text : text[i] # " "}
  IN  IF marks = {} THEN << >> ELSE SubSeq(text, Min(marks), Max(marks))

\* Without spaces.
CompactText(text) ==
  FlattenSeq([i \in DOMAIN text |-> IF text[i] = " " THEN << >> ELSE <<text[i]>>])

CompactTail(text) == SubSeq(text, Max({1, Len(text) - CompactTailLength + 1}), Len(text))

ShouldKeepCurrent(current, next) == Includes(CompactText(current), CompactText(next))

LooksLikeFullAnswer(text) == Contains(text, "#")

ShouldReplaceWithIncoming(current, next) ==
  \/ Includes(CompactText(next), CompactText(current))
  \/ LET tail == CompactTail(CompactText(current))
     IN  Len(tail) >= TailMinLength /\ Includes(CompactText(next), tail)
  \/ Len(current) <= ShortFragmentMaxLength /\ Len(next) >= ShortFragmentMaxLength
  \/ /\ Len(current) <= StreamContextMaxLength /\ Len(next) >= LongFinalMinLength
     /\ LooksLikeFullAnswer(next)

JoinTextDelta(current, next) ==
  IF Head(next) = "," THEN current \o next ELSE current \o <<" ">> \o next

\* A fragment of any length replaced by whatever comes after it.
MergeByLatest(current, incoming) ==
  IF Trim(incoming) = << >> \/ ShouldKeepCurrent(current, Trim(incoming)) THEN current
  ELSE Trim(incoming)

MergeAssistantTranscriptText(current, incoming) ==
  LET next == Trim(incoming)
  IN  IF next = << >> THEN current
      ELSE IF current = << >> THEN next
      ELSE IF ShouldKeepCurrent(current, next) THEN current
      ELSE IF ShouldReplaceWithIncoming(current, next) THEN next
      ELSE JoinTextDelta(current, next)
=============================================================================
