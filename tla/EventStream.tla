---------------------------- MODULE EventStream ----------------------------
(***************************************************************************)
(* What the route (src/app/api/a2a/stream) promises to the page for one    *)
(* command: any number of frames, then exactly one "done", then the end.   *)
(* A command that could not be carried out is reported by one "error"      *)
(* before its "done", and "done" says ok only if no frame before it told   *)
(* of a failure.  The page, or what lies between, may give the stream up   *)
(* at any time, and then nothing more arrives.                             *)
(*                                                                         *)
(* CommandRoute implements it; BrowserSession supposes of its route        *)
(* nothing more, and lets it take any step that is allowed here.           *)
(***************************************************************************)
EXTENDS Naturals, Sequences

VARIABLES
  phase,  \* how far the stream has come
  wire    \* the frames sent and not yet read

Phases == {"none", "requested", "serving", "servingFailed", "failing", "done", "closed"}

\* The frames that end a stream.  Of the others only "failed", a status that tells of a
\* failure, matters here.
Final == {"error", "doneOk", "doneNotOk"}

Init ==
  /\ phase \in {"none", "requested"}
  /\ wire = << >>

Sent == SubSeq(wire', Len(wire) + 1, Len(wire'))

\* Frames are added to the wire, none of them final.
Sends ==
  /\ Len(wire') > Len(wire)
  /\ SubSeq(wire', 1, Len(wire)) = wire
  /\ \A i \in DOMAIN Sent : Sent[i] \notin Final

Request == phase = "none" /\ phase' = "requested" /\ UNCHANGED wire

Serve ==
  /\ phase \in {"requested", "serving", "servingFailed"}
  /\ Sends
  /\ phase' = IF phase = "servingFailed" \/ \E i \in DOMAIN Sent : Sent[i] = "failed"
              THEN "servingFailed" ELSE "serving"

ReportError ==
  /\ phase \in {"requested", "serving", "servingFailed"}
  /\ phase' = "failing"
  /\ wire' = Append(wire, "error")

ReportDone ==
  /\ \/ phase \in {"requested", "serving"} /\ wire' = Append(wire, "doneOk")
     \/ phase \in {"servingFailed", "failing"} /\ wire' = Append(wire, "doneNotOk")
  /\ phase' = "done"

Close == phase = "done" /\ phase' = "closed" /\ UNCHANGED wire

\* The page reads a frame.
Read == wire # << >> /\ wire' = Tail(wire) /\ UNCHANGED phase

GiveUp == phase' = "closed" /\ wire' = << >>

Next == Request \/ Serve \/ ReportError \/ ReportDone \/ Close \/ Read \/ GiveUp

Step == [Next]_<<phase, wire>>

Spec == Init /\ [][Next]_<<phase, wire>>
=============================================================================
