---------------------------- MODULE CardService ----------------------------
(***************************************************************************)
(* What Agent Card discovery promises its callers, with the cache, the     *)
(* validators and the HTTP exchange left out: a call made at time t returns *)
(* a version of the card that the agent was still publishing at some       *)
(* moment no more than Bound before t, or it fails.  Discovery.tla         *)
(* implements this specification.                                          *)
(***************************************************************************)
EXTENDS Naturals

CONSTANTS
  Calls,       \* the slots from which discovery is called
  MaxVersion,  \* bound on the versions of its card the agent publishes
  Bound        \* how long a superseded card may still be returned

Versions == 1..MaxVersion

VARIABLES
  clock,        \* wall-clock time
  latest,       \* the version of the card the agent publishes now
  lastCurrent,  \* the last moment at which each version was the published one
  calledAt,     \* when the pending call of each slot was made
  status,       \* "idle", "busy", "returned" or "failed"
  card          \* the version the call returned, 0 while it has not

serviceVars == <<clock, latest, lastCurrent, calledAt, status, card>>

Init ==
  /\ clock = 0
  /\ latest = 1
  /\ lastCurrent = [v \in Versions |-> 0]
  /\ calledAt = [p \in Calls |-> 0]
  /\ status = [p \in Calls |-> "idle"]
  /\ card = [p \in Calls |-> 0]

\* Time passes; the published version is current at the new time too.
Tick ==
  /\ clock' = clock + 1
  /\ lastCurrent' = [lastCurrent EXCEPT ![latest] = clock + 1]
  /\ UNCHANGED <<latest, calledAt, status, card>>

\* The agent replaces its card.
Publish ==
  /\ latest < MaxVersion
  /\ latest' = latest + 1
  /\ lastCurrent' = [lastCurrent EXCEPT ![latest + 1] = clock]
  /\ UNCHANGED <<clock, calledAt, status, card>>

Call(p) ==
  /\ status[p] # "busy"
  /\ status' = [status EXCEPT ![p] = "busy"]
  /\ calledAt' = [calledAt EXCEPT ![p] = clock]
  /\ card' = [card EXCEPT ![p] = 0]
  /\ UNCHANGED <<clock, latest, lastCurrent>>

Return(p) ==
  /\ status[p] = "busy"
  /\ \E v \in 1..latest :
       /\ calledAt[p] <= lastCurrent[v] + Bound
       /\ card' = [card EXCEPT ![p] = v]
  /\ status' = [status EXCEPT ![p] = "returned"]
  /\ calledAt' = [calledAt EXCEPT ![p] = 0]
  /\ UNCHANGED <<clock, latest, lastCurrent>>

Fail(p) ==
  /\ status[p] = "busy"
  /\ status' = [status EXCEPT ![p] = "failed"]
  /\ calledAt' = [calledAt EXCEPT ![p] = 0]
  /\ UNCHANGED <<clock, latest, lastCurrent, card>>

Next ==
  \/ Tick
  \/ Publish
  \/ \E p \in Calls : Call(p) \/ Return(p) \/ Fail(p)

Spec == Init /\ [][Next]_serviceVars
=============================================================================
