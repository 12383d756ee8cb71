----------------------------- MODULE Discovery -----------------------------
(***************************************************************************)
(* Agent Card discovery (packages/client/src/discovery.ts) over the card   *)
(* cache that every client of a process may share (cache.ts; the           *)
(* workbench's module-level cardCache), for one card URL: entries are      *)
(* keyed by URL and never interact.                                        *)
(*                                                                         *)
(* A call awaits the cache, the network and the cache again, so the steps  *)
(* of several calls interleave and what a call read from the cache may be  *)
(* stale when it uses it.  The agent behind the URL replaces its card at   *)
(* any time.  Its answer to a request is composed between the request and  *)
(* the fetch timeout and may come from an HTTP cache on the way.  The      *)
(* answer is acted on arbitrarily later.                                   *)
(*                                                                         *)
(* ETag and Last-Modified are one validator: the code handles them alike.  *)
(***************************************************************************)
EXTENDS Naturals

CONSTANTS
  Calls,       \* slots from which discoverAgentCard is called, one call at a time
  MaxVersion,  \* bound on the versions of its card the agent publishes
  MaxTime,     \* bound on the clock
  MaxCalls,    \* bound on the number of calls made
  MaxAge,      \* the longest lifetime, and the longest Age, an answer states
  Timeout,     \* timeoutMs of the fetch
  Headers,     \* the caching headers answers carry
  Tagged,      \* the versions the agent serves with a validator
  Signed,      \* the versions that carry signatures
  Trusted,     \* for each call, the signed versions its trust store verifies
  NoEntry,     \* the cache holds nothing
  NoReply      \* the call holds no answer

Versions == 1..MaxVersion

NoTag == 0

\* Caching headers: Cache-Control: max-age or an Expires header, or neither; Age;
\* no-store; no-cache or must-revalidate.
CachingHeaders ==
  [lifetime: {"maxAge", "expires", "none"}, seconds: 0..MaxAge, age: 0..MaxAge,
   noStore: BOOLEAN, noCache: BOOLEAN]

Entry == [card: Versions, storedAt: Nat, expiresAt: Nat, mustRevalidate: BOOLEAN,
          etag: {NoTag} \cup Versions, trust: {"unsigned", "verified"}]

Reply == [status: {"ok", "notModified"}, card: Versions, headers: CachingHeaders,
          expires: Nat]

ASSUME DiscoveryAssumption ==
  /\ MaxVersion \in Nat \ {0}
  /\ MaxTime \in Nat
  /\ MaxCalls \in Nat
  /\ MaxAge \in Nat
  /\ Timeout \in Nat
  /\ Headers \subseteq CachingHeaders
  /\ Signed \subseteq Versions
  /\ \A h \in Headers : h.lifetime = "none" => h.age = 0
  /\ Trusted \in [Calls -> SUBSET Versions]
  /\ NoEntry \notin Entry
  /\ NoReply \notin Reply

VARIABLES
  clock,        \* wall-clock time
  latest,       \* the version of the card the agent publishes now
  lastCurrent,  \* the last moment at which each version was the published one
  cache,        \* the entry stored under the card URL, or NoEntry
  pc,           \* where the call of each slot stands
  cached,       \* what the call read from the cache
  startedAt,    \* "now" of the call, read before the request is sent
  reply,        \* the answer the call has received
  outcome,      \* what the call ended with
  calledAt,     \* history: when the pending call was made
  made          \* history: how many calls were made

origin == <<latest, lastCurrent>>
call == <<cached, startedAt, reply, outcome, calledAt, made>>
vars == <<clock, latest, lastCurrent, cache, pc, cached, startedAt,
          reply, outcome, calledAt, made>>

NoOutcome == [kind |-> "none", card |-> 0, trust |-> "unsigned"]

Failed == [NoOutcome EXCEPT !.kind = "failed"]

Init ==
  /\ clock = 0
  /\ latest = 1
  /\ lastCurrent = [v \in Versions |-> 0]
  /\ cache = NoEntry
  /\ pc = [p \in Calls |-> "idle"]
  /\ cached = [p \in Calls |-> NoEntry]
  /\ startedAt = [p \in Calls |-> 0]
  /\ reply = [p \in Calls |-> NoReply]
  /\ outcome = [p \in Calls |-> NoOutcome]
  /\ calledAt = [p \in Calls |-> 0]
  /\ made = 0
----------------------------------------------------------------------------
(***************************************************************************)
(* The environment: time and the agent.                                    *)
(***************************************************************************)

Tick ==
  /\ clock < MaxTime
  /\ clock' = clock + 1
  /\ lastCurrent' = [lastCurrent EXCEPT ![latest] = clock + 1]
  /\ UNCHANGED <<latest, cache, pc, call>>

Publish ==
  /\ latest < MaxVersion
  /\ latest' = latest + 1
  /\ lastCurrent' = [lastCurrent EXCEPT ![latest + 1] = clock]
  /\ UNCHANGED <<clock, cache, pc, call>>
----------------------------------------------------------------------------
(***************************************************************************)
(* cacheMetadata: the freshness an answer gives to a card, for a call that *)
(* started at now; prior is the lifetime of the entry a 304 renews.        *)
(***************************************************************************)

Lifetime(e) == IF e.expiresAt > e.storedAt THEN e.expiresAt - e.storedAt ELSE 0

ExpiresAtUnclamped(r, now, prior) ==
  CASE r.headers.lifetime = "maxAge" -> now + r.headers.seconds - r.headers.age
    [] r.headers.lifetime = "expires" -> r.expires
    [] r.headers.lifetime = "none" -> now + prior

ExpiresAt(r, now, prior) ==
  CASE r.headers.lifetime = "maxAge" ->
         now + (IF r.headers.seconds > r.headers.age THEN r.headers.seconds - r.headers.age ELSE 0)
    [] r.headers.lifetime = "expires" -> r.expires
    [] r.headers.lifetime = "none" -> now + prior

MustRevalidate(r, now, prior) ==
  r.headers.noCache \/ ExpiresAt(r, now, prior) <= now

TagOf(v) == IF v \in Tagged THEN v ELSE NoTag

\* The entry a 200 stores.  It starts from the answer alone.
FreshEntry(r, now, trust) ==
  [card |-> r.card, storedAt |-> now, expiresAt |-> ExpiresAt(r, now, 0),
   mustRevalidate |-> MustRevalidate(r, now, 0), etag |-> TagOf(r.card), trust |-> trust]

\* The entry a 304 stores: what the call had read from the cache, renewed.
RenewedEntry(e, r, now) ==
  [e EXCEPT !.storedAt = now,
            !.expiresAt = ExpiresAt(r, now, Lifetime(e)),
            !.mustRevalidate = MustRevalidate(r, now, Lifetime(e)),
            !.etag = IF TagOf(r.card) # NoTag THEN TagOf(r.card) ELSE @]
----------------------------------------------------------------------------
(***************************************************************************)
(* The steps of a call.                                                    *)
(***************************************************************************)

\* The call resolves or rejects and drops what it held.
Finish(p, result) ==
  /\ pc' = [pc EXCEPT ![p] = "done"]
  /\ outcome' = [outcome EXCEPT ![p] = result]
  /\ cached' = [cached EXCEPT ![p] = NoEntry]
  /\ reply' = [reply EXCEPT ![p] = NoReply]
  /\ startedAt' = [startedAt EXCEPT ![p] = 0]
  /\ calledAt' = [calledAt EXCEPT ![p] = 0]
  /\ UNCHANGED <<clock, origin, made>>

Returned(kind, e) == [kind |-> kind, card |-> e.card, trust |-> e.trust]

Reject(p) ==
  /\ Finish(p, Failed)
  /\ UNCHANGED cache

\* The call begins: await options.cache.get(cardUrl.href).
Lookup(p) ==
  /\ pc[p] \in {"idle", "done"}
  /\ made < MaxCalls
  /\ made' = made + 1
  /\ pc' = [pc EXCEPT ![p] = "looking"]
  /\ cached' = [cached EXCEPT ![p] = cache]
  /\ calledAt' = [calledAt EXCEPT ![p] = clock]
  /\ outcome' = [outcome EXCEPT ![p] = NoOutcome]
  /\ UNCHANGED <<clock, origin, cache, startedAt, reply>>

IsFreshWhateverAge(e, now) == e # NoEntry /\ ~e.mustRevalidate

IsFresh(e, now) == e # NoEntry /\ ~e.mustRevalidate /\ e.expiresAt > now

\* The caller does not force a refresh and the entry read is still fresh: it is
\* returned without a request.
ServeFresh(p) ==
  /\ pc[p] = "looking"
  /\ IsFresh(cached[p], clock)
  /\ Finish(p, Returned("fresh", cached[p]))
  /\ UNCHANGED cache

\* Otherwise the request goes out, conditional when the entry has a validator.
\* Whether the caller forces it is free, so it may go out whatever was read.
SendRequest(p) ==
  /\ pc[p] = "looking"
  /\ \E forceRefresh \in BOOLEAN : forceRefresh \/ ~IsFresh(cached[p], clock)
  /\ pc' = [pc EXCEPT ![p] = "waiting"]
  /\ startedAt' = [startedAt EXCEPT ![p] = clock]
  /\ UNCHANGED <<clock, origin, cache, cached, reply, outcome, calledAt, made>>

\* The version an If-None-Match of the request names.
RequestTag(p) == IF cached[p] = NoEntry THEN NoTag ELSE cached[p].etag

(***************************************************************************)
(* The answer, of the agent or of an HTTP cache in between: a version that *)
(* was the published one Age ago, or a 304 when the request names its      *)
(* validator.  Expires is absolute and counts from when the agent composed *)
(* the answer; an answer that states no lifetime comes from the agent.     *)
(***************************************************************************)
Answer(p) ==
  /\ pc[p] = "waiting"
  /\ clock <= startedAt[p] + Timeout
  /\ \E h \in Headers, v \in 1..latest, status \in {"ok", "notModified"} :
       /\ h.age <= clock /\ clock <= lastCurrent[v] + h.age
       /\ status = "notModified" => RequestTag(p) = v
       /\ reply' = [reply EXCEPT ![p] =
            [status |-> status, card |-> v, headers |-> h,
             expires |-> IF h.lifetime = "expires" THEN (clock - h.age) + h.seconds ELSE 0]]
  /\ pc' = [pc EXCEPT ![p] = "answered"]
  /\ UNCHANGED <<clock, origin, cache, cached, startedAt, outcome, calledAt, made>>

\* The fetch times out, the caller's signal aborts it, or it ends in an HTTP error,
\* a body that is no valid card, or a 304 the call has no entry for.
Abandon(p) ==
  /\ pc[p] = "waiting"
  /\ Reject(p)

\* 304: the entry the call had read is stored again under new metadata.
Revalidate(p) ==
  /\ pc[p] = "answered" /\ reply[p].status = "notModified"
  /\ cache' = RenewedEntry(cached[p], reply[p], startedAt[p])
  /\ Finish(p, Returned("revalidated", cached[p]))

\* verifyCardTrust: a signed card needs a trust store that verifies it.
Verifiable(p, v) == v \in Signed => v \in Trusted[p]

Trust(v) == IF v \in Signed THEN "verified" ELSE "unsigned"

\* Slips StoreCard avoids: taking "now" when the answer is handled, and completing a
\* 200 that has no validator with the previous entry's.
StoreCardAtArrival(p) ==
  /\ pc[p] = "answered" /\ reply[p].status = "ok"
  /\ Verifiable(p, reply[p].card)
  /\ LET e == FreshEntry(reply[p], clock, Trust(reply[p].card)) IN
       /\ cache' = IF reply[p].headers.noStore THEN NoEntry ELSE e
       /\ Finish(p, Returned("refreshed", e))

StoreCardKeepingTag(p) ==
  /\ pc[p] = "answered" /\ reply[p].status = "ok"
  /\ Verifiable(p, reply[p].card)
  /\ LET e == FreshEntry(reply[p], startedAt[p], Trust(reply[p].card))
         tag == IF e.etag = NoTag THEN RequestTag(p) ELSE e.etag IN
       /\ cache' = IF reply[p].headers.noStore THEN NoEntry ELSE [e EXCEPT !.etag = tag]
       /\ Finish(p, Returned("refreshed", e))

\* 200 with a valid card: stored, or the stored entry dropped on no-store.
StoreCard(p) ==
  /\ pc[p] = "answered" /\ reply[p].status = "ok"
  /\ Verifiable(p, reply[p].card)
  /\ LET e == FreshEntry(reply[p], startedAt[p], Trust(reply[p].card)) IN
       /\ cache' = IF reply[p].headers.noStore THEN NoEntry ELSE e
       /\ Finish(p, Returned(IF cached[p] = NoEntry THEN "miss" ELSE "refreshed", e))

\* The card is signed and no signature is trusted.
RejectCard(p) ==
  /\ pc[p] = "answered" /\ reply[p].status = "ok"
  /\ ~Verifiable(p, reply[p].card)
  /\ Reject(p)
----------------------------------------------------------------------------
Step(p) ==
  \/ Lookup(p)
  \/ ServeFresh(p)
  \/ SendRequest(p)
  \/ Answer(p)
  \/ Abandon(p)
  \/ Revalidate(p)
  \/ StoreCard(p)
  \/ RejectCard(p)

Next == Tick \/ Publish \/ \E p \in Calls : Step(p)

Spec == Init /\ [][Next]_vars
----------------------------------------------------------------------------
(***************************************************************************)
(* Properties.                                                             *)
(***************************************************************************)

Outcome == [kind: {"none", "fresh", "revalidated", "refreshed", "miss", "failed"},
            card: {0} \cup Versions, trust: {"unsigned", "verified"}]

\* Every variable keeps its type.
TypeOK ==
  /\ clock \in Nat
  /\ latest \in Versions
  /\ lastCurrent \in [Versions -> Nat]
  /\ cache \in Entry \cup {NoEntry}
  /\ pc \in [Calls -> {"idle", "looking", "waiting", "answered", "done"}]
  /\ cached \in [Calls -> Entry \cup {NoEntry}]
  /\ startedAt \in [Calls -> Nat]
  /\ reply \in [Calls -> Reply \cup {NoReply}]
  /\ outcome \in [Calls -> Outcome]
  /\ calledAt \in [Calls -> Nat]
  /\ made \in Nat

\* The validator stored with a card, in the cache or in the hands of a call that
\* will send it, is that card's own, whatever calls overlapped: a 304 to it
\* confirms the card the code then returns.
ValidatorMatchesCard ==
  \A e \in {cache} \cup {cached[p] : p \in Calls} :
    e # NoEntry => e.etag \in {NoTag, e.card}

\* An entry never outlives by more than the longest lifetime plus one fetch
\* timeout the last moment the agent published its card, through any number of
\* renewals by answers that state no lifetime.
EntryExpiresInTime ==
  cache # NoEntry => cache.expiresAt <= lastCurrent[cache.card] + MaxAge + Timeout

\* discoverAgentCard implements the promise of CardService: no call returns a card
\* the agent had replaced more than MaxAge + Timeout before the call was made.
StatusOf(p) ==
  CASE pc[p] = "idle" -> "idle"
    [] pc[p] = "done" -> IF outcome[p].kind = "failed" THEN "failed" ELSE "returned"
    [] OTHER -> "busy"

CallStatus == [p \in Calls |-> StatusOf(p)]

ReturnedCard == [p \in Calls |-> outcome[p].card]

Service == INSTANCE CardService WITH
  Bound <- MaxAge + Timeout, status <- CallStatus, card <- ReturnedCard

ImplementsCardService == Service!Spec

\* protocol-contract.md:73: "A 304 refreshes stored freshness metadata without
\* replacing the validated card."
RenewalKeepsStoredCard ==
  [][\A p \in Calls :
       (pc[p] = "answered" /\ reply[p].status = "notModified" /\ pc'[p] = "done"
          /\ cache # NoEntry /\ cache' # NoEntry)
         => cache'.card = cache.card]_vars

\* protocol-contract.md:189-192: "A signed Agent Card is accepted only when at least one
\* signature validates against the configured trust store. Signed cards with no trust
\* store, no matching key, invalid protected headers, or failed verification return
\* `SIGNATURE_VERIFICATION_FAILED`": a call returns a signed card, from the network or
\* from the cache, only if its own trust store verifies it.
SignedCardsAreVerified ==
  \A p \in Calls : outcome[p].card \in Signed => outcome[p].card \in Trusted[p]
=============================================================================
