-------------------------- MODULE Discovery_proofs --------------------------
(***************************************************************************)
(* What holds of Agent Card discovery for any number of overlapping calls, *)
(* any versions, lifetimes, Ages and timeouts: its types, that a stored    *)
(* validator is its card's own, that signed cards are verified where all   *)
(* calls have one trust store, that an entry expires in time, and that     *)
(* discovery implements CardService.                                       *)
(***************************************************************************)
EXTENDS Discovery, TLAPS

Busy == {"looking", "waiting", "answered"}

\* Some call's trust store verifies the version.
SomeStoreVerifies(v) == \E p \in Calls : v \in Trusted[p]

\* What is known of an entry wherever it is held.
EntryInv(e) ==
  /\ e.card <= latest
  /\ e.etag \in {NoTag, e.card}
  /\ e.expiresAt <= lastCurrent[e.card] + MaxAge + Timeout
  /\ e.expiresAt <= e.storedAt + MaxAge + Timeout
  /\ e.trust = "verified" <=> e.card \in Signed
  /\ e.card \in Signed => SomeStoreVerifies(e.card)

\* What is known of the answer call p is about to act on.
ReplyInv(p) ==
  /\ reply[p] \in Reply
  /\ reply[p].card <= latest
  /\ startedAt[p] <= lastCurrent[reply[p].card] + reply[p].headers.age
  /\ reply[p].headers.lifetime = "none" => reply[p].headers.age = 0
  /\ reply[p].headers.lifetime = "expires" =>
       /\ reply[p].expires <= lastCurrent[reply[p].card] + MaxAge
       /\ reply[p].expires <= startedAt[p] + MaxAge + Timeout
  /\ reply[p].status = "notModified" =>
       cached[p] # NoEntry /\ cached[p].etag = reply[p].card

ClockInv ==
  /\ lastCurrent[latest] = clock
  /\ \A v \in Versions : lastCurrent[v] <= clock

CallInv(p) ==
  /\ calledAt[p] <= clock
  /\ startedAt[p] <= clock
  /\ pc[p] \in {"waiting", "answered"} => calledAt[p] <= startedAt[p]
  /\ pc[p] \in Busy => outcome[p].card = 0
  /\ cached[p] # NoEntry => EntryInv(cached[p])
  /\ pc[p] = "answered" => ReplyInv(p)
  /\ outcome[p].card \in Signed => SomeStoreVerifies(outcome[p].card)

\* The inductive invariant.
IInv ==
  /\ TypeOK
  /\ ClockInv
  /\ cache # NoEntry => EntryInv(cache)
  /\ \A p \in Calls : CallInv(p)
-----------------------------------------------------------------------------
(***************************************************************************)
(* The metadata an answer gives an entry.                                  *)
(***************************************************************************)

\* cacheMetadata never yields a negative time, whatever Age an answer states.
LEMMA ExpiresAtType ==
  ASSUME NEW r \in Reply, NEW now \in Nat, NEW prior \in Nat
  PROVE  ExpiresAt(r, now, prior) \in Nat
  <1> USE DiscoveryAssumption
  <1>1. CASE r.headers.lifetime = "maxAge"
    BY <1>1 DEF ExpiresAt, Reply, CachingHeaders
  <1>2. CASE r.headers.lifetime = "expires"
    BY <1>2 DEF ExpiresAt, Reply, CachingHeaders
  <1>3. CASE r.headers.lifetime = "none"
    BY <1>3 DEF ExpiresAt, Reply, CachingHeaders
  <1> QED
    BY <1>1, <1>2, <1>3 DEF Reply, CachingHeaders

\* An entry made from an answer expires in time, given that the lifetime it may
\* inherit is in bounds and that the answer is about a version current long enough.
LEMMA ExpiresInTime ==
  ASSUME NEW r \in Reply, NEW now \in Nat, NEW prior \in Nat, NEW current \in Nat,
         prior <= MaxAge + Timeout,
         now <= current + r.headers.age,
         r.headers.lifetime = "none" => r.headers.age = 0,
         r.headers.lifetime = "expires" =>
           r.expires <= current + MaxAge /\ r.expires <= now + MaxAge + Timeout
  PROVE  /\ ExpiresAt(r, now, prior) <= current + MaxAge + Timeout
         /\ ExpiresAt(r, now, prior) <= now + MaxAge + Timeout
  <1> USE DiscoveryAssumption
  <1>1. CASE r.headers.lifetime = "maxAge"
    BY <1>1 DEF ExpiresAt, Reply, CachingHeaders
  <1>2. CASE r.headers.lifetime = "expires"
    BY <1>2 DEF ExpiresAt, Reply, CachingHeaders
  <1>3. CASE r.headers.lifetime = "none"
    BY <1>3 DEF ExpiresAt, Reply, CachingHeaders
  <1> QED
    BY <1>1, <1>2, <1>3 DEF Reply, CachingHeaders

LEMMA LifetimeBound ==
  ASSUME NEW e \in Entry, e.expiresAt <= e.storedAt + MaxAge + Timeout
  PROVE  Lifetime(e) \in Nat /\ Lifetime(e) <= MaxAge + Timeout
  BY DiscoveryAssumption DEF Lifetime, Entry

LEMMA FreshEntryType ==
  ASSUME NEW r \in Reply, NEW now \in Nat, NEW trust \in {"unsigned", "verified"}
  PROVE  FreshEntry(r, now, trust) \in Entry
  <1>1. ExpiresAt(r, now, 0) \in Nat
    BY ExpiresAtType
  <1>2. TagOf(r.card) \in {NoTag} \cup Versions
    BY DEF TagOf, Reply
  <1>3. r.card \in Versions /\ MustRevalidate(r, now, 0) \in BOOLEAN
    BY DEF Reply, CachingHeaders, MustRevalidate
  <1> QED
    BY <1>1, <1>2, <1>3 DEF FreshEntry, Entry

LEMMA RenewedEntryType ==
  ASSUME NEW e \in Entry, NEW r \in Reply, NEW now \in Nat
  PROVE  /\ RenewedEntry(e, r, now) \in Entry
         /\ RenewedEntry(e, r, now).card = e.card
         /\ RenewedEntry(e, r, now).trust = e.trust
         /\ RenewedEntry(e, r, now).storedAt = now
         /\ RenewedEntry(e, r, now).expiresAt = ExpiresAt(r, now, Lifetime(e))
         /\ RenewedEntry(e, r, now).etag = (IF TagOf(r.card) # NoTag THEN TagOf(r.card) ELSE e.etag)
  <1>1. Lifetime(e) \in Nat
    BY DEF Lifetime, Entry
  <1>2. ExpiresAt(r, now, Lifetime(e)) \in Nat
    BY <1>1, ExpiresAtType
  <1>3. TagOf(r.card) \in {NoTag} \cup Versions
    BY DEF TagOf, Reply
  <1>4. MustRevalidate(r, now, Lifetime(e)) \in BOOLEAN
    BY DEF Reply, CachingHeaders, MustRevalidate
  <1> QED
    BY <1>2, <1>3, <1>4 DEF RenewedEntry, Entry
-----------------------------------------------------------------------------
(***************************************************************************)
(* Type correctness.                                                       *)
(***************************************************************************)

LEMMA FinishType ==
  ASSUME TypeOK, NEW p \in Calls, NEW result \in Outcome, Finish(p, result),
         cache' \in Entry \cup {NoEntry}
  PROVE  TypeOK'
  BY DEF TypeOK, Finish, origin

LEMMA FailedType == Failed \in Outcome
  BY DEF Failed, NoOutcome, Outcome

LEMMA NothingSigned == NoOutcome.card \notin Signed /\ Failed.card \notin Signed
  BY DiscoveryAssumption DEF Failed, NoOutcome, Versions

LEMMA ReturnedType ==
  ASSUME NEW e \in Entry, NEW kind \in {"fresh", "revalidated", "refreshed", "miss"}
  PROVE  /\ Returned(kind, e) \in Outcome
         /\ Returned(kind, e).card = e.card
         /\ Returned(kind, e).kind = kind
  BY DEF Returned, Outcome, Entry

LEMMA TrustType == \A v : Trust(v) \in {"unsigned", "verified"}
  BY DEF Trust

\* Not inductive alone: an answered call holds an answer, and a 304 an entry.
LEMMA TypeStep == IInv /\ [Next]_vars => TypeOK'
  <1> SUFFICES ASSUME TypeOK, \A p \in Calls : CallInv(p), [Next]_vars PROVE TypeOK'
    BY DEF IInv
  <1> USE DiscoveryAssumption
  <1>1. CASE Tick
    BY <1>1 DEF Tick, TypeOK, call
  <1>2. CASE Publish
    BY <1>2 DEF Publish, TypeOK, call, Versions
  <1>3. ASSUME NEW p \in Calls, Step(p) PROVE TypeOK'
    <2>1. CASE Lookup(p)
      BY <2>1 DEF Lookup, TypeOK, origin, Outcome, NoOutcome
    <2>2. CASE ServeFresh(p)
      <3>1. cached[p] \in Entry
        BY <2>2 DEF ServeFresh, IsFresh, TypeOK
      <3>2. Returned("fresh", cached[p]) \in Outcome
        BY <3>1, ReturnedType
      <3> QED
        BY <2>2, <3>2, FinishType DEF ServeFresh, TypeOK
    <2>3. CASE SendRequest(p)
      BY <2>3 DEF SendRequest, TypeOK, origin
    <2>4. CASE Answer(p)
      <3>1. PICK h \in Headers, v \in 1..latest, status \in {"ok", "notModified"} :
              /\ h.age <= clock
              /\ reply' = [reply EXCEPT ![p] =
                   [status |-> status, card |-> v, headers |-> h,
                    expires |-> IF h.lifetime = "expires" THEN (clock - h.age) + h.seconds ELSE 0]]
        BY <2>4 DEF Answer
      <3>2. v \in Versions /\ h \in CachingHeaders
        BY DEF TypeOK, Versions
      <3>3. (IF h.lifetime = "expires" THEN (clock - h.age) + h.seconds ELSE 0) \in Nat
        BY <3>1, <3>2 DEF TypeOK, CachingHeaders
      <3>4. reply' \in [Calls -> Reply \cup {NoReply}]
        BY <3>1, <3>2, <3>3 DEF TypeOK, Reply
      <3> QED
        BY <2>4, <3>4 DEF Answer, TypeOK, origin
    <2>5. CASE Abandon(p)
      BY <2>5, FinishType, FailedType DEF Abandon, Reject, TypeOK
    <2>6. CASE Revalidate(p)
      <3>1. reply[p] \in Reply /\ cached[p] \in Entry
        BY <2>6 DEF Revalidate, CallInv, ReplyInv, TypeOK
      <3>2. RenewedEntry(cached[p], reply[p], startedAt[p]) \in Entry
        BY <3>1, RenewedEntryType DEF TypeOK
      <3>3. Returned("revalidated", cached[p]) \in Outcome
        BY <3>1, ReturnedType
      <3> QED
        BY <2>6, <3>2, <3>3, FinishType DEF Revalidate
    <2>7. CASE StoreCard(p)
      <3> DEFINE e == FreshEntry(reply[p], startedAt[p], Trust(reply[p].card))
                 kind == IF cached[p] = NoEntry THEN "miss" ELSE "refreshed"
      <3>1. reply[p] \in Reply
        BY <2>7 DEF StoreCard, CallInv, ReplyInv
      <3>2. e \in Entry
        BY <3>1, FreshEntryType, TrustType DEF TypeOK
      <3>3. Returned(kind, e) \in Outcome
        BY <3>2, ReturnedType
      <3>4. Finish(p, Returned(kind, e)) /\ cache' \in {NoEntry, e}
        BY <2>7 DEF StoreCard
      <3> HIDE DEF e, kind
      <3> QED
        BY <3>2, <3>3, <3>4, FinishType
    <2>8. CASE RejectCard(p)
      BY <2>8, FinishType, FailedType DEF RejectCard, Reject, TypeOK
    <2> QED
      BY <1>3, <2>1, <2>2, <2>3, <2>4, <2>5, <2>6, <2>7, <2>8 DEF Step
  <1>4. CASE UNCHANGED vars
    BY <1>4 DEF vars, TypeOK
  <1> QED
    BY <1>1, <1>2, <1>3, <1>4 DEF Next
-----------------------------------------------------------------------------
(***************************************************************************)
(* The inductive invariant is preserved.                                   *)
(***************************************************************************)

\* A step that leaves the environment and a call's own variables alone leaves what
\* is known of that call.
LEMMA OtherCall ==
  ASSUME NEW q \in Calls, CallInv(q), UNCHANGED <<clock, origin>>,
         UNCHANGED <<pc[q], cached[q], startedAt[q], reply[q], outcome[q], calledAt[q]>>
  PROVE  CallInv(q)'
  BY DEF CallInv, EntryInv, ReplyInv, origin

\* A call that ends knows nothing any more; the invariant rests on what it returns
\* and what it leaves in the cache.
LEMMA FinishStep ==
  ASSUME IInv, NEW p \in Calls, NEW result \in Outcome, Finish(p, result),
         cache' # NoEntry => EntryInv(cache)',
         result.card \in Signed => SomeStoreVerifies(result.card)
  PROVE  ClockInv' /\ (cache' # NoEntry => EntryInv(cache)') /\ \A q \in Calls : CallInv(q)'
  <1>1. ClockInv'
    BY DEF IInv, ClockInv, Finish, origin
  <1>2. CallInv(p)'
    BY DEF IInv, TypeOK, CallInv, Finish, origin, Busy
  <1>3. ASSUME NEW q \in Calls, q # p PROVE CallInv(q)'
    <2>1. UNCHANGED <<clock, origin>> /\ CallInv(q)
      BY DEF IInv, Finish
    <2>2. UNCHANGED <<pc[q], cached[q], startedAt[q], reply[q], outcome[q], calledAt[q]>>
      BY <1>3 DEF IInv, TypeOK, Finish
    <2> QED
      BY <2>1, <2>2, OtherCall
  <1> QED
    BY <1>1, <1>2, <1>3

\* The environment only ever extends the life of a version.
LEMMA EntrySurvives ==
  ASSUME TypeOK, TypeOK', latest <= latest',
         \A v \in Versions : v <= latest => lastCurrent[v] <= lastCurrent'[v],
         NEW e \in Entry, EntryInv(e)
  PROVE  /\ e.card <= latest'
         /\ e.expiresAt <= lastCurrent'[e.card] + MaxAge + Timeout
  <1>1. /\ e.card \in Versions /\ e.card \in Nat /\ e.expiresAt \in Nat
        /\ latest \in Nat /\ latest' \in Nat
    BY DEF TypeOK, Entry, Versions
  <1>2. lastCurrent[e.card] \in Nat /\ lastCurrent'[e.card] \in Nat
    BY <1>1 DEF TypeOK
  <1>3. e.card <= latest /\ lastCurrent[e.card] <= lastCurrent'[e.card]
    BY <1>1 DEF EntryInv
  <1>4. e.expiresAt <= lastCurrent[e.card] + MaxAge + Timeout
    BY DEF EntryInv
  <1> QED
    BY <1>1, <1>2, <1>3, <1>4, DiscoveryAssumption

LEMMA EnvironmentStep ==
  ASSUME IInv, TypeOK', Tick \/ Publish
  PROVE  IInv'
  <1> USE DiscoveryAssumption
  <1>1. /\ UNCHANGED <<cache, pc, call>>
        /\ clock <= clock' /\ latest <= latest'
        /\ \A v \in Versions : v <= latest => lastCurrent[v] <= lastCurrent'[v]
        /\ ClockInv'
    <2> USE DEF IInv, TypeOK, ClockInv, Versions
    <2>1. CASE Tick
      BY <2>1 DEF Tick
    <2>2. CASE Publish
      <3>1. latest + 1 \in Versions /\ latest + 1 # latest
        BY <2>2 DEF Publish
      <3>2. \A v \in Versions : lastCurrent'[v] = IF v = latest + 1 THEN clock ELSE lastCurrent[v]
        BY <2>2, <3>1 DEF Publish
      <3> QED
        BY <2>2, <3>1, <3>2 DEF Publish
    <2> QED
      BY <2>1, <2>2
  <1>2. ASSUME NEW e \in Entry, EntryInv(e)
        PROVE  /\ e.card <= latest'
               /\ e.expiresAt <= lastCurrent'[e.card] + MaxAge + Timeout
    BY <1>1, <1>2, EntrySurvives DEF IInv
  <1>3. cache' # NoEntry => EntryInv(cache)'
    BY <1>1, <1>2 DEF IInv, TypeOK, EntryInv
  <1>4. ASSUME NEW q \in Calls PROVE CallInv(q)'
    <2>1. /\ CallInv(q) /\ UNCHANGED <<pc[q], cached[q], startedAt[q], reply[q], outcome[q], calledAt[q]>>
      BY <1>1 DEF IInv, call
    <2>2. cached'[q] # NoEntry => EntryInv(cached[q])'
      BY <1>2, <2>1 DEF IInv, TypeOK, CallInv, EntryInv
    <2>3. pc'[q] = "answered" => ReplyInv(q)'
      <3> SUFFICES ASSUME pc[q] = "answered" PROVE ReplyInv(q)'
        BY <2>1
      <3>1. ReplyInv(q) /\ reply[q] \in Reply
        BY <2>1 DEF CallInv, ReplyInv
      <3>2. /\ reply[q].card \in Versions /\ reply[q].card <= latest
            /\ reply[q].expires \in Nat /\ reply[q].headers.age \in Nat
        BY <3>1 DEF ReplyInv, Reply, CachingHeaders
      <3>3. /\ reply[q].card <= latest'
            /\ lastCurrent[reply[q].card] <= lastCurrent'[reply[q].card]
        <4>1. latest \in Versions /\ latest' \in Versions
          BY DEF IInv, TypeOK
        <4>2. latest \in Nat /\ latest' \in Nat /\ reply[q].card \in Nat
          BY <3>2, <4>1 DEF Versions
        <4> QED
          BY <1>1, <3>2, <4>2
      <3>4. lastCurrent[reply[q].card] \in Nat /\ lastCurrent'[reply[q].card] \in Nat /\ startedAt[q] \in Nat
        BY <3>2 DEF IInv, TypeOK
      <3> QED
        BY <2>1, <3>1, <3>2, <3>3, <3>4 DEF ReplyInv
    <2>4. calledAt[q] \in Nat /\ startedAt[q] \in Nat /\ clock \in Nat /\ clock' \in Nat
      BY DEF IInv, TypeOK
    <2> QED
      BY <1>1, <2>1, <2>2, <2>3, <2>4 DEF CallInv
  <1> QED
    BY <1>1, <1>3, <1>4 DEF IInv

LEMMA AnswerStep ==
  ASSUME IInv, TypeOK', NEW p \in Calls, Answer(p)
  PROVE  IInv'
  <1> USE DiscoveryAssumption
  <1>1. ClockInv' /\ (cache' # NoEntry => EntryInv(cache)')
    BY DEF IInv, ClockInv, EntryInv, Answer, origin
  <1>2. ASSUME NEW q \in Calls, q # p PROVE CallInv(q)'
    <2>1. UNCHANGED <<clock, origin>> /\ CallInv(q)
      BY DEF IInv, Answer
    <2>2. UNCHANGED <<pc[q], cached[q], startedAt[q], reply[q], outcome[q], calledAt[q]>>
      BY <1>2 DEF IInv, TypeOK, Answer
    <2> QED
      BY <2>1, <2>2, OtherCall
  <1>3. CallInv(p)'
    <2>1. PICK h \in Headers, v \in 1..latest, status \in {"ok", "notModified"} :
            /\ h.age <= clock /\ clock <= lastCurrent[v] + h.age
            /\ status = "notModified" => RequestTag(p) = v
            /\ reply' = [reply EXCEPT ![p] =
                 [status |-> status, card |-> v, headers |-> h,
                  expires |-> IF h.lifetime = "expires" THEN (clock - h.age) + h.seconds ELSE 0]]
      BY DEF Answer
    <2>2. /\ v \in Versions /\ h \in CachingHeaders /\ h.age \in 0..MaxAge /\ h.seconds \in 0..MaxAge
          /\ h.lifetime = "none" => h.age = 0
      <3>1. h \in CachingHeaders /\ (h.lifetime = "none" => h.age = 0)
        OBVIOUS
      <3>2. h.age \in 0..MaxAge /\ h.seconds \in 0..MaxAge
        BY <3>1 DEF CachingHeaders
      <3>3. latest \in Versions
        BY DEF IInv, TypeOK
      <3>4. v \in Versions
        BY <3>3 DEF Versions
      <3> QED
        BY <3>1, <3>2, <3>4
    <2>3. /\ clock \in Nat /\ startedAt[p] \in Nat /\ lastCurrent[v] \in Nat /\ latest \in Nat
          /\ startedAt[p] <= clock /\ clock <= startedAt[p] + Timeout
      <3>1. TypeOK /\ CallInv(p)
        BY DEF IInv
      <3>2. latest \in Versions /\ clock \in Nat /\ startedAt[p] \in Nat /\ lastCurrent[v] \in Nat
        BY <2>2, <3>1 DEF TypeOK
      <3>3. startedAt[p] <= clock
        BY <3>1 DEF CallInv, Answer
      <3>4. clock <= startedAt[p] + Timeout
        BY DEF Answer
      <3> QED
        BY <3>2, <3>3, <3>4 DEF Versions
    <2>4. reply'[p] = [status |-> status, card |-> v, headers |-> h,
                       expires |-> IF h.lifetime = "expires" THEN (clock - h.age) + h.seconds ELSE 0]
      BY <2>1 DEF IInv, TypeOK
    <2>5. reply'[p] \in Reply
      BY <2>1, <2>2, <2>3, <2>4 DEF Reply, CachingHeaders
    <2>6. status = "notModified" => cached[p] # NoEntry /\ cached[p].etag = v
      BY <2>1, <2>2 DEF RequestTag, NoTag, Versions
    <2>7. UNCHANGED <<clock, latest, lastCurrent, cached, startedAt, outcome, calledAt>>
          /\ pc[p] = "waiting" /\ pc'[p] = "answered"
      BY DEF Answer, origin, IInv, TypeOK
    <2>8. ReplyInv(p)'
      <3>1. /\ startedAt[p] <= lastCurrent[v] + h.age
            /\ h.lifetime = "expires" =>
                 /\ (clock - h.age) + h.seconds <= lastCurrent[v] + MaxAge
                 /\ (clock - h.age) + h.seconds <= startedAt[p] + MaxAge + Timeout
        BY <2>1, <2>2, <2>3
      <3> QED
        BY <2>2, <2>4, <2>5, <2>6, <2>7, <3>1 DEF ReplyInv
    <2> QED
      BY <2>7, <2>8 DEF IInv, CallInv, EntryInv, Busy
  <1> QED
    BY <1>1, <1>2, <1>3 DEF IInv

LEMMA LookupStep ==
  ASSUME IInv, TypeOK', NEW p \in Calls, Lookup(p) \/ SendRequest(p)
  PROVE  IInv'
  <1>1. ClockInv' /\ (cache' # NoEntry => EntryInv(cache)')
    BY DEF IInv, ClockInv, EntryInv, Lookup, SendRequest, origin
  <1>2. CallInv(p)'
    <2>1. CASE Lookup(p)
      <3>1. outcome'[p] = NoOutcome /\ NoOutcome.card = 0 /\ NoOutcome.card \notin Signed
        BY <2>1, NothingSigned DEF Lookup, IInv, TypeOK, NoOutcome
      <3> QED
        BY <2>1, <3>1 DEF Lookup, IInv, TypeOK, CallInv, EntryInv, Busy, origin
    <2>2. CASE SendRequest(p)
      BY <2>2 DEF SendRequest, IInv, TypeOK, CallInv, EntryInv, Busy, origin
    <2> QED
      BY <2>1, <2>2
  <1>3. ASSUME NEW q \in Calls, q # p PROVE CallInv(q)'
    <2>1. UNCHANGED <<clock, origin>> /\ CallInv(q)
      BY DEF IInv, Lookup, SendRequest
    <2>2. UNCHANGED <<pc[q], cached[q], startedAt[q], reply[q], outcome[q], calledAt[q]>>
      BY <1>3 DEF IInv, TypeOK, Lookup, SendRequest
    <2> QED
      BY <2>1, <2>2, OtherCall
  <1> QED
    BY <1>1, <1>2, <1>3 DEF IInv

LEMMA ServeFreshStep ==
  ASSUME IInv, TypeOK', NEW p \in Calls, ServeFresh(p)
  PROVE  IInv'
  <1>1. cached[p] \in Entry
    BY DEF IInv, TypeOK, ServeFresh, IsFresh
  <1>2. Returned("fresh", cached[p]) \in Outcome /\ Returned("fresh", cached[p]).card = cached[p].card
    BY <1>1, ReturnedType
  <1>3. cache' # NoEntry => EntryInv(cache)'
    BY DEF IInv, EntryInv, ServeFresh, Finish, origin
  <1>4. cached[p].card \in Signed => SomeStoreVerifies(cached[p].card)
    BY DEF IInv, CallInv, EntryInv, ServeFresh, IsFresh
  <1> QED
    BY <1>2, <1>3, <1>4, FinishStep DEF ServeFresh, IInv

LEMMA RejectStep ==
  ASSUME IInv, TypeOK', NEW p \in Calls, Reject(p)
  PROVE  IInv'
  <1>1. cache' # NoEntry => EntryInv(cache)'
    BY DEF IInv, EntryInv, Reject, Finish, origin
  <1> QED
    BY <1>1, NothingSigned, FailedType, FinishStep DEF Reject, IInv

LEMMA RevalidateStep ==
  ASSUME IInv, TypeOK', NEW p \in Calls, Revalidate(p)
  PROVE  IInv'
  <1> DEFINE e == cached[p]
             r == reply[p]
             now == startedAt[p]
  <1> USE DiscoveryAssumption
  <1>1. /\ e \in Entry /\ r \in Reply /\ now \in Nat
        /\ EntryInv(e) /\ ReplyInv(p) /\ e.etag = r.card
    BY DEF Revalidate, IInv, TypeOK, CallInv, ReplyInv
  <1>2. /\ cache' = RenewedEntry(e, r, now) /\ UNCHANGED <<latest, lastCurrent>>
    BY DEF Revalidate, Finish, origin
  \* The validator the answer confirms is that of the card the call holds.
  <1>3. e.card = r.card /\ r.card \in Versions
    BY <1>1 DEF EntryInv, NoTag, Reply, Versions
  <1>4. Lifetime(e) \in Nat /\ Lifetime(e) <= MaxAge + Timeout
    BY <1>1, LifetimeBound DEF EntryInv
  <1>5. lastCurrent[r.card] \in Nat
    BY <1>3 DEF IInv, TypeOK
  <1>6. /\ ExpiresAt(r, now, Lifetime(e)) <= lastCurrent[r.card] + MaxAge + Timeout
        /\ ExpiresAt(r, now, Lifetime(e)) <= now + MaxAge + Timeout
    BY <1>1, <1>4, <1>5, ExpiresInTime DEF ReplyInv
  <1>7. TagOf(r.card) \in {NoTag, e.card}
    BY <1>3 DEF TagOf
  <1>8. EntryInv(cache)'
    <2>1. /\ cache'.card = e.card /\ cache'.trust = e.trust /\ cache'.storedAt = now
          /\ cache'.expiresAt = ExpiresAt(r, now, Lifetime(e))
          /\ cache'.etag \in {e.etag, TagOf(r.card)}
      BY <1>1, <1>2, RenewedEntryType
    <2> HIDE DEF e, r, now
    <2> QED
      BY <1>1, <1>2, <1>3, <1>6, <1>7, <2>1 DEF EntryInv
  <1>9. Returned("revalidated", e) \in Outcome /\ Returned("revalidated", e).card = e.card
    BY <1>1, ReturnedType
  <1>10. e.card \in Signed => SomeStoreVerifies(e.card)
    BY <1>1 DEF EntryInv
  <1> QED
    BY <1>8, <1>9, <1>10, FinishStep DEF Revalidate, IInv

LEMMA StoreCardStep ==
  ASSUME IInv, TypeOK', NEW p \in Calls, StoreCard(p)
  PROVE  IInv'
  <1> DEFINE r == reply[p]
             now == startedAt[p]
             e == FreshEntry(r, now, Trust(r.card))
             kind == IF cached[p] = NoEntry THEN "miss" ELSE "refreshed"
  <1> USE DiscoveryAssumption
  <1>1. r \in Reply /\ now \in Nat /\ ReplyInv(p) /\ r.card \in Versions
    BY DEF StoreCard, IInv, TypeOK, CallInv, ReplyInv, Reply
  <1>2. /\ cache' \in {NoEntry, e} /\ Finish(p, Returned(kind, e))
        /\ UNCHANGED <<latest, lastCurrent>>
    BY DEF StoreCard, Finish, origin
  <1>3. e \in Entry /\ e.card = r.card /\ e.storedAt = now /\ e.trust = Trust(r.card)
        /\ e.etag = TagOf(r.card) /\ e.expiresAt = ExpiresAt(r, now, 0)
    BY <1>1, FreshEntryType, TrustType DEF FreshEntry
  <1>4. lastCurrent[r.card] \in Nat
    BY <1>1 DEF IInv, TypeOK
  <1>5. /\ ExpiresAt(r, now, 0) <= lastCurrent[r.card] + MaxAge + Timeout
        /\ ExpiresAt(r, now, 0) <= now + MaxAge + Timeout
    BY <1>1, <1>4, ExpiresInTime DEF ReplyInv
  <1>6. r.card \in Signed => SomeStoreVerifies(r.card)
    BY DEF StoreCard, Verifiable, SomeStoreVerifies
  <1>7. Returned(kind, e) \in Outcome /\ Returned(kind, e).card = r.card
    BY <1>3, ReturnedType
  <1> HIDE DEF e, kind
  <1>8. cache' # NoEntry => EntryInv(cache)'
    BY <1>1, <1>2, <1>3, <1>5, <1>6 DEF EntryInv, ReplyInv, TagOf, Trust
  <1> QED
    BY <1>2, <1>6, <1>7, <1>8, FinishStep DEF IInv

LEMMA InvStep == IInv /\ [Next]_vars => IInv'
  <1> SUFFICES ASSUME IInv, [Next]_vars PROVE IInv'
    OBVIOUS
  <1>1. TypeOK'
    BY TypeStep
  <1>2. CASE Tick \/ Publish
    BY <1>1, <1>2, EnvironmentStep
  <1>3. ASSUME NEW p \in Calls, Step(p) PROVE IInv'
    BY <1>1, <1>3, LookupStep, ServeFreshStep, AnswerStep, RejectStep, RevalidateStep,
       StoreCardStep DEF Step, Abandon, RejectCard
  <1>4. CASE UNCHANGED vars
    BY <1>4, <1>1 DEF vars, IInv, ClockInv, CallInv, EntryInv, ReplyInv
  <1> QED
    BY <1>2, <1>3, <1>4 DEF Next

LEMMA InvInit == Init => IInv
  BY DiscoveryAssumption DEF Init, IInv, TypeOK, ClockInv, CallInv, NoOutcome, Outcome, Versions

\* discoverAgentCard keeps the inductive invariant.
THEOREM Invariance == Spec => []IInv
  BY InvInit, InvStep, PTL DEF Spec
-----------------------------------------------------------------------------
(***************************************************************************)
(* What the invariant gives.                                               *)
(***************************************************************************)

\* Every variable of discovery keeps its type.
THEOREM TypeCorrect == Spec => []TypeOK
  BY Invariance, PTL DEF IInv

\* A stored or held validator is its card's own.
THEOREM ValidatorCorrect == Spec => []ValidatorMatchesCard
  <1>1. IInv => ValidatorMatchesCard
    BY DEF IInv, CallInv, EntryInv, ValidatorMatchesCard
  <1> QED
    BY <1>1, Invariance, PTL

\* As long as the clients that share a cache have one trust store, or none has any, no call
\* returns a signed card its own trust store does not verify, however calls overlap and
\* whether the card is fetched, revalidated or fresh (discoverAgentCard).
THEOREM VerificationCorrect ==
  ASSUME \A p, q \in Calls : Trusted[p] = Trusted[q]
  PROVE  Spec => []SignedCardsAreVerified
  <1>1. IInv => SignedCardsAreVerified
    <2> SUFFICES ASSUME IInv, NEW p \in Calls, outcome[p].card \in Signed
                 PROVE  outcome[p].card \in Trusted[p]
      BY DEF SignedCardsAreVerified
    <2>1. PICK q \in Calls : outcome[p].card \in Trusted[q]
      BY DEF IInv, CallInv, SomeStoreVerifies
    <2> QED
      BY <2>1
  <1> QED
    BY <1>1, Invariance, PTL

\* An entry expires at most MaxAge + Timeout after its card was replaced.
THEOREM ExpiryCorrect == Spec => []EntryExpiresInTime
  <1>1. IInv => EntryExpiresInTime
    BY DEF IInv, EntryInv, EntryExpiresInTime
  <1> QED
    BY <1>1, Invariance, PTL
-----------------------------------------------------------------------------
(***************************************************************************)
(* Discovery implements CardService.                                       *)
(***************************************************************************)

LEMMA StatusBusy ==
  ASSUME NEW p \in Calls, pc[p] \in Busy
  PROVE  StatusOf(p) = "busy"
  BY DEF StatusOf, Busy

\* What a step of call p does to the abstract call, in terms of its own variables.
LEMMA ReturnMaps ==
  ASSUME IInv, NEW p \in Calls, pc[p] \in Busy,
         NEW result \in Outcome, result.kind # "failed", Finish(p, result),
         result.card \in 1..latest,
         calledAt[p] <= lastCurrent[result.card] + (MaxAge + Timeout)
  PROVE  Service!Return(p)
  <1>1. StatusOf(p) = "busy" /\ CallStatus[p] = "busy"
    BY StatusBusy DEF CallStatus
  <1>2. CallStatus' = [CallStatus EXCEPT ![p] = "returned"]
    BY DEF CallStatus, StatusOf, Finish, IInv, TypeOK
  <1>3. ReturnedCard' = [ReturnedCard EXCEPT ![p] = result.card]
    BY DEF ReturnedCard, Finish, IInv, TypeOK
  <1> QED
    BY <1>1, <1>2, <1>3 DEF Service!Return, Finish, origin

LEMMA FailMaps ==
  ASSUME IInv, NEW p \in Calls, pc[p] \in Busy, Finish(p, Failed)
  PROVE  Service!Fail(p)
  <1>1. CallStatus[p] = "busy"
    BY StatusBusy DEF CallStatus
  <1>2. CallStatus' = [CallStatus EXCEPT ![p] = "failed"]
    BY DEF CallStatus, StatusOf, Finish, IInv, TypeOK, Failed, NoOutcome
  <1>3. ReturnedCard' = ReturnedCard
    BY DEF ReturnedCard, Finish, IInv, TypeOK, CallInv, Failed, NoOutcome
  <1> QED
    BY <1>1, <1>2, <1>3 DEF Service!Fail, Finish, origin

LEMMA StepMaps ==
  ASSUME IInv, NEW p \in Calls, Step(p)
  PROVE  [Service!Next]_(Service!serviceVars)
  <1> USE DiscoveryAssumption
  <1>1. CASE Lookup(p)
    <2>1. CallStatus[p] # "busy"
      BY <1>1 DEF Lookup, CallStatus, StatusOf
    <2>2. CallStatus' = [CallStatus EXCEPT ![p] = "busy"]
      BY <1>1 DEF Lookup, CallStatus, StatusOf, IInv, TypeOK
    <2>3. ReturnedCard' = [ReturnedCard EXCEPT ![p] = 0]
      BY <1>1 DEF Lookup, ReturnedCard, NoOutcome, IInv, TypeOK
    <2>4. Service!Call(p)
      BY <1>1, <2>1, <2>2, <2>3 DEF Service!Call, Lookup, origin
    <2> QED
      BY <2>4 DEF Service!Next
  <1>2. CASE SendRequest(p) \/ Answer(p)
    <2>1. CallStatus' = CallStatus
      BY <1>2 DEF SendRequest, Answer, CallStatus, StatusOf, IInv, TypeOK
    <2>2. ReturnedCard' = ReturnedCard
      BY <1>2 DEF SendRequest, Answer, ReturnedCard
    <2> QED
      BY <1>2, <2>1, <2>2 DEF SendRequest, Answer, origin, Service!serviceVars
  <1>3. CASE ServeFresh(p)
    <2>1. cached[p] \in Entry /\ EntryInv(cached[p]) /\ clock < cached[p].expiresAt
      BY <1>3 DEF ServeFresh, IsFresh, IInv, TypeOK, CallInv, Entry
    <2>2. /\ Returned("fresh", cached[p]) \in Outcome
          /\ Returned("fresh", cached[p]).card = cached[p].card
          /\ Returned("fresh", cached[p]).kind = "fresh"
      BY <2>1, ReturnedType
    <2>3. cached[p].card \in 1..latest
      BY <2>1 DEF EntryInv, Entry, Versions, IInv, TypeOK
    <2>4. calledAt[p] <= lastCurrent[cached[p].card] + (MaxAge + Timeout)
      <3>1. calledAt[p] <= clock /\ calledAt[p] \in Nat /\ clock \in Nat
        BY DEF IInv, TypeOK, CallInv
      <3>2. cached[p].expiresAt \in Nat /\ lastCurrent[cached[p].card] \in Nat
        BY <2>1 DEF Entry, IInv, TypeOK
      <3>3. cached[p].expiresAt <= lastCurrent[cached[p].card] + MaxAge + Timeout
        BY <2>1 DEF EntryInv
      <3> QED
        BY <2>1, <3>1, <3>2, <3>3
    <2>5. Service!Return(p)
      BY <1>3, <2>2, <2>3, <2>4, ReturnMaps DEF ServeFresh, Busy
    <2> QED
      BY <2>5 DEF Service!Next
  <1>4. CASE Abandon(p) \/ RejectCard(p)
    <2>1. Service!Fail(p)
      BY <1>4, FailMaps DEF Abandon, RejectCard, Reject, Busy
    <2> QED
      BY <2>1 DEF Service!Next
  <1>5. ASSUME pc[p] = "answered", NEW result \in Outcome, Finish(p, result),
               result.kind # "failed", result.card = reply[p].card
        PROVE  Service!Next
    <2>1. ReplyInv(p) /\ reply[p] \in Reply
      BY <1>5 DEF IInv, CallInv, ReplyInv
    <2>2. reply[p].card \in Versions /\ reply[p].headers.age \in 0..MaxAge
      BY <2>1 DEF Reply, CachingHeaders
    <2>3. result.card \in 1..latest
      BY <1>5, <2>1, <2>2 DEF ReplyInv, Versions, IInv, TypeOK
    <2>4. calledAt[p] <= lastCurrent[result.card] + (MaxAge + Timeout)
      <3>1. /\ calledAt[p] \in Nat /\ startedAt[p] \in Nat /\ lastCurrent[reply[p].card] \in Nat
            /\ calledAt[p] <= startedAt[p]
        BY <1>5, <2>2 DEF IInv, TypeOK, CallInv
      <3> QED
        BY <1>5, <2>1, <2>2, <3>1 DEF ReplyInv
    <2>5. Service!Return(p)
      BY <1>5, <2>3, <2>4, ReturnMaps DEF Busy
    <2> QED
      BY <2>5 DEF Service!Next
  <1>6. CASE Revalidate(p)
    <2>1. cached[p] \in Entry /\ cached[p].card = reply[p].card
      <3>1. CallInv(p) /\ pc[p] = "answered" /\ reply[p].status = "notModified"
        BY <1>6 DEF Revalidate, IInv
      <3>2. /\ cached[p] \in Entry /\ EntryInv(cached[p])
            /\ cached[p].etag = reply[p].card /\ reply[p] \in Reply
        BY <3>1 DEF CallInv, ReplyInv, IInv, TypeOK
      <3>3. reply[p].card # NoTag
        BY <3>2 DEF Reply, NoTag, Versions
      <3> QED
        BY <3>2, <3>3 DEF EntryInv
    <2>2. /\ Returned("revalidated", cached[p]) \in Outcome
          /\ Returned("revalidated", cached[p]).card = reply[p].card
          /\ Returned("revalidated", cached[p]).kind # "failed"
      BY <2>1, ReturnedType
    <2> QED
      BY <1>5, <1>6, <2>2 DEF Revalidate
  <1>7. CASE StoreCard(p)
    <2> DEFINE e == FreshEntry(reply[p], startedAt[p], Trust(reply[p].card))
               kind == IF cached[p] = NoEntry THEN "miss" ELSE "refreshed"
    <2>1. e \in Entry /\ e.card = reply[p].card
      BY <1>7, FreshEntryType, TrustType DEF StoreCard, IInv, TypeOK, CallInv, ReplyInv, FreshEntry
    <2>2. /\ Returned(kind, e) \in Outcome
          /\ Returned(kind, e).card = reply[p].card
          /\ Returned(kind, e).kind # "failed"
      BY <2>1, ReturnedType
    <2>3. pc[p] = "answered" /\ Finish(p, Returned(kind, e))
      BY <1>7 DEF StoreCard
    <2> HIDE DEF e, kind
    <2> QED
      BY <1>5, <2>2, <2>3
  <1> QED
    BY <1>1, <1>2, <1>3, <1>4, <1>6, <1>7 DEF Step

\* No call returns a card the agent had replaced more than MaxAge + Timeout before the
\* call was made, however calls overlap: discovery implements CardService.
THEOREM Implementation == Spec => ImplementsCardService
  <1>1. Init => Service!Init
    BY DEF Init, Service!Init, CallStatus, StatusOf, ReturnedCard, NoOutcome, Versions,
           Service!Versions
  <1>2. IInv /\ [Next]_vars => [Service!Next]_(Service!serviceVars)
    <2> SUFFICES ASSUME IInv, [Next]_vars PROVE [Service!Next]_(Service!serviceVars)
      OBVIOUS
    <2>1. CASE Tick
      BY <2>1 DEF Tick, call, Service!Next, Service!Tick, CallStatus, StatusOf, ReturnedCard
    <2>2. CASE Publish
      BY <2>2 DEF Publish, call, Service!Next, Service!Publish, CallStatus, StatusOf, ReturnedCard
    <2>3. CASE UNCHANGED vars
      BY <2>3 DEF vars, Service!serviceVars, CallStatus, StatusOf, ReturnedCard
    <2> QED
      BY <2>1, <2>2, <2>3, StepMaps DEF Next
  <1> QED
    BY <1>1, <1>2, Invariance, PTL DEF Spec, Service!Spec, ImplementsCardService
=============================================================================
