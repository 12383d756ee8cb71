------------------------- MODULE TokenCache_proofs -------------------------
(***************************************************************************)
(* Proofs about TokenCache, for any calls, grants, lives, skew and delay.  *)
(*                                                                         *)
(* What a call is handed from the cache is as good as the entry it is read *)
(* from, so the invariant speaks of every entry kept.                      *)
(***************************************************************************)
EXTENDS TokenCache, TLAPS

\* An entry of a token with a stated life expires at most MaxDelay after the token.
EntriesExpire ==
  \A g \in Grants :
    cache[g] # NoToken /\ cache[g].token.life # Unstated
      => cache[g].expiresAt <= cache[g].token.issuedAt + cache[g].token.life + MaxDelay

\* The process-wide cache holds tokens of the grant they are kept under, of stated life.
EntriesFit ==
  kind = "process" =>
    \A g \in Grants :
      cache[g] # NoToken => cache[g].token.grant = g /\ cache[g].token.life # Unstated

\* A token on its way is the answer to the request of the call it goes to.
TokensAnswerCalls ==
  \A p \in Calls :
    /\ pc[p] = "travelling" <=> received[p] # NoToken
    /\ received[p] # NoToken => received[p].grant = grant[p] /\ received[p].call = number[p]
    /\ number[p] <= made

IInv ==
  /\ TypeOK
  /\ EntriesExpire
  /\ EntriesFit
  /\ TokensAnswerCalls
  /\ ProcessTokensFitTheGrant
  /\ UnstatedTokensAreNotShared
----------------------------------------------------------------------------
LEMMA KeyType ==
  ASSUME NEW g \in Grants
  PROVE  Key(g) \in Grants /\ (kind = "process" => Key(g) = g)
  BY DEF Key, SchemeKey

LEMMA TokenNumbers ==
  ASSUME NEW t \in Token
  PROVE  t.life \in Nat /\ t.issuedAt \in Nat
<1>1. t.life \in Lives \cup {Unstated} /\ t.issuedAt \in Nat
  BY DEF Token
<1>2. Lives \subseteq Nat /\ Unstated \in Nat
  BY TokenAssumption DEF Unstated
<1> QED
  BY <1>1, <1>2

\* What is kept of a token that has arrived in time.
LEMMA KeptToken ==
  ASSUME kind \in Caches, clock \in Nat, NEW t \in Token, clock <= t.issuedAt + MaxDelay
  PROVE  /\ Kept(t) \in CachedToken \cup {NoToken}
         /\ Kept(t) # NoToken =>
              /\ Kept(t).token = t
              /\ t.life # Unstated => Kept(t).expiresAt <= t.issuedAt + t.life + MaxDelay
              /\ kind = "process" => t.life # Unstated
<1> USE TokenAssumption, NoTokenAssumption DEF Unstated
<1>1. t.life \in Nat /\ t.issuedAt \in Nat
  BY TokenNumbers
<1>2. ASSUME NEW life \in Nat \ {0}
      PROVE  /\ Stored(t, life) \in CachedToken
             /\ Stored(t, life).token = t
             /\ Stored(t, life).expiresAt = clock + life
  BY <1>2 DEF Stored, CachedToken
<1>3. CASE kind = "provider"
  <2>1. AssumedLife(t) \in Nat \ {0} /\ (t.life # Unstated => AssumedLife(t) = t.life)
    BY <1>1 DEF AssumedLife
  <2>2. Kept(t) = Stored(t, AssumedLife(t))
    BY <1>3 DEF Kept
  <2> QED
    BY <1>1, <1>2, <1>3, <2>1, <2>2
<1>4. CASE kind = "process" /\ t.life > Skew
  <2>1. Kept(t) = Stored(t, t.life) /\ t.life \in Nat \ {0}
    BY <1>1, <1>4 DEF Kept
  <2> QED
    BY <1>1, <1>2, <2>1
<1>5. CASE kind = "process" /\ t.life <= Skew
  <2>1. Kept(t) = NoToken
    BY <1>1, <1>5 DEF Kept
  <2> QED
    BY <2>1
<1> QED
  BY <1>1, <1>3, <1>4, <1>5 DEF Caches
----------------------------------------------------------------------------
(***************************************************************************)
(* The steps.                                                              *)
(***************************************************************************)

LEMMA EnvironmentStep ==
  ASSUME IInv, Tick \/ Clear \/ UNCHANGED vars
  PROVE  IInv'
<1> USE DEF IInv, TypeOK, EntriesExpire, EntriesFit, TokensAnswerCalls,
        ProcessTokensFitTheGrant, UnstatedTokensAreNotShared
<1>1. CASE Tick
  BY <1>1 DEF Tick
<1>2. CASE Clear
  BY <1>2 DEF Clear
<1>3. CASE UNCHANGED vars
  BY <1>3 DEF vars
<1> QED
  BY <1>1, <1>2, <1>3

LEMMA ServeCachedStep ==
  ASSUME IInv, NEW p \in Calls, NEW g \in Grants, ServeCached(p, g)
  PROVE  IInv'
<1> USE DEF IInv, TypeOK
<1> DEFINE e == cache[Key(g)]
<1>1. Key(g) \in Grants /\ (kind = "process" => Key(g) = g)
  BY KeyType
<1>2. e \in CachedToken /\ e.token \in Token
  BY <1>1 DEF ServeCached, Fresh, CachedToken
<1>3. UNCHANGED <<kind, clock, cache, received>> /\ pc[p] \in {"idle", "done"} /\ made' = made + 1
  BY DEF ServeCached, Begin
<1>4. TypeOK'
  BY <1>2, <1>3 DEF ServeCached, Begin
<1>5. (EntriesExpire /\ EntriesFit)'
  BY <1>3 DEF EntriesExpire, EntriesFit
<1>6. TokensAnswerCalls'
  BY <1>3 DEF TokensAnswerCalls, ServeCached, Begin
<1>7. result'[p] = e.token /\ grant'[p] = g
  BY DEF ServeCached, Begin
<1>8. kind = "process" => e.token.grant = g /\ e.token.life # Unstated
  BY <1>1, <1>2, NoTokenAssumption DEF EntriesFit
<1>9. (ProcessTokensFitTheGrant /\ UnstatedTokensAreNotShared)'
  BY <1>3, <1>7, <1>8 DEF ProcessTokensFitTheGrant, UnstatedTokensAreNotShared, ServeCached, Begin
<1> QED
  BY <1>4, <1>5, <1>6, <1>9

LEMMA RequestStep ==
  ASSUME IInv, NEW p \in Calls, NEW g \in Grants, RequestToken(p, g)
  PROVE  IInv'
<1> USE DEF IInv, TypeOK
<1>1. UNCHANGED <<kind, clock, cache, received>> /\ pc[p] \in {"idle", "done"} /\ made' = made + 1
  BY DEF RequestToken, Begin
<1>2. TypeOK'
  BY <1>1 DEF RequestToken, Begin
<1>3. (EntriesExpire /\ EntriesFit)'
  BY <1>1 DEF EntriesExpire, EntriesFit
<1>4. TokensAnswerCalls'
  BY <1>1 DEF TokensAnswerCalls, RequestToken, Begin
<1>5. (ProcessTokensFitTheGrant /\ UnstatedTokensAreNotShared)'
  BY <1>1 DEF ProcessTokensFitTheGrant, UnstatedTokensAreNotShared, RequestToken, Begin
<1> QED
  BY <1>2, <1>3, <1>4, <1>5

LEMMA IssueStep ==
  ASSUME IInv, NEW p \in Calls, Issue(p)
  PROVE  IInv'
<1> USE DEF IInv, TypeOK
<1> PICK life \in Lives \cup {Unstated} :
      received' = [received EXCEPT ![p] =
        [grant |-> grant[p], life |-> life, issuedAt |-> clock, call |-> number[p]]]
  BY DEF Issue
<1> DEFINE t == [grant |-> grant[p], life |-> life, issuedAt |-> clock, call |-> number[p]]
<1>1. t \in Token /\ t # NoToken
  BY NoTokenAssumption DEF Token
<1>2. TypeOK'
  BY <1>1 DEF Issue
<1>3. (EntriesExpire /\ EntriesFit)'
  BY DEF EntriesExpire, EntriesFit, Issue
<1>4. TokensAnswerCalls'
  BY <1>1 DEF TokensAnswerCalls, Issue
<1>5. (ProcessTokensFitTheGrant /\ UnstatedTokensAreNotShared)'
  BY DEF ProcessTokensFitTheGrant, UnstatedTokensAreNotShared, Issue
<1> QED
  BY <1>2, <1>3, <1>4, <1>5

LEMMA ReceiveStep ==
  ASSUME IInv, NEW p \in Calls, Receive(p)
  PROVE  IInv'
<1> USE DEF IInv, TypeOK
<1> DEFINE t == received[p]
           k == Key(grant[p])
<1>1. t \in Token /\ t.grant = grant[p] /\ t.call = number[p]
  BY DEF TokensAnswerCalls, Receive
<1>2. k \in Grants /\ (kind = "process" => k = grant[p])
  BY KeyType
<1>3. /\ Kept(t) \in CachedToken \cup {NoToken}
      /\ Kept(t) # NoToken =>
           /\ Kept(t).token = t
           /\ t.life # Unstated => Kept(t).expiresAt <= t.issuedAt + t.life + MaxDelay
           /\ kind = "process" => t.life # Unstated
  BY <1>1, KeptToken DEF Receive
<1>4. /\ cache' = [cache EXCEPT ![k] = Kept(t)]
      /\ UNCHANGED <<kind, clock, grant, shared, number, made>>
      /\ pc' = [pc EXCEPT ![p] = "done"]
      /\ result' = [result EXCEPT ![p] = t]
      /\ received' = [received EXCEPT ![p] = NoToken]
  BY DEF Receive, End
<1> HIDE DEF t, k
<1>5. TypeOK'
  BY <1>1, <1>2, <1>3, <1>4
<1>6. EntriesExpire'
  BY <1>2, <1>3, <1>4 DEF EntriesExpire
<1>7. EntriesFit'
  BY <1>1, <1>2, <1>3, <1>4 DEF EntriesFit
<1>8. TokensAnswerCalls'
  BY <1>4 DEF TokensAnswerCalls
<1>9. (ProcessTokensFitTheGrant /\ UnstatedTokensAreNotShared)'
  BY <1>1, <1>4 DEF ProcessTokensFitTheGrant, UnstatedTokensAreNotShared
<1> QED
  BY <1>5, <1>6, <1>7, <1>8, <1>9

LEMMA FailStep ==
  ASSUME IInv, NEW p \in Calls, Fail(p)
  PROVE  IInv'
<1> USE DEF IInv, TypeOK, Fail, End
<1>1. TypeOK'
  OBVIOUS
<1>2. (EntriesExpire /\ EntriesFit)'
  BY DEF EntriesExpire, EntriesFit
<1>3. TokensAnswerCalls'
  BY DEF TokensAnswerCalls
<1>4. (ProcessTokensFitTheGrant /\ UnstatedTokensAreNotShared)'
  BY DEF ProcessTokensFitTheGrant, UnstatedTokensAreNotShared
<1> QED
  BY <1>1, <1>2, <1>3, <1>4
----------------------------------------------------------------------------
LEMMA InitIInv ==
  ASSUME Init
  PROVE  IInv
<1> USE DEF Init
<1>1. TypeOK
  BY DEF TypeOK
<1>2. EntriesExpire /\ EntriesFit /\ TokensAnswerCalls
  BY DEF EntriesExpire, EntriesFit, TokensAnswerCalls
<1>3. ProcessTokensFitTheGrant /\ UnstatedTokensAreNotShared
  BY DEF ProcessTokensFitTheGrant, UnstatedTokensAreNotShared
<1> QED
  BY <1>1, <1>2, <1>3 DEF IInv

LEMMA NextIInv ==
  ASSUME IInv, [Next]_vars
  PROVE  IInv'
<1>1. CASE Tick \/ Clear \/ UNCHANGED vars
  BY <1>1, EnvironmentStep
<1>2. ASSUME NEW p \in Calls, Step(p)
      PROVE  IInv'
  BY <1>2, ServeCachedStep, RequestStep, IssueStep, ReceiveStep, FailStep DEF Step
<1> QED
  BY <1>1, <1>2 DEF Next

\* The invariant the properties of the caches follow from.
THEOREM Invariance == Spec => []IInv
<1>1. Init => IInv
  BY InitIInv
<1>2. IInv /\ [Next]_vars => IInv'
  BY NextIInv
<1> QED
  BY <1>1, <1>2, PTL DEF Spec

\* Every variable keeps its type, for any number of calls and any lives.
THEOREM TypeCorrect == Spec => []TypeOK
<1>1. IInv => TypeOK
  BY DEF IInv
<1> QED
  BY <1>1, Invariance, PTL

\* No call is given a token of another grant by the process-wide cache.
THEOREM GrantCorrect == Spec => []ProcessTokensFitTheGrant
<1>1. IInv => ProcessTokensFitTheGrant
  BY DEF IInv
<1> QED
  BY <1>1, Invariance, PTL

\* A token of unknown life serves one call of the process-wide cache.
THEOREM UnstatedCorrect == Spec => []UnstatedTokensAreNotShared
<1>1. IInv => UnstatedTokensAreNotShared
  BY DEF IInv
<1> QED
  BY <1>1, Invariance, PTL

\* What a call that is answered in this step is handed from the cache.
LEMMA SharedStep ==
  ASSUME IInv, Next, NEW p \in Calls,
         made' # made, number'[p] = made', shared'[p], result'[p].life # Unstated
  PROVE  clock + Skew < result'[p].issuedAt + result'[p].life + MaxDelay
<1> USE DEF IInv, TypeOK
<1>1. PICK q \in Calls, g \in Grants : ServeCached(q, g) \/ RequestToken(q, g)
  BY DEF Next, Tick, Clear, Step, Issue, Receive, Fail, End
<1>2. q = p
  BY <1>1 DEF ServeCached, RequestToken, Begin, TokensAnswerCalls
<1>3. ServeCached(p, g)
  BY <1>1, <1>2 DEF RequestToken
<1> DEFINE e == cache[Key(g)]
<1>4. Key(g) \in Grants
  BY KeyType
<1>5. e \in CachedToken /\ e # NoToken /\ e.expiresAt > clock + Skew
  BY <1>3, <1>4 DEF ServeCached, Fresh
<1>6. result'[p] = e.token
  BY <1>3 DEF ServeCached
<1>7. e.expiresAt <= e.token.issuedAt + e.token.life + MaxDelay
  BY <1>4, <1>5, <1>6 DEF EntriesExpire
<1>8. e.expiresAt \in Nat /\ e.token.issuedAt \in Nat /\ e.token.life \in Nat
  BY <1>5, TokenNumbers DEF CachedToken
<1> QED
  BY <1>5, <1>6, <1>7, <1>8, TokenAssumption

\* Tokens are handed out again only while valid, but for what the journey took.
THEOREM SharedCorrect == Spec => SharedTokensAreValid
<1>1. IInv /\ [Next]_vars =>
        [\A p \in Calls :
           (made' # made /\ number'[p] = made' /\ shared'[p] /\ result'[p].life # Unstated)
             => clock + Skew < result'[p].issuedAt + result'[p].life + MaxDelay]_vars
  BY SharedStep
<1> QED
  BY <1>1, Invariance, PTL DEF Spec, SharedTokensAreValid
=============================================================================
