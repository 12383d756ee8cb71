----------------------------- MODULE TokenCache -----------------------------
(***************************************************************************)
(* The two OAuth2 client-credential token caches: the workbench's          *)
(* getM2mOAuthToken (src/lib/oauth.ts), which keeps tokens of the process  *)
(* under everything their request names, and the client's                  *)
(* StaticCredentialProvider (packages/client/src/security.ts), which keeps *)
(* tokens of one provider under the name of the security scheme alone.     *)
(*                                                                         *)
(* Calls overlap: each looks the cache up, and unless it holds a token     *)
(* that is still fresh asks the token endpoint, which may take up to       *)
(* MaxDelay to be heard, and then stores the token it got.  The endpoint   *)
(* counts the life of a token from when it issues it, the cache from when  *)
(* the token arrives; both refuse a token in its last Skew (30 seconds).   *)
(*                                                                         *)
(* A grant is what a token request names beside the scheme: endpoint,      *)
(* client, scope, audience.                                                *)
(***************************************************************************)
EXTENDS Integers

CONSTANTS
  Calls,     \* slots from which a token is asked for, one call at a time
  Grants,    \* the grants calls ask for
  Lives,     \* the values of expires_in the endpoint states
  Skew,      \* TOKEN_EXPIRY_SKEW_MS, and the 30 000 of #oauthToken
  Default,   \* the life security.ts assumes when the endpoint states none
  MaxDelay,  \* how long after a token is issued its arrival may be
  MaxTime,   \* bound on the clock
  MaxCalls,  \* bound on the number of calls made
  NoToken    \* no token

\* oauth.ts ("process") and security.ts ("provider").
Caches == {"process", "provider"}

\* expires_in is missing from the answer, or is not positive.
Unstated == 0

ASSUME TokenAssumption ==
  /\ Lives \subseteq Nat \ {0}
  /\ Skew \in Nat
  /\ Default \in Nat \ {0}
  /\ MaxDelay \in Nat
  /\ MaxTime \in Nat
  /\ MaxCalls \in Nat

Token == [grant: Grants, life: Lives \cup {Unstated}, issuedAt: Nat, call: Nat]

CachedToken == [token: Token, expiresAt: Nat \ {0}]

ASSUME NoTokenAssumption == NoToken \notin Token /\ NoToken \notin CachedToken

VARIABLES
  kind,      \* which of the two caches this is; never changes
  clock,     \* wall-clock time
  cache,     \* what is kept under each key
  pc,        \* where the call of each slot stands
  grant,     \* the grant the call asks for
  received,  \* the token on its way to the call
  result,    \* the token the call ended with
  shared,    \* whether that came from the cache
  number,    \* history: the number of the call
  made       \* history: how many calls were made

vars == <<kind, clock, cache, pc, grant, received, result, shared, number, made>>

Init ==
  /\ kind \in Caches
  /\ clock = 0
  /\ cache = [g \in Grants |-> NoToken]
  /\ pc = [p \in Calls |-> "idle"]
  /\ grant \in [Calls -> Grants]
  /\ received = [p \in Calls |-> NoToken]
  /\ result = [p \in Calls |-> NoToken]
  /\ shared = [p \in Calls |-> FALSE]
  /\ number = [p \in Calls |-> 0]
  /\ made = 0
----------------------------------------------------------------------------
Tick ==
  /\ clock < MaxTime
  /\ clock' = clock + 1
  /\ UNCHANGED <<kind, cache, pc, grant, received, result, shared, number, made>>

\* A cache key without what the request names.
SchemeKey(g) == CHOOSE k \in Grants : TRUE

\* tokenCacheKey names the whole grant, #tokens is keyed by the scheme.
Key(g) == IF kind = "process" THEN g ELSE SchemeKey(g)

FreshToTheEnd(e) == e # NoToken /\ e.expiresAt > clock

Fresh(e) == e # NoToken /\ e.expiresAt > clock + Skew

\* A call begins; another one in the same slot is over.
Begin(p, g) ==
  /\ pc[p] \in {"idle", "done"}
  /\ made < MaxCalls
  /\ made' = made + 1
  /\ number' = [number EXCEPT ![p] = made + 1]
  /\ grant' = [grant EXCEPT ![p] = g]
  /\ UNCHANGED <<kind, clock, cache, received>>

\* The cached token is fresh.
ServeCached(p, g) ==
  /\ Begin(p, g)
  /\ Fresh(cache[Key(g)])
  /\ pc' = [pc EXCEPT ![p] = "done"]
  /\ result' = [result EXCEPT ![p] = cache[Key(g)].token]
  /\ shared' = [shared EXCEPT ![p] = TRUE]

\* It is not, and a token is requested.
RequestToken(p, g) ==
  /\ Begin(p, g)
  /\ ~Fresh(cache[Key(g)])
  /\ pc' = [pc EXCEPT ![p] = "requesting"]
  /\ result' = [result EXCEPT ![p] = NoToken]
  /\ shared' = [shared EXCEPT ![p] = FALSE]

\* The endpoint issues a token.
Issue(p) ==
  /\ pc[p] = "requesting"
  /\ pc' = [pc EXCEPT ![p] = "travelling"]
  /\ \E life \in Lives \cup {Unstated} :
       received' = [received EXCEPT ![p] =
         [grant |-> grant[p], life |-> life, issuedAt |-> clock, call |-> number[p]]]
  /\ UNCHANGED <<kind, clock, cache, grant, result, shared, number, made>>

\* The life as it was stated, 0 when it was not.
StatedLife(t) == t.life

AssumedLife(t) == IF t.life = Unstated THEN Default ELSE t.life

Stored(t, life) == [token |-> t, expiresAt |-> clock + life]

\* What is kept of a token: oauth.ts keeps one whose stated life is longer than the
\* skew and drops what it had otherwise, security.ts keeps every token.
KeptUnderDefault(t) == Stored(t, AssumedLife(t))

Kept(t) ==
  CASE kind = "provider" -> Stored(t, AssumedLife(t))
    [] kind = "process" /\ t.life > Skew -> Stored(t, t.life)
    [] kind = "process" /\ t.life <= Skew -> NoToken

\* The call ends with a token, or without one.
End(p, token) ==
  /\ pc' = [pc EXCEPT ![p] = "done"]
  /\ result' = [result EXCEPT ![p] = token]
  /\ received' = [received EXCEPT ![p] = NoToken]
  /\ UNCHANGED <<kind, clock, grant, shared, number, made>>

\* The answer arrives and is kept, in whatever order answers arrive.
Receive(p) ==
  /\ pc[p] = "travelling"
  /\ clock <= received[p].issuedAt + MaxDelay
  /\ cache' = [cache EXCEPT ![Key(grant[p])] = Kept(received[p])]
  /\ End(p, received[p])

\* The endpoint refuses, answers without a token, or is not heard in time.
Fail(p) ==
  /\ pc[p] \in {"requesting", "travelling"}
  /\ End(p, NoToken)
  /\ UNCHANGED cache

\* clearM2mOAuthTokenCache.
Clear ==
  /\ kind = "process"
  /\ cache' = [g \in Grants |-> NoToken]
  /\ UNCHANGED <<kind, clock, pc, grant, received, result, shared, number, made>>
----------------------------------------------------------------------------
Step(p) ==
  \/ \E g \in Grants : ServeCached(p, g) \/ RequestToken(p, g)
  \/ Issue(p)
  \/ Receive(p)
  \/ Fail(p)

Next == Tick \/ Clear \/ \E p \in Calls : Step(p)

Spec == Init /\ [][Next]_vars
----------------------------------------------------------------------------
(***************************************************************************)
(* Properties.                                                             *)
(***************************************************************************)

\* Every variable keeps its type.
TypeOK ==
  /\ kind \in Caches
  /\ clock \in Nat
  /\ cache \in [Grants -> CachedToken \cup {NoToken}]
  /\ pc \in [Calls -> {"idle", "requesting", "travelling", "done"}]
  /\ grant \in [Calls -> Grants]
  /\ received \in [Calls -> Token \cup {NoToken}]
  /\ result \in [Calls -> Token \cup {NoToken}]
  /\ shared \in [Calls -> BOOLEAN]
  /\ number \in [Calls -> Nat]
  /\ made \in Nat

\* A token whose life the endpoint stated is handed out again only while it is
\* valid, by the endpoint's count, for Skew less the time it travelled: the skew pays
\* for a journey of up to 30 seconds, whatever order tokens arrived and were kept in.
SharedTokensAreValid ==
  [][\A p \in Calls :
       (made' # made /\ number'[p] = made' /\ shared'[p] /\ result'[p].life # Unstated)
         => clock + Skew < result'[p].issuedAt + result'[p].life + MaxDelay]_vars

\* The workbench's process-wide cache never gives a call a token of another grant:
\* of another caller, endpoint, scope or audience.
ProcessTokensFitTheGrant ==
  kind = "process" =>
    \A p \in Calls : pc[p] = "done" /\ result[p] # NoToken => result[p].grant = grant[p]

\* In the process-wide cache a token of unknown life serves the call that got it only.
UnstatedTokensAreNotShared ==
  kind = "process" =>
    \A p \in Calls :
      pc[p] = "done" /\ result[p] # NoToken /\ result[p].life = Unstated
        => result[p].call = number[p]
=============================================================================
