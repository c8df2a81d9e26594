------------------------- MODULE AuthenticatorProofs -------------------------
(***************************************************************************)
(* Proofs about the authentication of bearer tokens, for any number of     *)
(* logins and keys, any rotation of the keys and any delay of the issuer.  *)
(***************************************************************************)
EXTENDS Authenticator, TLAPS

AuthSpec == AuthInit /\ [][AuthNext]_authVars

-----------------------------------------------------------------------------
\* The inductive invariant

Fetching == {"discover", "load", "response"}

\* One login fetches, and it holds the lock; a response is on its way to it only.
OneFetch ==
    /\ \A c \in Login : authStep[c] \in Fetching <=> authLock = c
    /\ (\A c \in Login : authStep[c] # "response") => payload = {}

\* Every key was last seen when it was published last: now, if it still is.
LastSeenOK ==
    /\ \A k \in Kid : lastSeen[k] <= authClock
    /\ \A k \in published : lastSeen[k] = authClock

\* A response holds keys that were published when it was sent, not long ago; and
\* the key of the login that waits for it, if that key was never withdrawn.
ResponseOK ==
    \A c \in Login : authStep[c] = "response" =>
        /\ sentAt <= authClock /\ authClock <= sentAt + MaxDelay
        /\ \A k \in payload : sentAt <= lastSeen[k]
        /\ c \notin rotated => token[c].kid \in payload

\* The cache is not fresh for longer than its keys may be used.
CacheOK == \A k \in keys : expiresAt <= lastSeen[k] + CacheTime + MaxDelay

\* A login that has begun and whose key was never withdrawn finds it published.
NotRotated ==
    \A c \in Login : authStep[c] # "new" /\ c \notin rotated => token[c].kid \in published

IntrospectOK == \A c \in Login : authStep[c] = "introspect" => settings.introspection

AuthInv == /\ AuthTypeOK
           /\ OneFetch /\ LastSeenOK /\ ResponseOK /\ CacheOK /\ NotRotated /\ IntrospectOK

-----------------------------------------------------------------------------
\* What the steps of a login share

AuthSteps == {"new", "lock", "discover", "load", "response", "introspect", "done"}
Verdicts == {"none", "ok", "anonymous", "401", "403"}

\* The login c takes a step, the others and the issuer do not.
Steps(c) ==
    /\ authStep' = [authStep EXCEPT ![c] = authStep'[c]] /\ authStep'[c] \in AuthSteps \ {"new"}
    /\ verdict' = [verdict EXCEPT ![c] = verdict'[c]] /\ verdict'[c] \in Verdicts
    /\ UNCHANGED <<published, lastSeen, authClock, settings, token>>

\* The ends of a login: a verdict, or the introspection, if there is one.
Ends(c) ==
    \/ authStep'[c] = "done"
    \/ authStep'[c] = "introspect" /\ settings.introspection

\* Every way a login ends leaves the others alone, and refuses a valid token only
\* where a step says so.
LEMMA Outcomes ==
  ASSUME AuthTypeOK, NEW c \in Login
  PROVE  /\ \A v \in Verdicts : Verdict(c, v) =>
                /\ authStep' = [authStep EXCEPT ![c] = authStep'[c]] /\ authStep'[c] = "done"
                /\ verdict' = [verdict EXCEPT ![c] = verdict'[c]] /\ verdict'[c] = v
         /\ \A step \in AuthSteps : AuthGo(c, step) =>
                /\ authStep' = [authStep EXCEPT ![c] = authStep'[c]] /\ authStep'[c] = step
                /\ verdict' = [verdict EXCEPT ![c] = verdict'[c]] /\ verdict'[c] = verdict[c]
<1>1. authStep \in [Login -> AuthSteps] /\ verdict \in [Login -> Verdicts]
  BY DEF AuthTypeOK, AuthSteps, Verdicts
<1> QED
  BY <1>1 DEF Verdict, AuthGo

LEMMA Refusals ==
  ASSUME AuthTypeOK, NEW c \in Login, Unauthenticated(c)
  PROVE  /\ authStep' = [authStep EXCEPT ![c] = authStep'[c]] /\ authStep'[c] \in AuthSteps \ {"new"}
         /\ verdict' = [verdict EXCEPT ![c] = verdict'[c]] /\ verdict'[c] \in {"401", verdict[c]}
         /\ Ends(c)
<1>1. CASE settings.introspection
  BY <1>1, Outcomes DEF Unauthenticated, Ends, AuthSteps, Verdicts
<1>2. CASE ~settings.introspection
  BY <1>2, Outcomes DEF Unauthenticated, Ends, AuthSteps, Verdicts
<1> QED
  BY <1>1, <1>2

LEMMA Principals ==
  ASSUME AuthTypeOK, NEW c \in Login, Principal(c)
  PROVE  /\ authStep' = [authStep EXCEPT ![c] = authStep'[c]] /\ authStep'[c] = "done"
         /\ verdict' = [verdict EXCEPT ![c] = verdict'[c]] /\ verdict'[c] \in {"ok", "403"}
<1>1. PICK v \in {"ok", "403"} : Verdict(c, v)
  BY DEF Principal, Require
<1> QED
  BY <1>1, Outcomes DEF Verdicts

\* With its key, a login whose claims are valid is not refused as unknown.
LEMMA Decoded ==
  ASSUME AuthTypeOK, NEW c \in Login, Decode(c)
  PROVE  /\ authStep' = [authStep EXCEPT ![c] = authStep'[c]] /\ authStep'[c] \in AuthSteps \ {"new"}
         /\ verdict' = [verdict EXCEPT ![c] = verdict'[c]]
         /\ verdict'[c] \in {"ok", "403", "401", verdict[c]}
         /\ Ends(c)
         /\ token[c].claims = "valid" => verdict'[c] \in {"ok", "403"}
<1>1. verdict[c] \in Verdicts
  BY DEF AuthTypeOK, Verdicts
<1>2. CASE Principal(c)
  BY <1>2, Principals DEF Ends, AuthSteps, Verdicts
<1>3. CASE token[c].claims = "invalid" /\ Unauthenticated(c)
  BY <1>1, <1>3, Refusals DEF Verdicts
<1> QED
  BY <1>2, <1>3 DEF Decode
-----------------------------------------------------------------------------
\* The invariant

LEMMA AuthStarts == AuthInit => AuthInv
<1> SUFFICES ASSUME AuthInit PROVE AuthInv
  OBVIOUS
<1>1. AuthTypeOK
  BY AuthAssumption, LoginAssumption DEF AuthInit, AuthTypeOK
<1>2. OneFetch /\ LastSeenOK /\ ResponseOK /\ CacheOK /\ NotRotated /\ IntrospectOK
  BY AuthAssumption DEF AuthInit, OneFetch, Fetching, LastSeenOK, ResponseOK, CacheOK, NotRotated,
     IntrospectOK
<1> QED
  BY <1>1, <1>2 DEF AuthInv

\* How each step moves its login.
LEMMA LoginSteps ==
  ASSUME AuthTypeOK, NEW c \in Login,
         \/ Authenticate(c) \/ LockKeys(c) \/ Discover(c) \/ IssuerAnswers(c)
         \/ StoreKeys(c) \/ RefreshFails(c) \/ Introspect(c)
  PROVE  /\ Steps(c)
         /\ authStep'[c] = "introspect" => settings.introspection
<1>0. verdict[c] \in Verdicts
  BY DEF AuthTypeOK, Verdicts
<1>1. CASE Authenticate(c)
  <2>1. CASE \/ PassesUnseen(c) /\ Verdict(c, "anonymous")
             \/ ~PassesUnseen(c) /\ Verdict(c, "401")
    BY <1>1, <2>1, Outcomes DEF Steps, Authenticate, AuthSteps, Verdicts
  <2>2. CASE Unauthenticated(c)
    BY <1>0, <1>1, <2>2, Refusals DEF Steps, Ends, Authenticate, Verdicts
  <2>3. CASE Decode(c)
    BY <1>0, <1>1, <2>3, Decoded DEF Steps, Ends, Authenticate, Verdicts
  <2>4. CASE AuthGo(c, "lock")
    BY <1>0, <1>1, <2>4, Outcomes DEF Steps, Authenticate, AuthSteps
  <2> QED
    BY <1>1, <2>1, <2>2, <2>3, <2>4 DEF Authenticate
<1>2. CASE LockKeys(c)
  <2>1. CASE Unauthenticated(c)
    BY <1>0, <1>2, <2>1, Refusals DEF Steps, Ends, LockKeys, Verdicts
  <2>2. CASE Decode(c)
    BY <1>0, <1>2, <2>2, Decoded DEF Steps, Ends, LockKeys, Verdicts
  <2>3. CASE AuthGo(c, "discover") \/ AuthGo(c, "load")
    BY <1>0, <1>2, <2>3, Outcomes DEF Steps, LockKeys, AuthSteps
  <2> QED
    BY <1>2, <2>1, <2>2, <2>3 DEF LockKeys, KeyFrom
<1>3. CASE Discover(c) \/ IssuerAnswers(c)
  BY <1>0, <1>3, Outcomes DEF Steps, Discover, IssuerAnswers, AuthSteps
<1>4. CASE StoreKeys(c)
  <2>1. CASE Unauthenticated(c)
    BY <1>0, <1>4, <2>1, Refusals DEF Steps, Ends, StoreKeys, Verdicts
  <2>2. CASE Decode(c)
    BY <1>0, <1>4, <2>2, Decoded DEF Steps, Ends, StoreKeys, Verdicts
  <2> QED
    BY <1>4, <2>1, <2>2 DEF StoreKeys, KeyFrom
<1>5. CASE RefreshFails(c)
  BY <1>0, <1>5, Refusals DEF Steps, Ends, RefreshFails, Verdicts
<1>6. CASE Introspect(c)
  BY <1>0, <1>6, Outcomes, Principals DEF Steps, Introspect, AuthSteps, Verdicts
<1> QED
  BY <1>1, <1>2, <1>3, <1>4, <1>5, <1>6

\* Where each step takes its login.
LEMMA LoginPlaces ==
  ASSUME AuthTypeOK, NEW c \in Login
  PROVE  /\ Authenticate(c) => authStep'[c] \in {"done", "introspect", "lock"}
         /\ LockKeys(c) =>
                \/ authStep'[c] \in {"done", "introspect"} /\ UNCHANGED authLock
                \/ authStep'[c] \in {"discover", "load"} /\ authLock' = c
         /\ StoreKeys(c) \/ RefreshFails(c) \/ Introspect(c) =>
                authStep'[c] \in {"done", "introspect"}
<1>1. ASSUME Authenticate(c) PROVE authStep'[c] \in {"done", "introspect", "lock"}
  <2>1. CASE Verdict(c, "anonymous") \/ Verdict(c, "401") \/ AuthGo(c, "lock")
    BY <2>1, Outcomes DEF AuthSteps, Verdicts
  <2>2. CASE Unauthenticated(c) \/ Decode(c)
    BY <2>2, Refusals, Decoded DEF Ends
  <2> QED
    BY <1>1, <2>1, <2>2 DEF Authenticate
<1>2. ASSUME LockKeys(c)
      PROVE  \/ authStep'[c] \in {"done", "introspect"} /\ UNCHANGED authLock
             \/ authStep'[c] \in {"discover", "load"} /\ authLock' = c
  <2>1. CASE KeyFrom(c, keys) /\ UNCHANGED authLock
    BY <2>1, Refusals, Decoded DEF KeyFrom, Ends
  <2>2. CASE (AuthGo(c, "discover") \/ AuthGo(c, "load")) /\ authLock' = c
    BY <2>2, Outcomes DEF AuthSteps
  <2> QED
    BY <1>2, <2>1, <2>2 DEF LockKeys
<1>3. ASSUME StoreKeys(c) \/ RefreshFails(c) \/ Introspect(c)
      PROVE  authStep'[c] \in {"done", "introspect"}
  <2>1. CASE Unauthenticated(c) \/ Decode(c)
    BY <2>1, Refusals, Decoded DEF Ends
  <2>2. CASE Verdict(c, "401") \/ Principal(c)
    BY <2>2, Outcomes, Principals DEF Verdicts
  <2> QED
    BY <1>3, <2>1, <2>2 DEF StoreKeys, RefreshFails, Introspect, KeyFrom
<1> QED
  BY <1>1, <1>2, <1>3

LoginStep(c) == \/ Authenticate(c) \/ LockKeys(c) \/ Discover(c) \/ IssuerAnswers(c)
                \/ StoreKeys(c) \/ RefreshFails(c) \/ Introspect(c)

\* The lock is with the one login that fetches, and the response with it.
LEMMA FetchSteps ==
  ASSUME AuthInv, NEW c \in Login, LoginStep(c)
  PROVE  OneFetch'
<1>1. /\ authStep \in [Login -> AuthSteps] /\ NoLogin \notin Login /\ Steps(c)
      /\ \A d \in Login \ {c} : authStep'[d] = authStep[d]
  BY LoginSteps, AuthAssumption DEF AuthInv, AuthTypeOK, AuthSteps, LoginStep, Steps
<1>2. /\ \A d \in Login : authStep[d] \in Fetching <=> authLock = d
      /\ (\A d \in Login : authStep[d] # "response") => payload = {}
  BY DEF AuthInv, OneFetch
<1>3. CASE Authenticate(c) \/ Introspect(c)
  <2>1. /\ authStep[c] \in {"new", "introspect"} /\ UNCHANGED <<authLock, payload>>
        /\ authStep'[c] \in {"done", "introspect", "lock"}
    BY <1>3, LoginPlaces DEF AuthInv, Authenticate, Introspect
  <2> QED
    BY <1>1, <1>2, <2>1 DEF OneFetch, Fetching
<1>4. CASE LockKeys(c)
  <2>1. authStep[c] = "lock" /\ authLock = NoLogin /\ UNCHANGED payload
    BY <1>4 DEF LockKeys
  <2>2. \/ authStep'[c] \in {"done", "introspect"} /\ UNCHANGED authLock
        \/ authStep'[c] \in {"discover", "load"} /\ authLock' = c
    BY <1>4, LoginPlaces DEF AuthInv
  <2> QED
    BY <1>1, <1>2, <2>1, <2>2 DEF OneFetch, Fetching
<1>5. CASE Discover(c)
  <2>1. authStep[c] = "discover" /\ authStep'[c] = "load" /\ UNCHANGED <<authLock, payload>>
    BY <1>5, Outcomes DEF AuthInv, Discover, AuthSteps
  <2> QED
    BY <1>1, <1>2, <2>1 DEF OneFetch, Fetching
<1>6. CASE IssuerAnswers(c)
  <2>1. authStep[c] = "load" /\ authStep'[c] = "response" /\ UNCHANGED authLock
    BY <1>6, Outcomes DEF AuthInv, IssuerAnswers, AuthSteps
  <2> QED
    BY <1>1, <1>2, <2>1 DEF OneFetch, Fetching
<1>7. CASE StoreKeys(c) \/ RefreshFails(c)
  <2>1. /\ authStep[c] \in Fetching /\ authLock' = NoLogin /\ payload' = {}
        /\ authStep'[c] \in {"done", "introspect"}
    BY <1>7, LoginPlaces DEF AuthInv, StoreKeys, RefreshFails, Fetching
  <2> QED
    BY <1>1, <1>2, <2>1 DEF OneFetch, Fetching
<1> QED
  BY <1>3, <1>4, <1>5, <1>6, <1>7 DEF LoginStep

\* Only a login that takes its step changes; what it does keeps the rest.
LEMMA LoginKeeps ==
  ASSUME AuthInv, NEW c \in Login, LoginStep(c)
  PROVE  AuthInv'
<1>1. /\ authStep \in [Login -> AuthSteps] /\ verdict \in [Login -> Verdicts]
      /\ Steps(c) /\ (authStep'[c] = "introspect" => settings.introspection)
      /\ \A d \in Login \ {c} : authStep'[d] = authStep[d]
  BY LoginSteps DEF AuthInv, AuthTypeOK, AuthSteps, Verdicts, LoginStep, Steps
<1>2. /\ {CacheTime, MaxDelay, MaxAuthClock, authClock, expiresAt, sentAt} \subseteq Nat
      /\ lastSeen \in [Kid -> Nat]
  BY AuthAssumption DEF AuthInv, AuthTypeOK
<1>3. /\ {keys', payload'} \subseteq SUBSET Kid /\ sentAt' \in 0 .. MaxAuthClock
      /\ expiresAt' \in Nat /\ authLock' \in Login \cup {NoLogin}
      /\ rotated' \subseteq Login /\ loadFailed' \subseteq Login
  <2>1. CASE LockKeys(c)
    BY <2>1, LoginPlaces DEF AuthInv, AuthTypeOK, LockKeys
  <2>2. CASE StoreKeys(c)
    BY <1>2, <2>2 DEF AuthInv, AuthTypeOK, StoreKeys
  <2>3. CASE RefreshFails(c) \/ IssuerAnswers(c)
    BY <1>2, <2>3, AuthAssumption DEF AuthInv, AuthTypeOK, RefreshFails, IssuerAnswers
  <2>4. CASE Authenticate(c) \/ Discover(c) \/ Introspect(c)
    BY <2>4 DEF AuthInv, AuthTypeOK, Authenticate, Discover, Introspect
  <2> QED
    BY <2>1, <2>2, <2>3, <2>4 DEF LoginStep
<1>4. AuthTypeOK'
  <2>1. /\ authStep' \in [Login -> AuthSteps] /\ verdict' \in [Login -> Verdicts]
    BY <1>1 DEF Steps
  <2> QED
    BY <1>1, <1>3, <2>1 DEF AuthInv, AuthTypeOK, Steps, AuthSteps, Verdicts
<1>5. LastSeenOK'
  BY <1>1 DEF AuthInv, LastSeenOK, Steps
<1>6. NotRotated' /\ rotated \subseteq rotated'
  <2>1. /\ rotated \subseteq rotated'
        /\ authStep[c] # "new" \/ c \in rotated' \/ token[c].kid \in published
    BY DEF LoginStep, Authenticate, LockKeys, Discover, IssuerAnswers, StoreKeys, RefreshFails,
       Introspect
  <2> QED
    BY <1>1, <2>1 DEF AuthInv, NotRotated, Steps
<1>7. IntrospectOK'
  BY <1>1 DEF AuthInv, IntrospectOK, Steps
<1>8. ResponseOK'
  <2> SUFFICES ASSUME NEW d \in Login, authStep'[d] = "response"
               PROVE  (/\ sentAt <= authClock /\ authClock <= sentAt + MaxDelay
                       /\ \A k \in payload : sentAt <= lastSeen[k]
                       /\ d \notin rotated => token[d].kid \in payload)'
    BY DEF ResponseOK
  <2>1. CASE IssuerAnswers(c)
    <3>1. d = c /\ authStep[c] = "load"
      BY <1>1, <2>1 DEF AuthInv, OneFetch, Fetching, IssuerAnswers
    <3>2. /\ payload' = published /\ sentAt' = authClock /\ published \subseteq Kid
          /\ UNCHANGED <<authClock, lastSeen, token>> /\ rotated' = rotated
      BY <2>1 DEF IssuerAnswers, AuthInv, AuthTypeOK
    <3>3. /\ \A k \in published : lastSeen[k] = authClock
          /\ c \notin rotated => token[c].kid \in published
      BY <3>1 DEF AuthInv, LastSeenOK, NotRotated
    <3> QED
      BY <1>2, <3>1, <3>2, <3>3
  <2>2. CASE ~IssuerAnswers(c)
    <3>1. d # c
      <4>1. CASE Discover(c)
        BY <4>1, Outcomes DEF AuthInv, Discover, AuthSteps
      <4> QED
        BY <2>2, <4>1, LoginPlaces DEF AuthInv, LoginStep
    <3>2. authStep[d] = "response" /\ authLock = d
      BY <1>1, <3>1 DEF AuthInv, OneFetch, Fetching
    <3>3. authStep[c] \notin Fetching
      BY <3>1, <3>2 DEF AuthInv, OneFetch
    <3>4. UNCHANGED <<payload, sentAt>>
      BY <2>2, <3>3 DEF LoginStep, Authenticate, LockKeys, Discover, StoreKeys, RefreshFails,
         Introspect, Fetching
    <3> QED
      BY <1>1, <1>6, <3>2, <3>4 DEF AuthInv, ResponseOK, Steps
  <2> QED
    BY <2>1, <2>2
<1>9. CacheOK'
  <2>1. CASE StoreKeys(c)
    <3>1. /\ authClock <= sentAt + MaxDelay /\ \A k \in payload : sentAt <= lastSeen[k]
          /\ payload \subseteq Kid
      BY <2>1 DEF StoreKeys, AuthInv, ResponseOK, AuthTypeOK
    <3>2. keys' = payload /\ expiresAt' = authClock + CacheTime /\ lastSeen' = lastSeen
      BY <2>1 DEF StoreKeys
    <3>3. \A k \in payload : authClock + CacheTime <= lastSeen[k] + CacheTime + MaxDelay
      BY <1>2, <3>1
    <3> QED
      BY <3>2, <3>3 DEF CacheOK
  <2>2. CASE ~StoreKeys(c)
    BY <2>2 DEF AuthInv, CacheOK, LoginStep, Authenticate, LockKeys, Discover, IssuerAnswers,
       RefreshFails, Introspect
  <2> QED
    BY <2>1, <2>2
<1> QED
  BY <1>4, <1>5, <1>6, <1>7, <1>8, <1>9, FetchSteps DEF AuthInv

\* Time and the issuer move lastSeen forward only.
LEMMA LaterSeen ==
  ASSUME AuthInv, Rotate \/ AuthTick
  PROVE  /\ lastSeen' \in [Kid -> 0 .. MaxAuthClock]
         /\ \A k \in Kid : lastSeen[k] <= lastSeen'[k]
         /\ LastSeenOK'
<1>1. /\ lastSeen \in [Kid -> 0 .. MaxAuthClock] /\ authClock \in 0 .. MaxAuthClock
      /\ published \subseteq Kid /\ MaxAuthClock \in Nat
      /\ \A k \in Kid : lastSeen[k] <= authClock
  BY AuthAssumption DEF AuthInv, AuthTypeOK, LastSeenOK
<1>2. CASE Rotate
  <2>1. /\ lastSeen' = [k \in Kid |-> IF k \in published' THEN authClock ELSE lastSeen[k]]
        /\ published' \subseteq Kid /\ authClock' = authClock
    BY <1>2 DEF Rotate
  <2> QED
    BY <1>1, <2>1 DEF LastSeenOK
<1>3. CASE AuthTick
  <2>1. /\ lastSeen' = [k \in Kid |-> IF k \in published THEN authClock + 1 ELSE lastSeen[k]]
        /\ published' = published /\ authClock' = authClock + 1 /\ authClock + 1 <= MaxAuthClock
    BY <1>1, <1>3 DEF AuthTick
  <2> QED
    BY <1>1, <2>1 DEF LastSeenOK
<1> QED
  BY <1>2, <1>3

LEMMA IssuerKeeps ==
  ASSUME AuthInv, Rotate \/ AuthTick
  PROVE  AuthInv'
<1>1. UNCHANGED <<keys, expiresAt, authLock, settings, token, authStep, verdict, payload, sentAt,
                  loadFailed>>
  BY DEF Rotate, AuthTick
<1>2. /\ lastSeen \in [Kid -> Nat] /\ lastSeen' \in [Kid -> Nat]
      /\ \A k \in Kid : lastSeen[k] <= lastSeen'[k]
      /\ {CacheTime, MaxDelay, authClock, authClock', expiresAt, sentAt} \subseteq Nat
      /\ keys \subseteq Kid /\ payload \subseteq Kid
      /\ authClock <= authClock'
  <2>1. /\ {CacheTime, MaxDelay, authClock, expiresAt, sentAt} \subseteq Nat
        /\ keys \subseteq Kid /\ payload \subseteq Kid /\ lastSeen \in [Kid -> Nat]
    BY AuthAssumption DEF AuthInv, AuthTypeOK
  <2>2. authClock' \in Nat /\ authClock <= authClock'
    BY <2>1 DEF Rotate, AuthTick
  <2> QED
    BY <2>1, <2>2, LaterSeen
<1>3. /\ rotated \subseteq rotated' /\ rotated' \subseteq Login
      /\ published' \subseteq Kid /\ authClock' \in 0 .. MaxAuthClock
      /\ \A c \in Login : authStep[c] # "new" /\ c \notin rotated' => token[c].kid \in published'
  <2>1. CASE Rotate
    <3>1. /\ rotated' = rotated \cup {c \in Login : authStep[c] # "new"
                                                    /\ token[c].kid \notin published'}
          /\ published' \subseteq Kid /\ authClock' = authClock
      BY <2>1 DEF Rotate
    <3> QED
      BY <3>1 DEF AuthInv, AuthTypeOK
  <2>2. CASE AuthTick
    <3>1. /\ UNCHANGED <<rotated, published>> /\ authClock' = authClock + 1 /\ authClock < MaxAuthClock
      BY <2>2 DEF AuthTick
    <3> QED
      BY <3>1, AuthAssumption DEF AuthInv, AuthTypeOK, NotRotated
  <2> QED
    BY <2>1, <2>2
<1>4. AuthTypeOK'
  BY <1>1, <1>3, LaterSeen DEF AuthInv, AuthTypeOK
<1>5. OneFetch' /\ IntrospectOK'
  BY <1>1 DEF AuthInv, OneFetch, IntrospectOK
<1>6. NotRotated'
  BY <1>1, <1>3 DEF NotRotated
<1>7. CacheOK'
  <2>1. \A k \in keys : expiresAt <= lastSeen[k] + CacheTime + MaxDelay
    BY DEF AuthInv, CacheOK
  <2>2. \A k \in keys : expiresAt <= lastSeen'[k] + CacheTime + MaxDelay
    BY <1>2, <2>1
  <2> QED
    BY <1>1, <2>2 DEF CacheOK
<1>8. ResponseOK'
  <2> SUFFICES ASSUME NEW c \in Login, authStep[c] = "response"
               PROVE  /\ sentAt <= authClock' /\ authClock' <= sentAt + MaxDelay
                      /\ \A k \in payload : sentAt <= lastSeen'[k]
                      /\ c \notin rotated' => token[c].kid \in payload
    BY <1>1 DEF ResponseOK
  <2>1. /\ sentAt <= authClock /\ authClock <= sentAt + MaxDelay
        /\ \A k \in payload : sentAt <= lastSeen[k]
        /\ c \notin rotated => token[c].kid \in payload
    BY DEF AuthInv, ResponseOK
  <2>2. authClock' <= sentAt + MaxDelay
    BY <1>2, <2>1 DEF Rotate, AuthTick
  <2> QED
    BY <1>2, <1>3, <2>1, <2>2
<1> QED
  BY <1>4, <1>5, <1>6, <1>7, <1>8, LaterSeen DEF AuthInv

LEMMA AuthInvStep == AuthInv /\ [AuthNext]_authVars => AuthInv'
<1> SUFFICES ASSUME AuthInv, [AuthNext]_authVars PROVE AuthInv'
  OBVIOUS
<1>1. CASE UNCHANGED authVars
  BY <1>1 DEF authVars, AuthInv, AuthTypeOK, OneFetch, LastSeenOK, ResponseOK, CacheOK, NotRotated,
     IntrospectOK
<1>2. ASSUME NEW c \in Login, LoginStep(c) PROVE AuthInv'
  BY <1>2, LoginKeeps
<1>3. CASE Rotate \/ AuthTick
  BY <1>3, IssuerKeeps
<1> QED
  BY <1>1, <1>2, <1>3 DEF AuthNext, LoginStep

\* The inductive invariant behind the theorems: one fetch at a time, a response no
\* older than its delay, and a cache that outlives the keys in it by a bounded time.
THEOREM AuthInvariant == AuthSpec => []AuthInv
  BY AuthStarts, AuthInvStep, PTL DEF AuthSpec

\* The types of the authentication's state.
THEOREM AuthTypeCorrect == AuthSpec => []AuthTypeOK
  BY AuthInvariant, PTL DEF AuthInv

-----------------------------------------------------------------------------
\* Keys that are withdrawn

\* A verdict is given in a step of its own login.
LEMMA OwnStep ==
  ASSUME AuthInv, [AuthNext]_authVars, NEW c \in Login, verdict'[c] # verdict[c]
  PROVE  LoginStep(c)
<1>1. ~UNCHANGED authVars /\ ~Rotate /\ ~AuthTick
  BY DEF authVars, Rotate, AuthTick
<1>2. PICK d \in Login : LoginStep(d)
  BY <1>1 DEF AuthNext, LoginStep
<1>3. verdict' = [verdict EXCEPT ![d] = verdict'[d]] /\ verdict \in [Login -> Verdicts]
  BY <1>2, LoginSteps DEF AuthInv, AuthTypeOK, LoginStep, Steps, Verdicts
<1> QED
  BY <1>2, <1>3

LEMMA AcceptedKeyIsRecent ==
  ASSUME AuthInv, [AuthNext]_authVars, NEW c \in Login,
         authStep[c] # "introspect", verdict[c] = "none", verdict'[c] \in {"ok", "403"}
  PROVE  authClock < lastSeen[token[c].kid] + CacheTime + MaxDelay
<1> DEFINE kid == token[c].kid
<1>1. LoginStep(c)
  BY OwnStep
<1>2. /\ {CacheTime, MaxDelay, authClock, expiresAt, sentAt} \subseteq Nat /\ CacheTime > 0
      /\ lastSeen \in [Kid -> Nat] /\ kid \in Kid
      /\ token \in [Login -> Token] /\ payload \subseteq Kid
  BY AuthAssumption DEF AuthInv, AuthTypeOK, Token
<1>3. ~Unauthenticated(c)
  BY Refusals DEF AuthInv
<1>4. \A step \in AuthSteps : ~AuthGo(c, step)
  BY Outcomes DEF AuthInv
<1>5. ~Verdict(c, "anonymous") /\ ~Verdict(c, "401")
  BY Outcomes DEF AuthInv, Verdicts
<1>6. CASE InCache(kid)
  <2>1. authClock < expiresAt /\ expiresAt <= lastSeen[kid] + CacheTime + MaxDelay
    BY <1>6 DEF InCache, AuthInv, CacheOK
  <2> HIDE DEF kid
  <2> QED
    BY <1>2, <2>1 DEF kid
<1>7. CASE StoreKeys(c) /\ kid \in payload
  <2>1. /\ authClock <= sentAt + MaxDelay /\ sentAt <= lastSeen[kid]
    BY <1>7 DEF StoreKeys, AuthInv, ResponseOK
  <2> HIDE DEF kid
  <2> QED
    BY <1>2, <2>1 DEF kid
<1>8. Authenticate(c) => InCache(kid)
  BY <1>3, <1>4, <1>5 DEF Authenticate, AuthSteps
<1>9. LockKeys(c) => InCache(kid)
  BY <1>3, <1>4 DEF LockKeys, Knows, AuthSteps
<1>10. StoreKeys(c) => kid \in payload
  BY <1>3 DEF StoreKeys, KeyFrom
<1>11. ~Discover(c) /\ ~IssuerAnswers(c) /\ ~RefreshFails(c) /\ ~Introspect(c)
  BY <1>3, <1>4 DEF Discover, IssuerAnswers, RefreshFails, Introspect, AuthSteps
<1> QED
  BY <1>1, <1>6, <1>7, <1>8, <1>9, <1>10, <1>11 DEF LoginStep

\* A token is accepted by its signature only for CacheTime + MaxDelay after the
\* issuer withdrew the key: the cache, its lock and the delayed responses never
\* keep a withdrawn key alive for longer (get_key, _refresh).
THEOREM WithdrawnKeysDoExpire == AuthSpec => WithdrawnKeysExpire
<1>1. AuthInv /\ [AuthNext]_authVars =>
        [\A c \in Login :
            authStep[c] # "introspect" /\ verdict[c] = "none" /\ verdict'[c] \in {"ok", "403"}
                => authClock < lastSeen[token[c].kid] + CacheTime + MaxDelay]_authVars
  BY AcceptedKeyIsRecent
<1> QED
  BY <1>1, AuthInvariant, PTL DEF AuthSpec, WithdrawnKeysExpire

-----------------------------------------------------------------------------
\* Keys that stay published

LEMMA RefusedKeyFailed ==
  ASSUME AuthInv, [AuthNext]_authVars, NEW c \in Login,
         verdict'[c] = "401", verdict[c] = "none", token[c].form = "jwt",
         token[c].claims = "valid", ~settings.introspection, c \notin rotated
  PROVE  c \in loadFailed'
<1> DEFINE kid == token[c].kid
<1>1. LoginStep(c)
  BY OwnStep
<1>2. ~Decode(c) /\ ~Principal(c)
  BY Decoded, Principals DEF AuthInv
<1>3. \A step \in AuthSteps : ~AuthGo(c, step)
  BY Outcomes DEF AuthInv
<1>4. ~Authenticate(c)
  <2>1. ~Verdict(c, "anonymous")
    BY Outcomes DEF AuthInv, Verdicts
  <2> QED
    BY <1>2, <1>3, <2>1 DEF Authenticate, AuthSteps
<1>5. ~LockKeys(c)
  BY <1>2, <1>3 DEF LockKeys, Knows, InCache, KeyFrom, AuthSteps
<1>6. ~StoreKeys(c)
  <2>1. StoreKeys(c) => kid \in payload
    BY DEF StoreKeys, AuthInv, ResponseOK
  <2> QED
    BY <1>2, <2>1 DEF StoreKeys, KeyFrom
<1>7. ~Discover(c) /\ ~IssuerAnswers(c)
  BY <1>3 DEF Discover, IssuerAnswers, AuthSteps
<1>8. ~Introspect(c)
  BY DEF AuthInv, IntrospectOK, Introspect
<1> QED
  BY <1>1, <1>4, <1>5, <1>6, <1>7, <1>8 DEF LoginStep, RefreshFails

\* A valid token whose key was published all the time is refused only if the fetch
\* of this very login failed: no other login's fetch and no older cache decides.
THEOREM PublishedKeysAreAlwaysFound == AuthSpec => PublishedKeysAreFound
<1>1. AuthInv /\ [AuthNext]_authVars =>
        [\A c \in Login :
            verdict'[c] = "401" /\ verdict[c] = "none" /\ token[c].form = "jwt"
                /\ token[c].claims = "valid" /\ ~settings.introspection /\ c \notin rotated
                => c \in loadFailed']_authVars
  BY RefusedKeyFailed
<1> QED
  BY <1>1, AuthInvariant, PTL DEF AuthSpec, PublishedKeysAreFound
=============================================================================
