---------------------------- MODULE Authenticator ----------------------------
(***************************************************************************)
(* Bearer-token authentication of both services: auth.py behind the        *)
(* middleware of api.py.  Logins share one cache of the issuer's signing   *)
(* keys.  A token signed with a key that is not in a fresh cache makes its *)
(* login fetch the keys, under a lock; the issuer rotates its keys         *)
(* meanwhile.                                                              *)
(***************************************************************************)
EXTENDS Naturals

CONSTANTS Kid,             \* key ids
          Login,           \* the requests to authenticate
          Tokens,          \* what they bring, to choose from
          Settings,        \* the AuthSettings to choose from
          CacheTime,       \* jwks_cache_seconds
          MaxDelay,        \* bound of the time a response of the issuer is on its way
          MaxAuthClock,    \* bound of the clock
          NoLogin

ASSUME AuthAssumption == /\ {CacheTime, MaxDelay, MaxAuthClock} \subseteq Nat /\ CacheTime > 0
                         /\ NoLogin \notin Login

VARIABLES published,       \* External: the keys the issuer publishes
          lastSeen,        \* when each key was last published (ghost)
          authClock,       \* time.monotonic
          keys, expiresAt, \* _keys, _expires_at
          authLock,        \* _lock: its holder
          settings,        \* AuthSettings
          token,           \* token[c]: what login c brings
          authStep, verdict,
          payload, sentAt, \* the response on its way to the holder of the lock
          rotated,         \* the logins whose key was not published all the time (ghost)
          loadFailed       \* the logins whose fetch failed (ghost)

authVars == <<published, lastSeen, authClock, keys, expiresAt, authLock, settings, token, authStep,
              verdict, payload, sentAt, rotated, loadFailed>>

\* A signed token, one that is not signed, or none; what its claims say: a valid
\* identity, one that lacks a required scope, or an invalid one (issuer, audience,
\* lifetime, active, or the shape of a claim); whether the route is public, needs a
\* permission, and whether the roles, permissions and scopes of the token grant it.
Token == [form : {"jwt", "opaque", "none"}, kid : Kid, claims : {"valid", "scope", "invalid"},
          route : {"public", "open", "guarded"}, grants : BOOLEAN]
\* discovery: there is no jwks_url; enforce: enforce_permissions.
AuthSettings == [mode : {"optional", "required"}, discovery : BOOLEAN,
                 introspection : BOOLEAN, enforce : BOOLEAN]

ASSUME LoginAssumption == Tokens \subseteq [Login -> Token] /\ Settings \subseteq AuthSettings

AuthInit ==
    /\ published \in {{k} : k \in Kid}
    /\ lastSeen = [k \in Kid |-> 0]
    /\ authClock = 0
    /\ keys = {} /\ expiresAt = 0
    /\ authLock = NoLogin
    /\ settings \in Settings /\ token \in Tokens
    /\ authStep = [c \in Login |-> "new"]
    /\ verdict = [c \in Login |-> "none"]
    /\ payload = {} /\ sentAt = 0
    /\ rotated = {} /\ loadFailed = {}

\* Mutant: a key is kept for ever.
InCacheForEver(k) == k \in keys
\* get_key: the cache has the key and is fresh.
InCache(k) == k \in keys /\ authClock < expiresAt

\* Mutant: a fresh cache is not fetched again for a key it does not have.
KnowsWhenFresh(k) == k \in keys \/ authClock < expiresAt
\* get_key, under the lock: no fetch is needed.
Knows(k) == InCache(k)

AuthGo(c, step) == authStep' = [authStep EXCEPT ![c] = step] /\ UNCHANGED verdict
Verdict(c, v) == /\ authStep' = [authStep EXCEPT ![c] = "done"]
                 /\ verdict' = [verdict EXCEPT ![c] = v]

\* An AuthenticationError or PyJWTError: introspection if there is one, or 401.
Unauthenticated(c) == IF settings.introspection THEN AuthGo(c, "introspect") ELSE Verdict(c, "401")

\* permission_for_request: the middleware asks for a permission.
Guarded(c) == settings.enforce /\ token[c].route = "guarded"

\* The middleware does not authenticate: a public path, or, where that is optional,
\* no token and no permission to ask for.
PassesUnseen(c) ==
    \/ token[c].route = "public"
    \/ settings.mode = "optional" /\ token[c].form = "none" /\ ~Guarded(c)

\* require, and what the middleware answers to a principal.
Require(c) == Verdict(c, IF Guarded(c) /\ ~token[c].grants THEN "403" ELSE "ok")

\* _principal_from_claims: the scopes are compared when the identity is valid.
Principal(c) == \/ token[c].claims = "valid" /\ Require(c)
                \/ token[c].claims = "scope" /\ Verdict(c, "403")

\* _authenticate_jwt once it has the key.
Decode(c) == Principal(c) \/ (token[c].claims = "invalid" /\ Unauthenticated(c))

\* get_key ends with the key, if the keys have it.
KeyFrom(c, known) == IF token[c].kid \in known THEN Decode(c) ELSE Unauthenticated(c)

\* _authenticate_request, authenticate, and get_key up to its lock.
Authenticate(c) ==
    /\ authStep[c] = "new"
    /\ LET t == token[c] IN
       \/ PassesUnseen(c) /\ Verdict(c, "anonymous")
       \/ ~PassesUnseen(c) /\ t.form = "none" /\ Verdict(c, "401")
       \/ ~PassesUnseen(c) /\ t.form = "opaque" /\ Unauthenticated(c)
       \/ ~PassesUnseen(c) /\ t.form = "jwt" /\ InCache(t.kid) /\ Decode(c)
       \/ ~PassesUnseen(c) /\ t.form = "jwt" /\ ~InCache(t.kid) /\ AuthGo(c, "lock")
    /\ rotated' = IF token[c].kid \in published THEN rotated ELSE rotated \cup {c}
    /\ UNCHANGED <<published, lastSeen, authClock, keys, expiresAt, authLock, settings, token,
                   payload, sentAt, loadFailed>>

\* The lock is free: the cache is looked at again before a fetch.
LockKeys(c) ==
    /\ authStep[c] = "lock" /\ authLock = NoLogin
    /\ LET k == token[c].kid IN
       \/ Knows(k) /\ KeyFrom(c, keys) /\ UNCHANGED authLock
       \/ ~Knows(k) /\ AuthGo(c, IF settings.discovery THEN "discover" ELSE "load") /\ authLock' = c
    /\ UNCHANGED <<published, lastSeen, authClock, keys, expiresAt, settings, token, payload,
                   sentAt, rotated, loadFailed>>

\* jwks_url of the discovery client: the issuer's metadata name the address of the keys.
Discover(c) ==
    /\ authStep[c] = "discover"
    /\ AuthGo(c, "load")
    /\ UNCHANGED <<published, lastSeen, authClock, keys, expiresAt, authLock, settings, token,
                   payload, sentAt, rotated, loadFailed>>

\* External: the issuer answers.
IssuerAnswers(c) ==
    /\ authStep[c] = "load"
    /\ payload' = published /\ sentAt' = authClock
    /\ AuthGo(c, "response")
    /\ UNCHANGED <<published, lastSeen, authClock, keys, expiresAt, authLock, settings, token,
                   rotated, loadFailed>>

\* _refresh: the response replaces the cache.
StoreKeys(c) ==
    /\ authStep[c] = "response" /\ payload # {}
    /\ keys' = payload /\ expiresAt' = authClock + CacheTime
    /\ authLock' = NoLogin
    /\ payload' = {} /\ sentAt' = 0
    /\ KeyFrom(c, payload)
    /\ UNCHANGED <<published, lastSeen, authClock, settings, token, rotated, loadFailed>>

\* _refresh fails: no answer in time, an error, or no usable key.
RefreshFails(c) ==
    /\ authStep[c] \in {"discover", "load", "response"}
    /\ authLock' = NoLogin
    /\ loadFailed' = loadFailed \cup {c}
    /\ payload' = {} /\ sentAt' = 0
    /\ Unauthenticated(c)
    /\ UNCHANGED <<published, lastSeen, authClock, keys, expiresAt, settings, token, rotated>>

\* OAuthIntrospectionClient.authenticate: the provider refuses the token or cannot
\* be asked, or its claims say whose it is.
Introspect(c) ==
    /\ authStep[c] = "introspect"
    /\ Verdict(c, "401") \/ Principal(c)
    /\ UNCHANGED <<published, lastSeen, authClock, keys, expiresAt, authLock, settings, token,
                   payload, sentAt, rotated, loadFailed>>

\* External: the issuer publishes other keys.
Rotate ==
    /\ published' \in SUBSET Kid \ {published}
    /\ rotated' = rotated \cup {c \in Login : authStep[c] # "new" /\ token[c].kid \notin published'}
    /\ lastSeen' = [k \in Kid |-> IF k \in published' THEN authClock ELSE lastSeen[k]]
    /\ UNCHANGED <<authClock, keys, expiresAt, authLock, settings, token, authStep, verdict, payload,
                   sentAt, loadFailed>>

AuthTick ==
    /\ authClock < MaxAuthClock
    /\ \A c \in Login : authStep[c] = "response" => authClock < sentAt + MaxDelay
    /\ authClock' = authClock + 1
    /\ lastSeen' = [k \in Kid |-> IF k \in published THEN authClock' ELSE lastSeen[k]]
    /\ UNCHANGED <<published, keys, expiresAt, authLock, settings, token, authStep, verdict, payload,
                   sentAt, rotated, loadFailed>>

AuthNext ==
    \/ \E c \in Login : \/ Authenticate(c) \/ LockKeys(c) \/ Discover(c) \/ IssuerAnswers(c)
                        \/ StoreKeys(c) \/ RefreshFails(c) \/ Introspect(c)
    \/ Rotate \/ AuthTick

AuthTypeOK ==
    /\ {published, keys, payload} \subseteq SUBSET Kid
    /\ lastSeen \in [Kid -> 0 .. MaxAuthClock]
    /\ {authClock, sentAt} \subseteq 0 .. MaxAuthClock /\ expiresAt \in Nat
    /\ authLock \in Login \cup {NoLogin}
    /\ settings \in AuthSettings /\ token \in [Login -> Token]
    /\ authStep \in [Login -> {"new", "lock", "discover", "load", "response", "introspect", "done"}]
    /\ verdict \in [Login -> {"none", "ok", "anonymous", "401", "403"}]
    /\ rotated \subseteq Login /\ loadFailed \subseteq Login

\* A token is accepted by its signature only for a bounded time after the issuer
\* has withdrawn the key, however slow and concurrent the fetches of keys are.
WithdrawnKeysExpire ==
    [][\A c \in Login :
         authStep[c] # "introspect" /\ verdict[c] = "none" /\ verdict'[c] \in {"ok", "403"}
             => authClock < lastSeen[token[c].kid] + CacheTime + MaxDelay]_authVars

\* A valid token signed with a key that was published all the time is refused only
\* if the fetch of the keys failed for this very login: neither a fetch by another
\* login nor an older cache decides against it.
PublishedKeysAreFound ==
    [][\A c \in Login :
         verdict'[c] = "401" /\ verdict[c] = "none" /\ token[c].form = "jwt"
             /\ token[c].claims = "valid" /\ ~settings.introspection /\ c \notin rotated
             => c \in loadFailed']_authVars
=============================================================================
