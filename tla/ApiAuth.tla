------------------------------ MODULE ApiAuth ------------------------------
(***************************************************************************)
(* Authorization of the API server's requests (internal/api/auth.go,       *)
(* roles.go, jwks.go) once the rate limiter (module RateLimiter) let them  *)
(* through; the limiter's state plays no part in what follows.             *)
(*                                                                         *)
(* A request is authorized in one step: resolveRoles (JWT, else the OIDC roles header), *)
(* the role check, then the static bearer token and, for ingest, the       *)
(* webhook signature.  The only shared state this touches is the JWKS key  *)
(* cache, which resolveJWTKeyFromJWKS reads and refreshes under            *)
(* s.jwksMu, so the step is atomic with respect to other requests.  The    *)
(* identity provider rotates its published keys at any time; each JWKS     *)
(* fetch may fail.                                                         *)
(*                                                                         *)
(* Data abstraction: a header or claim holding a list is the sequence of   *)
(* its parts; Canon is strings.ToLower(strings.TrimSpace(.)); a credential *)
(* is a string and Jwt maps it to the token it decodes to (NotJwt for a   *)
(* static token); a JWT's signature is the name of the key that made it.  *)
(* The process loads a config.Config once (cmd/evidra/main.go), exits    *)
(* unless Validate accepts it, and bootstrap/runtime.go copies its auth    *)
(* fields into the server's AuthConfig; Init chooses it from Envs.         *)
(***************************************************************************)
EXTENDS Integers, Sequences, SequencesExt

CONSTANTS
  Envs,          \* config.Config values LoadFromEnv may return (auth fields)
  Candidates,    \* the requests clients may send
  Kids,          \* key ids the identity provider may publish
  Jwt,           \* credential -> decoded JWT, or NotJwt
  NotJwt,
  NoHeader,      \* an absent Authorization header
  Canon(_),      \* strings.ToLower(strings.TrimSpace(s))
  RefreshEvery,  \* JWKSRefresh, in minutes
  MaxMinute      \* bound on the wall clock, in minutes

VARIABLES
  now,        \* time.Now(), in minutes
  env,        \* the config.Config the process loaded
  step,       \* the kind of the last step: "init", "request", "tick", "rotate"
  last,       \* the outcome of the last request authorized
  idp,        \* the RSA keys the JWKS URL publishes now
  jwks,       \* s.jwksCache: [keys, last] (lastRefresh; Never = zero time)
  revokedAt   \* history: when the identity provider last withdrew each kid

vars == <<now, env, step, last, idp, jwks, revokedAt>>

\* The fields of AuthConfig that NewRuntime fills from config.Config.
AuthFields == {"readToken", "ingestToken", "webhookSecret", "oidc", "jwt",
               "issuer", "audience", "hs256", "pem", "jwksURL"}

\* NewRuntime: api.AuthConfig{...} built from cfg.Auth; DevInsecure is not
\* passed on, so the server cannot tell a development deployment apart.
AuthConfigOf(e) == Restrict(e, AuthFields)

\* s.auth
cfg == AuthConfigOf(env)

\* Faulty variant: any configured bearer token counts as read auth.
ReadAuthConfiguredAnyToken(e) ==
  e.readToken /= "" \/ e.ingestToken /= "" \/ e.oidc \/ e.jwt

\* Validate's readAuthConfigured: a read token, OIDC or JWT.
ReadAuthConfigured(e) == e.readToken /= "" \/ e.oidc \/ e.jwt

\* The auth checks of Config.Validate (the others, on the address, the
\* database, the collectors and TLS, do not read an auth field).  Strings
\* are compared after strings.TrimSpace, as Validate does.
AuthValid(e) ==
  /\ ~e.dev => ReadAuthConfigured(e)
  /\ e.jwt => /\ e.issuer /= "" /\ e.audience /= ""
              /\ e.hs256 \/ e.pem \/ e.jwksURL

Minutes == 0..MaxMinute

Never == -1
NoKey == "none"
NoOutcome == [q |-> NoHeader, decision |-> "none", kid |-> NoKey, key |-> NoKey, failed |-> FALSE]

\* bearerToken: the part after a "Bearer" scheme (any case), else "".
BearerToken(h) ==
  IF h = NoHeader \/ Canon(h.scheme) /= "bearer" THEN "" ELSE h.cred

\* matchBearer(header, expected) for a configured (non-empty) token.
MatchBearer(h, expected) == BearerToken(h) = expected

\* The roles of a comma-separated list, lower-cased, blanks dropped
\* (rolesFromHeader, extractClaimRoles).
RoleSet(parts) == {Canon(p) : p \in Range(parts)} \ {""}

\* Faulty variant: lastRefresh is set to when the next refresh is due.
RefreshStampsDeadline(c, ok) ==
  IF ok /\ idp /= {}
  THEN [keys |-> idp, last |-> now + RefreshEvery, err |-> FALSE]
  ELSE [keys |-> c.keys, last |-> c.last, err |-> TRUE]

\* s.jwksCache.refresh(): a failed fetch or a document without RSA keys
\* leaves the cache as it was.
Refresh(c, ok) ==
  IF ok /\ idp /= {}
  THEN [keys |-> idp, last |-> now, err |-> FALSE]
  ELSE [keys |-> c.keys, last |-> c.last, err |-> TRUE]

\* Faulty variant: the cache is refreshed only when it was never filled.
StaleNeverExpires(c) == c.last = Never

Stale(c) == c.last = Never \/ now - c.last >= RefreshEvery

\* Faulty variant: a kid missing from the cache is not refetched.
ResolveKeyNoRetry(c, kid, ok1, ok2) ==
  LET first == IF Stale(c) \/ c.keys = {} THEN Refresh(c, ok1)
                                          ELSE [keys |-> c.keys, last |-> c.last, err |-> FALSE]
      cache == [keys |-> first.keys, last |-> first.last]
  IN [cache |-> cache, kid |-> kid, key |-> IF kid \in first.keys THEN kid ELSE NoKey,
      failed |-> first.err]

\* jwksKeyCache.resolveKey(kid): refresh when stale or empty (keeping the
\* old keys if that fails), then look the kid up, refreshing once more on
\* a miss.  ok1 and ok2 are the fates of the two fetches it may make.
ResolveKey(c, kid, ok1, ok2) ==
  LET first == IF Stale(c) \/ c.keys = {} THEN Refresh(c, ok1)
                                          ELSE [keys |-> c.keys, last |-> c.last, err |-> FALSE]
      tried == Stale(c) \/ c.keys = {}
      second == Refresh(first, ok2)
      cache(x) == [keys |-> x.keys, last |-> x.last]
  IN IF tried /\ first.err /\ first.keys = {}
       THEN [cache |-> cache(first), kid |-> kid, key |-> NoKey, failed |-> TRUE]
     ELSE IF kid \in first.keys
       THEN [cache |-> cache(first), kid |-> kid, key |-> kid, failed |-> first.err]
     ELSE [cache |-> cache(second), kid |-> kid,
           key |-> IF ~second.err /\ kid \in second.keys THEN kid ELSE NoKey,
           failed |-> first.err \/ second.err]

\* resolveJWTKeyFromJWKS: the kid header, formatted with %v, looked up
\* under s.jwksMu.  A missing kid header formats as "<nil>", which is not
\* empty and goes to the cache like any other kid.
JwksKey(j, ok1, ok2) == ResolveKey(jwks, j.kid, ok1, ok2)

\* A key the keyfunc finds without the cache (the kid is then NoKey).
Local(k) == [cache |-> jwks, kid |-> NoKey, key |-> k, failed |-> FALSE]

\* The keyfunc of rolesFromJWT: the key a token's signature is checked
\* against, by the token's alg.

KeyFor(c, j, ok1, ok2) ==
  CASE j.alg = "HS256" /\ c.hs256 -> Local("secret")
    [] j.alg = "RS256" /\ c.jwksURL -> JwksKey(j, ok1, ok2)
    [] j.alg = "RS256" /\ c.pem -> Local("pem")
    [] OTHER -> Local(NoKey)

\* jwt.Parse's verdict and the claim checks of rolesFromJWT.
JwtValid(c, j, k) ==
  /\ k /= NoKey
  /\ j.signedBy = k
  /\ j.iss /= "" /\ j.iss = c.issuer
  /\ j.aud /= "" /\ j.aud = c.audience
  /\ j.exp = "future"
  /\ RoleSet(j.roles) /= {}

\* resolveRoles: JWT claims when JWT is enabled, else the OIDC roles
\* header, else roles are not enforced.  k is the key the keyfunc found.
ResolveRoles(c, q, k) ==
  LET j == Jwt[BearerToken(q.authz)]
  IN CASE c.jwt -> IF BearerToken(q.authz) /= "" /\ j /= NotJwt /\ JwtValid(c, j, k)
                     THEN [enforced |-> TRUE, err |-> FALSE, roles |-> RoleSet(j.roles)]
                     ELSE [enforced |-> TRUE, err |-> TRUE, roles |-> {}]
       [] c.oidc -> IF RoleSet(q.rolesHeader) /= {}
                     THEN [enforced |-> TRUE, err |-> FALSE, roles |-> RoleSet(q.rolesHeader)]
                     ELSE [enforced |-> TRUE, err |-> TRUE, roles |-> {}]
       [] OTHER -> [enforced |-> FALSE, err |-> FALSE, roles |-> {}]

\* The roles each authorize* function passes to authorizeRoles.
AllowedRoles(a) ==
  CASE a = "read" -> {"reader", "exporter", "admin"}
    [] a = "export" -> {"exporter", "admin"}
    [] a = "ingest" -> {"admin"}

\* authorizeRoles(r, allowed...): nil unless roles are enforced and none
\* of the request's roles is allowed, or resolving them failed.
RolesOK(c, q, k) ==
  LET rr == ResolveRoles(c, q, k)
  IN ~rr.err /\ (~rr.enforced \/ rr.roles \cap {Canon(x) : x \in AllowedRoles(q.action)} /= {})

\* Faulty variant: ingest demands the ingest token only.
IngestTokenNoFallback(c) == c.ingestToken

\* The bearer token authorizeIngest demands: the ingest token, falling
\* back to the read token.
IngestToken(c) == IF c.ingestToken /= "" THEN c.ingestToken ELSE c.readToken

\* authorizeRead / authorizeExport / authorizeIngest after the limiter:
\* the first check that fails names the decision.
Decision(c, q, k) ==
  CASE ~RolesOK(c, q, k) -> "roles"
    [] q.action \in {"read", "export"} /\ c.readToken /= ""
         /\ ~MatchBearer(q.authz, c.readToken) -> "bearer"
    [] q.action = "ingest" /\ IngestToken(c) /= ""
         /\ ~MatchBearer(q.authz, IngestToken(c)) -> "bearer"
    [] q.action = "ingest" /\ c.webhookSecret /\ ~q.signed -> "webhook-signature"
    [] OTHER -> "allow"

TypeOK ==
  /\ now \in Minutes
  /\ env \in Envs
  /\ step \in {"init", "request", "tick", "rotate"}
  /\ idp \subseteq Kids
  /\ jwks.keys \subseteq Kids
  /\ jwks.last \in {Never} \cup Minutes
  /\ revokedAt \in [Kids -> {Never} \cup Minutes]
  /\ last.kid \in Kids \cup {NoKey, "<nil>"}
  /\ last.key \in Kids \cup {NoKey, "secret", "pem"}
  /\ last.decision \in {"none", "roles", "bearer", "webhook-signature", "allow"}

\* main: LoadFromEnv, log.Fatal unless Validate accepts the config;
\* NewServerWithOptions: newJWKSKeyCache starts with no keys and a zero
\* lastRefresh; the identity provider publishes some key set.
Init ==
  /\ now = 0
  /\ env \in {e \in Envs : AuthValid(e)}
  /\ step = "init"
  /\ last = NoOutcome
  /\ idp \in SUBSET Kids
  /\ jwks = [keys |-> {}, last |-> Never]
  /\ revokedAt = [k \in Kids |-> Never]

\* authorizeRead / authorizeExport / authorizeIngest for a request q that
\* passed the limiter: roles (with the JWT keyfunc and its JWKS fetches,
\* if any), then the bearer token and the signature.
Authorize(q) ==
  /\ \E ok1, ok2 \in BOOLEAN :
       LET j == Jwt[BearerToken(q.authz)]
           parsed == cfg.jwt /\ BearerToken(q.authz) /= "" /\ j /= NotJwt
           kf == IF parsed THEN KeyFor(cfg, j, ok1, ok2) ELSE Local(NoKey)
       IN /\ jwks' = kf.cache
          /\ last' = [q |-> q, decision |-> Decision(cfg, q, kf.key),
                      kid |-> kf.kid, key |-> kf.key, failed |-> kf.failed]
  /\ step' = "request"
  /\ UNCHANGED <<now, env, idp, revokedAt>>

\* The wall clock moves on a minute.
Tick ==
  /\ now < MaxMinute
  /\ now' = now + 1
  /\ step' = "tick"
  /\ UNCHANGED <<env, last, idp, jwks, revokedAt>>

\* The identity provider publishes a new key set.
Rotate ==
  /\ \E ks \in SUBSET Kids \ {idp} :
       /\ idp' = ks
       /\ revokedAt' = [k \in Kids |-> IF k \in idp \ ks THEN now ELSE revokedAt[k]]
  /\ step' = "rotate"
  /\ UNCHANGED <<now, env, last, jwks>>

Next ==
  \/ \E q \in Candidates : Authorize(q)
  \/ Tick
  \/ Rotate

Spec == Init /\ [][Next]_vars

-----------------------------------------------------------------------------
(***************************************************************************)
(* Properties.                                                             *)
(***************************************************************************)

\* A step that authorizes a request.
Answered == step' = "request"

\* The roles a request proves: the claims of a JWT that verifies against
\* the key k, or the OIDC roles header; none when neither is configured.
ProvenRoles(c, q, k) ==
  LET tok == BearerToken(q.authz)
  IN IF c.jwt THEN IF tok /= "" /\ Jwt[tok] /= NotJwt /\ JwtValid(c, Jwt[tok], k)
                   THEN RoleSet(Jwt[tok].roles) ELSE {}
     ELSE IF c.oidc THEN RoleSet(q.rolesHeader) ELSE {}

\* The access policy of AuthConfig: with JWT or OIDC on, a request must
\* prove one of its action's roles; reads and exports must present the
\* read token when one is set; ingest must present the ingest token, or
\* the read token when no ingest token is set, and carry a valid
\* signature when a webhook secret is set.
PolicyAdmits(c, q, k) ==
  LET tok == BearerToken(q.authz)
      a == q.action
  IN /\ (c.jwt \/ c.oidc) => ProvenRoles(c, q, k) \cap AllowedRoles(a) /= {}
     /\ a /= "ingest" /\ c.readToken /= "" => tok = c.readToken
     /\ a = "ingest" /\ c.ingestToken /= "" => tok = c.ingestToken
     /\ a = "ingest" /\ c.ingestToken = "" /\ c.readToken /= "" => tok = c.readToken
     /\ a = "ingest" /\ c.webhookSecret => q.signed

\* authorizeRead, authorizeExport and authorizeIngest admit a request that
\* passed the rate limiter exactly when the configured policy does, for
\* every configuration and credential, whichever key the JWT keyfunc found.
AdmissionFollowsPolicy ==
  last.decision /= "none" =>
    (last.decision = "allow" <=> PolicyAdmits(cfg, last.q, last.key))

\* A server started from a configuration that Validate accepts without
\* EVIDRA_DEV_INSECURE admits no request that carries neither an
\* Authorization header nor a roles header, on any route: Validate's
\* readAuthConfigured check (config.go) and authorizeIngest's fallback to
\* the read token (auth.go) must together close every route.
AnonymousRequestsDenied ==
  (/\ last.decision /= "none"
   /\ ~env.dev
   /\ last.q.authz = NoHeader
   /\ RoleSet(last.q.rolesHeader) = {})
    => last.decision /= "allow"

\* resolveKey never hands out a key the identity provider withdrew more
\* than JWKSRefresh ago, unless a JWKS fetch of that very lookup failed:
\* a cached key is only trusted while the cache is fresh.
WithdrawnKeyExpires ==
  [][Answered /\ last'.key \in Kids =>
       \/ last'.key \in idp
       \/ revokedAt[last'.key] /= Never /\ now - revokedAt[last'.key] < RefreshEvery
       \/ last'.failed]_vars

\* A token whose kid the identity provider publishes is resolved to its
\* key unless a JWKS fetch of that lookup failed, even when the kid was
\* published after the cache's last refresh (key rotation).
PublishedKeyResolves ==
  [][Answered /\ last'.kid \in idp /\ ~last'.failed => last'.key = last'.kid]_vars
====
