----------------------------- MODULE MC_ApiAuth -----------------------------
EXTENDS ApiAuth, TLC

\* config.Config values: six deployments Validate accepts (JWT with keys
\* from a JWKS URL; OIDC roles header with a read token and a webhook
\* secret; a development server with an ingest token only; JWT with an
\* HS256 secret and a PEM key; OIDC alone; a read token alone) and three it
\* rejects (an ingest token without read auth; JWT without an issuer; JWT
\* without a key source).
MCEnv ==
  [dev |-> FALSE, jwt |-> FALSE, oidc |-> FALSE, hs256 |-> FALSE,
   jwksURL |-> FALSE, pem |-> FALSE, issuer |-> "https://idp",
   audience |-> "evidra", readToken |-> "", ingestToken |-> "",
   webhookSecret |-> FALSE]

MCEnvs ==
  { [MCEnv EXCEPT !.jwt = TRUE, !.jwksURL = TRUE],
    [MCEnv EXCEPT !.oidc = TRUE, !.readToken = "t-read", !.webhookSecret = TRUE],
    [MCEnv EXCEPT !.dev = TRUE, !.ingestToken = "t-ing"],
    [MCEnv EXCEPT !.jwt = TRUE, !.hs256 = TRUE, !.pem = TRUE],
    [MCEnv EXCEPT !.oidc = TRUE],
    [MCEnv EXCEPT !.readToken = "t-read"],
    [MCEnv EXCEPT !.ingestToken = "t-ing"],
    [MCEnv EXCEPT !.jwt = TRUE, !.jwksURL = TRUE, !.issuer = ""],
    [MCEnv EXCEPT !.jwt = TRUE] }

MCToken(alg, kid, by, roles) ==
  [alg |-> alg, kid |-> kid, signedBy |-> by, iss |-> "https://idp",
   aud |-> "evidra", exp |-> "future", roles |-> roles]

\* What each credential string decodes to.  jwt-nokid has no kid header,
\* which fmt.Sprintf("%v") prints as "<nil>".
MCJwt ==
  [c \in {"", "t-read", "t-ing", "jwt-k1", "jwt-k2", "jwt-nokid", "jwt-hs",
          "jwt-forged", "jwt-expired"} |->
     CASE c = "jwt-k1" -> MCToken("RS256", "k1", "k1", <<"Admin">>)
       [] c = "jwt-k2" -> MCToken("RS256", "k2", "k2", <<" reader", "">>)
       [] c = "jwt-nokid" -> MCToken("RS256", "<nil>", "pem", <<"exporter">>)
       [] c = "jwt-hs" -> MCToken("HS256", "<nil>", "secret", <<"exporter">>)
       [] c = "jwt-forged" -> MCToken("RS256", "k1", "attacker", <<"admin">>)
       [] c = "jwt-expired" -> [MCToken("RS256", "k2", "k2", <<"admin">>) EXCEPT !.exp = "past"]
       [] OTHER -> NotJwt]

Bearer(c) == [scheme |-> "Bearer", cred |-> c]

MCRequest(a, h, roles, signed) ==
  [action |-> a, xff |-> <<>>, remote |-> "10.0.0.1", authz |-> h,
   rolesHeader |-> roles, signed |-> signed]

MCCandidates ==
  { MCRequest("read", Bearer("jwt-k1"), <<>>, FALSE),
    MCRequest("read", Bearer("jwt-k2"), <<>>, FALSE),
    MCRequest("ingest", Bearer("jwt-k1"), <<>>, TRUE),
    MCRequest("read", [scheme |-> "bearer", cred |-> "t-read"], <<"Reader">>, FALSE),
    MCRequest("ingest", Bearer("t-read"), <<" admin", "">>, TRUE),
    MCRequest("ingest", NoHeader, <<"admin">>, TRUE),
    MCRequest("read", NoHeader, <<>>, FALSE),
    MCRequest("ingest", NoHeader, <<>>, FALSE),
    MCRequest("export", Bearer("jwt-nokid"), <<>>, FALSE),
    MCRequest("export", [scheme |-> "Basic", cred |-> "t-read"], <<"exporter">>, FALSE),
    MCRequest("ingest", Bearer("t-ing"), <<>>, FALSE),
    MCRequest("export", Bearer("jwt-hs"), <<>>, FALSE),
    MCRequest("read", Bearer("jwt-forged"), <<"admin">>, FALSE),
    MCRequest("export", Bearer("jwt-expired"), <<>>, FALSE) }


\* strings.ToLower(strings.TrimSpace(s)) on the strings above.
MCCanon(s) ==
  CASE s \in {"Admin", " admin"} -> "admin"
    [] s \in {"Reader", " reader"} -> "reader"
    [] s = "Bearer" -> "bearer"
    [] s = "Basic" -> "basic"
    [] OTHER -> s
====
