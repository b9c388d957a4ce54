-------------------------------- MODULE Access --------------------------------
(***************************************************************************)
(* Who a caller of the API is: the configuration the process boots with,   *)
(* the tenant that a request is served under, and the sessions that the    *)
(* dashboard is given.  Time is counted in half seconds, so that the       *)
(* truncation of a session's expiry to a whole second is seen; a signature *)
(* is the secret it was made with.                                         *)
(***************************************************************************)
EXTENDS Integers, Sequences

CONSTANTS Tenants,     \* tenant ids
          SessionTTL,  \* SessionTTL, 12 h
          Nobody       \* no tenant, no credential

ASSUME AccessAssumption ==
  /\ SessionTTL \in Nat \ {0}
  /\ Nobody \notin Tenants /\ Nobody \notin [tenant : Tenants, secret : STRING, exp : Nat]

(* Config.Validate: what a process needs to boot, and more of it in prod.    *)
Validate(c) ==
  /\ c.env \in {"dev", "staging", "prod"} /\ c.level /\ c.grace
  /\ c.env = "prod" => c.dsn /\ c.key /\ c.app /\ c.hook

-----------------------------------------------------------------------------
(* ExtractTenant: the certificate is the list of its URI SANs, each a tenant *)
(* or some other URI; the first that names a tenant counts.                  *)
ExtractTenant(cert) ==
  LET ids == SelectSeq(cert, LAMBDA u : u \in Tenants)
  IN  IF ids = <<>> THEN Nobody ELSE ids[1]

HeaderTenantExtractor(r) == r.header

(* In prod a request without a good certificate has no tenant.               *)
MTLSTenantExtractor(env, r) ==
  LET t == ExtractTenant(r.cert)
  IN  IF t # Nobody THEN t
      ELSE IF env = "prod" THEN Nobody ELSE HeaderTenantExtractor(r)

(* requireTenant with the extractor that mountDomainRoutes gives the route:  *)
(* the tenant the handler runs under, or Nobody when the answer is 401.      *)
(* Validate refuses what is not the id of a tenant (a UUID).                 *)
requireTenant(route, env, r) ==
  LET t == IF route = "snapshot" THEN MTLSTenantExtractor(env, r) ELSE HeaderTenantExtractor(r)
  IN  IF t \in Tenants THEN t ELSE Nobody

-----------------------------------------------------------------------------
(* A session as the token carries it: the expiry in whole seconds.           *)
SignerIssue(t, secret, now) ==
  [tenant |-> t, secret |-> secret, exp |-> (now + SessionTTL) \div 2]

(* The expires_at of the answer, RFC 3339 to the second.                     *)
ToldExpiry(now) == 2 * ((now + SessionTTL) \div 2)

(* Verify: the signature, and an expiry that is not past.                    *)
SignerVerify(s, secret, now) == s.secret = secret /\ now <= 2 * s.exp

(* Mutant: a bearer token that does not verify ends the search.              *)
BearerOnly(bearer, cookie, secret, now) ==
  IF bearer # Nobody
    THEN IF SignerVerify(bearer, secret, now) THEN bearer ELSE Nobody
  ELSE IF cookie # Nobody /\ SignerVerify(cookie, secret, now) THEN cookie ELSE Nobody

(* The bearer token counts when it verifies, and the cookie otherwise: every *)
(* error of Verify is ErrInvalidToken.                                       *)
sessionFromRequest(bearer, cookie, secret, now) ==
  IF bearer # Nobody /\ SignerVerify(bearer, secret, now) THEN bearer
  ELSE IF cookie # Nobody /\ SignerVerify(cookie, secret, now) THEN cookie ELSE Nobody
=============================================================================
