-------------------------------- MODULE Auth --------------------------------
(***************************************************************************)
(* auth.py and the parts of config.py that it reads: who a caller is, by   *)
(* an API key or by a signed token, and what the role allows.  A token is  *)
(* what verify_jwt looks at; whether a signature is right is a fact about  *)
(* the token.  An answer is a principal's role or the HTTP status that     *)
(* refuses: 401 for an AuthError, 500 for any other exception.             *)
(***************************************************************************)
EXTENDS Integers, Sequences, SequencesExt

CONSTANTS
    Secret,          \* API keys
    Group,           \* role claims of a token that are not role names
    RoleMap,         \* JWT_ROLE_MAP, with roles as they were typed
    NoCredential     \* an absent header

ROLES == <<"viewer", "analyst", "admin">>
DefaultRole == "analyst"

ASSUME RoleMapAssumption == DOMAIN RoleMap \subseteq Group

ASSUME CredentialAssumption == NoCredential \notin Secret

(* exp is 0 for a token without it. *)
Token ==
    [form : {"parts", "encoding", "claims", "roles", "sound"}, alg : BOOLEAN, signature : BOOLEAN,
     exp : Nat, nbf : Nat, issuer : BOOLEAN, audience : BOOLEAN,
     roles : Seq(Group \cup ToSet(ROLES))]

RoleRank(role) ==
    IF role \in ToSet(ROLES) THEN CHOOSE k \in DOMAIN ROLES : ROLES[k] = role ELSE 0

HasRole(role, required) == RoleRank(role) >= RoleRank(required)

(* _parse_api_keys of (role, secret) pairs: a role that is missing or not  *)
(* known becomes analyst, a later pair replaces an earlier one.            *)
ParseApiKeys(pairs) ==
    LET last(s) == CHOOSE k \in DOMAIN pairs :
                       /\ pairs[k].secret = s
                       /\ \A l \in DOMAIN pairs : pairs[l].secret = s => l <= k
    IN  [s \in {pairs[k].secret : k \in DOMAIN pairs} |->
            IF pairs[last(s)].role \in ToSet(ROLES) THEN pairs[last(s)].role ELSE DefaultRole]

(* The first role claim that is mapped or is a role; a mapped one is not   *)
(* checked to be a role of the program.                                    *)
ClaimedRole(roles) ==
    LET known == {k \in DOMAIN roles : roles[k] \in DOMAIN RoleMap \cup ToSet(ROLES)}
        first == CHOOSE k \in known : \A l \in known : k <= l
    IN  IF known = {} THEN "viewer"
        ELSE IF roles[first] \in DOMAIN RoleMap THEN RoleMap[roles[first]]
        ELSE roles[first]

Granted(role) == [status |-> 200, role |-> role]
Refused(status) == [status |-> status, role |-> "none"]

(* Seeded fault: a token is good until a step after it expires. *)
ExpiredLate(token, now) == token.exp > 0 /\ now > token.exp

Expired(token, now) == token.exp > 0 /\ now >= token.exp

VerifyJwtSignature(token) == token.alg /\ token.signature

(* verify_jwt, in the order of its checks; a bad encoding, and claims or   *)
(* role claims of another type behind a good signature, raise what is no   *)
(* AuthError.                                                              *)
VerifyJwt(token, now) ==
    IF token.form = "parts" THEN Refused(401)
    ELSE IF token.form = "encoding" THEN Refused(500)
    ELSE IF ~VerifyJwtSignature(token) THEN Refused(401)
    ELSE IF token.form = "claims" THEN Refused(500)
    ELSE IF Expired(token, now) \/ now < token.nbf THEN Refused(401)
    ELSE IF ~token.issuer \/ ~token.audience THEN Refused(401)
    ELSE IF token.form = "roles" THEN Refused(500)
    ELSE Granted(ClaimedRole(token.roles))

(* resolve_principal: with SSO a bearer token is final, good or bad. *)
ResolvePrincipal(config, apiKey, bearer, now) ==
    IF ~config.auth THEN Granted("admin")
    ELSE IF bearer # NoCredential /\ config.sso THEN VerifyJwt(bearer, now)
    ELSE IF apiKey \in DOMAIN ParseApiKeys(config.keys)
         THEN Granted(ParseApiKeys(config.keys)[apiKey])
    ELSE Refused(401)

(* require_role: the status of a request before its handler runs, 200 when *)
(* it does.                                                                *)
RequireRole(minimum, config, apiKey, bearer, now) ==
    LET principal == ResolvePrincipal(config, apiKey, bearer, now)
    IN  IF principal.status = 200 /\ ~HasRole(principal.role, minimum) THEN 403
        ELSE principal.status
=============================================================================
