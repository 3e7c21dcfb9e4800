---------------------------- MODULE MCServiceLife ----------------------------
(* ServiceLife with keys of every role, one of them misspelt, tokens that  *)
(* fail at every check, and licenses in and out of their time.             *)
EXTENDS ServiceLife

CONSTANTS k1, k2, k3, admins, ops, others

MCRoleMap == [g \in {admins, ops} |-> IF g = admins THEN "admin" ELSE "operator"]

SoundToken ==
    [form |-> "sound", alg |-> TRUE, signature |-> TRUE, exp |-> 0, nbf |-> 0,
     issuer |-> TRUE, audience |-> TRUE, roles |-> <<others, admins, "viewer">>]

Tokens ==
    {SoundToken,
     [SoundToken EXCEPT !.exp = 2, !.roles = <<"analyst", admins>>],
     [SoundToken EXCEPT !.nbf = 3, !.roles = <<>>],
     [SoundToken EXCEPT !.roles = <<ops, admins>>],
     [SoundToken EXCEPT !.form = "parts"],
     [SoundToken EXCEPT !.form = "encoding"],
     [SoundToken EXCEPT !.form = "claims"],
     [SoundToken EXCEPT !.form = "roles"],
     [SoundToken EXCEPT !.signature = FALSE],
     [SoundToken EXCEPT !.audience = FALSE]}

MCHeader ==
    {[apiKey |-> s, bearer |-> NoCredential] : s \in {NoCredential, k1, k2, k3}}
    \cup {[apiKey |-> k3, bearer |-> t] : t \in Tokens}

Pair(s, r) == [secret |-> s, role |-> r]
AllRoles == <<Pair(k1, "viewer"), Pair(k2, "anlyst"), Pair(k3, "analyst"), Pair(k3, "admin")>>

NoLimits == [absent |-> TRUE]
Key(genuine, exp) ==
    [genuine |-> genuine, tier |-> "team", seats |-> [value |-> 3], scans |-> NoLimits,
     expires_at |-> exp]

Env(auth, sso, keys, key) ==
    [auth |-> auth, sso |-> sso, keys |-> keys, key |-> key, dataDir |-> TRUE]

MCEnvironment ==
    {Env(TRUE, FALSE, AllRoles, NoKey),
     Env(TRUE, TRUE, AllRoles, Key(TRUE, 2)),
     Env(FALSE, FALSE, <<>>, Key(TRUE, 3)),
     Env(TRUE, FALSE, <<>>, NoKey),
     Env(TRUE, TRUE, <<>>, Key(FALSE, 4)),
     [Env(FALSE, FALSE, <<>>, NoKey) EXCEPT !.dataDir = FALSE]}
=============================================================================
