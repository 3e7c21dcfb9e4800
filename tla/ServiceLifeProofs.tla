------------------------- MODULE ServiceLifeProofs -------------------------
(***************************************************************************)
(* What a credential, a license and an answer are good for, for any        *)
(* clock, keys, tokens, role map and settings of the model client.         *)
(***************************************************************************)
EXTENDS ServiceLife, WellFoundedInduction, TLAPS

-----------------------------------------------------------------------------
(* Authentication: the role that is granted is one of the credential's.    *)

(* A non-empty set of natural numbers has a least element, a bounded one a *)
(* greatest.                                                               *)
LEMMA LeastElement ==
    ASSUME NEW S, S \subseteq Nat, S # {}
    PROVE  \E k \in S : \A l \in S : k <= l
<1> DEFINE R == OpToRel(<, Nat)
<1>1. PICK k \in S : \A l \in S : ~(<<l, k>> \in R)
  <2>1. IsWellFoundedOn(R, Nat)
    BY NatLessThanWellFounded
  <2> HIDE DEF R
  <2> QED BY <2>1, WFMin
<1>2. \A l \in S : k <= l
  <2>1. ASSUME NEW l \in S, ~(k <= l) PROVE FALSE
    <3>1. <<l, k>> \in R
      BY <2>1 DEF OpToRel
    <3> QED BY <1>1, <3>1
  <2> QED BY <2>1
<1> QED BY <1>2

LEMMA GreatestElement ==
    ASSUME NEW n \in Nat, NEW S, S \subseteq 0..n, S # {}
    PROVE  \E k \in S : \A l \in S : l <= k
<1> DEFINE T == {n - k : k \in S}
<1>1. T \subseteq Nat /\ T # {}
  <2>1. PICK k \in S : TRUE
    OBVIOUS
  <2>2. n - k \in T
    BY <2>1
  <2>3. \A l \in S : n - l \in Nat
    OBVIOUS
  <2> QED BY <2>2, <2>3
<1>2. PICK m \in T : \A l \in T : m <= l
  <2> HIDE DEF T
  <2> QED BY <1>1, LeastElement
<1>3. PICK k \in S : m = n - k
  BY <1>2
<1>4. ASSUME NEW l \in S PROVE l <= k
  <2>1. n - l \in T
    OBVIOUS
  <2>2. n - k <= n - l
    BY <1>2, <1>3, <2>1
  <2> QED BY <2>2
<1> QED BY <1>4

(* A claimed role is viewer or comes from one of the claims.               *)
LEMMA ClaimedRoleIsClaimed ==
    ASSUME NEW roles, NEW S, roles \in Seq(S)
    PROVE  ClaimedRole(roles) \in {"viewer"} \cup {IF r \in DOMAIN RoleMap THEN RoleMap[r] ELSE r :
                                                      r \in ToSet(roles)}
<1> DEFINE known == {k \in DOMAIN roles : roles[k] \in DOMAIN RoleMap \cup ToSet(ROLES)}
           first == CHOOSE k \in known : \A l \in known : k <= l
<1>1. CASE known = {}
  <2>1. ClaimedRole(roles) = "viewer"
    BY <1>1 DEF ClaimedRole
  <2> QED BY <2>1
<1>2. CASE known # {}
  <2>1. known \subseteq Nat
    OBVIOUS
  <2>2. first \in known
    <3> HIDE DEF known
    <3>1. \E k \in known : \A l \in known : k <= l
      BY <1>2, <2>1, LeastElement
    <3> QED BY <3>1
  <2>3. roles[first] \in ToSet(roles)
    <3>1. first \in DOMAIN roles
      BY <2>2
    <3> QED BY <3>1 DEF ToSet
  <2>4. ClaimedRole(roles) = IF roles[first] \in DOMAIN RoleMap THEN RoleMap[roles[first]] ELSE roles[first]
    BY <1>2 DEF ClaimedRole
  <2> QED BY <2>3, <2>4
<1> QED BY <1>1, <1>2

(* The last pair of a secret decides, and is one of the pairs.             *)
LEMMA ParsedKeyIsConfigured ==
    ASSUME NEW pairs \in Seq([secret : Secret, role : STRING]),
           NEW s \in DOMAIN ParseApiKeys(pairs)
    PROVE  \E pair \in ToSet(pairs) :
              /\ pair.secret = s
              /\ ParseApiKeys(pairs)[s] = IF pair.role \in ToSet(ROLES) THEN pair.role ELSE DefaultRole
<1> DEFINE IsLast(k) == pairs[k].secret = s /\ \A l \in DOMAIN pairs : pairs[l].secret = s => l <= k
           last == CHOOSE k \in DOMAIN pairs : IsLast(k)
           S == {k \in DOMAIN pairs : pairs[k].secret = s}
<1>1. s \in {pairs[k].secret : k \in DOMAIN pairs}
  BY DEF ParseApiKeys
<1>2. S # {} /\ S \subseteq 0..Len(pairs) /\ Len(pairs) \in Nat
  BY <1>1
<1>3. PICK k \in S : \A l \in S : l <= k
  <2> HIDE DEF S
  <2> QED BY <1>2, GreatestElement
<1>4. last \in DOMAIN pairs /\ IsLast(last)
  <2>1. k \in DOMAIN pairs /\ IsLast(k)
    BY <1>3
  <2> HIDE DEF IsLast
  <2> QED BY <2>1
<1>5. ParseApiKeys(pairs)[s] = IF pairs[last].role \in ToSet(ROLES) THEN pairs[last].role ELSE DefaultRole
  BY <1>1 DEF ParseApiKeys
<1>6. pairs[last] \in ToSet(pairs)
  BY <1>4 DEF ToSet
<1> QED BY <1>4, <1>5, <1>6

(* require_role lets nobody through who has not the role.                  *)
LEMMA PassedIsAuthorised ==
    ASSUME NEW header \in Header, NEW env \in Environment, NEW minimum, NEW time \in Nat,
           RequireRole(minimum, env, header.apiKey, header.bearer, time) = 200
    PROVE  \E role \in RolesOf(header, env, time) : HasRole(role, minimum)
<1> DEFINE principal == ResolvePrincipal(env, header.apiKey, header.bearer, time)
<1>1. principal.status = 200 /\ HasRole(principal.role, minimum)
  BY DEF RequireRole
<1>2. principal.role \in RolesOf(header, env, time)
  <2>1. CASE ~env.auth
    BY <2>1 DEF ResolvePrincipal, RolesOf, Granted
  <2>2. CASE env.auth /\ env.sso /\ header.bearer # NoCredential
    <3> DEFINE token == header.bearer
    <3>1. token \in Token
      BY <2>2, HeaderAssumption
    <3>2. principal = VerifyJwt(token, time)
      BY <2>2 DEF ResolvePrincipal
    <3> HIDE DEF token
    <3>3. Genuine(token, time) /\ principal = Granted(ClaimedRole(token.roles))
      BY <1>1, <3>1, <3>2 DEF VerifyJwt, VerifyJwtSignature, Expired, Refused, Genuine, Token
    <3>4. principal.role \in {"viewer"} \cup {IF r \in DOMAIN RoleMap THEN RoleMap[r] ELSE r :
                                                r \in ToSet(token.roles)}
      BY <3>1, <3>3, ClaimedRoleIsClaimed DEF Token, Granted
    <3> QED BY <2>2, <3>3, <3>4 DEF RolesOf, token
  <2>3. CASE env.auth /\ ~(env.sso /\ header.bearer # NoCredential)
    <3>1. /\ header.apiKey \in DOMAIN ParseApiKeys(env.keys)
          /\ principal.role = ParseApiKeys(env.keys)[header.apiKey]
      BY <1>1, <2>3 DEF ResolvePrincipal, Granted, Refused
    <3>2. env.keys \in Seq([secret : Secret, role : STRING])
      BY EnvironmentAssumption
    <3>3. PICK pair \in ToSet(env.keys) :
              /\ pair.secret = header.apiKey
              /\ principal.role = IF pair.role \in ToSet(ROLES) THEN pair.role ELSE DefaultRole
      <4> DEFINE s == header.apiKey
                 keys == env.keys
      <4>1. s \in DOMAIN ParseApiKeys(keys) /\ principal.role = ParseApiKeys(keys)[s]
        BY <3>1
      <4>2. keys \in Seq([secret : Secret, role : STRING])
        BY <3>2
      <4> HIDE DEF s, keys, principal
      <4>3. \E pair \in ToSet(keys) :
              /\ pair.secret = s
              /\ ParseApiKeys(keys)[s] = IF pair.role \in ToSet(ROLES) THEN pair.role ELSE DefaultRole
        BY ONLY <4>1, <4>2, ParsedKeyIsConfigured
      <4> QED BY <4>1, <4>3 DEF s, keys
    <3> QED BY <2>3, <3>3 DEF RolesOf
  <2> QED BY <2>1, <2>2, <2>3
<1> QED BY <1>1, <1>2

-----------------------------------------------------------------------------
(* The narrative: what its waits may add up to.                            *)

(* The time for all requests of one attempt, and the pauses before it.     *)
PerAttempt == 2 * (2 * Timeout)
Pauses(a) == (a * (a - 1)) \div 2
Before(a) == (a - 1) * PerAttempt + Backoff * Pauses(a)
Spent(a) == a * PerAttempt + Backoff * Pauses(a)

LEMMA ProductOfNat == \A a, b \in Nat : a * b \in Nat
OBVIOUS

LEMMA PausesAdd ==
    ASSUME NEW a \in Nat
    PROVE  Pauses(a) \in Nat /\ Pauses(a + 1) = Pauses(a) + a
<1> DEFINE x == a * (a - 1)
<1>1. x \in Nat
  <2>1. CASE a = 0
    BY <2>1
  <2>2. CASE a > 0
    <3>1. a - 1 \in Nat
      BY <2>2
    <3> QED BY <3>1, ProductOfNat
  <2> QED BY <2>1, <2>2
<1>2. (a + 1) * ((a + 1) - 1) = x + 2 * a
  OBVIOUS
<1> HIDE DEF x
<1>3. x \div 2 \in Nat /\ (x + 2 * a) \div 2 = (x \div 2) + a
  BY <1>1
<1> QED BY <1>2, <1>3 DEF Pauses, x

LEMMA SpentAdds ==
    ASSUME NEW a \in Nat
    PROVE  /\ Spent(a) \in Nat /\ PerAttempt \in Nat /\ Backoff * a \in Nat
           /\ Before(a + 1) = Spent(a) + Backoff * a
           /\ Before(a + 1) + PerAttempt = Spent(a + 1)
           /\ Before(1) = 0 /\ Spent(0) = 0
<1>1. Pauses(a) \in Nat /\ Pauses(a + 1) = Pauses(a) + a /\ PerAttempt \in Nat /\ Backoff \in Nat
  BY PausesAdd, SettingAssumption DEF PerAttempt
<1>2. a * PerAttempt \in Nat /\ Backoff * Pauses(a) \in Nat /\ Backoff * a \in Nat
  BY <1>1, ProductOfNat
<1>3. Backoff * (Pauses(a) + a) = Backoff * Pauses(a) + Backoff * a
  BY <1>1
<1>4. (a + 1) * PerAttempt = a * PerAttempt + PerAttempt
  BY <1>1
<1>5. Spent(a) \in Nat
  BY <1>2 DEF Spent
<1>6. Before(a + 1) = a * PerAttempt + Backoff * Pauses(a + 1)
  BY <1>1 DEF Before
<1>7. Before(a + 1) = Spent(a) + Backoff * a
  BY <1>1, <1>2, <1>3, <1>6 DEF Spent
<1>8. Before(a + 1) + PerAttempt = Spent(a + 1)
  <2>1. Spent(a + 1) = (a * PerAttempt + PerAttempt) + Backoff * Pauses(a + 1)
    BY <1>4 DEF Spent
  <2>2. Backoff * Pauses(a + 1) \in Nat
    BY <1>1, ProductOfNat
  <2> QED BY <1>1, <1>2, <1>6, <2>1, <2>2
<1>9. Before(1) = 0 /\ Spent(0) = 0
  BY <1>1 DEF Before, Spent, Pauses
<1> QED BY <1>1, <1>2, <1>5, <1>7, <1>8, <1>9

(* What is spent after one attempt is less than after all of them.         *)
LEMMA PausesGrow ==
    ASSUME NEW a \in Nat, NEW b \in Nat, a <= b
    PROVE  Pauses(a) <= Pauses(b)
<1>1. a * (a - 1) <= b * (b - 1)
  <2>1. CASE a = 0
    <3>1. b * (b - 1) >= 0
      <4>1. CASE b = 0
        BY <4>1
      <4>2. CASE b > 0
        <5>1. b - 1 \in Nat
          BY <4>2
        <5> QED BY <5>1, ProductOfNat
      <4> QED BY <4>1, <4>2
    <3> QED BY <2>1, <3>1
  <2>2. CASE a > 0
    <3>1. PICK d \in Nat : b = a + d
      <4>1. b - a \in Nat /\ b = a + (b - a)
        OBVIOUS
      <4> QED BY <4>1
    <3>2. a - 1 \in Nat
      BY <2>2
    <3>3. a * d \in Nat /\ d * (a - 1) \in Nat /\ d * d \in Nat /\ a * (a - 1) \in Nat
      BY <3>1, <3>2, ProductOfNat
    <3>4. b * (b - 1) = a * (a - 1) + a * d + d * (a - 1) + d * d
      BY <3>1
    <3> QED BY <3>3, <3>4
  <2> QED BY <2>1, <2>2
<1> DEFINE x == a * (a - 1)
           y == b * (b - 1)
<1>2. x \in Int /\ y \in Int
  OBVIOUS
<1> HIDE DEF x, y
<1>3. x <= y => x \div 2 <= y \div 2
  BY <1>2
<1> QED BY <1>1, <1>3 DEF Pauses, x, y

LEMMA SpentGrows ==
    ASSUME NEW a \in Nat, NEW b \in Nat, a <= b
    PROVE  Spent(a) <= Spent(b)
<1>1. PICK d \in Nat, e \in Nat : b = a + d /\ Pauses(b) = Pauses(a) + e
  <2>1. Pauses(a) \in Nat /\ Pauses(b) \in Nat /\ Pauses(a) <= Pauses(b)
    BY PausesAdd, PausesGrow
  <2>2. b - a \in Nat /\ b = a + (b - a)
    OBVIOUS
  <2>3. Pauses(b) - Pauses(a) \in Nat /\ Pauses(b) = Pauses(a) + (Pauses(b) - Pauses(a))
    BY <2>1
  <2> QED BY <2>2, <2>3
<1>2. PerAttempt \in Nat /\ Backoff \in Nat /\ Pauses(a) \in Nat
  BY SpentAdds, PausesAdd, SettingAssumption
<1>3. b * PerAttempt = a * PerAttempt + d * PerAttempt
  BY <1>1, <1>2
<1>4. Backoff * Pauses(b) = Backoff * Pauses(a) + Backoff * e
  BY <1>1, <1>2
<1>5. a * PerAttempt \in Nat /\ d * PerAttempt \in Nat /\ Backoff * Pauses(a) \in Nat /\ Backoff * e \in Nat
  BY <1>1, <1>2, ProductOfNat
<1> QED BY <1>3, <1>4, <1>5 DEF Spent

LEMMA DeadlineIsSpent ==
    /\ Narrative!Attempts \in Nat
    /\ Narrative!Deadline = Spent(Narrative!Attempts)
    /\ Narrative!Deadline \in Nat
<1>1. Narrative!Attempts \in Nat
  BY SettingAssumption DEF Narrative!Attempts
<1> DEFINE n == Narrative!Attempts
<1>2. Narrative!Deadline = n * 2 * (2 * Timeout) + Backoff * ((n * (n - 1)) \div 2)
  BY DEF Narrative!Deadline
<1> HIDE DEF n
<1>3. n * 2 * (2 * Timeout) = n * (2 * (2 * Timeout))
  BY <1>1, SettingAssumption DEF n
<1>4. Narrative!Deadline = Spent(n)
  BY <1>2, <1>3 DEF Spent, Pauses, PerAttempt
<1> QED BY <1>1, <1>4, SpentAdds DEF n

(* Where the loop is, and what it has spent so far with Ollama.            *)
NarrativeInv ==
    /\ Narrative!TypeOK
    /\ pc = "analyze" => attempt = 0 /\ elapsed = 0 /\ llmOk = TRUE
    /\ pc \in {"chat", "generate", "create", "failed"} => attempt > 0 /\ llmOk = TRUE
    /\ pc \in {"chat", "generate"} => backend = "ollama"
    /\ pc = "create" => backend = "vllm"
    /\ backend = "ollama" =>
          /\ pc = "chat" => elapsed <= Before(attempt)
          /\ pc = "generate" => elapsed <= Before(attempt) + 2 * Timeout
          /\ pc = "failed" => elapsed <= Spent(attempt)
          /\ elapsed <= Narrative!Deadline
    /\ Narrative!FallbackIsDeterministic

LEMMA AttemptFits ==
    ASSUME NEW a \in 1..Narrative!Attempts
    PROVE  /\ Before(a) \in Nat /\ Before(a) + PerAttempt = Spent(a)
           /\ Spent(a) <= Narrative!Deadline /\ PerAttempt = 4 * Timeout
<1>1. a - 1 \in Nat /\ a \in Nat /\ a <= Narrative!Attempts /\ (a - 1) + 1 = a
  BY DeadlineIsSpent
<1>2. /\ Before(a) = Spent(a - 1) + Backoff * (a - 1) /\ Before(a) + PerAttempt = Spent(a)
      /\ Spent(a - 1) \in Nat /\ Backoff * (a - 1) \in Nat
  <2> DEFINE b == a - 1
  <2>1. b \in Nat /\ b + 1 = a
    BY <1>1
  <2> HIDE DEF b
  <2>2. /\ Before(b + 1) = Spent(b) + Backoff * b /\ Before(b + 1) + PerAttempt = Spent(b + 1)
        /\ Spent(b) \in Nat /\ Backoff * b \in Nat
    BY <2>1, SpentAdds
  <2> QED BY <2>1, <2>2 DEF b
<1>3. Spent(a) <= Narrative!Deadline
  BY <1>1, SpentGrows, DeadlineIsSpent
<1>4. PerAttempt = 4 * Timeout
  BY SettingAssumption DEF PerAttempt
<1> QED BY <1>2, <1>3, <1>4

(* The clock of the loop goes on by at most d.                             *)
LEMMA PassFits ==
    ASSUME NEW d \in Nat, NEW e \in Nat, elapsed \in Nat, Narrative!Pass(d), elapsed <= Narrative!Deadline + 1
    PROVE  /\ elapsed' \in 0..(Narrative!Deadline + 1)
           /\ elapsed + d <= e /\ e <= Narrative!Deadline => elapsed' <= e
BY DeadlineIsSpent DEF Narrative!Pass

LEMMA NarrativeStep == NarrativeInv /\ Narrative!Step => NarrativeInv'
<1> SUFFICES ASSUME NarrativeInv, Narrative!Step PROVE NarrativeInv'
  OBVIOUS
<1>0. /\ Narrative!Attempts \in Nat /\ Narrative!Deadline \in Nat /\ Timeout \in Nat /\ Backoff \in Nat
      /\ attempt \in 0..Narrative!Attempts /\ elapsed \in 0..(Narrative!Deadline + 1)
  BY DeadlineIsSpent, SettingAssumption DEF NarrativeInv, Narrative!TypeOK
<1> USE DEF Narrative!TypeOK, Narrative!Finish, Narrative!FallbackIsDeterministic
<1>1. CASE Narrative!Disabled
  BY <1>0, <1>1 DEF NarrativeInv, Narrative!Disabled
<1>2. CASE Narrative!NoLibrary
  BY <1>0, <1>2 DEF NarrativeInv, Narrative!NoLibrary, Narrative!FallBack
<1>3. CASE Narrative!StartQuery
  <2>1. CASE MaxRetries + 1 >= 1
    <3>1. 1 \in 1..Narrative!Attempts /\ Before(1) = 0
      BY <2>1, SettingAssumption, SpentAdds DEF Narrative!Attempts
    <3> QED BY <1>0, <1>3, <2>1, <3>1 DEF NarrativeInv, Narrative!StartQuery, Narrative!FirstRequest
  <2>2. CASE ~(MaxRetries + 1 >= 1)
    BY <1>0, <1>3, <2>2 DEF NarrativeInv, Narrative!StartQuery, Narrative!FallBack
  <2> QED BY <2>1, <2>2
<1>4. CASE Narrative!Chat
  <2>1. /\ pc = "chat" /\ backend = "ollama" /\ attempt \in 1..Narrative!Attempts /\ llmOk = TRUE
        /\ elapsed <= Before(attempt) /\ UNCHANGED <<backend, attempt>>
    BY <1>0, <1>4 DEF NarrativeInv, Narrative!Chat
  <2>2. PICK d \in 0..(2 * Timeout) : Narrative!Pass(d)
    BY <1>0, <1>4 DEF Narrative!Chat, Narrative!Spend
  <2>3. /\ Before(attempt) \in Nat /\ Before(attempt) + PerAttempt = Spent(attempt)
        /\ Spent(attempt) <= Narrative!Deadline /\ PerAttempt = 4 * Timeout
    BY <2>1, AttemptFits
  <2>4. /\ elapsed' \in 0..(Narrative!Deadline + 1) /\ elapsed' <= Before(attempt) + 2 * Timeout
        /\ elapsed' <= Spent(attempt) /\ elapsed' <= Narrative!Deadline
    <3> DEFINE e == Before(attempt) + 2 * Timeout
    <3>1. /\ e \in Nat /\ e <= Narrative!Deadline /\ elapsed + d <= e /\ e <= Spent(attempt)
          /\ elapsed \in Nat /\ elapsed <= Narrative!Deadline + 1 /\ d \in Nat
      BY <1>0, <2>1, <2>2, <2>3
    <3> HIDE DEF e
    <3>2. elapsed' \in 0..(Narrative!Deadline + 1) /\ elapsed' <= e
      BY <2>2, <3>1, PassFits
    <3> QED BY <1>0, <3>1, <3>2, <2>3 DEF e
  <2>5. \/ pc' = "done" /\ report' \in {"narrative", "blank"} /\ llmOk' = TRUE
        \/ pc' \in {"failed", "generate"} /\ UNCHANGED <<report, llmOk>>
    BY <1>4 DEF Narrative!Chat, Narrative!Answered, Narrative!Raised
  <2> QED BY <1>0, <2>1, <2>4, <2>5 DEF NarrativeInv
<1>5. CASE Narrative!Generate
  <2>1. /\ pc = "generate" /\ backend = "ollama" /\ attempt \in 1..Narrative!Attempts /\ llmOk = TRUE
        /\ elapsed <= Before(attempt) + 2 * Timeout /\ UNCHANGED <<backend, attempt>>
    BY <1>0, <1>5 DEF NarrativeInv, Narrative!Generate
  <2>2. PICK d \in 0..(2 * Timeout) : Narrative!Pass(d)
    BY <1>0, <1>5 DEF Narrative!Generate, Narrative!Spend
  <2>3. /\ Before(attempt) \in Nat /\ Before(attempt) + PerAttempt = Spent(attempt)
        /\ Spent(attempt) <= Narrative!Deadline /\ PerAttempt = 4 * Timeout
    BY <2>1, AttemptFits
  <2>4. /\ elapsed' \in 0..(Narrative!Deadline + 1)
        /\ elapsed' <= Spent(attempt) /\ elapsed' <= Narrative!Deadline
    <3> DEFINE e == Spent(attempt)
    <3>1. /\ e \in Nat /\ e <= Narrative!Deadline /\ elapsed + d <= e
          /\ elapsed \in Nat /\ elapsed <= Narrative!Deadline + 1 /\ d \in Nat
      BY <1>0, <2>1, <2>2, <2>3
    <3> HIDE DEF e
    <3>2. elapsed' \in 0..(Narrative!Deadline + 1) /\ elapsed' <= e
      BY <2>2, <3>1, PassFits
    <3> QED BY <1>0, <3>1, <3>2 DEF e
  <2>5. \/ pc' = "done" /\ report' \in {"narrative", "blank"} /\ llmOk' = TRUE
        \/ pc' = "failed" /\ UNCHANGED <<report, llmOk>>
    BY <1>5 DEF Narrative!Generate, Narrative!Answered, Narrative!Raised
  <2> QED BY <1>0, <2>1, <2>4, <2>5 DEF NarrativeInv
<1>6. CASE Narrative!Create
  <2>1. /\ pc = "create" /\ backend = "vllm" /\ attempt \in 1..Narrative!Attempts /\ llmOk = TRUE
        /\ UNCHANGED <<backend, attempt>>
    BY <1>0, <1>6 DEF NarrativeInv, Narrative!Create
  <2>2. elapsed' \in 0..(Narrative!Deadline + 1)
    <3>1. PICK d \in 0..(Narrative!SdkRequests * 2 * Timeout) : Narrative!Pass(d)
      BY <1>6 DEF Narrative!Create
    <3>2. d \in Nat
      BY <1>0 DEF Narrative!SdkRequests
    <3> QED BY <1>0, <3>1, <3>2, PassFits
  <2>3. \/ pc' = "done" /\ report' \in {"narrative", "blank"} /\ llmOk' = TRUE
        \/ pc' = "failed" /\ UNCHANGED <<report, llmOk>>
    BY <1>6 DEF Narrative!Create, Narrative!Answered, Narrative!Raised
  <2> QED BY <1>0, <2>1, <2>2, <2>3 DEF NarrativeInv
<1>7. CASE Narrative!Retry
  <2>1. /\ pc = "failed" /\ attempt \in 1..Narrative!Attempts /\ llmOk = TRUE /\ attempt <= MaxRetries
        /\ Narrative!Pass(Backoff * attempt) /\ attempt' = attempt + 1
        /\ pc' = (IF backend = "ollama" THEN "chat" ELSE "create") /\ UNCHANGED <<backend, report, llmOk>>
        /\ backend \in {"ollama", "vllm"}
    BY <1>0, <1>7 DEF NarrativeInv, Narrative!Retry, Narrative!CanRetry, Narrative!FirstRequest
  <2>2. attempt + 1 \in 1..Narrative!Attempts
    BY <2>1, <1>0, SettingAssumption DEF Narrative!Attempts
  <2>3. Spent(attempt) \in Nat /\ Backoff * attempt \in Nat /\ Before(attempt + 1) = Spent(attempt) + Backoff * attempt
    BY <2>1, <1>0, SpentAdds
  <2>4. /\ Before(attempt + 1) \in Nat /\ Before(attempt + 1) <= Narrative!Deadline
    <3>1. /\ Before(attempt + 1) \in Nat /\ Before(attempt + 1) + PerAttempt = Spent(attempt + 1)
          /\ Spent(attempt + 1) <= Narrative!Deadline /\ PerAttempt = 4 * Timeout
      BY <2>2, AttemptFits
    <3> QED BY <1>0, <3>1
  <2>5. /\ elapsed' \in 0..(Narrative!Deadline + 1)
        /\ backend = "ollama" => elapsed' <= Before(attempt + 1)
    <3> DEFINE e == Before(attempt + 1)
               d == Backoff * attempt
    <3>1. /\ e \in Nat /\ e <= Narrative!Deadline /\ d \in Nat /\ (backend = "ollama" => elapsed + d <= e)
          /\ elapsed \in Nat /\ elapsed <= Narrative!Deadline + 1 /\ Narrative!Pass(d)
      BY <1>0, <2>1, <2>3, <2>4 DEF NarrativeInv
    <3> HIDE DEF e, d
    <3>2. elapsed' \in 0..(Narrative!Deadline + 1) /\ (elapsed + d <= e => elapsed' <= e)
      BY <3>1, PassFits
    <3> QED BY <3>1, <3>2 DEF e
  <2> QED BY <1>0, <2>1, <2>2, <2>4, <2>5 DEF NarrativeInv
<1>8. CASE Narrative!GiveUp
  <2>1. attempt = Narrative!Attempts
    BY <1>0, <1>8, SettingAssumption DEF NarrativeInv, Narrative!GiveUp, Narrative!CanRetry, Narrative!Attempts
  <2> QED BY <1>0, <1>8, <2>1 DEF NarrativeInv, Narrative!GiveUp, Narrative!FallBack
<1> QED BY <1>1, <1>2, <1>3, <1>4, <1>5, <1>6, <1>7, <1>8 DEF Narrative!Step

-----------------------------------------------------------------------------
(* The process and its license.                                            *)

ProcInv ==
    /\ clock \in 1..MaxClock
    /\ proc # NoProcess =>
          /\ proc.env \in Environment /\ proc.since \in 1..clock
          /\ proc.env.key # NoKey =>
                /\ proc.env.key.genuine /\ proc.since <= proc.env.key.expires_at
                /\ proc.license.expires = proc.env.key.expires_at

(* No step but Start, Kill and Tick touches them. *)
LEMMA OthersKeepProc ==
    ASSUME [Next]_vars, ~Tick, ~Kill, \A env \in Environment : ~Start(env)
    PROVE  UNCHANGED <<clock, proc>>
BY DEF Next, vars, Serve, Authorize, AnswerOpen, AnswerRead, RefuseBody, RefuseAudit, Answer, Analyze, Narrate,
       Record, Deliver, Disconnect, RefuseFile, Send

LEMMA ProcStep == ProcInv /\ [Next]_vars => ProcInv'
<1> SUFFICES ASSUME ProcInv, [Next]_vars PROVE ProcInv'
  OBVIOUS
<1>1. CASE Tick
  BY <1>1, SettingAssumption DEF ProcInv, Tick
<1>2. CASE Kill
  BY <1>2 DEF ProcInv, Kill
<1>3. ASSUME NEW env \in Environment, Start(env) PROVE ProcInv'
  <2>1. /\ clock' = clock /\ proc'.env = env /\ proc'.since = clock
        /\ proc'.license = LoadActiveLicense(env.key)
    BY <1>3 DEF Start
  <2>2. ASSUME env.key # NoKey
        PROVE  env.key.genuine /\ clock <= env.key.expires_at /\ proc'.license.expires = env.key.expires_at
    BY <1>3, <2>1, <2>2 DEF Start, ValidateStartup, VerifyLicense, LoadActiveLicense
  <2> QED BY <2>1, <2>2 DEF ProcInv
<1>4. CASE UNCHANGED <<clock, proc>>
  BY <1>4 DEF ProcInv
<1> QED BY <1>1, <1>2, <1>3, <1>4, OthersKeepProc

(* Days do not run ahead of the clock. *)
LEMMA DaysAreMonotone ==
    ASSUME NEW a \in Nat, NEW b \in Nat, a <= b
    PROVE  Day(a) <= Day(b) /\ Day(a) \in Nat /\ Day(b) \in Nat
BY DayAssumption DEF Day

LEMMA LicenseFromProc == ProcInv => LicenseInForce
<1> SUFFICES ASSUME ProcInv, proc # NoProcess, proc.env.key # NoKey
             PROVE  /\ proc.env.key.genuine /\ proc.since <= proc.env.key.expires_at
                    /\ IsExpired(proc.license, clock) =>
                          ~(proc.env.key.genuine /\ clock <= proc.env.key.expires_at)
                    /\ ~(proc.env.key.genuine /\ clock <= proc.env.key.expires_at) =>
                          IsExpired(proc.license, clock) \/ Day(clock) = Day(proc.env.key.expires_at)
  BY DEF LicenseInForce
<1> DEFINE e == proc.env.key.expires_at
<1>1. /\ proc.env.key.genuine /\ proc.since <= e /\ proc.license.expires = e
      /\ proc.since \in 1..clock /\ clock \in Nat
  BY SettingAssumption DEF ProcInv
<1>2. e \in Nat
  BY EnvironmentAssumption DEF ProcInv
<1>3. e # 0
  BY <1>1, <1>2
<1>4. IsExpired(proc.license, clock) <=> Day(e) < Day(clock)
  BY <1>1, <1>3 DEF IsExpired
<1>5. clock <= e => ~(Day(e) < Day(clock))
  BY <1>1, <1>2, DaysAreMonotone
<1>6. ~(clock <= e) => Day(e) < Day(clock) \/ Day(clock) = Day(e)
  <2>1. ASSUME ~(clock <= e) PROVE Day(e) <= Day(clock) /\ Day(e) \in Nat /\ Day(clock) \in Nat
    BY <1>1, <1>2, <2>1, DaysAreMonotone
  <2> QED BY <2>1
<1> QED BY <1>1, <1>4, <1>5, <1>6

-----------------------------------------------------------------------------
(* The request.                                                            *)

Status == {Broken, NotSent, 200, 400, 401, 402, 403, 404, 422, 500, 503}

CallRecord ==
    [endpoint : Endpoint, header : Header, step : {"arrived", "handle", "narrate", "answered", "told"},
     status : Status, at : Nat, waiting : BOOLEAN, stored : Nat]

(* What an answer says of the scan, and what may be said of a call c. *)
Conclusive(c) ==
    IF c.status = 200 THEN c.stored = IF c.endpoint = "audit" THEN 1 ELSE 0 ELSE c.stored = 0

Consistent(c) ==
    /\ c.step \in {"arrived", "handle", "narrate"} => c.stored = 0
    /\ c.step = "narrate" => c.endpoint = "audit"
    /\ c.step = "answered" => Conclusive(c) /\ c.status \notin {Broken, NotSent}
    /\ c.step = "told" =>
          IF c.status = Broken THEN c.stored \in {0, 1} ELSE Conclusive(c)

CallOK(c) ==
    /\ c \in CallRecord
    /\ c.at <= clock
    /\ c.step # "told" => proc # NoProcess
    /\ Consistent(c)

CallInv == call = NoCall \/ CallOK(call)

LEMMA StatusRange ==
    ASSUME NEW minimum, NEW header, NEW env, NEW time
    PROVE  RequireRole(minimum, env, header.apiKey, header.bearer, time) \in {200, 401, 403, 500}
BY DEF RequireRole, ResolvePrincipal, VerifyJwt, Granted, Refused

(* The call goes on with these fields, the others as they were. *)
Becomes(step, status, at, waiting, stored) ==
    call' = [call EXCEPT !.step = step, !.status = status, !.at = at, !.waiting = waiting,
                         !.stored = stored]

(* The shapes in which the steps of a request change it. *)
LEMMA ChangedFields ==
    ASSUME call \in CallRecord
    PROVE  /\ \A step, status : call' = [call EXCEPT !.step = step, !.status = status] =>
                Becomes(step, status, call.at, call.waiting, call.stored)
           /\ \A step : call' = [call EXCEPT !.step = step] =>
                Becomes(step, call.status, call.at, call.waiting, call.stored)
           /\ \A step, at : call' = [call EXCEPT !.step = step, !.at = at] =>
                Becomes(step, call.status, at, call.waiting, call.stored)
           /\ \A waiting : call' = [call EXCEPT !.waiting = waiting] =>
                Becomes(call.step, call.status, call.at, waiting, call.stored)
           /\ \A step, status, stored :
                call' = [[call EXCEPT !.stored = stored] EXCEPT !.step = step, !.status = status] =>
                Becomes(step, status, call.at, call.waiting, stored)
BY DEF CallRecord, Becomes

LEMMA FieldTypes ==
    ASSUME NEW c \in CallRecord
    PROVE  /\ c.status \in Status /\ c.at \in Nat /\ c.waiting \in BOOLEAN /\ c.stored \in Nat
           /\ c.step \in {"arrived", "handle", "narrate", "answered", "told"}
           /\ c.header \in Header /\ c.endpoint \in Endpoint
BY DEF CallRecord

LEMMA BecomesCall ==
    ASSUME call \in CallRecord, NEW step \in {"arrived", "handle", "narrate", "answered", "told"},
           NEW status \in Status, NEW at \in Nat, NEW waiting \in BOOLEAN, NEW stored \in Nat,
           Becomes(step, status, at, waiting, stored)
    PROVE  /\ call' \in CallRecord /\ call'.step = step /\ call'.status = status /\ call'.at = at
           /\ call'.stored = stored /\ call'.endpoint = call.endpoint
BY DEF Becomes, CallRecord

(* What is known of a call that goes on. *)
LEMMA GoesOn ==
    ASSUME call \in CallRecord, NEW step \in {"arrived", "handle", "narrate", "answered", "told"},
           NEW status \in Status, NEW at \in Nat, NEW waiting \in BOOLEAN, NEW stored \in Nat,
           Becomes(step, status, at, waiting, stored),
           at <= clock', step # "told" => proc' # NoProcess,
           step \in {"arrived", "handle", "narrate"} => stored = 0,
           step = "narrate" => call.endpoint = "audit",
           step = "answered" => status \notin {Broken, NotSent},
           step \in {"answered", "told"} =>
              \/ status = 200 /\ call.endpoint = "audit" /\ stored = 1
              \/ status = 200 /\ call.endpoint # "audit" /\ stored = 0
              \/ status # 200 /\ stored = 0
              \/ step = "told" /\ status = Broken /\ stored \in {0, 1}
    PROVE  CallInv'
<1>1. /\ call' \in CallRecord /\ call'.step = step /\ call'.status = status /\ call'.at = at
      /\ call'.stored = stored /\ call'.endpoint = call.endpoint
  BY BecomesCall
<1>2. Consistent(call')
  BY <1>1 DEF Consistent, Conclusive, Broken, NotSent
<1>3. CallOK(call)'
  BY <1>1, <1>2 DEF CallOK, Consistent, Conclusive, CallRecord, Status, Broken, NotSent
<1> QED BY <1>3 DEF CallInv

(* A request under way, and what is known of it.                           *)
LEMMA UnderWay ==
    ASSUME ProcInv, CallInv, InFlight
    PROVE  /\ call \in CallRecord /\ proc # NoProcess /\ proc.env \in Environment /\ clock \in Nat
           /\ call.at <= clock /\ call.at \in Nat
           /\ call.status \in Status /\ call.waiting \in BOOLEAN /\ call.stored \in Nat
           /\ call.endpoint \in Endpoint /\ call.header \in Header
           /\ Consistent(call) /\ call.step \in {"arrived", "handle", "narrate", "answered"}
<1>1. CallOK(call) /\ call.step # "told"
  BY DEF CallInv, InFlight
<1>2. call \in CallRecord /\ call.at <= clock /\ proc # NoProcess /\ Consistent(call)
  BY <1>1 DEF CallOK
<1>3. proc.env \in Environment /\ clock \in Nat
  BY <1>2, SettingAssumption DEF ProcInv
<1>4. /\ call.status \in Status /\ call.at \in Nat /\ call.waiting \in BOOLEAN /\ call.stored \in Nat
      /\ call.step \in {"arrived", "handle", "narrate", "answered", "told"}
      /\ call.header \in Header /\ call.endpoint \in Endpoint
  BY <1>2, FieldTypes
<1> QED BY <1>1, <1>2, <1>3, <1>4

LEMMA NewCallKeeps ==
    ASSUME clock \in Nat, clock' = clock, NEW endpoint \in Endpoint, NEW header \in Header,
           NEW step, NEW status,
           \/ step = "told" /\ status \in {Broken, NotSent}
           \/ step = "arrived" /\ status = Broken /\ proc' # NoProcess,
           call' = NewCall(endpoint, header, step, status)
    PROVE  CallInv'
<1>1. /\ call' \in CallRecord /\ call'.step = step /\ call'.status = status /\ call'.at = 0
      /\ call'.stored = 0
  BY DEF NewCall, CallRecord, Status
<1>2. CallOK(call)'
  BY <1>1 DEF CallOK, Consistent, Conclusive, Broken, NotSent, CallRecord, Status
<1> QED BY <1>2 DEF CallInv

LEMMA SameCallKeeps ==
    ASSUME ProcInv, CallInv, call' = call, clock' \in Nat, clock <= clock',
           InFlight => proc' # NoProcess
    PROVE  CallInv'
<1>1. CASE call = NoCall
  BY <1>1 DEF CallInv
<1>2. CASE call # NoCall
  <2>0. CallOK(call) /\ call \in CallRecord
    BY <1>2 DEF CallInv, CallOK
  <2>1. CallOK(call) /\ call.at \in Nat /\ clock \in Nat
    BY <2>0, FieldTypes, SettingAssumption DEF ProcInv
  <2>2. CallOK(call)'
    BY <1>2, <2>1 DEF CallOK, InFlight, Consistent, Conclusive, CallRecord, Status, Broken, NotSent
  <2> QED BY <2>2 DEF CallInv
<1> QED BY <1>1, <1>2

LEMMA AnswerKeeps ==
    ASSUME ProcInv, CallInv, NEW endpoint, NEW S \in SUBSET {200, 400, 402, 404, 422, 500, 503},
           Answer(endpoint, S), endpoint = "audit" => 200 \notin S
    PROVE  CallInv'
<1>1. /\ InFlight /\ call.step = "handle" /\ call.endpoint = endpoint /\ UNCHANGED <<clock, proc>>
  BY DEF Answer, At
<1>2. PICK status \in S : call' = [call EXCEPT !.step = "answered", !.status = status]
  BY DEF Answer, Answered
<1>3. Becomes("answered", status, call.at, call.waiting, call.stored)
  <2>1. call \in CallRecord
    BY <1>1, UnderWay
  <2> QED BY <1>2, <2>1 DEF Becomes, CallRecord
<1>4. call.stored = 0
  BY <1>1, UnderWay DEF Consistent
<1>5. status \in Status \ {Broken, NotSent} /\ (endpoint = "audit" => status # 200)
  BY <1>2 DEF Status, Broken, NotSent
<1> QED BY <1>1, <1>3, <1>4, <1>5, UnderWay, GoesOn

LEMMA CallStep == ProcInv /\ CallInv /\ [Next]_vars => CallInv'
<1> SUFFICES ASSUME ProcInv, CallInv, [Next]_vars PROVE CallInv'
  OBVIOUS
<1>0. clock \in Nat
  BY SettingAssumption DEF ProcInv
<1>1. CASE UNCHANGED vars
  BY <1>0, <1>1, SameCallKeeps, UnderWay DEF vars
<1>2. CASE Tick
  BY <1>0, <1>2, SameCallKeeps, UnderWay DEF Tick
<1>3. CASE Kill
  <2>1. CASE ~InFlight
    BY <1>0, <1>3, <2>1, SameCallKeeps DEF Kill
  <2>2. CASE InFlight
    <3>1. Becomes("told", Broken, call.at, call.waiting, call.stored) /\ clock' = clock
      BY <1>3, <2>2, UnderWay, ChangedFields DEF Kill
    <3>2. call.stored \in {0, 1}
      BY <2>2, UnderWay DEF Consistent, Conclusive
    <3>3. Broken \in Status /\ Broken # 200
      BY DEF Status, Broken
    <3> QED BY <2>2, <3>1, <3>2, <3>3, UnderWay, GoesOn
  <2> QED BY <2>1, <2>2
<1>4. ASSUME NEW env \in Environment, Start(env) PROVE CallInv'
  BY <1>0, <1>4, SameCallKeeps, UnderWay DEF Start
<1>5. ASSUME NEW header \in Header, RefuseFile(header) PROVE CallInv'
  <2>1. "audit" \in Endpoint /\ clock' = clock /\ call' = NewCall("audit", header, "told", NotSent)
    BY <1>5 DEF RefuseFile, Endpoint
  <2> QED BY <1>0, <2>1, NewCallKeeps
<1>6. ASSUME NEW header \in Header, NEW endpoint \in Endpoint, Send(endpoint, header) PROVE CallInv'
  <2>1. clock' = clock /\ proc' = proc
    BY <1>6 DEF Send
  <2>2. CASE proc = NoProcess
    <3>1. call' = NewCall(endpoint, header, "told", Broken)
      BY <1>6, <2>2 DEF Send
    <3> QED BY <1>0, <2>1, <3>1, NewCallKeeps
  <2>3. CASE proc # NoProcess
    <3>1. call' = NewCall(endpoint, header, "arrived", Broken)
      BY <1>6, <2>3 DEF Send
    <3> QED BY <1>0, <2>1, <2>3, <3>1, NewCallKeeps
  <2> QED BY <2>2, <2>3
<1>7. CASE Disconnect
  <2>1. InFlight /\ UNCHANGED <<clock, proc>> /\ call' = [call EXCEPT !.waiting = FALSE]
    BY <1>7 DEF Disconnect
  <2> DEFINE left == FALSE
  <2>2. Becomes(call.step, call.status, call.at, left, call.stored)
    BY <2>1, UnderWay, ChangedFields
  <2>3. /\ call.step \in {"arrived", "handle", "narrate"} => call.stored = 0
        /\ call.step = "narrate" => call.endpoint = "audit"
        /\ call.step = "answered" => call.status \notin {Broken, NotSent}
        /\ call.step \in {"answered", "told"} =>
              \/ call.status = 200 /\ call.endpoint = "audit" /\ call.stored = 1
              \/ call.status = 200 /\ call.endpoint # "audit" /\ call.stored = 0
              \/ call.status # 200 /\ call.stored = 0
    BY <2>1, UnderWay DEF Consistent, Conclusive
  <2>4. /\ call \in CallRecord /\ call.status \in Status /\ call.at \in Nat /\ left \in BOOLEAN
        /\ call.stored \in Nat /\ call.step \in {"arrived", "handle", "narrate", "answered", "told"}
        /\ call.at <= clock' /\ proc' # NoProcess
    BY <2>1, UnderWay
  <2> HIDE DEF left
  <2> QED BY <2>2, <2>3, <2>4, GoesOn
<1>8. CASE Authorize
  <2> DEFINE status == IF call.endpoint = "open" THEN 200
                       ELSE RequireRole(MinimumRole[call.endpoint], proc.env,
                                        call.header.apiKey, call.header.bearer, clock)
  <2>1. status \in {200, 401, 403, 500}
    BY StatusRange
  <2>2. /\ InFlight /\ call.step = "arrived" /\ UNCHANGED <<clock, proc>>
        /\ call' = IF status = 200 THEN [call EXCEPT !.step = "handle", !.at = clock]
                   ELSE [call EXCEPT !.step = "answered", !.status = status]
    BY <1>8 DEF Authorize, Answered, At
  <2> HIDE DEF status
  <2>3. call.stored = 0
    BY <2>2, UnderWay DEF Consistent
  <2>4. CASE status = 200
    <3>1. Becomes("handle", call.status, clock, call.waiting, call.stored)
      BY <2>2, <2>4, UnderWay, ChangedFields
    <3> QED BY <1>0, <2>2, <2>3, <3>1, UnderWay, GoesOn
  <2>5. CASE status # 200
    <3>1. Becomes("answered", status, call.at, call.waiting, call.stored)
      BY <2>2, <2>5, UnderWay, ChangedFields
    <3>2. status \in Status \ {Broken, NotSent, 200}
      BY <2>1, <2>5 DEF Status, Broken, NotSent
    <3> QED BY <2>2, <2>3, <3>1, <3>2, UnderWay, GoesOn
  <2> QED BY <2>4, <2>5
<1>9. CASE AnswerOpen
  <2>1. Answer("open", {200, 404, 500, 503})
    BY <1>9 DEF AnswerOpen
  <2> QED BY <2>1, AnswerKeeps
<1>10. CASE AnswerRead
  <2>1. ASSUME Answer("read", {200, 500}) PROVE CallInv'
    BY <2>1, AnswerKeeps
  <2>2. ASSUME Answer("scans", {200, 404, 422, 500}) PROVE CallInv'
    BY <2>2, AnswerKeeps
  <2>3. ASSUME Answer("admin log", {200, 422, 500}) PROVE CallInv'
    <3> DEFINE S == {200, 422, 500}
               endpoint == "admin log"
    <3>1. S \in SUBSET {200, 400, 402, 404, 422, 500, 503} /\ endpoint # "audit"
      OBVIOUS
    <3>2. Answer(endpoint, S)
      BY <2>3
    <3> HIDE DEF S, endpoint
    <3> QED BY <3>1, <3>2, AnswerKeeps
  <2>4. \/ Answer("read", {200, 500}) \/ Answer("scans", {200, 404, 422, 500})
        \/ Answer("admin log", {200, 422, 500})
    BY <1>10 DEF AnswerRead
  <2> QED BY <2>1, <2>2, <2>3, <2>4
<1>11. CASE RefuseAudit
  <2>1. Answer("audit", {400, 402, 422, 500})
    BY <1>11 DEF RefuseAudit
  <2> QED BY <2>1, AnswerKeeps
<1>16. CASE RefuseBody
  <2>1. /\ InFlight /\ call.step = "arrived" /\ UNCHANGED <<clock, proc>>
        /\ call' = [call EXCEPT !.step = "answered", !.status = 422]
    BY <1>16 DEF RefuseBody, At, Answered
  <2>2. Becomes("answered", 422, call.at, call.waiting, call.stored)
    BY <2>1, UnderWay, ChangedFields
  <2>3. call.stored = 0
    BY <2>1, UnderWay DEF Consistent
  <2>4. 422 \in Status \ {Broken, NotSent, 200}
    BY DEF Status, Broken, NotSent
  <2> QED BY <2>1, <2>2, <2>3, <2>4, UnderWay, GoesOn
<1>12. CASE Analyze
  <2>1. /\ InFlight /\ call.step = "handle" /\ call.endpoint = "audit" /\ UNCHANGED <<clock, proc>>
        /\ call' = [call EXCEPT !.step = "narrate"]
    BY <1>12 DEF Analyze, At
  <2>2. Becomes("narrate", call.status, call.at, call.waiting, call.stored)
    BY <2>1, UnderWay, ChangedFields
  <2>3. call.stored = 0
    BY <2>1, UnderWay DEF Consistent
  <2> QED BY <2>1, <2>2, <2>3, UnderWay, GoesOn
<1>13. CASE Narrate
  BY <1>0, <1>13, SameCallKeeps, UnderWay DEF Narrate
<1>14. CASE Record
  <2>1. /\ InFlight /\ call.step = "narrate" /\ UNCHANGED <<clock, proc>>
        /\ \/ call' = [[call EXCEPT !.stored = call.stored + 1] EXCEPT !.step = "answered", !.status = 200]
           \/ call' = [call EXCEPT !.step = "answered", !.status = 500]
    BY <1>14 DEF Record, At, Answered
  <2>2. call.stored = 0 /\ call.endpoint = "audit"
    BY <2>1, UnderWay DEF Consistent
  <2>3. PICK status \in {200, 500}, stored \in {0, 1} :
           /\ Becomes("answered", status, call.at, call.waiting, stored)
           /\ stored = IF status = 200 THEN 1 ELSE 0
    <3>1. call \in CallRecord
      BY <2>1, UnderWay
    <3>2. CASE call' = [[call EXCEPT !.stored = call.stored + 1] EXCEPT !.step = "answered", !.status = 200]
      <4> DEFINE more == call.stored + 1
      <4>1. more = 1
        BY <2>2
      <4>2. call' = [[call EXCEPT !.stored = more] EXCEPT !.step = "answered", !.status = 200]
        BY <3>2
      <4> HIDE DEF more
      <4>3. Becomes("answered", 200, call.at, call.waiting, more)
        BY <3>1, <4>2, ChangedFields
      <4> QED BY <4>1, <4>3
    <3>3. CASE call' = [call EXCEPT !.step = "answered", !.status = 500]
      <4>1. Becomes("answered", 500, call.at, call.waiting, call.stored)
        BY <3>1, <3>3, ChangedFields
      <4> QED BY <2>2, <4>1
    <3> QED BY <2>1, <3>2, <3>3
  <2>4. status \in Status \ {Broken, NotSent}
    BY <2>3 DEF Status, Broken, NotSent
  <2> QED BY <2>1, <2>2, <2>3, <2>4, UnderWay, GoesOn
<1>15. CASE Deliver
  <2> DEFINE status == IF call.waiting THEN call.status ELSE Broken
  <2>1. /\ InFlight /\ call.step = "answered" /\ UNCHANGED <<clock, proc>>
        /\ call' = [call EXCEPT !.step = "told", !.status = status]
    BY <1>15 DEF Deliver, At
  <2>2. Becomes("told", status, call.at, call.waiting, call.stored)
    BY <2>1, UnderWay, ChangedFields
  <2>3. Broken \in Status /\ Broken # 200
    BY DEF Status, Broken
  <2>4. /\ status \in Status /\ status \in {call.status, Broken}
        /\ \/ call.status = 200 /\ call.endpoint = "audit" /\ call.stored = 1
           \/ call.status = 200 /\ call.endpoint # "audit" /\ call.stored = 0
           \/ call.status # 200 /\ call.stored = 0
    BY <2>1, <2>3, UnderWay DEF Consistent, Conclusive
  <2> HIDE DEF status
  <2> QED BY <2>1, <2>2, <2>3, <2>4, UnderWay, GoesOn
<1> QED
  BY <1>1, <1>2, <1>3, <1>4, <1>5, <1>6, <1>7, <1>8, <1>9, <1>10, <1>11, <1>12, <1>13, <1>14, <1>15, <1>16
  DEF Next, Serve

LEMMA OutcomesFromCall == CallInv => OutcomesMatchScans
BY DEF CallInv, CallOK, Consistent, OutcomesMatchScans, Conclusive, Broken

(* Only Authorize gives a call its time, and only Start and Kill change    *)
(* the environment, when no call is under way or at its end.               *)
LEMMA CallIdentity ==
    ASSUME ProcInv, CallInv, [Next]_vars, InFlight', ~Authorize
    PROVE  \/ call'.at = 0
           \/ /\ InFlight /\ proc' = proc
              /\ call'.at = call.at /\ call'.header = call.header /\ call'.endpoint = call.endpoint
<1> DEFINE Same == call'.at = call.at /\ call'.header = call.header /\ call'.endpoint = call.endpoint
<1>1. CASE UNCHANGED vars
  BY <1>1 DEF vars, InFlight
<1>2. CASE Tick
  BY <1>2 DEF Tick, InFlight
<1>3. CASE Kill
  <2>1. CASE InFlight
    <3>1. call \in CallRecord
      BY <2>1, UnderWay
    <3>2. call'.step = "told"
      BY <1>3, <2>1, <3>1 DEF Kill, CallRecord
    <3> QED BY <3>2 DEF InFlight
  <2>2. CASE ~InFlight
    BY <1>3, <2>2 DEF Kill, InFlight
  <2> QED BY <2>1, <2>2
<1>4. ASSUME NEW env \in Environment, Start(env)
      PROVE  FALSE
  <2>1. InFlight /\ proc = NoProcess
    BY <1>4 DEF Start, InFlight
  <2> QED BY <2>1, UnderWay
<1>5. ASSUME NEW header \in Header, RefuseFile(header) PROVE call'.at = 0
  BY <1>5 DEF RefuseFile, NewCall
<1>6. ASSUME NEW header \in Header, NEW endpoint \in Endpoint, Send(endpoint, header) PROVE call'.at = 0
  BY <1>6 DEF Send, NewCall
<1>7. CASE Disconnect
  <2>1. InFlight /\ call \in CallRecord
    BY <1>7, UnderWay DEF Disconnect
  <2> QED BY <1>7, <2>1 DEF Disconnect, CallRecord
<1>8. ASSUME NEW endpoint, NEW S, Answer(endpoint, S) PROVE InFlight /\ proc' = proc /\ Same
  <2>1. InFlight /\ proc' = proc
    BY <1>8 DEF Answer, At
  <2>2. call \in CallRecord
    BY <2>1, UnderWay
  <2>3. PICK status \in S : call' = [call EXCEPT !.step = "answered", !.status = status]
    BY <1>8 DEF Answer, Answered
  <2> QED BY <2>1, <2>2, <2>3 DEF CallRecord
<1>9. CASE AnswerOpen
  BY <1>8, <1>9 DEF AnswerOpen
<1>10. CASE AnswerRead
  BY <1>8, <1>10 DEF AnswerRead
<1>11. CASE RefuseAudit
  BY <1>8, <1>11 DEF RefuseAudit
<1>16. CASE RefuseBody
  <2>1. InFlight /\ proc' = proc
    BY <1>16 DEF RefuseBody, At
  <2>2. call \in CallRecord
    BY <2>1, UnderWay
  <2>3. call' = [call EXCEPT !.step = "answered", !.status = 422]
    BY <1>16 DEF RefuseBody, Answered
  <2> QED BY <2>1, <2>2, <2>3 DEF CallRecord
<1>12. CASE Analyze
  <2>1. InFlight /\ call \in CallRecord
    BY <1>12, UnderWay DEF Analyze, At
  <2> QED BY <1>12, <2>1 DEF Analyze, CallRecord
<1>13. CASE Narrate
  BY <1>13 DEF Narrate, At
<1>14. CASE Record
  <2>1. InFlight /\ proc' = proc
    BY <1>14 DEF Record, At
  <2>2. call \in CallRecord
    BY <2>1, UnderWay
  <2>3. \/ call' = [[call EXCEPT !.stored = call.stored + 1] EXCEPT !.step = "answered", !.status = 200]
        \/ call' = [call EXCEPT !.step = "answered", !.status = 500]
    BY <1>14 DEF Record, Answered
  <2> QED BY <2>1, <2>2, <2>3 DEF CallRecord
<1>15. CASE Deliver
  <2>1. InFlight /\ call \in CallRecord
    BY <1>15, UnderWay DEF Deliver, At
  <2>2. call'.step = "told"
    BY <1>15, <2>1 DEF Deliver, CallRecord
  <2> QED BY <2>2 DEF InFlight
<1> QED
  BY <1>1, <1>2, <1>3, <1>4, <1>5, <1>6, <1>7, <1>9, <1>10, <1>11, <1>12, <1>13, <1>14, <1>15, <1>16
  DEF Next, Serve

(* What require_role has seen to for the call in hand. *)
Ranked ==
    (InFlight /\ call.endpoint # "open" /\ call.at > 0) => MayActAs(MinimumRole[call.endpoint])

LEMMA AuthStep == ProcInv /\ CallInv /\ Ranked /\ [Next]_vars => Ranked'
<1> DEFINE Authorised(c, env) ==
        \E role \in RolesOf(c.header, env, c.at) : HasRole(role, MinimumRole[c.endpoint])
<1> SUFFICES ASSUME ProcInv, CallInv, Ranked, [Next]_vars,
                    InFlight', call'.endpoint # "open", call'.at > 0
             PROVE  Authorised(call', proc'.env)
  BY DEF Ranked, MayActAs, RolesOf, HasRole, RoleRank
<1>1. CASE Authorize
  <2> DEFINE minimum == MinimumRole[call.endpoint]
             status == RequireRole(minimum, proc.env, call.header.apiKey, call.header.bearer, clock)
  <2>1. call.step = "arrived" /\ UNCHANGED <<clock, proc>> /\ InFlight
    BY <1>1 DEF Authorize, At
  <2>2. /\ call \in CallRecord /\ proc.env \in Environment /\ call.header \in Header
        /\ clock \in Nat /\ call.at \in Nat
    BY <2>1, UnderWay
  <2>3. call' = IF (IF call.endpoint = "open" THEN 200 ELSE status) = 200
                THEN [call EXCEPT !.step = "handle", !.at = clock]
                ELSE [call EXCEPT !.step = "answered", !.status = IF call.endpoint = "open" THEN 200 ELSE status]
    BY <1>1 DEF Authorize, Answered
  <2> HIDE DEF status
  <2>4. call'.endpoint = call.endpoint /\ call'.header = call.header
    BY <2>2, <2>3 DEF CallRecord
  <2>5. CASE status = 200
    <3>1. call'.at = clock
      BY <2>2, <2>3, <2>5 DEF CallRecord
    <3>2. Authorised([call EXCEPT !.at = clock], proc.env)
      <4>1. \E role \in RolesOf(call.header, proc.env, clock) : HasRole(role, minimum)
        BY <2>2, <2>5, PassedIsAuthorised DEF status
      <4> QED BY <2>2, <4>1 DEF CallRecord
    <3> QED BY <2>1, <2>2, <2>4, <3>1, <3>2 DEF CallRecord
  <2>6. CASE status # 200
    <3>1. call'.at = call.at
      BY <2>2, <2>3, <2>4, <2>6 DEF CallRecord
    <3>2. Authorised(call, proc.env)
      BY <2>1, <2>4, <3>1 DEF Ranked, MayActAs
    <3> QED BY <2>1, <2>4, <3>1, <3>2
  <2> QED BY <2>5, <2>6
<1>2. CASE ~Authorize
  <2>1. /\ InFlight /\ proc' = proc
        /\ call'.at = call.at /\ call'.header = call.header /\ call'.endpoint = call.endpoint
    BY <1>2, CallIdentity
  <2>2. Authorised(call, proc.env)
    BY <2>1 DEF Ranked, MayActAs
  <2> QED BY <2>1, <2>2
<1> QED BY <1>1, <1>2

(* What the code asks for is what is documented.                           *)
LEMMA RankedIsAuthorised == CallInv /\ Ranked => CallsAreAuthorised
<1> SUFFICES ASSUME CallInv, Ranked, InFlight, call.endpoint # "open", call.at > 0
             PROVE  MayActAs(DocumentedRole(call.endpoint))
  BY DEF CallsAreAuthorised
<1>1. call.endpoint \in {"read", "scans", "audit", "admin log"}
  <2>1. call \in CallRecord
    BY DEF CallInv, CallOK, InFlight
  <2> QED BY <2>1 DEF CallRecord, Endpoint
<1>2. DocumentedRole(call.endpoint) = MinimumRole[call.endpoint]
  BY <1>1 DEF DocumentedRole, MinimumRole, Endpoint
<1>3. MayActAs(MinimumRole[call.endpoint])
  BY DEF Ranked
<1> QED BY ONLY <1>2, <1>3

-----------------------------------------------------------------------------
(* The narrative of a request: begun in it and forgotten after it.         *)

NarrativeIsOfCall == pc # "analyze" => InFlight /\ call.step \in {"narrate", "answered"}

LEMMA RecordIsCall == NoCall \notin CallRecord
<1>1. Status \subseteq Nat
  BY DEF Status, Broken, NotSent
<1>2. ASSUME NoCall \in CallRecord PROVE FALSE
  <2> DEFINE Steps == {"arrived", "handle", "narrate", "answered", "told"}
  <2>1. /\ NoCall \in [endpoint : Endpoint, header : Header, step : Steps, status : Status, at : Nat,
                      waiting : BOOLEAN, stored : Nat]
        /\ NoCall \notin [endpoint : Endpoint, header : Header, step : Steps, status : Nat, at : Nat,
                         waiting : BOOLEAN, stored : Nat]
    BY <1>2, NoCallAssumption DEF CallRecord
  <2> HIDE DEF Steps
  <2> QED BY ONLY <1>1, <2>1
<1> QED BY <1>2

LEMMA ForgottenIsFresh == ForgetNarrative => NarrativeInv' /\ pc' = "analyze"
BY DeadlineIsSpent DEF ForgetNarrative, NarrativeInv, Narrative!TypeOK, Narrative!FallbackIsDeterministic

LEMMA SameNarrativeKeeps == NarrativeInv /\ UNCHANGED narrativeVars => NarrativeInv'
BY DEF NarrativeInv, narrativeVars, Narrative!TypeOK, Narrative!FallbackIsDeterministic

LEMMA WiringStep ==
    ProcInv /\ CallInv /\ NarrativeInv /\ NarrativeIsOfCall /\ [Next]_vars =>
        NarrativeInv' /\ NarrativeIsOfCall'
<1> SUFFICES ASSUME ProcInv, CallInv, NarrativeInv, NarrativeIsOfCall, [Next]_vars
             PROVE  NarrativeInv' /\ NarrativeIsOfCall'
  OBVIOUS
<1>1. CASE UNCHANGED vars
  BY <1>1, SameNarrativeKeeps DEF vars, narrativeVars, NarrativeIsOfCall, InFlight
<1>2. CASE Tick
  BY <1>2, SameNarrativeKeeps DEF Tick, narrativeVars, NarrativeIsOfCall, InFlight
<1>3. CASE Kill
  BY <1>3, ForgottenIsFresh DEF Kill, NarrativeIsOfCall
<1>4. ASSUME NEW env \in Environment, Start(env)
      PROVE  NarrativeInv' /\ NarrativeIsOfCall'
  BY <1>4, SameNarrativeKeeps DEF Start, narrativeVars, NarrativeIsOfCall, InFlight
<1>5. ASSUME NEW header \in Header, RefuseFile(header)
      PROVE  NarrativeInv' /\ NarrativeIsOfCall'
  BY <1>5, SameNarrativeKeeps DEF RefuseFile, narrativeVars, NarrativeIsOfCall
<1>6. ASSUME NEW header \in Header, NEW endpoint \in Endpoint, Send(endpoint, header)
      PROVE  NarrativeInv' /\ NarrativeIsOfCall'
  BY <1>6, SameNarrativeKeeps DEF Send, narrativeVars, NarrativeIsOfCall
<1>7. CASE Disconnect
  <2>1. InFlight /\ call \in CallRecord /\ call.step # "told"
    BY <1>7, UnderWay DEF Disconnect, InFlight
  <2>2. call' \in CallRecord /\ call'.step = call.step
    BY <1>7, <2>1 DEF Disconnect, CallRecord
  <2>3. call' # NoCall
    BY <2>2, RecordIsCall
  <2> QED BY <1>7, <2>1, <2>2, <2>3, SameNarrativeKeeps DEF Disconnect, narrativeVars, NarrativeIsOfCall, InFlight
<1>8. ASSUME At("arrived") \/ At("handle"), UNCHANGED narrativeVars
      PROVE  NarrativeInv' /\ NarrativeIsOfCall'
  BY <1>8, SameNarrativeKeeps DEF At, narrativeVars, NarrativeIsOfCall
<1>9. CASE Authorize
  BY <1>8, <1>9 DEF Authorize
<1>10. CASE AnswerOpen \/ AnswerRead \/ RefuseBody \/ RefuseAudit
  BY <1>8, <1>10 DEF AnswerOpen, AnswerRead, RefuseBody, RefuseAudit, Answer
<1>11. CASE Analyze
  <2>1. pc = "analyze"
    BY <1>11 DEF Analyze, At, NarrativeIsOfCall
  <2> QED
    BY <1>11, <2>1, DeadlineIsSpent
    DEF Analyze, NarrativeInv, NarrativeIsOfCall, Narrative!TypeOK, Narrative!FallbackIsDeterministic
<1>12. CASE Narrate
  BY <1>12, NarrativeStep DEF Narrate, NarrativeIsOfCall, At, InFlight
<1>13. CASE Record
  <2>1. InFlight /\ call \in CallRecord
    BY <1>13, UnderWay DEF Record, At
  <2>2. \/ call' = [[call EXCEPT !.stored = call.stored + 1] EXCEPT !.step = "answered", !.status = 200]
        \/ call' = [call EXCEPT !.step = "answered", !.status = 500]
    BY <1>13 DEF Record, Answered
  <2>3. call' \in CallRecord /\ call'.step = "answered"
    <3>1. call.stored + 1 \in Nat
      BY <1>13, <2>1, FieldTypes
    <3> DEFINE more == call.stored + 1
    <3>2. \/ call' = [[call EXCEPT !.stored = more] EXCEPT !.step = "answered", !.status = 200]
          \/ call' = [call EXCEPT !.step = "answered", !.status = 500]
      BY <2>2
    <3>3. /\ 200 \in Status /\ 500 \in Status /\ more \in Nat /\ call \in CallRecord
          /\ call.at \in Nat /\ call.waiting \in BOOLEAN /\ call.stored \in Nat
      BY <2>1, <3>1, FieldTypes DEF Status
    <3> HIDE DEF more
    <3>4. CASE call' = [[call EXCEPT !.stored = more] EXCEPT !.step = "answered", !.status = 200]
      <4>1. Becomes("answered", 200, call.at, call.waiting, more)
        BY <3>3, <3>4, ChangedFields
      <4> QED BY ONLY <3>3, <4>1, BecomesCall
    <3>5. CASE call' = [call EXCEPT !.step = "answered", !.status = 500]
      <4>1. Becomes("answered", 500, call.at, call.waiting, call.stored)
        BY <3>3, <3>5, ChangedFields
      <4> QED BY ONLY <3>3, <4>1, BecomesCall
    <3> QED BY <3>2, <3>4, <3>5
  <2>4. call' # NoCall
    BY <2>3, RecordIsCall
  <2> QED BY <1>13, <2>1, <2>3, <2>4, SameNarrativeKeeps DEF Record, narrativeVars, NarrativeIsOfCall, InFlight
<1>14. CASE Deliver
  BY <1>14, ForgottenIsFresh DEF Deliver, NarrativeIsOfCall
<1> QED
  BY <1>1, <1>2, <1>3, <1>4, <1>5, <1>6, <1>7, <1>9, <1>10, <1>11, <1>12, <1>13, <1>14
  DEF Next, Serve

-----------------------------------------------------------------------------
(* The whole.                                                              *)

IInv == ProcInv /\ CallInv /\ Ranked /\ NarrativeInv /\ NarrativeIsOfCall

LEMMA InitHolds == Init => IInv
<1> SUFFICES ASSUME Init PROVE IInv
  OBVIOUS
<1>1. ProcInv
  BY SettingAssumption DEF Init, ProcInv
<1>2. CallInv /\ Ranked
  BY DEF Init, CallInv, Ranked, InFlight
<1>3. NarrativeInv /\ NarrativeIsOfCall
  BY DeadlineIsSpent
  DEF Init, NoNarrative, NarrativeInv, NarrativeIsOfCall, Narrative!TypeOK, Narrative!FallbackIsDeterministic
<1> QED BY <1>1, <1>2, <1>3 DEF IInv

LEMMA Invariant == Spec => []IInv
<1>1. IInv /\ [Next]_vars => IInv'
  BY ProcStep, CallStep, AuthStep, WiringStep DEF IInv
<1> QED BY InitHolds, <1>1, PTL DEF Spec

(* Every variable keeps its type, whatever the clients, the model server,  *)
(* the clock and a kill do, and for every environment and header.          *)
THEOREM TypeCorrect == Spec => []TypeOK
<1>1. IInv => TypeOK
  <2> SUFFICES ASSUME IInv PROVE TypeOK
    OBVIOUS
  <2>1. call = NoCall \/ (call \in CallRecord /\ call.at <= clock)
    BY DEF IInv, CallInv, CallOK
  <2>2. ASSUME call \in CallRecord, call.at <= clock
        PROVE  /\ call.endpoint \in Endpoint /\ call.header \in Header
               /\ call.step \in {"arrived", "handle", "narrate", "answered", "told"}
               /\ call.status \in {Broken, NotSent, 200, 400, 401, 402, 403, 404, 422, 500, 503}
               /\ call.at \in 0..clock
               /\ call.waiting \in BOOLEAN
    BY <2>2, FieldTypes, SettingAssumption DEF IInv, ProcInv, Status
  <2>3. clock \in 1..MaxClock /\ (proc # NoProcess => proc.env \in Environment /\ proc.since \in 1..clock)
    BY DEF IInv, ProcInv
  <2>4. Narrative!TypeOK
    BY DEF IInv, NarrativeInv
  <2> QED BY <2>1, <2>2, <2>3, <2>4 DEF TypeOK
<1> QED BY Invariant, <1>1, PTL

(* Nothing behind require_role is done for a credential that had not, when *)
(* it was looked at, a role of the rank the manual asks for (viewer for    *)
(* the stored scans): for every set of keys, tokens, claims and every role *)
(* map.                                                                    *)
THEOREM AuthorisedCalls == Spec => []CallsAreAuthorised
<1>1. IInv => CallsAreAuthorised
  BY RankedIsAuthorised DEF IInv
<1> QED BY Invariant, <1>1, PTL

(* The answer to an audit says whether its scan is stored, wherever the    *)
(* process is killed or the connection lost.                               *)
THEOREM AnswersMatchScans == Spec => []OutcomesMatchScans
<1>1. IInv => OutcomesMatchScans
  BY OutcomesFromCall DEF IInv
<1> QED BY Invariant, <1>1, PTL

(* A running process has a license that was in force when it started, and  *)
(* what it reports of it agrees with what a restart would say up to a day. *)
THEOREM LicenseIsInForce == Spec => []LicenseInForce
<1>1. IInv => LicenseInForce
  BY LicenseFromProc DEF IInv
<1> QED BY Invariant, <1>1, PTL

(* The waits of an audit on Ollama stay within the sum of its timeouts and *)
(* pauses, for every number of retries, timeout and backoff.               *)
THEOREM WaitsAreBounded == Spec => []WithinDeadline
<1>1. IInv => WithinDeadline
  BY DEF IInv, NarrativeInv, WithinDeadline, Narrative!WithinDeadline
<1> QED BY Invariant, <1>1, PTL

(* A narrative given up leaves the report the program has built itself.    *)
THEOREM FallbackIsWhole == Spec => []FallbackIsDeterministic
<1>1. IInv => FallbackIsDeterministic
  BY DEF IInv, NarrativeInv, FallbackIsDeterministic
<1> QED BY Invariant, <1>1, PTL
=============================================================================
