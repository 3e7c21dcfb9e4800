----------------------------- MODULE Licensing -----------------------------
(***************************************************************************)
(* licensing.py and config.py's verify_license: what a LICENSE_KEY grants, *)
(* and when it has expired.  Start-up goes by the hour, the license object *)
(* that the service keeps by the day, both in UTC.  That a signature is    *)
(* right is a fact about the key; a key that cannot be decoded is not      *)
(* genuine.                                                                *)
(***************************************************************************)
EXTENDS Naturals

CONSTANTS
    DayLength,       \* steps of the clock in a day
    NoKey            \* LICENSE_KEY is not set

ASSUME DayAssumption == DayLength \in Nat \ {0}

(* 0 is no limit. *)
PLANS ==
    [community  |-> [seats |-> 1, scans |-> 100],
     team       |-> [seats |-> 10, scans |-> 5000],
     enterprise |-> [seats |-> 0, scans |-> 0]]

(* expires_at is 0 in a key without it; seats and scans may be absent.     *)
Absent == [absent |-> TRUE]

Day(time) == time \div DayLength

(* Seeded fault: a key is checked for its signature only.                  *)
VerifySignature(key, now) == key # NoKey => key.genuine

(* verify_license's first result; an absent expiry counts as the year 1970 *)
(* although a License without one is perpetual.                            *)
VerifyLicense(key, now) == key # NoKey => key.genuine /\ now <= key.expires_at

(* load_active_license, called only when validate_startup accepted the key. *)
LoadActiveLicense(key) ==
    IF key = NoKey THEN [plan |-> "community", seats |-> 1, scans |-> 100, expires |-> 0]
    ELSE LET defaults == IF key.tier \in DOMAIN PLANS THEN PLANS[key.tier] ELSE PLANS.community
         IN  [plan    |-> key.tier,
              seats   |-> IF key.seats = Absent THEN defaults.seats ELSE key.seats.value,
              scans   |-> IF key.scans = Absent THEN defaults.scans ELSE key.scans.value,
              expires |-> key.expires_at]

(* is_expired, from the date alone; expires 0 stands for perpetual. *)
IsExpired(license, now) == license.expires # 0 /\ Day(license.expires) < Day(now)
=============================================================================
