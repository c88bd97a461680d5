-------------------------------- MODULE Quotas --------------------------------
(***************************************************************************)
(* The limits that apply to an application: Quotas of the API, and the     *)
(* retention that the clean-up of old events computes for itself in SQL.   *)
(***************************************************************************)
EXTENDS Integers

CONSTANTS
  QuotaEnforcement,    \* enable_quota_enforcement
  I32Max               \* 2^31 - 1 in the code: QuotaValue is an i32

(* A limit that is not set: NULL in PostgreSQL. *)
NoLimit == -1

ASSUME QuotasAssumption ==
  /\ QuotaEnforcement \in BOOLEAN
  /\ I32Max \in Nat

QuotaValue == 0 .. I32Max

(* Release builds wrap. *)
I32(n) == ((n + I32Max + 1) % (2 * (I32Max + 1))) - I32Max - 1

(* COALESCE *)
Coalesce(limit, default) == IF limit # NoLimit THEN limit ELSE default

(* LEAST, which skips NULLs *)
Least(m, n) ==
  IF m = NoLimit THEN n
  ELSE IF n = NoLimit \/ m < n THEN m ELSE n

(* The application's own limit, else its plan's, else the instance's; no    *)
(* limit at all if quotas are not enforced.                                 *)
get_limit_for_application(application, plan, global) ==
  IF QuotaEnforcement
  THEN Coalesce(application, Coalesce(plan, global))
  ELSE I32Max

(* The limit of an organization: its plan's, else the instance's. *)
get_limit_for_organization(plan, global) ==
  IF QuotaEnforcement THEN Coalesce(plan, global) ELSE I32Max

(* The interval of delete_old_events; and without the grace period. *)
retention_without_grace(application, plan, global, grace) ==
  Coalesce(Least(application, plan), global)
events_retention_limit(application, plan, global, grace) ==
  Coalesce(Least(application, plan), global) + grace
=============================================================================
