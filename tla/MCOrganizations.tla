---------------------------- MODULE MCOrganizations ----------------------------
(* Small instances of users and organizations. *)
EXTENDS Organizations, TLC

CONSTANTS u1, u2, free, paid, x1, x2, x3

(* The paid organization's plan allows no application. *)
Owners == [a \in Application |-> IF a = x3 THEN paid ELSE free]
Plans == [o \in Organization |-> IF o = paid THEN 0 ELSE NoLimit]

(* Of requests that are under way together, at most one invites somebody, and *)
(* only one of them goes on while the clean-up is open; in the organization   *)
(* that pays, only its quota is tried, and only u2 is ever a member of it.    *)
Related ==
  /\ \A r \in requests : r.organization \in Priced => r.op = "create"
  /\ \A r, s \in requests : r = s \/ {r.op, s.op} # {"invite"}
  /\ cleaning # "idle" => Cardinality(requests) <= 1
  /\ <<u1, paid>> \notin user__organization
=============================================================================
