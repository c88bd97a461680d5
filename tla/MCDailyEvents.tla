---------------------------- MODULE MCDailyEvents ----------------------------
(* Small instances of the daily counts. *)
EXTENDS DailyEvents, TLC

CONSTANTS app1, org, c1, c2

(* Applications of one organization, without limits of their own or of a plan. *)
OneOrganization == [a \in Application |-> org]
NoLimits == [a \in Application |-> NoLimit]

Symmetry == Permutations(Client)
=============================================================================
