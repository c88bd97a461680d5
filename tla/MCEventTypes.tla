----------------------------- MODULE MCEventTypes -----------------------------
(* Small instances of event types and their upserts. *)
EXTENDS EventTypes, TLC

(* Room for the two that are required, and for one subscription. *)
Limits == [kind \in Kind |-> IF kind = "event_type" THEN 2 ELSE 1]
NoLimits == [kind \in Kind |-> NoLimit]
=============================================================================
