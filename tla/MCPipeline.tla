------------------------------ MODULE MCPipeline ------------------------------
(* Small instances of the delivery pipeline. *)
EXTENDS Pipeline, TLC

CONSTANTS
  app1, app2, s1, s2, e1, e2, u1, u2, u3, p1, p2, p3, kind,
  private, public, other    \* three workers

(* One application that uses no particular worker. *)
OneApplication == [x \in Subscription \cup Event |-> app1]
OneKind == [e \in Event |-> kind]
NoWorkers == [a \in Application |-> {}]
OneProcess == [u \in Unit |-> p1]
AnonymousWorkers == [p \in Process |-> NoRow]

(* Its organization owns a private worker, which it uses by default; other  *)
(* belongs to somebody else.                                                *)
PrivateByDefault == [a \in Application |-> {private}]
AllButOther == [a \in Application |-> {private, public}]
ThreeProcesses == [u \in Unit |-> IF u = u1 THEN p1 ELSE IF u = u2 THEN p2 ELSE p3]
NamedWorkers ==
  [p \in Process |-> IF p = p1 THEN private ELSE IF p = p2 THEN public ELSE other]

Subscribed(enabled, names) == [is_enabled |-> enabled, accepts |-> {kind}, workers |-> names]
Enabled == {Subscribed(TRUE, {})}
EnabledOrNot == {Subscribed(on, {}) : on \in BOOLEAN}
Dedicated ==
  {Subscribed(TRUE, names) : names \in {{}, {public}, {private, public}, {other}}}
    \cup {Subscribed(FALSE, {})}

Symmetry == Permutations(RequestAttempt) \cup Permutations(Unit)
SymmetricAttempts == Permutations(RequestAttempt)
=============================================================================
