------------------------------- MODULE Pipeline -------------------------------
(***************************************************************************)
(* Hook0's delivery pipeline: the API writes events and subscriptions, the *)
(* dispatch trigger turns events into request attempts, the output workers *)
(* carry them out.  The components meet only in the tables.                *)
(***************************************************************************)
EXTENDS OutputWorker, EventApi

vars == <<tables, workers, api>>

Init == TablesInit /\ WorkersInit /\ ApiInit

Next ==
  \/ WorkersNext /\ UNCHANGED api
  \/ ApiNext /\ UNCHANGED workers

Spec == Init /\ [][Next]_vars

(* The workers keep working; nothing makes a client call the API. *)
FairSpec == Spec /\ WorkersFairness

-----------------------------------------------------------------------------
TypeOK == TablesTypeOK /\ WorkersTypeOK /\ ApiTypeOK

(* An attempt is in the hands of at most one unit, whatever process it is   *)
(* in, and stays pending as long as that unit's transaction is open.        *)
(* (FOR UPDATE OF ra SKIP LOCKED, output-worker/src/main.rs)                *)
ExclusivePick ==
  /\ \A u, v \in Unit : u # v /\ job[u] # NoRow => job[u] # job[v]
  /\ \A u \in Unit : pc[u] # "idle" => job[u] \in Pending

(* The attempts of a chain carry the retry counts 0, 1, 2, ... without a    *)
(* gap and without a repetition, and all but the last have failed.  Hence   *)
(* at most one attempt of a chain is open, and none follows a success.      *)
ChainsAreLinear ==
  \A a \in Stored :
    LET row == request_attempt[a]
    IN /\ row.retry_count > 0 =>
            \E b \in Failed : /\ SameChain(request_attempt[b], row)
                              /\ request_attempt[b].retry_count = row.retry_count - 1
       /\ \A b \in Stored \ {a} :
            SameChain(request_attempt[b], row) =>
              /\ request_attempt[b].retry_count # row.retry_count
              /\ request_attempt[b].retry_count < row.retry_count => b \in Failed

(* As long as its subscription has always been active, a chain never breaks *)
(* off before its retries are used up, whatever crashes and rolls back: the *)
(* failure and the retry are committed together.                            *)
ChainsDoNotBreakOff ==
  \A a \in Failed :
    LET row == request_attempt[a]
    IN row.retry_count < MaxRetries /\ row.subscription \notin interrupted =>
         \E b \in Stored : /\ SameChain(request_attempt[b], row)
                           /\ request_attempt[b].retry_count = row.retry_count + 1

(* An attempt is only recorded as succeeded when the target said so. *)
SuccessWasAnswered == \A a \in Succeeded : answers[a] > 0

(* The successful answers that the attempts ids got, numbered.              *)
AnswersOf(ids) == UNION {{a} \X (1 .. answers[a]) : a \in ids}

(* Delivery is at least once; a delivery is answered successfully more      *)
(* often only as many times as transactions were lost after a call.         *)
DuplicatesAreAccountedFor ==
  \A a \in Stored :
    LET chain == {b \in Stored : SameChain(request_attempt[a], request_attempt[b])}
    IN Cardinality(AnswersOf(chain)) <= 1 + aborts

(* A private worker only ever handles the attempts of organizations that    *)
(* may use it, however subscriptions are edited while attempts wait.        *)
PrivateWorkersAreReserved ==
  \A u \in Unit :
    pc[u] # "idle" /\ WorkerOf[ProcessOf[u]] \in PrivateWorker =>
      WorkerOf[ProcessOf[u]]
        \in AllowedWorkers[ApplicationOf[request_attempt[job[u]].subscription]]

(* What is settled is never reopened, changed or settled again: replays,    *)
(* edits and deletions leave the history of attempts alone.                 *)
SettledIsFinal ==
  [][\A a \in Succeeded \cup Failed : request_attempt'[a] = request_attempt[a]]_vars

(* The pipeline delivers as the abstract specification says. *)
Chains(ids) == {ChainOf(request_attempt[a]) : a \in ids}

Promise == INSTANCE Delivery WITH
  dispatched <- event,
  opened <- Chains(Stored),
  delivered <- Chains(Succeeded),
  abandoned <- Chains(Failed) \ Chains(Pending \cup Succeeded),
  failures <- {<<ChainOf(request_attempt[a]), request_attempt[a].retry_count>> : a \in Failed}

ImplementsDelivery == Promise!Spec

(* Once clients leave the subscriptions alone, every attempt that some unit *)
(* serves is settled in the end, even if its subscription is disabled or    *)
(* deleted, unless its application is deleted.                              *)
IsServed(a) == \E u \in Unit : Serves(u, request_attempt[a].subscription)

EditsEnd == <>[][subscription' = subscription]_vars

AttemptsSettle ==
  EditsEnd =>
    \A a \in RequestAttempt :
      a \in Pending ~>
        \/ a \in Succeeded \cup Failed
        \/ a \in Pending /\ ~IsServed(a)
        \/ a \in Pending /\
           ApplicationOf[request_attempt[a].subscription] \in deleted_applications

(* "Marks a subscription as deleted, preventing any further event           *)
(* notifications from being sent." (api/src/handlers/subscriptions.rs:975)  *)
NoDeliveryStartsAfterDeletion ==
  [][\A u \in Unit :
       pc[u] = "idle" /\ pc'[u] = "picked" =>
         ~subscription[request_attempt[job'[u]].subscription].deleted]_vars

(* Unit 0 waits "for a short duration, so that new work gets picked up      *)
(* fast" (output-worker/src/main.rs:493): an attempt that is due is picked  *)
(* in the end, even if another target's answers cannot be stored.           *)
NewWorkGetsPickedUp ==
  \A a \in RequestAttempt :
    a \in Pending ~>
      \/ a \in Locked \cup Succeeded \cup Failed
      \/ a \in Pending /\ ~IsServed(a)
      \/ a \in Pending /\
         ApplicationOf[request_attempt[a].subscription] \in deleted_applications
=============================================================================
